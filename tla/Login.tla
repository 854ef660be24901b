------------------------------- MODULE Login -------------------------------
(***************************************************************************)
(* The life of one connection's server processes, from the start of sshd   *)
(* to the programs run for the user: sshd.c (main(), host keys, re-exec,   *)
(* privilege separation), uidswap.c, auth.c (allowed_user(), subprocess()) *)
(* and session.c (do_exec(), do_child(), the environment, the clean-up).   *)
(*                                                                         *)
(* Up to five processes take turns: "sshd" (the daemon's child, later the  *)
(* monitor), "net" (before authentication), "user" (the session of an      *)
(* ordinary user), "child" (the process that becomes the user's program)   *)
(* and "helper" (an AuthorizedKeysCommand).  A process is its identities,  *)
(* groups, root directory, descriptors, host keys and what it remembers of *)
(* a temporary change of identity.  Every system call may fail, up to      *)
(* MaxFaults times in a behaviour.  `executed' collects the code outside sshd   *)
(* that was executed, with what it was given.                              *)
(***************************************************************************)
EXTENDS Integers, Sequences, FiniteSets, TLC

CONSTANTS
    Accounts,   \* name -> [uid, gid, groups]
    Cases,      \* the configurations, users and requests that are tried
    MaxFaults,  \* system calls that fail in one behaviour
    MaxReads    \* files and commands consulted to authenticate the user

VARIABLES
    world,      \* the case at hand
    ps,         \* the processes
    executed,        \* code executed outside sshd
    files,      \* what exists: "pid", "auth_info", a terminal "pty" given away, a "utmp" entry
    faults,     \* failures still to come
    reads       \* consultations still to come

lvars == <<world, ps, executed, files, faults, reads>>

Names == {"sshd", "net", "user", "child", "helper"}
Pw(name) == Accounts[name]
Target == Pw(world.user)
Gone == <<>>

----------------------------------------------------------------------------
(* Identities and the calls that change them                               *)

Same(id) == <<id, id, id>>
euid(p) == p.uid[2]
egid(p) == p.gid[2]
geteuid0(p) == euid(p) = 0

\* platform_privileged_uidswap()
platform_privileged_uidswap(p) == p.uid[1] = 0 \/ p.uid[2] = 0

\* A plausible slip: the groups of the first user are used for every other
use_cached_groups(p, pw) ==
    IF euid(p) # 0 THEN [p EXCEPT !.privileged = FALSE]
    ELSE LET mine == IF p.cache = <<>> THEN [uid |-> pw.uid, groups |-> pw.groups] ELSE p.cache
         IN  [p EXCEPT !.privileged = TRUE, !.temp = TRUE, !.cache = mine,
                       !.saved = [uid |-> euid(p), gid |-> egid(p), groups |-> p.groups],
                       !.groups = mine.groups, !.gid[2] = pw.gid, !.uid[2] = pw.uid]

\* temporarily_use_uid(): nothing unless the effective user is root; the
\* groups of the last user are remembered
temporarily_use_uid(p, pw) ==
    IF euid(p) # 0 THEN [p EXCEPT !.privileged = FALSE, !.saved = [uid |-> euid(p), gid |-> egid(p), groups |-> p.saved.groups]]
    ELSE LET mine == IF p.cache = <<>> \/ p.cache.uid # pw.uid
                     THEN [uid |-> pw.uid, groups |-> pw.groups] ELSE p.cache
         IN  [p EXCEPT !.privileged = TRUE, !.temp = TRUE, !.cache = mine,
                       !.saved = [uid |-> euid(p), gid |-> egid(p), groups |-> p.groups],
                       !.groups = mine.groups, !.gid[2] = pw.gid, !.uid[2] = pw.uid]

\* restore_uid(): nothing unless the change was made
restore_uid(p) ==
    IF ~p.privileged THEN p
    ELSE [p EXCEPT !.uid[2] = p.saved.uid, !.gid[2] = p.saved.gid, !.groups = p.saved.groups, !.temp = FALSE]

\* permanently_set_uid(): all three identities; it verifies that none can be
\* taken back, and its callers die when it cannot change them
permanently_set_uid(p, pw) == [p EXCEPT !.gid = Same(pw.gid), !.uid = Same(pw.uid)]

\* do_setusercontext(), without faults: groups, root directory, identity.
\* The outcome "fatal" when sshd has no privilege to do what is asked.
safely_chroot(p) == [p EXCEPT !.root = "jail", !.chroot = FALSE, !.in_chroot = TRUE]
do_setusercontext(p, pw) ==
    IF platform_privileged_uidswap(p)
    THEN LET g == [p EXCEPT !.gid = Same(pw.gid), !.groups = pw.groups \union (IF world.use_pam THEN {"pamgroup"} ELSE {})]
             c == IF ~g.in_chroot /\ g.chroot THEN safely_chroot(g) ELSE g
         IN  permanently_set_uid(c, pw)
    ELSE p
UserContextFatal(p, pw) ==
    IF platform_privileged_uidswap(p)
    THEN p.temp \/ (~p.in_chroot /\ p.chroot /\ ~world.jail_safe)
    ELSE p.chroot \/ p.uid[1] # pw.uid \/ p.uid[2] # pw.uid

----------------------------------------------------------------------------
(* Who may log in                                                          *)

\* The users or groups a list of patterns speaks of
Listed(list, who) == \E i \in 1..Len(list) : who \in list[i]
\* allowed_user()
allowed_user(who) ==
    LET a == world.account  IN
    /\ ~(~world.use_pam /\ (a.expired \/ a.locked))
    /\ (~world.chroot => a.shell = "ok")
    /\ (world.deny_users # <<>> => ~Listed(world.deny_users, who))
    /\ (world.allow_users # <<>> => Listed(world.allow_users, who))
    /\ (world.deny_groups # <<>> => \A g \in Pw(who).groups : ~Listed(world.deny_groups, g))
    /\ (world.allow_groups # <<>> => \E g \in Pw(who).groups : Listed(world.allow_groups, g))

\* getpwnamallow()
getpwnamallow(who) == world.account.exists /\ allowed_user(who)

----------------------------------------------------------------------------
(* Host keys                                                               *)

\* main(): the keys that can be used, each with its public half; a key with
\* neither a private file nor an agent behind it is dropped
load_host_keys ==
    [i \in 1..Len(world.keyfiles) |->
        LET f == world.keyfiles[i] IN
        IF f.priv THEN [priv |-> "private", pub |-> TRUE, cert |-> FALSE]
        ELSE IF f.pub /\ world.agent THEN [priv |-> "none", pub |-> TRUE, cert |-> FALSE]
        ELSE [priv |-> "none", pub |-> FALSE, cert |-> FALSE]]
have_ssh2_key == \E i \in DOMAIN load_host_keys : load_host_keys[i].pub

\* main(): a certificate goes to the first private key it matches
load_host_certs(host) ==
    [i \in DOMAIN host |->
        [host[i] EXCEPT !.cert = host[i].priv = "private"
                                 /\ \E c \in 1..Len(world.certs) : world.certs[c] = i]]

demote_sensitive_data(p) ==
    [p EXCEPT !.host = [i \in DOMAIN p.host |-> [p.host[i] EXCEPT !.priv = IF @ = "none" THEN @ ELSE "public"]]]
destroy_sensitive_data(p) ==
    [p EXCEPT !.host = [i \in DOMAIN p.host |-> [p.host[i] EXCEPT !.priv = "none", !.cert = FALSE]]]
HoldsKeys(p) == \E i \in DOMAIN p.host : p.host[i].priv = "private"

----------------------------------------------------------------------------
(* The environment of the user's program: variable -> who set it           *)

From(source, names) == [v \in names |-> source]
\* child_set_env(): a later layer replaces the variables of an earlier one
Over(env, layer) == layer @@ env

\* read_environment_file() and the options of the key, filtered by the whitelist
Whitelisted(names) == IF world.whitelist = {} THEN names ELSE names \intersect world.whitelist
\* copy_environment_blacklist()
Blacklisted == {"SSH_AUTH_INFO_0", "SSH_CONNECTION"}

\* the variables sshd itself sets last
ServerVars(p, original) ==
    {"SSH_CLIENT", "SSH_CONNECTION"}
      \union (IF world.tty THEN {"SSH_TTY", "TERM"} ELSE {})
      \union (IF p.info THEN {"SSH_USER_AUTH"} ELSE {})
      \union (IF original THEN {"SSH_ORIGINAL_COMMAND"} ELSE {})

do_setup_env(p, original) ==
    LET basic == Over(From("client", world.client_env),
                      From("server", {"USER", "LOGNAME", "HOME", "PATH", "SHELL"}
                                       \union (IF world.use_pam THEN {} ELSE {"MAIL"})))
        pam   == IF world.use_pam THEN Over(basic, From("pam", world.pam_env \ Blacklisted)) ELSE basic
        key   == IF world.permit_user_env THEN Over(pam, From("key", Whitelisted(world.key_env))) ELSE pam
        file  == IF world.permit_user_env THEN Over(key, From("file", Whitelisted(world.file_env))) ELSE key
        admin == Over(file, From("admin", world.setenv))
    IN  Over(admin, From("server", ServerVars(p, original)))

----------------------------------------------------------------------------
(* What is run                                                             *)

\* do_exec(): the command of the configuration or of the key replaces the
\* one asked for; [command, kind, original, forced]
Forced == IF world.adm_forced # "none" THEN world.adm_forced ELSE world.key_forced
do_exec_choice ==
    LET asked == world.request       \* "shell", "command", "sftp" (internal) or "ext"
        sub   == asked \in {"sftp", "ext"}
    IN  IF Forced = "none"
        THEN [run |-> asked, is_subsystem |-> sub, original |-> FALSE]
        ELSE [run |-> IF Forced = "internal-sftp" THEN (IF sub THEN "sftp" ELSE "refuse") ELSE "forced",
              is_subsystem |-> sub, original |-> asked # "shell"]

\* do_rc_files(): one of the user's file, the system's file and xauth
do_rc_files(choice) ==
    LET sub == choice.is_subsystem \/ choice.run = "refuse" IN
    IF ~sub /\ world.adm_forced = "none" /\ world.permit_user_rc /\ world.user_rc THEN {"rc"}
    ELSE IF world.sys_rc THEN {"sysrc"}
    ELSE IF world.xauth THEN {"xauth"}
    ELSE {}

\* a program started from process p
Run(what, p, env) ==
    [what |-> what, uid |-> p.uid, gid |-> p.gid, groups |-> p.groups, root |-> p.root,
     fds |-> p.fds, keys |-> what = "sftp" /\ HoldsKeys(p), env |-> env]

----------------------------------------------------------------------------
(* Steps                                                                   *)

At(n, label) == ps[n] # Gone /\ ps[n].at = label
Goto(n, p, label) == ps' = [ps EXCEPT ![n] = [p EXCEPT !.at = label]]
Keep == UNCHANGED <<world, files, reads>>
\* a call fails: what happens next is given by the caller
Fault == faults > 0 /\ faults' = faults - 1
Fine == UNCHANGED faults

\* login_write(): only root records anything
record_login(p, fs) == IF geteuid0(p) THEN fs \union {"utmp"} ELSE fs
record_logout(p, fs) == IF geteuid0(p) THEN fs \ {"utmp"} ELSE fs
\* session_pty_cleanup2(): logout, then the terminal is given back by root
session_pty_cleanup2(p, fs) == record_logout(p, IF p.uid[1] = 0 THEN fs \ {"pty"} ELSE fs)

\* do_cleanup() of a process that authenticated a user, never in the child:
\* the file with the methods used is removed under the user's identity; the
\* terminals by the process that gave them
do_cleanup(n) ==
    LET p == ps[n]
        f == IF p.info THEN files \ {"auth_info"} ELSE files
    IN  IF p.is_child THEN files
        ELSE IF n = "sshd" THEN session_pty_cleanup2(p, f) ELSE f
\* fatal(), cleanup_exit(): the monitor takes the network process with it
Died(n) ==
    /\ ps' = [x \in Names |-> IF x = n THEN [ps[x] EXCEPT !.at = "dead", !.info = FALSE]
                              ELSE IF n = "sshd" /\ x = "net" /\ ps[x] # Gone THEN [ps[x] EXCEPT !.at = "dead"]
                              ELSE ps[x]]
    /\ files' = do_cleanup(n)
    /\ UNCHANGED <<world, reads, executed>>
cleanup_exit(n, label) == At(n, label) /\ Fault /\ Died(n)

Proc(who, groups) ==
    [at |-> "start", uid |-> Same(Pw(who).uid), gid |-> Same(Pw(who).gid), groups |-> groups, root |-> "/",
     fds |-> {"stdio"}, host |-> <<>>, chroot |-> FALSE, in_chroot |-> FALSE,
     temp |-> FALSE, privileged |-> FALSE, saved |-> [uid |-> 0, gid |-> 0, groups |-> {}], cache |-> <<>>,
     info |-> FALSE, is_child |-> FALSE, rexeced |-> FALSE, done |-> <<>>]

LoginStart(w) ==
    /\ world = w /\ executed = {} /\ files = {} /\ faults = MaxFaults /\ reads = MaxReads
    /\ ps = [n \in Names |-> IF n = "sshd" THEN Proc(w.runas, w.inherited) ELSE Gone]
LoginInit == \E w \in Cases : LoginStart(w)

\* setgroups(0, NULL), tried by main() at its start and before it serves:
\* a failure is only noted
ClearGroups(p) == IF geteuid0(p) THEN [p EXCEPT !.groups = {}] ELSE p

\* main(): the arguments; inherited groups and descriptors are dropped
Arguments ==
    /\ At("sshd", "start")
    /\ \/ Fine /\ Goto("sshd", ClearGroups(ps["sshd"]), "config")
       \/ Fault /\ Goto("sshd", ps["sshd"], "config")
    /\ Keep /\ UNCHANGED executed

\* main(): options that contradict each other end the program
ConfigSensible ==
    /\ (world.keys_command = "none" \/ world.keys_command_user # "none")
    /\ world.methods_possible
    /\ (world.test < 2 => ~world.testspec)
CheckConfig ==
    /\ At("sshd", "config") /\ Fine
    /\ IF ConfigSensible
       THEN Goto("sshd", [ps["sshd"] EXCEPT !.chroot = world.chroot], "hostkeys")
       ELSE Goto("sshd", ps["sshd"], "exited")
    /\ Keep /\ UNCHANGED executed

\* main(): host keys, then certificates, then the directory of privilege separation
LoadHostkeys ==
    /\ At("sshd", "hostkeys") /\ Fine
    /\ IF have_ssh2_key
       THEN Goto("sshd", [ps["sshd"] EXCEPT !.host = load_host_certs(load_host_keys)], "privsepdir")
       ELSE Goto("sshd", ps["sshd"], "exited")
    /\ Keep /\ UNCHANGED executed
privsep_chroot(p) == p.uid[1] = 0 \/ p.uid[2] = 0
CheckPrivsepDir ==
    /\ At("sshd", "privsepdir")
    /\ LET p    == ps["sshd"]
           next == IF (privsep_chroot(p) /\ ~world.privsep_dir) \/ world.test > 0 THEN "exited"
                   ELSE IF p.rexeced THEN "connection" ELSE "listen"
       IN  \/ Fine /\ Goto("sshd", ClearGroups(p), next)
           \/ Fault /\ Goto("sshd", p, next)
    /\ Keep /\ UNCHANGED executed

\* main(), server_accept_loop(): the daemon writes its pid and hands the
\* connection to a child, which executes sshd again; if that fails it goes on
Listen ==
    /\ At("sshd", "listen")
    /\ \/ /\ Fine
          /\ Goto("sshd", [ps["sshd"] EXCEPT !.fds = {"stdio", "conn"}, !.rexeced = world.rexec],
                  IF world.rexec THEN "start" ELSE "connection")
       \/ /\ world.rexec /\ Fault
          /\ Goto("sshd", [ps["sshd"] EXCEPT !.fds = {"stdio", "conn"}], "connection")
    /\ files' = files \union {"pid"}
    /\ UNCHANGED <<world, reads, executed>>

\* main(): the connection is set up; privsep_preauth() splits the process
Preauth ==
    /\ At("sshd", "connection") /\ Fine
    /\ LET p == [ps["sshd"] EXCEPT !.fds = @ \union {"conn"}] IN
       ps' = [ps EXCEPT !["sshd"] = [p EXCEPT !.at = "monitor", !.fds = @ \union {"mon"}],
                        !["net"]  = [p EXCEPT !.at = "demote", !.fds = @ \union {"mon"}]]
    /\ Keep /\ UNCHANGED executed

\* privsep_preauth_child(): keys, root directory, groups, identity
privsep_preauth_child(p) ==
    LET d == demote_sensitive_data(p) IN
    IF privsep_chroot(p)
    THEN permanently_set_uid([d EXCEPT !.root = "empty", !.groups = {Pw("sshd").gid}], Pw("sshd"))
    ELSE d
NetStart ==
    /\ At("net", "demote") /\ Fine
    /\ Goto("net", privsep_preauth_child(ps["net"]), "auth")
    /\ Keep /\ UNCHANGED executed

\* The monitor consults the user's files under the user's identity...
ReadUserFile ==
    /\ At("sshd", "monitor") /\ At("net", "auth") /\ Fine
    /\ reads > 0 /\ reads' = reads - 1
    /\ getpwnamallow(world.user)
    /\ Goto("sshd", temporarily_use_uid(ps["sshd"], Target), "reading")
    /\ UNCHANGED <<world, files, executed>>
FileRead ==
    /\ At("sshd", "reading") /\ Fine
    /\ Goto("sshd", restore_uid(ps["sshd"]), "monitor")
    /\ Keep /\ UNCHANGED executed
\* ...or runs a command under the identity configured for it: subprocess()
\* looks at the program as that user, comes back and forks
subprocess ==
    /\ At("sshd", "monitor") /\ At("net", "auth")
    /\ reads > 0 /\ reads' = reads - 1
    /\ world.keys_command # "none" /\ getpwnamallow(world.user)
    /\ LET pw == Pw(world.keys_command_user)
           p  == restore_uid(temporarily_use_uid(ps["sshd"], pw))
       IN  \/ /\ Fine /\ world.keys_command = "ok"
              /\ ps' = [ps EXCEPT !["sshd"] = p, !["helper"] = [p EXCEPT !.at = "exec", !.is_child = TRUE]]
           \/ /\ IF world.keys_command = "ok" THEN Fault ELSE Fine
              /\ ps' = [ps EXCEPT !["sshd"] = p]
    /\ UNCHANGED <<world, files, executed>>
helper_exec ==
    /\ At("helper", "exec")
    /\ \/ /\ Fine
          /\ LET p == permanently_set_uid([ps["helper"] EXCEPT !.fds = {"stdio"}], Pw(world.keys_command_user)) IN
             IF platform_privileged_uidswap(ps["helper"]) \/ ps["helper"].uid = Same(Pw(world.keys_command_user).uid)
             THEN executed' = executed \union {Run("helper", p, From("server", {"PATH", "USER", "LOGNAME", "HOME"}))}
             ELSE UNCHANGED executed
       \/ Fault /\ UNCHANGED executed
    /\ ps' = [ps EXCEPT !["helper"] = Gone]
    /\ Keep

\* The user is accepted: the network process hands over its state and exits,
\* the monitor goes on.  A refused one never gets here.
Authenticated ==
    /\ At("net", "auth") /\ At("sshd", "monitor") /\ ps["helper"] = Gone /\ Fine
    /\ getpwnamallow(world.user)
    /\ ps' = [ps EXCEPT !["net"] = Gone, !["sshd"].at = "authenticated"]
    /\ Keep /\ UNCHANGED executed
Refused ==
    /\ At("net", "auth") /\ At("sshd", "monitor") /\ ps["helper"] = Gone /\ Fine
    /\ ps' = [ps EXCEPT !["net"] = Gone, !["sshd"].at = "exited"]
    /\ Keep /\ UNCHANGED executed

\* privsep_postauth(): a session as root stays in this process, any other
\* gets a process of its own that gives up its privileges for good
privsep_postauth ==
    /\ At("sshd", "authenticated") /\ Fine
    /\ IF Target.uid = 0
       THEN Goto("sshd", ps["sshd"], "session")
       ELSE ps' = [ps EXCEPT !["sshd"].at = "postauth",
                             !["user"] = [demote_sensitive_data(ps["sshd"]) EXCEPT !.at = "drop"]]
    /\ Keep /\ UNCHANGED executed
UserDrop ==
    /\ At("user", "drop") /\ Fine
    /\ IF UserContextFatal(ps["user"], Target) THEN Goto("user", ps["user"], "dead")
       ELSE Goto("user", do_setusercontext(ps["user"], Target), "session")
    /\ Keep /\ UNCHANGED executed

Session_s == IF ps["user"] # Gone THEN "user" ELSE "sshd"

\* do_authenticated(), prepare_auth_info_file(): a file of the user's; one
\* that cannot be written is forgotten but not removed
AuthInfo ==
    /\ At(Session_s, "session")
    /\ LET p == ps[Session_s] IN
       \/ /\ Fine
          /\ files' = IF world.expose THEN files \union {"auth_info"} ELSE files
          /\ Goto(Session_s, [restore_uid(temporarily_use_uid(p, Target)) EXCEPT !.info = world.expose], "serve")
       \/ /\ Fault /\ world.expose
          /\ files' = files \union {"left_over"}
          /\ Goto(Session_s, restore_uid(temporarily_use_uid(p, Target)), "serve")
    /\ UNCHANGED <<world, reads, executed>>

\* session_pty_req(), mm_answer_pty(): a terminal; the monitor records the
\* login at once, without a monitor the child does
AllocatePty ==
    /\ At(Session_s, "serve") /\ world.tty /\ "pty" \notin files /\ Fine
    /\ files' = IF Session_s = "user" THEN record_login(ps["sshd"], files \union {"pty"}) ELSE files \union {"pty"}
    /\ UNCHANGED <<world, ps, reads, executed>>

\* do_exec_no_pty(), do_exec_pty(): fork the child
do_exec ==
    /\ At(Session_s, "serve") /\ (world.tty => "pty" \in files)
    /\ LET p == ps[Session_s] IN
       \/ /\ Fine
          /\ ps' = [ps EXCEPT ![Session_s].at = "wait",
                              !["child"] = [p EXCEPT !.at = "child", !.is_child = TRUE,
                                                     !.fds = @ \union {"pipes"}]]
       \/ /\ Fault
          /\ ps' = [ps EXCEPT ![Session_s].at = "wait"]
    /\ Keep /\ UNCHANGED executed

\* do_child(): no host keys, nologin, identity, environment, descriptors
\* -- everything before the first program is started
do_nologin == ~world.use_pam /\ world.nologin /\ Target.uid # 0
child_close_fds(p) == [p EXCEPT !.fds = {"stdio"}]
\* do_login(), before do_child() in the child of a session with a terminal
do_login(p) == IF world.tty /\ Session_s = "sshd" THEN record_login(p, files) ELSE files
do_child ==
    /\ At("child", "child") /\ Fine
    /\ LET p == destroy_sensitive_data(ps["child"])
           u == do_setusercontext(p, Target)
           e == do_setup_env(ps["child"], do_exec_choice.original)
       IN  IF world.force_pwchange
           THEN /\ IF ~UserContextFatal(p, Target) /\ world.tty
                   THEN executed' = executed \union {Run("passwd", child_close_fds(u), <<>>)}
                   ELSE UNCHANGED executed
                /\ Goto("child", p, "exited")
           ELSE IF do_nologin \/ UserContextFatal(p, Target) \/ (world.use_pam /\ ~world.pam_session)
           THEN Goto("child", p, "exited") /\ UNCHANGED executed
           ELSE Goto("child", [child_close_fds(u) EXCEPT !.done = e], "rc") /\ UNCHANGED executed
    /\ files' = do_login(ps["child"])
    /\ UNCHANGED <<world, reads>>
\* do_child(): the rc files, then the internal server or the user's shell
RunRc ==
    /\ At("child", "rc") /\ Fine
    /\ executed' = executed \union {Run(x, ps["child"], ps["child"].done) : x \in do_rc_files(do_exec_choice)}
    /\ Goto("child", ps["child"], "exec")
    /\ Keep
child_exec ==
    /\ At("child", "exec") /\ Fine
    /\ executed' = IF do_exec_choice.run = "refuse" THEN executed
              ELSE executed \union {Run(do_exec_choice.run, ps["child"], ps["child"].done)}
    /\ Goto("child", ps["child"], "exited")
    /\ Keep

\* The child has ended or never came to be: the session is closed,
\* do_cleanup() of the session's process
SessionEnd ==
    /\ At(Session_s, "wait") /\ Fine
    /\ (ps["child"] # Gone => ps["child"].at \in {"exited", "dead"})
    /\ ps' = [ps EXCEPT ![Session_s].at = "exited", ![Session_s].info = FALSE]
    /\ files' = session_pty_cleanup2(ps["sshd"], do_cleanup(Session_s))
    /\ UNCHANGED <<world, reads, executed>>
\* monitor_child_postauth(): the monitor ends with the process it watches
MonitorEnd ==
    /\ At("sshd", "postauth") /\ Fine
    /\ ps["user"] # Gone /\ ps["user"].at \in {"exited", "dead"}
    /\ Goto("sshd", ps["sshd"], "exited")
    /\ files' = do_cleanup("sshd")
    /\ UNCHANGED <<world, reads, executed>>

\* A call that has to succeed fails: fatal()
CallFails ==
    \/ cleanup_exit("sshd", "connection") \/ cleanup_exit("sshd", "reading") \/ cleanup_exit("sshd", "monitor")
    \/ cleanup_exit("sshd", "authenticated") \/ cleanup_exit("sshd", "wait") \/ cleanup_exit("net", "demote")
    \/ cleanup_exit("user", "drop") \/ cleanup_exit("user", "serve") \/ cleanup_exit("user", "wait")
    \/ cleanup_exit("child", "child") \/ cleanup_exit("child", "rc") \/ cleanup_exit("child", "exec")
\* the monitor finds that the network process died
NetDied ==
    /\ At("sshd", "monitor") /\ ps["net"] # Gone /\ ps["net"].at = "dead" /\ Fine
    /\ Goto("sshd", ps["sshd"], "dead")
    /\ Keep /\ UNCHANGED executed

LoginNext ==
    \/ Arguments \/ CheckConfig \/ LoadHostkeys \/ CheckPrivsepDir \/ Listen
    \/ Preauth \/ NetStart \/ ReadUserFile \/ FileRead \/ subprocess \/ helper_exec
    \/ Authenticated \/ Refused \/ privsep_postauth \/ UserDrop \/ AuthInfo \/ AllocatePty
    \/ do_exec \/ do_child \/ RunRc \/ child_exec \/ SessionEnd \/ MonitorEnd
    \/ CallFails \/ NetDied

----------------------------------------------------------------------------
(* Properties                                                              *)

\* Who sets what in the environment of a user's program: sshd's own
\* variables are never another's, the client cannot choose the basic ones,
\* the user's key and file only add what the administrator permits, and the
\* administrator's settings stand.
EnvSound(env) ==
    /\ env["SSH_CLIENT"] = "server" /\ env["SSH_CONNECTION"] = "server"
    /\ \A v \in {"USER", "LOGNAME", "HOME", "PATH", "SHELL"} : v \in DOMAIN env /\ env[v] # "client"
    /\ (\A v \in DOMAIN env : env[v] \in {"key", "file"} =>
          world.permit_user_env /\ (world.whitelist = {} \/ v \in world.whitelist))
    /\ (\A v \in world.setenv : env[v] \in {"admin", "server"})
    /\ ((world.request # "shell" /\ Forced # "none") => env["SSH_ORIGINAL_COMMAND"] = "server")
    /\ (world.tty => env["SSH_TTY"] = "server")

\* A program run for the user runs as that user and as nobody else, in all
\* identities and groups, inside the configured root directory, without the
\* server's descriptors and keys, and only if the user may log in; a forced
\* command leaves no other choice.
UserCodeConfined ==
    \A r \in executed : r.what # "helper" =>
        /\ getpwnamallow(world.user)
        /\ r.uid = Same(Target.uid) /\ r.gid = Same(Target.gid)
        /\ (world.runas = "root" => r.groups \ {"pamgroup"} = Target.groups)
        /\ r.root = (IF world.chroot THEN "jail" ELSE "/")
        /\ r.fds = {"stdio"} /\ ~r.keys
        /\ (r.what # "passwd" => EnvSound(r.env))
        /\ (Forced # "none" => r.what \notin {"shell", "command", "ext"})
        /\ (world.adm_forced # "none" => r.what # "rc")
        /\ (world.nologin /\ ~world.use_pam /\ ~world.force_pwchange => Target.uid = 0)

\* A helper runs as the user configured for it, with none of the server's
\* descriptors, and with no group but that user's own unless clearing the
\* inherited ones failed.
HelperConfined ==
    \A r \in executed : r.what = "helper" =>
        /\ r.uid = Same(Pw(world.keys_command_user).uid) /\ r.gid = Same(Pw(world.keys_command_user).gid)
        /\ r.fds = {"stdio"}
        /\ (world.runas = "root" /\ faults = MaxFaults => r.groups = {})

\* A user's files are read under exactly the user's identity and groups,
\* whoever was consulted before, and the monitor is itself again afterwards;
\* the network process and the session of an ordinary user hold no private
\* host key and no identity but their own.
ProcessesConfined ==
    /\ (At("sshd", "reading") /\ world.runas = "root" =>
          /\ euid(ps["sshd"]) = Target.uid /\ egid(ps["sshd"]) = Target.gid
          /\ ps["sshd"].groups = Target.groups)
    /\ (ps["sshd"].at \in {"monitor", "postauth", "wait"} =>
          ps["sshd"].uid = Same(Pw(world.runas).uid) /\ ~ps["sshd"].temp)
    /\ (At("net", "auth") =>
          /\ ~HoldsKeys(ps["net"])
          /\ (world.runas = "root" => /\ ps["net"].uid = Same(Pw("sshd").uid) /\ ps["net"].gid = Same(Pw("sshd").gid)
                                      /\ ps["net"].groups = {Pw("sshd").gid} /\ ps["net"].root = "empty"))
    /\ (ps["user"] # Gone /\ ps["user"].at \notin {"drop", "dead"} =>
          ~HoldsKeys(ps["user"]) /\ ps["user"].uid = Same(Target.uid) /\ ps["user"].gid = Same(Target.gid))

\* If nothing failed, an accepted user gets the program asked for: giving up
\* the privileges and changing the root directory twice, in the session's
\* process and in its child, stops nobody.  And whatever failed, the processes
\* together leave nothing behind: not the file with the authentication methods
\* (save one that could not be written), no terminal, no entry of a user who
\* is logged in -- except that a child of a session without a monitor may
\* record its login after its parent died.
LoginCompletes ==
    /\ (/\ ps["child"] # Gone /\ ps["child"].at = "exited" /\ faults = MaxFaults
        /\ ~world.force_pwchange /\ ~do_nologin /\ (world.use_pam => world.pam_session)
        /\ (world.chroot => world.jail_safe)) =>
          (do_exec_choice.run = "refuse" \/ \E r \in executed : r.what = do_exec_choice.run)
    /\ ((\A n \in Names : ps[n] = Gone \/ ps[n].at \in {"exited", "dead"}) =>
          "auth_info" \notin files /\ (world.runas = "root" => "pty" \notin files)
          /\ ("utmp" \in files => Target.uid = 0 /\ ps["sshd"].at = "dead"))

LoginSound == UserCodeConfined /\ HelperConfined /\ ProcessesConfined /\ LoginCompletes

LoginSpec == LoginInit /\ [][LoginNext]_lvars
=============================================================================
