------------------------------ MODULE Connect ------------------------------
(***************************************************************************)
(* The client program from its arguments to its end: ssh.c (main(), host   *)
(* names and their canonical form, identity files, the session) and        *)
(* sshconnect.c (addresses, proxies, LocalCommand), with the parts of      *)
(* mux.c that decide whether this process connects at all.                 *)
(*                                                                         *)
(* A host name is the sequence of its labels; a last label "" stands for a *)
(* closing dot.  The resolver, the network, the server's answers and       *)
(* another process that uses the same ControlPath are the environment.     *)
(* The configuration files are what each reading obtains from them (module *)
(* ReadConf); an option keeps the first value it is given.                 *)
(***************************************************************************)
EXTENDS Integers, Sequences, SequencesExt, FiniteSets

CONSTANTS
    Invocations_c,  \* arguments, configuration and surroundings that are tried
    Canonical_c,    \* a name that is an address -> its usual form
    MaxIdentities   \* SSH_MAX_IDENTITY_FILES

VARIABLES
    inv,        \* the invocation
    opt,        \* options and flags of the process
    run,        \* what the process has done
    ctl         \* the file at ControlPath: "none", "stale", "other", "ours"

connectVars == <<inv, opt, run, ctl>>

NoJump == [h |-> <<"none">>, p |-> "0"]
Default_port == "22"

\* initialize_options(), and the flags of main()
Unset ==
    [user |-> "unset", port |-> "unset", family |-> "unset", proxy |-> "unset", jump |-> <<>>,
     hostname |-> <<>>, canon |-> "unset", max_dots |-> -1, fallback |-> "unset", domains |-> <<>>, cnames |-> <<>>,
     request_tty |-> "unset", control_master |-> "unset", control_path |-> "unset", persist |-> "unset",
     fdpass |-> "unset", exit_on_failure |-> "unset", attempts |-> -1, remote_command |-> "unset",
     identities |-> <<>>, certificates |-> <<>>,
     stdin_null |-> FALSE, no_shell |-> FALSE, fork |-> FALSE, mux |-> "none", stdio |-> FALSE, command |-> FALSE]

At_c(stage) == run.at = stage
Become(r, stage) == run' = [r EXCEPT !.at = stage]
\* cleanup_exit(): the control socket this process listens on is removed and
\* the proxy is told to go
Removed(r) == IF r.mine THEN "none" ELSE ctl
ssh_kill_proxy_command(r) == IF r.proxy = "running" THEN [r EXCEPT !.proxy = "signalled"] ELSE r
cleanup_exit_c(r) == Become([ssh_kill_proxy_command(r) EXCEPT !.mine = FALSE], "ended") /\ ctl' = Removed(r)
\* usage(), exit(): nothing is cleaned up
Leave(r) == Become(r, "ended") /\ UNCHANGED ctl

ConnectStart(i) ==
    /\ inv = i /\ opt = Unset /\ ctl = i.ctl
    /\ run = [at |-> "args", i |-> 1, host_arg |-> <<>>, host |-> <<>>, addrs |-> <<>>, tty |-> FALSE, asked |-> <<>>,
              attempt |-> 0, ai |-> 1, tried |-> <<>>, conn |-> <<>>, proxy |-> "none", proxyarg |-> <<>>, route |-> <<>>,
              hops |-> <<>>, ids |-> <<>>, certs |-> <<>>, mine |-> FALSE, pending |-> -1, failed |-> 0, detach |-> FALSE,
              background |-> FALSE, front |-> <<>>, stdio |-> 0, session |-> FALSE, muxed |-> FALSE, frontfail |-> FALSE]
ConnectInit == \E i \in Invocations_c : ConnectStart(i)

----------------------------------------------------------------------------
(* Arguments                                                               *)

First(o, k, v) == IF o[k] = Unset[k] THEN [o EXCEPT ![k] = v] ELSE o

\* the switches that decide what kind of session is asked for
SessionSwitch(o, a) ==
    CASE a.o = "n" -> [o EXCEPT !.stdin_null = TRUE]
      [] a.o = "f" -> [o EXCEPT !.stdin_null = TRUE, !.fork = TRUE]
      [] a.o = "N" -> [o EXCEPT !.no_shell = TRUE, !.request_tty = "no"]
      [] a.o = "T" -> [o EXCEPT !.request_tty = "no"]
      [] a.o = "t" -> [o EXCEPT !.request_tty = IF @ = "yes" THEN "force" ELSE "yes"]
      [] a.o = "W" -> [o EXCEPT !.stdio = TRUE, !.request_tty = "no", !.no_shell = TRUE]
      [] a.o = "M" -> [o EXCEPT !.control_master = IF @ = "yes" THEN "ask" ELSE "yes"]
      [] a.o = "O" -> [o EXCEPT !.mux = a.v]
\* parse_jump(): only the first of ProxyJump and ProxyCommand counts
parse_jump(o, hops) ==
    IF o.proxy # "unset" \/ o.jump # <<>> THEN o
    ELSE IF hops = <<NoJump>> THEN [o EXCEPT !.jump = hops]
    ELSE [o EXCEPT !.jump = hops, !.proxy = "none"]
\* the switches that say where to connect to and how
AddressSwitch(o, a) ==
    CASE a.o = "4" -> [o EXCEPT !.family = "inet"]
      [] a.o = "6" -> [o EXCEPT !.family = "inet6"]
      [] a.o = "p" -> First(o, "port", a.v)
      [] a.o = "l" -> First(o, "user", a.v)
      [] a.o = "J" -> [parse_jump(o, a.v) EXCEPT !.proxy = "none"]
      [] a.o = "S" -> [o EXCEPT !.control_path = a.v]
\* the switches that exclude one another
Contradicts(o, a) ==
    \/ a.o = "O" /\ (o.stdio \/ o.mux # "none")
    \/ a.o = "W" /\ (o.stdio \/ o.mux # "none")
    \/ a.o = "J" /\ (o.jump # <<>> \/ o.proxy # "unset")

Option ==
    /\ At_c("args") /\ run.i <= Len(inv.args)
    /\ LET a == inv.args[run.i] IN
       IF Contradicts(opt, a) THEN Leave(run) /\ UNCHANGED opt
       ELSE /\ opt' = IF a.o \in {"n", "f", "N", "T", "t", "W", "M", "O"} THEN SessionSwitch(opt, a) ELSE AddressSwitch(opt, a)
            /\ run' = [run EXCEPT !.i = @ + 1] /\ UNCHANGED ctl
    /\ UNCHANGED inv
\* the destination, [user@]host or ssh://[user@]host[:port], and the command
Destination ==
    /\ At_c("args") /\ run.i > Len(inv.args)
    /\ LET o == [First(First(opt, "user", inv.dest.user), "port", inv.dest.port) EXCEPT !.command = inv.command] IN
       IF inv.dest.host = <<>> THEN Leave(run) /\ UNCHANGED opt
       ELSE opt' = o /\ Become([run EXCEPT !.host_arg = inv.dest.host, !.host = inv.dest.host], "config") /\ UNCHANGED ctl
    /\ UNCHANGED inv

----------------------------------------------------------------------------
(* Names                                                                   *)

\* process_config_files(): what a reading obtains is added to what is set
Obtain(o, c) ==
    LET set == [k \in DOMAIN o |-> IF k \in DOMAIN c \ {"jump", "proxy"} /\ o[k] = Unset[k] THEN c[k] ELSE o[k]]
        prx == IF "proxy" \in DOMAIN c /\ set.jump = <<>> THEN First(set, "proxy", c["proxy"]) ELSE set
    IN  IF "jump" \in DOMAIN c THEN parse_jump(prx, c["jump"]) ELSE prx

Expand(host, t) == IF Head(t) = "%h" THEN host \o Tail(t) ELSE t
is_addr_fast(n) == Head(n) \in {"::1", "0:0:1", "fe80%x"}
\* resolve_addr(): a name that is an address, in its usual form; all of them are of family inet6
resolve_addr(n) == Head(n) \in DOMAIN Canonical_c /\ opt.family \in {"unset", "inet6"}
ndots(n) == Len(n) - 1
WithPort(as, o) == [i \in DOMAIN as |-> [a |-> as[i].a, fam |-> as[i].fam, port |-> IF o.port = "unset" THEN Default_port ELSE o.port]]
\* resolve_host()
Found(n) == n \in DOMAIN inv.dns
resolve_host(n, o) ==
    IF Found(n) THEN SelectSeq(WithPort(inv.dns[n].addrs, o), LAMBDA a : o.family = "unset" \/ a.fam = o.family) ELSE <<>>
cname_of(n) == inv.dns[n].cname

\* ReadConfig, HostName: the first reading and the name it gives
ReadConfig ==
    /\ At_c("config")
    /\ LET o  == Obtain(opt, inv.config)
           oc == [o EXCEPT !.canon = IF @ = "unset" THEN "no" ELSE @, !.max_dots = IF @ = -1 THEN 1 ELSE @,
                           !.fallback = IF @ = "unset" THEN "yes" ELSE @]
           h  == IF oc.hostname = <<>> THEN run.host ELSE Expand(run.host, oc.hostname)
       IN  /\ opt' = [oc EXCEPT !.hostname = IF @ = <<>> THEN @ ELSE h]
           /\ Become([run EXCEPT !.host = h], "canonicalize")
    /\ UNCHANGED <<inv, ctl>>

direct(o) == o.proxy \in {"unset", "none"} /\ o.jump = <<>>
\* A plausible slip: an alias is followed whatever the rules say
follow_any_cname(o, n, cname) == IF cname = <<>> \/ o.canon = "no" THEN n ELSE cname
\* check_follow_cname(): the name an alias is replaced by
check_follow_cname(o, n, cname) ==
    IF /\ cname # <<>> /\ cname # n /\ o.canon # "no" /\ (~direct(o) => o.canon = "always")
       /\ \E i \in DOMAIN o.cnames : n \in o.cnames[i].from /\ cname \in o.cnames[i].to
    THEN cname ELSE n

\* resolve_canonicalize()
Attempts(n, o) == [i \in DOMAIN o.domains |-> n \o <<o.domains[i], "">>]
resolve_canonicalize ==
    LET n     == run.host
        full  == Last(n) = ""
        tries == IF full THEN <<n>> ELSE Attempts(n, opt)
        hits  == SelectSeq(tries, LAMBDA t : resolve_host(t, opt) # <<>>)
    IN  IF resolve_addr(n) THEN [n |-> <<Canonical_c[Head(n)]>>, as |-> WithPort(<<[a |-> Canonical_c[Head(n)], fam |-> "inet6"]>>, opt), fatal |-> FALSE]
        ELSE IF is_addr_fast(n) \/ opt.canon = "no" \/ (~direct(opt) /\ opt.canon # "always") \/ (~full /\ ndots(n) > opt.max_dots)
        THEN [n |-> n, as |-> <<>>, fatal |-> FALSE]
        ELSE IF hits = <<>> THEN [n |-> n, as |-> <<>>, fatal |-> opt.fallback = "no"]
        ELSE [n |-> check_follow_cname(opt, Front(Head(hits)), cname_of(Head(hits))), as |-> resolve_host(Head(hits), opt), fatal |-> FALSE]
Canonicalize ==
    /\ At_c("canonicalize")
    /\ LET r == IF opt.canon # "no" \/ resolve_addr(run.host) \/ is_addr_fast(run.host) THEN resolve_canonicalize
                ELSE [n |-> run.host, as |-> <<>>, fatal |-> FALSE]
       IN  IF r.fatal THEN cleanup_exit_c(run)
           ELSE Become([run EXCEPT !.host = r.n, !.addrs = r.as], "alias") /\ UNCHANGED ctl
    /\ UNCHANGED <<inv, opt>>
\* main(): an alias of the plain name
FollowAlias ==
    /\ At_c("alias")
    /\ IF run.addrs = <<>> /\ opt.cnames # <<>> /\ (direct(opt) \/ opt.canon = "always")
       THEN LET as == resolve_host(run.host, opt) IN
            IF as = <<>> /\ direct(opt) THEN cleanup_exit_c(run)
            ELSE /\ Become([run EXCEPT !.addrs = as, !.host = IF as = <<>> THEN @ ELSE check_follow_cname(opt, @, cname_of(@))], "final")
                 /\ UNCHANGED ctl
       ELSE Become(run, "final") /\ UNCHANGED ctl
    /\ UNCHANGED <<inv, opt>>

set_addrinfo_port(as, p) == [i \in DOMAIN as |-> [as[i] EXCEPT !.port = p]]
\* main(): the files are read again under the new name; what was resolved
\* meanwhile gets the port found now
FinalPass ==
    /\ At_c("final")
    /\ IF opt.canon # "no" \/ inv.final
       THEN LET o == Obtain([opt EXCEPT !.hostname = run.host], inv.again) IN
            /\ opt' = o
            /\ Become([run EXCEPT !.addrs = IF o.port # "unset" THEN set_addrinfo_port(@, o.port) ELSE @], "prepare")
       ELSE UNCHANGED opt /\ Become(run, "prepare")
    /\ UNCHANGED <<inv, ctl>>

----------------------------------------------------------------------------
(* Checks before a connection is made                                      *)

\* fill_default_options(), as far as it matters here
Filled(o) ==
    [o EXCEPT !.port = IF @ = "unset" THEN Default_port ELSE @, !.proxy = IF @ = "none" THEN "unset" ELSE @,
              !.jump = IF @ = <<NoJump>> THEN <<>> ELSE @, !.request_tty = IF @ = "unset" THEN "auto" ELSE @,
              !.control_master = IF @ = "unset" THEN "no" ELSE @, !.attempts = IF @ = -1 THEN 1 ELSE @,
              !.control_path = IF @ = "none" THEN "unset" ELSE @, !.user = IF @ = "unset" THEN "me" ELSE @]
jump_loop(o) == o.jump # <<>> /\ Last(o.jump).h = run.host /\ Last(o.jump).p = o.port
HasCommand(o) == o.command \/ o.remote_command # "unset"
Inconsistent(o) ==
    \/ o.proxy = "-" /\ o.fdpass = "yes" /\ o.jump = <<>>
    \/ o.attempts <= 0
    \/ o.command /\ o.remote_command # "unset"
    \/ o.fork /\ ~HasCommand(o) /\ ~o.no_shell
    \/ o.mux # "none" /\ o.control_path = "unset"
\* main(): is a terminal asked for
tty_flag(o) ==
    /\ IF HasCommand(o) THEN o.request_tty \in {"yes", "force"} ELSE o.request_tty # "no"
    /\ o.request_tty # "no" /\ o.mux \in {"none", "proxy"}
    /\ ((~inv.isatty \/ o.stdin_null) => o.request_tty = "force")
Prepare ==
    /\ At_c("prepare")
    /\ LET o == Filled(opt)
           p == IF o.jump # <<>> THEN [o EXCEPT !.proxy = "jump", !.fdpass = "no"] ELSE o
       IN  IF jump_loop(o) \/ Inconsistent(o) THEN cleanup_exit_c(run) /\ UNCHANGED opt
           ELSE /\ opt' = p
                /\ Become([run EXCEPT !.tty = tty_flag(p),
                                      !.asked = [tty |-> tty_flag(p), stdin_null |-> p.stdin_null, fork |-> p.fork]],
                          IF p.control_path # "unset" THEN "muxclient" ELSE "resolve")
                /\ UNCHANGED ctl
    /\ UNCHANGED inv

\* muxclient(): a master at ControlPath serves this process instead; what it
\* refuses is tried without it
MuxDone(r, o) == [r EXCEPT !.front = [tty |-> r.tty, stdin_null |-> o.stdin_null, what |-> o.mux]]
Command_c(o) == IF o.mux # "none" THEN o.mux ELSE IF o.stdio THEN "stdio" ELSE "open"
muxclient ==
    /\ At_c("muxclient")
    /\ LET o == [opt EXCEPT !.mux = Command_c(opt)] IN
       /\ opt' = o
       /\ IF opt.control_master \in {"yes", "ask"} THEN Become(run, "resolve") /\ UNCHANGED ctl
          ELSE IF ctl \in {"none", "stale"}
          THEN IF o.mux \notin {"open", "stdio"} THEN cleanup_exit_c(run)
               ELSE Become(run, "resolve") /\ ctl' = IF ctl = "stale" /\ opt.control_master # "no" THEN "none" ELSE ctl
          ELSE \/ o.mux # "proxy" /\ Leave(MuxDone(run, o))
               \/ o.mux = "proxy" /\ Become([run EXCEPT !.muxed = TRUE], "session") /\ UNCHANGED ctl
               \/ o.mux = "open" /\ Become(run, "resolve") /\ UNCHANGED ctl
               \/ o.mux # "open" /\ cleanup_exit_c(run)
    /\ UNCHANGED inv
\* Another ssh with the same ControlPath becomes a master
OtherMaster ==
    /\ ctl = "none" /\ inv.other /\ run.at \in {"muxclient", "resolve", "login", "session"}
    /\ ctl' = "other"
    /\ UNCHANGED <<inv, opt, run>>

----------------------------------------------------------------------------
(* The connection                                                          *)

Resolve ==
    /\ At_c("resolve")
    /\ IF run.addrs = <<>> /\ opt.proxy = "unset"
       THEN LET as == resolve_host(run.host, opt) IN
            IF as = <<>> THEN cleanup_exit_c(run)
            ELSE Become([run EXCEPT !.addrs = as], "connect") /\ UNCHANGED ctl
       ELSE Become(run, "connect") /\ UNCHANGED ctl
    /\ UNCHANGED <<inv, opt>>

\* ssh_connect_direct(), ssh_create_socket(): every address in turn, every
\* attempt in turn, until one answers
ssh_connect_direct ==
    /\ At_c("connect") /\ opt.proxy = "unset"
    /\ IF run.attempt >= opt.attempts THEN Leave(run)
       ELSE LET a == run.addrs[run.ai]
                t == [run EXCEPT !.tried = Append(@, a)]
                last == run.ai = Len(run.addrs)
            IN  \/ Become([t EXCEPT !.conn = a], "login") /\ UNCHANGED ctl
                \/ Become([t EXCEPT !.ai = IF last THEN 1 ELSE @ + 1, !.attempt = IF last THEN @ + 1 ELSE @], "connect") /\ UNCHANGED ctl
    /\ UNCHANGED <<inv, opt>>

\* expand_proxy_command(): the name and the port as they are now
ProxyArg == [host |-> run.host, n |-> run.host_arg, port |-> opt.port, user |-> opt.user]
ssh_proxy_connect ==
    /\ At_c("connect") /\ opt.proxy = "cmd" /\ opt.fdpass # "yes"
    /\ \/ Become([run EXCEPT !.proxy = "running", !.proxyarg = ProxyArg], "login") /\ UNCHANGED ctl
       \/ cleanup_exit_c(run)
    /\ UNCHANGED <<inv, opt>>
\* the descriptor is passed back and the program has ended before we go on
ssh_proxy_fdpass_connect ==
    /\ At_c("connect") /\ opt.proxy = "cmd" /\ opt.fdpass = "yes"
    /\ \/ Become([run EXCEPT !.proxyarg = ProxyArg], "login") /\ UNCHANGED ctl
       \/ cleanup_exit_c(run)
    /\ UNCHANGED <<inv, opt>>
ssh_connect_stdin ==
    /\ At_c("connect") /\ opt.proxy = "-"
    /\ Become([run EXCEPT !.proxyarg = ProxyArg], "login")
    /\ UNCHANGED <<inv, opt, ctl>>
\* ProxyJump: "ssh -J extra -W [host]:port jump_host", each of which again
\* takes its last hop and hands on the others
ProxyJump ==
    /\ At_c("connect") /\ opt.proxy = "jump"
    /\ Become([run EXCEPT !.proxy = "running", !.proxyarg = ProxyArg, !.route = <<run.host>>, !.hops = opt.jump], "hop")
    /\ UNCHANGED <<inv, opt, ctl>>
JumpHop ==
    /\ At_c("hop")
    /\ IF run.hops = <<>> THEN Become(run, "login")
       ELSE run' = [run EXCEPT !.route = <<Last(run.hops).h>> \o @, !.hops = Front(run.hops)]
    /\ UNCHANGED <<inv, opt, ctl>>

\* load_public_identity_files(): the keys of the token, then each file with
\* the certificate beside it unless certificates are named
token_keys == [i \in 1..(IF Len(inv.token) < MaxIdentities THEN Len(inv.token) ELSE MaxIdentities) |->
                  [file |-> "token", key |-> inv.token[i]]]
AddFile(ids, f) ==
    IF Len(ids) >= MaxIdentities \/ f = "none" THEN ids
    ELSE LET one == Append(ids, [file |-> f, key |-> inv.keys[f].pub]) IN
         IF Len(one) >= MaxIdentities \/ opt.certificates # <<>> \/ inv.keys[f].cert # "cert" THEN one
         ELSE Append(one, [file |-> f, key |-> "cert"])
load_public_identity_files ==
    [ids   |-> FoldLeft(AddFile, IF Len(opt.identities) < MaxIdentities THEN token_keys ELSE <<>>, opt.identities),
     certs |-> SelectSeq(opt.certificates, LAMBDA f : inv.keys[f].pub = "cert")]

\* ssh_login(): host key and user are checked, or the process ends
ssh_login ==
    /\ At_c("login")
    /\ \/ /\ Become([run EXCEPT !.ids = load_public_identity_files.ids, !.certs = load_public_identity_files.certs], "session")
          /\ UNCHANGED ctl
       \/ cleanup_exit_c(run)
    /\ UNCHANGED <<inv, opt>>
\* main_sigchld_handler(): a proxy that has ended is forgotten by the system
ProxyEnds == run.proxy = "running" /\ run' = [run EXCEPT !.proxy = "reaped"] /\ UNCHANGED <<inv, opt, ctl>>

----------------------------------------------------------------------------
(* The session                                                             *)

\* ssh_init_forwarding(): what is requested of the server, and how many
\* answers are expected
ssh_init_forwarding(r) == [r EXCEPT !.pending = IF inv.forwards = 0 THEN -1 ELSE inv.forwards]
\* muxserver_listen(): a socket under a temporary name, moved into place if
\* nothing is there
Listens == ~run.muxed /\ opt.control_path # "unset" /\ opt.control_master # "no"
muxserver_listen(r) == [r EXCEPT !.mine = Listens /\ ctl = "none"]
Disabled(o) == IF Listens /\ ctl # "none" THEN [o EXCEPT !.control_path = "unset", !.control_master = "no"] ELSE o

\* A process becomes the background one; with ControlPersist a client of it
\* stays in front, with the flags the user gave
control_persist_detach(r, o) ==
    [r EXCEPT !.front = [tty |-> r.asked.tty, stdin_null |-> r.asked.stdin_null, what |-> o.mux], !.detach = FALSE]
fork_postauth(r, o) == [IF r.detach THEN control_persist_detach(r, o) ELSE r EXCEPT !.background = TRUE]
StdioOnce(r) == [r EXCEPT !.stdio = @ + (IF opt.stdio THEN 1 ELSE 0)]
ssh_session2 ==
    /\ At_c("session") /\ (inv.local_fails => opt.exit_on_failure # "yes")
    /\ LET persist == opt.persist = "yes"
           s  == IF persist THEN run ELSE StdioOnce(run)
           l  == muxserver_listen(ssh_init_forwarding(s))
           o  == Disabled(opt)
           bg == persist /\ l.mine
           x  == IF bg THEN [o EXCEPT !.stdin_null = TRUE, !.no_shell = TRUE, !.fork = TRUE] ELSE o
           d  == [IF persist /\ ~l.mine THEN StdioOnce(l) ELSE l
                  EXCEPT !.detach = bg /\ ~opt.fork, !.tty = IF bg THEN FALSE ELSE @, !.session = ~x.no_shell]
       IN  /\ IF x.fork /\ d.pending <= 0 THEN opt' = [x EXCEPT !.fork = FALSE] /\ Become(fork_postauth(d, x), "loop")
              ELSE opt' = x /\ Become(d, "loop")
           /\ ctl' = IF l.mine THEN "ours" ELSE ctl
    /\ UNCHANGED inv
\* a local forwarding cannot be set up and that is reason to stop
LocalForwardFails ==
    /\ At_c("session") /\ inv.local_fails /\ opt.exit_on_failure = "yes"
    /\ cleanup_exit_c(run)
    /\ UNCHANGED <<inv, opt>>

\* forwarding_success()
forwarding_success(r) ==
    LET n == [r EXCEPT !.pending = @ - 1] IN
    IF n.pending = 0 /\ opt.fork
    THEN opt' = [opt EXCEPT !.fork = FALSE] /\ Become(fork_postauth(n, opt), "loop")
    ELSE UNCHANGED opt /\ Become(n, "loop")
\* ssh_confirm_remote_forward(), ssh_tun_confirm(): one answer of the server
ForwardConfirmed ==
    /\ At_c("loop") /\ run.pending > 0
    /\ forwarding_success(run)
    /\ UNCHANGED <<inv, ctl>>
ForwardRefused ==
    /\ At_c("loop") /\ run.pending > 0
    /\ IF opt.exit_on_failure = "yes" THEN cleanup_exit_c(run) /\ UNCHANGED opt
       ELSE forwarding_success([run EXCEPT !.failed = @ + 1]) /\ UNCHANGED ctl
    /\ UNCHANGED inv
\* The client in front of a new master fails: fatal() in a process that
\* remembers the proxy but not the socket
FrontFails ==
    /\ At_c("loop") /\ run.front # <<>> /\ ~run.frontfail
    /\ run' = [ssh_kill_proxy_command(run) EXCEPT !.frontfail = TRUE]
    /\ UNCHANGED <<inv, opt, ctl>>
\* client_loop() returns, or the connection breaks: fatal()
SessionOver ==
    /\ At_c("loop")
    /\ cleanup_exit_c(run)
    /\ UNCHANGED <<inv, opt>>

ConnectNext ==
    \/ Option \/ Destination \/ ReadConfig \/ Canonicalize \/ FollowAlias \/ FinalPass \/ Prepare
    \/ muxclient \/ OtherMaster \/ Resolve \/ ssh_connect_direct \/ ssh_proxy_connect \/ ssh_proxy_fdpass_connect
    \/ ssh_connect_stdin \/ ProxyJump \/ JumpHop \/ ssh_login \/ ProxyEnds
    \/ ssh_session2 \/ LocalForwardFails \/ ForwardConfirmed \/ ForwardRefused \/ FrontFails \/ SessionOver

----------------------------------------------------------------------------
(* Properties                                                              *)

Connected == ~run.muxed /\ run.at \in {"login", "session", "loop"}
\* The name the user or the administrator wrote
AsWritten == IF "hostname" \in DOMAIN inv.config THEN Expand(run.host_arg, inv.config["hostname"]) ELSE run.host_arg
Bare(n) == IF Last(n) = "" THEN Front(n) ELSE n
Qualified(n) == {n, Bare(n)} \union {n \o <<opt.domains[i]>> : i \in DOMAIN opt.domains}
                  \union (IF resolve_addr(n) THEN {<<Canonical_c[Head(n)]>>} ELSE {})

\* The name under which the host key is looked up is the one written,
\* completed with a configured domain, and only a configured rule lets the
\* answer of the resolver change it; a proxied name is left alone unless
\* canonicalisation is asked for always.
NameTrusted ==
    Connected =>
        /\ run.host \in Qualified(AsWritten)
             \/ \E n \in Qualified(AsWritten), i \in DOMAIN opt.cnames :
                   n \in opt.cnames[i].from /\ run.host \in opt.cnames[i].to
        /\ (opt.canon = "no" /\ ~resolve_addr(AsWritten) => run.host = AsWritten)

\* The connection goes to an address the resolver gave for that name, at the
\* port of the whole configuration even if it was found after the address
\* was; addresses are tried in order and no more often than asked; a proxy
\* gets the same name and port, and the hosts of ProxyJump are visited in the
\* order written.
Dialled ==
    Connected =>
        /\ (run.conn # <<>> =>
              /\ run.conn.port = opt.port /\ run.conn = Last(run.tried)
              /\ \A i \in DOMAIN run.tried : run.tried[i] = run.addrs[((i - 1) % Len(run.addrs)) + 1]
              /\ Len(run.tried) <= opt.attempts * Len(run.addrs))
        /\ (run.conn = <<>> => run.proxyarg = ProxyArg)
        /\ (opt.jump # <<>> => run.route = [i \in DOMAIN opt.jump |-> opt.jump[i].h] \o <<run.host>>)

\* the processes that serve -W
Served == run.stdio + (IF run.front # <<>> /\ run.front.what = "stdio" THEN 1 ELSE 0)
\* A process goes into the background only once, when every forwarding was
\* answered and, if that is required, granted; the client it leaves in front
\* asks for the terminal and the input the user asked for; -W is served by
\* exactly one process, unless the only one was sent to the background.
BackgroundSound ==
    /\ (run.background => run.pending <= 0 /\ (opt.exit_on_failure = "yes" => run.failed = 0))
    /\ (run.front # <<>> => run.front.tty = run.asked.tty /\ run.front.stdin_null = run.asked.stdin_null)
    /\ Served <= 1
    /\ (At_c("loop") /\ opt.stdio => Served = 1 \/ run.detach \/ run.asked.fork)

\* At its end the program has left neither its control socket nor a running
\* proxy behind, and has not removed the socket of another; a master that is
\* alive keeps its proxy, unless the client in front of it failed.
LeavesNothing ==
    /\ (At_c("ended") => ctl # "ours" /\ run.proxy # "running" /\ (inv.ctl = "other" => ctl = "other"))
    /\ (At_c("loop") => (run.proxy = "signalled" => run.frontfail) /\ (run.mine <=> ctl = "ours"))

\* Every identity is in the list with the file it came from, in order, and
\* the list never outgrows its table.
IdentitiesPaired ==
    /\ Len(run.ids) <= MaxIdentities
    /\ \A i \in DOMAIN run.ids : run.ids[i].file # "token" =>
          /\ run.ids[i].file \in ToSet(opt.identities)
          /\ (run.ids[i].key # "cert" \/ inv.keys[run.ids[i].file].pub = "cert"
                \/ (i > 1 /\ run.ids[i - 1].file = run.ids[i].file))

ConnectSound == NameTrusted /\ Dialled /\ BackgroundSound /\ LeavesNothing /\ IdentitiesPaired

ConnectSpec == ConnectInit /\ [][ConnectNext]_connectVars
=============================================================================
