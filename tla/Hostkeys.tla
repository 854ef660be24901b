------------------------------ MODULE Hostkeys ------------------------------
(***************************************************************************)
(* The host keys a user knows: the decision on the key a server presents   *)
(* (sshconnect.c, hostfile.c), and the update of known_hosts with the keys *)
(* a server announces and proves to have (clientloop.c).  Several ssh      *)
(* programs of the user read and write the one file, without a lock, and   *)
(* may be killed at any time; questions to the user take their time.       *)
(*                                                                         *)
(* A line is a set of names, a marker and a key.  Hashed names, the system *)
(* file, messages and X.509 subjects are left out.                         *)
(***************************************************************************)
EXTENDS Naturals, FiniteSets

CONSTANTS
    Procs,          \* ssh programs of the user
    KnownHosts,     \* what the file may hold at first: sets of lines
    Offers,         \* keys the server may present: [cert, key, ca, valid]
    Announced,      \* keys the server may announce: a set of sets
    Owned,          \* keys the server has the private half of
    HostOptions,    \* options of a program
    MayDie          \* programs may be killed

ASSUME HostkeysAssumption ==
    /\ HostOptions \subseteq [name : {"host", "host:port"}, strict : {"yes", "ask", "new", "off"},
                              check_host_ip : BOOLEAN, update : {"no", "yes", "ask"}, dns : BOOLEAN]
    /\ \A k \in Offers : k.cert \in BOOLEAN

NoFile == [there |-> FALSE, lines |-> {}]
File(lines) == [there |-> TRUE, lines |-> lines]

VARIABLES
    known_hosts, backup,    \* the file and the file .old
    proc,                   \* the programs
    initial,                \* what the file was at first
    torn                    \* a program has looked for the file while there was none

hostkeysVars == <<known_hosts, backup, proc, initial, torn>>

Lines == known_hosts.lines
Line(names, marker, key) == [names |-> names, marker |-> marker, key |-> key]
Ip(name) == IF name = "host" THEN "ip" ELSE "ip:port"

----------------------------------------------------------------------------
(* The decision on a key.                                                  *)

\* A key that is revoked, or whose authority is.
check_key_not_revoked(es, k) ==
    \A e \in es : e.marker = "revoked" => e.key # k.key /\ (k.cert => e.key # k.ca)

\* Mistake: a key that is listed is not looked for among the revoked ones.
check_hostkeys_listed(lines, name, k) ==
    LET es == {e \in lines : name \in e.names}
        candidates == {e \in es : e.marker = IF k.cert THEN "ca" ELSE "none"}
    IN IF \E e \in candidates : e.key = IF k.cert THEN k.ca ELSE k.key THEN "ok"
       ELSE IF ~check_key_not_revoked(es, k) THEN "revoked"
       ELSE IF candidates # {} /\ ~k.cert THEN "changed" ELSE "new"

check_hostkeys_by_key_or_types(lines, name, k) ==
    LET es == {e \in lines : name \in e.names}
        candidates == {e \in es : e.marker = IF k.cert THEN "ca" ELSE "none"}
    IN IF ~check_key_not_revoked(es, k) THEN "revoked"
       ELSE IF \E e \in candidates : e.key = IF k.cert THEN k.ca ELSE k.key THEN "ok"
       ELSE IF candidates # {} /\ ~k.cert THEN "changed" ELSE "new"

\* asks: only if the user says yes; add: the names the key becomes known by then;
\* differs: what follows then, because the address has another key.
Verdict(ok, asks, trusted, unsafe, add) ==
    [ok |-> ok, asks |-> asks, trusted |-> trusted, unsafe |-> unsafe, add |-> add,
     differs |-> "accept"]
Refused == Verdict(FALSE, FALSE, FALSE, FALSE, {})

\* Without strict checking the connection goes on, but without passwords and forwardings.
continue_unsafe(o) == IF o.strict = "off" THEN Verdict(TRUE, FALSE, FALSE, TRUE, {}) ELSE Refused

HostNew(o, name, ip_status) ==
    LET add == {name} \cup (IF o.check_host_ip /\ ip_status = "new" THEN {Ip(name)} ELSE {}) IN
    CASE o.strict = "yes" -> Refused
      [] o.strict = "ask" -> Verdict(TRUE, TRUE, TRUE, FALSE, add)
      [] OTHER -> Verdict(TRUE, FALSE, FALSE, FALSE, add)

HostOk(o, name, k, ip_status, readonly) ==
    IF k.cert /\ ~k.valid THEN Refused
    ELSE Verdict(TRUE, FALSE, TRUE, FALSE,
                 IF o.check_host_ip /\ ip_status = "new" /\ ~k.cert /\ ~readonly
                 THEN {Ip(name)} ELSE {})

\* The name is known, or new, but the key of the address is another one.
AddressDiffers(o, v) ==
    [v EXCEPT !.differs = CASE o.strict = "ask" -> "ask"
                            [] o.strict = "off" -> "accept"
                            [] OTHER -> "refuse"]

Accepts(v) == v.ok /\ v.differs # "refuse"

\* The decision on one form of the key; other is what is found without the port.  A user who
\* declines the question about the address there declines the next one, too.
Decision(o, name, k, host_status, ip_status, other, readonly) ==
    LET verdict ==
            CASE host_status = "ok" -> HostOk(o, name, k, ip_status, readonly)
              [] host_status = "new" /\ Accepts(other) -> [other EXCEPT !.trusted = FALSE]
              [] host_status = "new" /\ ~Accepts(other) ->
                    IF readonly \/ k.cert THEN Refused ELSE HostNew(o, name, ip_status)
              [] host_status = "revoked" -> continue_unsafe(o)
              [] host_status = "changed" -> IF readonly THEN Refused ELSE continue_unsafe(o)
    IN [status |-> host_status,
        verdict |-> IF /\ verdict.ok /\ o.check_host_ip /\ verdict.differs = "accept"
                       /\ host_status # "changed" /\ ip_status = "changed"
                    THEN AddressDiffers(o, verdict) ELSE verdict]
CheckForm(lines, o, name, k, ips, other, readonly) ==
    LET host_status == check_hostkeys_by_key_or_types(lines, name, k)
    IN Decision(o, name, k, host_status,
                IF ips /\ ~k.cert THEN check_hostkeys_by_key_or_types(lines, Ip(name), k) ELSE host_status,
                other, readonly)

\* A certificate that does not help is tried again as a plain key, unless it was revoked.
\* other, otherPlain: what happens next with the certificate, and with the plain key.
PlainForm(k) == [k EXCEPT !.cert = FALSE]
CheckForms(lines, o, name, k, other, otherPlain, readonly) ==
    LET first == CheckForm(lines, o, name, k, o.check_host_ip /\ ~k.cert, other, readonly)
    IN IF k.cert /\ ~first.verdict.ok /\ first.status # "revoked"
       THEN CheckForm(lines, o, name, PlainForm(k), FALSE, otherPlain, readonly).verdict
       ELSE first.verdict

\* A name with a port that is new is looked for without the port, but then not recorded.
check_host_key(lines, o, k) ==
    LET WithoutPort(key) == CheckForms(lines, o, "host", key, Refused, Refused, TRUE)
    IN IF o.name = "host" THEN CheckForms(lines, o, "host", k, Refused, Refused, FALSE)
       ELSE CheckForms(lines, o, o.name, k, WithoutPort(k), WithoutPort(PlainForm(k)), FALSE)

----------------------------------------------------------------------------
(* The programs.                                                           *)

Noted == torn' = (torn \/ ~known_hosts.there)
Append_h(names, key) ==
    known_hosts' = IF names = {} THEN known_hosts
                   ELSE File(Lines \cup {Line(names, "none", key)})

\* The end of check_host_key(), after its first question: what is added stays, whatever
\* follows.  Keys of the server are only learned if its own was known or confirmed.
Conclude(p, v) ==
    /\ Append_h(v.add, proc[p].k.key)
    /\ proc' = [proc EXCEPT ![p].v = v,
            ![p].pc = CASE v.differs = "accept" -> "connected"
                        [] v.differs = "ask" -> "differs"
                        [] v.differs = "refuse" -> "refused",
            ![p].o.update = IF v.trusted THEN @ ELSE "no"]

\* A key that DNS has, securely, is accepted without a look at the file.
verify_host_key(p) ==
    LET o == proc[p].o IN
    /\ proc[p].pc = "start" /\ Noted
    /\ \E v \in {check_host_key(Lines, o, proc[p].k)} :
       IF o.dns THEN Conclude(p, Verdict(TRUE, FALSE, TRUE, FALSE, {}))
       ELSE IF ~v.ok THEN proc' = [proc EXCEPT ![p].pc = "refused"] /\ UNCHANGED known_hosts
       ELSE IF v.asks THEN proc' = [proc EXCEPT ![p].pc = "asking", ![p].v = v]
                           /\ UNCHANGED known_hosts
       ELSE Conclude(p, v)
    /\ UNCHANGED <<backup, initial>>

\* The end of a program; a key that the user was just asked about is not accepted.
Ends_h(p, pc) ==
    proc' = [proc EXCEPT ![p].pc = pc, ![p].v = IF proc[p].pc = "asking" THEN Refused ELSE @]

\* The answer may come when the file has changed.
confirm(p) ==
    /\ proc[p].pc \in {"asking", "differs"}
    /\ torn' = (torn \/ (proc[p].pc = "asking" /\ ~known_hosts.there))
    /\ \/ IF proc[p].pc = "asking" THEN Conclude(p, proc[p].v)
          ELSE proc' = [proc EXCEPT ![p].pc = "connected"] /\ UNCHANGED known_hosts
       \/ Ends_h(p, "refused") /\ UNCHANGED known_hosts
    /\ UNCHANGED <<backup, initial>>

Names(o) == {o.name} \cup (IF o.check_host_ip THEN {Ip(o.name)} ELSE {})
Matches(e, o) == e.names \cap Names(o) # {}

\* Mistake: keys that are not known need not be proven.
hostkeys_unproven(p) ==
    /\ proc[p].pc = "connected" /\ Noted
    /\ \E keys \in Announced :
        proc' = [proc EXCEPT ![p].pc = IF proc[p].o.update = "no" THEN "done" ELSE "read",
                             ![p].keys = keys]
    /\ UNCHANGED <<known_hosts, backup, initial>>

\* The keys that are new must be proven; if only old ones go, nothing needs to be.  Lines
\* with markers count as well.
client_input_hostkeys(p) ==
    /\ proc[p].pc = "connected" /\ Noted
    /\ \E keys \in Announced :
        LET seen == {e.key : e \in {e \in Lines : Matches(e, proc[p].o)}} IN
        proc' = [proc EXCEPT
            ![p].keys = keys,
            ![p].pc = IF proc[p].o.update = "no" \/ keys = {} THEN "done"
                      ELSE IF keys \ seen # {} THEN "proving"
                      ELSE IF seen \ keys # {} THEN "read" ELSE "done",
            ![p].new = keys \ seen]
    /\ UNCHANGED <<known_hosts, backup, initial>>

\* The server signs for all of the new keys, or the update is given up.
client_global_hostkeys_private_confirm(p) ==
    /\ proc[p].pc = "proving"
    /\ proc' = [proc EXCEPT ![p].pc = IF proc[p].new \subseteq Owned THEN "read" ELSE "done"]
    /\ UNCHANGED <<known_hosts, backup, initial, torn>>

\* Lines of the host without a marker go, unless they hold one of the keys.
host_delete(lines, o, keys) ==
    {e \in lines : Matches(e, o) /\ e.marker = "none" => e.key \in keys}
Unlisted(lines, o, keys) ==
    keys \ {e.key : e \in {e \in lines : Matches(e, o) /\ e.marker = "none"}}

Goes(p, pc) == proc' = [proc EXCEPT ![p].pc = pc]

\* hostfile_replace_entries(): the file is read into another one, the old backup removed, the
\* file made the backup by link() and unlink(), and the new one renamed.
hostfile_replace_entries(p) ==
    LET o == proc[p].o
        new == host_delete(Lines, o, proc[p].keys)
                \cup {Line(Names(o), "none", k) : k \in Unlisted(Lines, o, proc[p].keys)}
    IN
    \/ /\ proc[p].pc = "read" /\ Noted
       /\ \/ proc' = [proc EXCEPT ![p].temp = new,
                        ![p].pc = IF ~known_hosts.there \/ new = Lines THEN "done" ELSE "unlink"]
          \/ o.update = "ask" /\ Goes(p, "done")
       /\ UNCHANGED <<known_hosts, backup>>
    \/ /\ proc[p].pc = "unlink" /\ backup' = NoFile /\ Goes(p, "link")
       /\ UNCHANGED <<known_hosts, torn>>
    \/ /\ proc[p].pc = "link"
       /\ IF ~known_hosts.there \/ backup.there THEN Goes(p, "done") /\ UNCHANGED backup
          ELSE Goes(p, "remove") /\ backup' = known_hosts
       /\ UNCHANGED <<known_hosts, torn>>
    \/ /\ proc[p].pc = "remove"
       /\ IF known_hosts.there THEN known_hosts' = NoFile /\ Goes(p, "rename") /\ UNCHANGED backup
          ELSE backup' = NoFile /\ Goes(p, "done") /\ UNCHANGED known_hosts
       /\ UNCHANGED torn
    \/ /\ proc[p].pc = "rename" /\ known_hosts' = File(proc[p].temp) /\ Goes(p, "done")
       /\ UNCHANGED <<backup, torn>>

Replace(p) == hostfile_replace_entries(p) /\ UNCHANGED initial

Dies(p) ==
    /\ MayDie /\ proc[p].pc \notin {"start", "refused", "done", "dead"}
    /\ Ends_h(p, "dead")
    /\ UNCHANGED <<known_hosts, backup, initial, torn>>

----------------------------------------------------------------------------
HostkeysStart(lines, k, o) ==
    /\ initial = lines /\ known_hosts = File(lines) /\ backup = NoFile /\ torn = FALSE
    /\ proc = [p \in Procs |-> [pc |-> "start", o |-> o[p], k |-> k[p], v |-> Refused,
                                keys |-> {}, new |-> {}, temp |-> {}]]
HostkeysInit ==
    \E lines \in KnownHosts, k \in [Procs -> Offers], o \in [Procs -> HostOptions] :
        HostkeysStart(lines, k, o)

HostkeysNext ==
    \E p \in Procs :
        \/ verify_host_key(p) \/ confirm(p) \/ client_input_hostkeys(p)
        \/ client_global_hostkeys_private_confirm(p) \/ Replace(p) \/ Dies(p)

HostkeysSpec == HostkeysInit /\ [][HostkeysNext]_hostkeysVars

----------------------------------------------------------------------------
(* Properties.                                                             *)

Connected(p) == proc[p].pc \notin {"start", "asking", "differs", "refused"} /\ proc[p].v.ok
\* Keys with a revocation for the name the user gave.
Revoked(lines, p) == ~check_key_not_revoked({e \in lines : proc[p].o.name \in e.names}, proc[p].k)

\* A key that is marked "revoked and must not ever be accepted" (sshd.8) is not accepted, by
\* any of the programs.  Without strict checking, or with keys from DNS, this is not meant.
RevokedNeverAccepted ==
    \A p \in Procs : Connected(p) /\ ~proc[p].o.dns /\ proc[p].o.strict # "off"
                        => ~Revoked(initial, p)

\* The same, and no revocation is lost, also when programs are killed while they replace
\* the file, as long as no program looks for the file just when there is none
\* (hostfile_replace_entries(), check_hostkeys_by_key_or_types()).
RevokedRefused ==
    /\ ~torn => RevokedNeverAccepted
    /\ ~torn /\ known_hosts.there
        => \A e \in initial : e.marker # "none" => e \in known_hosts.lines

\* The key was decided on and recorded; the address may still be a reason to refuse.
Accepted(p) == proc[p].pc \notin {"start", "asking"} /\ proc[p].v.ok

\* A key that was not in the file has been accepted as the key of a host, by the user or
\* without a question, or was proven by a server whose own key was known or confirmed by
\* the user; keys that only a line with a marker holds are not proven
\* (client_input_hostkeys(), update_known_hosts()).
UpdatesVerified ==
    known_hosts.there =>
        \A e \in known_hosts.lines \ initial :
            \/ \E p \in Procs : Accepted(p) /\ e.key = proc[p].k.key
            \/ \E m \in initial : m.marker # "none" /\ m.key = e.key
            \/ /\ e.key \in Owned \/ \E l \in initial : l.key = e.key
               /\ \E p \in Procs : proc[p].v.trusted /\ e.key \in proc[p].keys

(* A revoked key is never accepted, and an update of known_hosts holds only keys the
   server has proved it has. *)
HostkeysSound == RevokedRefused /\ UpdatesVerified
=============================================================================
