------------------------------ MODULE Listener ------------------------------
(***************************************************************************)
(* The listening sshd, server_accept_loop() of sshd.c, with the processes  *)
(* it forks: each has a pipe to the listener until it has authenticated    *)
(* its user, and says with one byte on it that it holds no listening       *)
(* socket any more and has received its configuration.  Signals set flags  *)
(* that the loop looks at before and after select().                       *)
(***************************************************************************)
EXTENDS Naturals, FiniteSets, FiniteSetsExt

CONSTANTS
    Conns,              \* connections that clients make
    max_startups, max_startups_begin,   \* option MaxStartups, with 0 < rate < 100
    rexec_flag,         \* children execute sshd anew and get the configuration by a socket
    CanFail             \* pipe() and fork() may fail

ASSUME ListenerAssumption ==
    /\ {max_startups, max_startups_begin} \subseteq Nat \ {0}
    /\ max_startups_begin <= max_startups
    /\ {rexec_flag, CanFail} \subseteq BOOLEAN
    /\ "none" \notin Conns

VARIABLES
    startup_pipes,      \* the connection whose pipe is in a slot, or NoConn
    startup_flags, startups, listening, lameduck,
    received_sighup, received_sigterm,
    loop,               \* where the loop is, or how it ended
    proc                \* the processes

listenerVars == <<startup_pipes, startup_flags, startups, listening, lameduck,
                  received_sighup, received_sigterm, loop, proc>>

Slots == 1 .. max_startups
NoConn == "none"
Running == {"check", "select", "accept"}
\* A process: none yet; waiting for its state; before the end of authentication, with its
\* byte sent or read; authenticated or ended, with its pipe closed.
ProcStates == {"none", "starting", "preauth", "noticed", "closed", "refused"}

ListenerInit ==
    /\ startup_pipes = [j \in Slots |-> NoConn]
    /\ startup_flags = [j \in Slots |-> FALSE]
    /\ startups = 0 /\ listening = 0 /\ lameduck = FALSE
    /\ received_sighup = FALSE /\ received_sigterm = FALSE
    /\ loop = "check"
    /\ proc = [c \in Conns |-> "none"]

----------------------------------------------------------------------------
(* Signals.                                                                *)

\* A signal that arrives while select() waits ends it; one that arrives just before does
\* not, and is seen when select() returns for another reason.
sighup_handler ==
    /\ loop \in Running /\ ~received_sighup /\ received_sighup' = TRUE
    /\ loop' \in IF loop = "select" THEN {"select", "check"} ELSE {loop}
    /\ UNCHANGED <<startup_pipes, startup_flags, startups, listening, lameduck,
                   received_sigterm, proc>>
sigterm_handler ==
    /\ loop \in Running /\ ~received_sigterm /\ received_sigterm' = TRUE
    /\ loop' \in IF loop = "select" THEN {"select", "terminated"} ELSE {loop}
    /\ UNCHANGED <<startup_pipes, startup_flags, startups, listening, lameduck,
                   received_sighup, proc>>

----------------------------------------------------------------------------
(* The loop.                                                               *)

\* Mistake: the server restarts without waiting for its children.
restart_at_once ==
    /\ loop = "check"
    /\ lameduck' = (lameduck \/ received_sighup)
    /\ loop' = IF received_sighup THEN "restarted" ELSE "select"
    /\ UNCHANGED <<startup_pipes, startup_flags, startups, listening, received_sighup,
                   received_sigterm, proc>>

\* After SIGHUP: no new connections, and a restart when no child is in its preliminaries.
sighup_restart ==
    /\ loop = "check"
    /\ lameduck' = (lameduck \/ received_sighup)
    /\ loop' = IF received_sighup /\ listening <= 0 THEN "restarted" ELSE "select"
    /\ UNCHANGED <<startup_pipes, startup_flags, startups, listening, received_sighup,
                   received_sigterm, proc>>

\* A pipe is readable when it holds a byte, or was closed.
Readable(j) == startup_pipes[j] # NoConn /\ proc[startup_pipes[j]] \in {"preauth", "closed"}
Ended == {j \in Slots : Readable(j) /\ proc[startup_pipes[j]] = "closed"}
Said == {j \in Slots : Readable(j) /\ proc[startup_pipes[j]] = "preauth"}

\* Mistake: the end of a process that never sent its byte leaves its flag.
read_pipes_keeping_flags ==
    LET Flagged == {j \in Said : startup_flags[j]} IN
    /\ startups' = startups - Cardinality(Ended)
    /\ listening' = listening - Cardinality(Flagged)
    /\ startup_flags' = [j \in Slots |-> startup_flags[j] /\ j \notin Said]
    /\ startup_pipes' = [j \in Slots |-> IF j \in Ended THEN NoConn ELSE startup_pipes[j]]
    /\ proc' = [c \in Conns |->
        IF \E j \in Said : startup_pipes[j] = c THEN "noticed" ELSE proc[c]]

read_pipes ==
    LET Flagged == {j \in Ended \cup Said : startup_flags[j]} IN
    /\ startups' = startups - Cardinality(Ended)
    /\ listening' = listening - Cardinality(Flagged)
    /\ startup_flags' = [j \in Slots |-> startup_flags[j] /\ j \notin Ended \cup Said]
    /\ startup_pipes' = [j \in Slots |-> IF j \in Ended THEN NoConn ELSE startup_pipes[j]]
    /\ proc' = [c \in Conns |->
        IF \E j \in Said : startup_pipes[j] = c THEN "noticed" ELSE proc[c]]

\* select() returns for a pipe or a connection.  A byte and the end of the process that
\* sent it are read in one round.
SelectReturns ==
    /\ loop = "select"
    /\ IF received_sigterm
       THEN loop' = "terminated"
            /\ UNCHANGED <<startup_pipes, startup_flags, startups, listening, proc>>
       ELSE loop' = "accept" /\ read_pipes
    /\ UNCHANGED <<lameduck, received_sighup, received_sigterm>>

\* Mistake: one connection too many.
drop_late(n) ==
    IF n < max_startups_begin THEN {FALSE}
    ELSE IF n > max_startups THEN {TRUE} ELSE BOOLEAN
\* The outcomes of drop_connection(): by chance between begin and the full number.
drop_connection(n) ==
    IF n < max_startups_begin THEN {FALSE}
    ELSE IF n >= max_startups THEN {TRUE} ELSE BOOLEAN

\* send_rexec_state(): a message to a socket whose other end is gone is fatal.
send_rexec_state(forked) == ~rexec_flag \/ forked

\* The pipe's slot, the counters, and the process.  If there is none, or it died before it
\* was sent its state, the pipe is closed.
Fork(c, forked) ==
    LET free == {j \in Slots : startup_pipes[j] = NoConn} IN
    /\ startup_pipes' = [j \in Slots |->
            IF free # {} /\ j = Min(free) THEN c ELSE startup_pipes[j]]
    /\ startup_flags' = [j \in Slots |-> (free # {} /\ j = Min(free)) \/ startup_flags[j]]
    /\ startups' = IF free # {} THEN startups + 1 ELSE startups
    /\ listening' = listening + 1
    /\ proc' = [proc EXCEPT ![c] = IF ~forked THEN "closed"
                                   ELSE IF rexec_flag THEN "starting" ELSE "preauth"]
    /\ loop' = IF send_rexec_state(forked) THEN "check" ELSE "fatal"

Accept(c) ==
    /\ loop = "accept" /\ ~lameduck /\ proc[c] = "none"
    /\ \/ /\ TRUE \in drop_connection(startups)
          /\ proc' = [proc EXCEPT ![c] = "refused"] /\ loop' = "check"
          /\ UNCHANGED <<startup_pipes, startup_flags, startups, listening>>
       \/ FALSE \in drop_connection(startups) /\ Fork(c, TRUE)
       \/ CanFail /\ FALSE \in drop_connection(startups) /\ Fork(c, FALSE)
    /\ UNCHANGED <<lameduck, received_sighup, received_sigterm>>

\* No connection, accept() or pipe() fails.
NoAccept ==
    /\ loop = "accept" /\ loop' = "check"
    /\ UNCHANGED <<startup_pipes, startup_flags, startups, listening, lameduck,
                   received_sighup, received_sigterm, proc>>

----------------------------------------------------------------------------
(* The processes.                                                          *)

Becomes(c, from, to) ==
    /\ proc[c] \in from /\ proc' = [proc EXCEPT ![c] = to]
    /\ UNCHANGED <<startup_pipes, startup_flags, startups, listening, lameduck,
                   received_sighup, received_sigterm, loop>>

\* The process has its state and sends its byte.
recv_rexec_state(c) == Becomes(c, {"starting"}, "preauth")
\* Authentication succeeds: the pipe is closed.
authenticated(c) == Becomes(c, {"preauth", "noticed"}, "closed")
\* LoginGraceTime is over, or the process ends for another reason, at any time.
grace_alarm_handler(c) == Becomes(c, {"starting", "preauth", "noticed"}, "closed")

ListenerNext ==
    \/ sighup_handler \/ sigterm_handler
    \/ sighup_restart \/ SelectReturns \/ NoAccept
    \/ \E c \in Conns :
        Accept(c) \/ recv_rexec_state(c) \/ authenticated(c) \/ grace_alarm_handler(c)

ListenerSpec == ListenerInit /\ [][ListenerNext]_listenerVars

\* The loop runs on when there is something to read; a process that was started goes on,
\* and ends or authenticates within LoginGraceTime.
ListenerFairness ==
    /\ WF_listenerVars(sighup_restart) /\ WF_listenerVars(NoAccept)
    /\ WF_listenerVars((\E j \in Slots : Readable(j)) /\ SelectReturns)
    /\ \A c \in Conns :
        WF_listenerVars(recv_rexec_state(c)) /\ WF_listenerVars(grace_alarm_handler(c))
ListenerFairSpec == ListenerSpec /\ ListenerFairness

----------------------------------------------------------------------------
(* Properties.                                                             *)

Unauthenticated == {c \in Conns : proc[c] \in {"starting", "preauth", "noticed"}}

\* The counters are exact although bytes and ends arrive in any order, forks fail and
\* processes die before they send their byte: a slot is found for every connection that
\* drop_connection() lets pass, every process that has not authenticated is counted, and
\* there are no more of them than MaxStartups.
StartupsExact ==
    /\ startups = Cardinality({j \in Slots : startup_pipes[j] # NoConn})
    /\ listening = Cardinality({j \in Slots : startup_flags[j]})
    /\ \A c \in Unauthenticated : \E j \in Slots : startup_pipes[j] = c
    /\ Cardinality(Unauthenticated) <= max_startups

\* The server restarts only when no process may still hold a listening socket or wait for
\* its configuration (the race the comment on startup_pipes tells of).
RestartSafe ==
    loop = "restarted" => \A c \in Conns : proc[c] # "starting"

\* After the listening sockets are closed the restart comes: no process keeps the
\* listener waiting for ever.
LameduckEnds == lameduck ~> loop \notin Running

\* "Stay listening for connections until the system crashes or the daemon is killed with
\* a signal" (sshd.c).
StaysListening == loop # "fatal"
=============================================================================
