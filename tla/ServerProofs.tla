---------------------------- MODULE ServerProofs ----------------------------
(***************************************************************************)
(* The tables of the listener and of the sessions describe the processes   *)
(* there are, for any number of connections, slots, sessions, terminals    *)
(* and process numbers.  ListenerInv and SessionInv are the inductive      *)
(* invariants: what each entry of a table must agree with elsewhere.       *)
(***************************************************************************)
EXTENDS MCServer, FiniteSetTheorems, TLAPS

----------------------------------------------------------------------------
(* The listener's invariant.                                               *)

Taken == {j \in Slots : startup_pipes[j] # NoConn}
Flagged == {j \in Slots : startup_flags[j]}

ListenerTypeOK ==
    /\ startup_pipes \in [Slots -> Conns \cup {NoConn}]
    /\ startup_flags \in [Slots -> BOOLEAN]
    /\ startups = Cardinality(Taken) /\ listening = Cardinality(Flagged)
    /\ proc \in [Conns -> ProcStates]

\* A slot belongs to one process, which was started; a process that may still hold a
\* listening socket has its flag; there is none after a restart.
SlotsSound ==
    /\ \A j \in Slots : startup_flags[j] => startup_pipes[j] # NoConn
    /\ \A i, j \in Taken : startup_pipes[i] = startup_pipes[j] => i = j
    /\ \A j \in Taken : proc[startup_pipes[j]] \notin {"none", "refused"}
    /\ \A c \in Unauthenticated : \E j \in Slots : startup_pipes[j] = c
    /\ \A j \in Taken : proc[startup_pipes[j]] = "starting" => startup_flags[j]
    /\ loop = "restarted" => \A j \in Slots : ~startup_flags[j]

ListenerInv == ListenerTypeOK /\ SlotsSound

----------------------------------------------------------------------------
(* The sessions' invariant.                                                *)

SessionRec ==
    [used : BOOLEAN, next : Nat, chan : 0 .. MaxChannel, pid : Pids \cup {None},
     tty : Ttys \cup {NoTty}, ptyfd : Nat, is_subsystem : BOOLEAN, x11 : SUBSET Chans]
ChanRec ==
    [type : {Free, "larval", "open", "x11", "auth", "zombie"}, closed : BOOLEAN,
     sent : BOOLEAN, rcvd : BOOLEAN, user : {"session", "x11", "none"},
     detach_close : BOOLEAN, fd : Nat, single : BOOLEAN, started : SUBSET Pids,
     exits : SUBSET Pids]

SessionTypeOK ==
    /\ sessions \in Seq(SessionRec) /\ sessions_first_unused \in Nat
    /\ chan \in [Chans -> ChanRec]
    /\ child \in [Pids -> {Free, "running", "ended"}]
    /\ fds \in [1 .. MaxFd -> Ttys \cup {Free, "pipe"}]
    /\ mon \in [ttys : SUBSET Ttys, cleanup : Seq(Ttys)]
    /\ up \in {"up", "ending", "down", "gone"}
    /\ up \in {"down", "gone"} => sessions = <<>>

\* What a session says of its channel, process, listeners and terminal agrees with the
\* tables of channels, children and the monitor's terminals.
Fits(s, channels, children, ttys) ==
    /\ s.chan \in Chans /\ channels[s.chan].type \in {"larval", "open"}
    /\ s.pid # None => /\ channels[s.chan].type = "open" /\ children[s.pid] # Free
                       /\ channels[s.chan].started = {s.pid}
    /\ \A k \in s.x11 :
        channels[k].type \in {"x11", "zombie"} /\ channels[k].user = "x11"
    /\ s.tty # NoTty => s.tty \in ttys
EntrySound(s) == Fits(s, chan, child, mon.ttys)

\* What a channel's type says of the rest of it.
ChannelSound(c) ==
    /\ c.type \in {"larval", "open"} => c.user = "session"
    /\ c.type = "x11" => c.user = "x11"
    /\ c.type \in {Free, "auth"} => c.user = "none"
    /\ c.type = "zombie" => c.user # "session"
    /\ c.type = "larval" => c.exits = {}
    /\ c.exits \subseteq c.started

EntriesSound == \A i \in Used : EntrySound(sessions[i])
ChannelsSound == \A k \in Chans : ChannelSound(chan[k])

\* Two sessions share nothing.
EntriesApart == \A i, j \in Used : i # j =>
    /\ sessions[i].chan # sessions[j].chan
    /\ sessions[i].pid # None => sessions[i].pid # sessions[j].pid
    /\ sessions[i].tty # NoTty => sessions[i].tty # sessions[j].tty
    /\ sessions[i].x11 \cap sessions[j].x11 = {}

\* Every child and every listener has its session.
NoOrphans ==
    /\ \A p \in Pids : child[p] # Free => \E i \in Used : sessions[i].pid = p
    /\ \A k \in Chans : chan[k].user = "x11" => \E i \in Used : k \in sessions[i].x11

\* The terminals to be released are the monitor's, each once, and no session's.
CleanupSound ==
    /\ \A n \in DOMAIN mon.cleanup : mon.cleanup[n] \in mon.ttys
    /\ \A m, n \in DOMAIN mon.cleanup : mon.cleanup[m] = mon.cleanup[n] => m = n
    /\ \A n \in DOMAIN mon.cleanup, i \in Used : sessions[i].tty # mon.cleanup[n]

SessionInv ==
    /\ SessionTypeOK /\ EntriesSound /\ ChannelsSound /\ EntriesApart /\ NoOrphans
    /\ CleanupSound /\ FreeListSound
----------------------------------------------------------------------------
(* Sets of numbers.                                                        *)

LEMMA MinIn ==
    ASSUME NEW S \in SUBSET Nat, S # {}
    PROVE  Min(S) \in S
<1>1. PICK x \in S : \A y \in S : ~(<<y, x>> \in OpToRel(<, Nat))
    BY NatLessThanWellFounded, WFMin
<1>2. \A y \in S : x <= y
  <2>1. SUFFICES ASSUME NEW y \in S, y < x PROVE FALSE
      OBVIOUS
  <2>2. <<y, x>> \in OpToRel(<, Nat)
      BY <2>1 DEF OpToRel
  <2> QED BY <2>2, <1>1
<1> QED BY <1>2 DEF Min

LEMMA SlotsFinite == IsFiniteSet(Slots) /\ Cardinality(Slots) = max_startups
BY FS_Interval, ListenerAssumption DEF Slots

\* The cardinality of a set of slots.
LEMMA SlotSets ==
    ASSUME NEW S \in SUBSET Slots
    PROVE  /\ IsFiniteSet(S) /\ Cardinality(S) \in Nat
           /\ Cardinality(S) = 0 => S = {}
           /\ Cardinality(S) # max_startups => S # Slots
BY SlotsFinite, FS_Subset, FS_CardinalityType, FS_EmptySet

----------------------------------------------------------------------------
(* The listener.                                                           *)

LEMMA ListenerInitInv == ListenerInit => ListenerInv
<1> SUFFICES ASSUME ListenerInit PROVE ListenerInv
    OBVIOUS
<1>1. Taken = {} /\ Flagged = {}
    BY DEF ListenerInit, Taken, Flagged, NoConn
<1>2. ListenerTypeOK
    BY <1>1, FS_EmptySet DEF ListenerInit, ListenerTypeOK, ProcStates, NoConn
<1>3. SlotsSound
    BY <1>1 DEF ListenerInit, SlotsSound, Taken, Unauthenticated
<1> QED BY <1>2, <1>3 DEF ListenerInv

\* A step that leaves the slots and the processes alone.
LEMMA SignalStep ==
    ASSUME ListenerInv, UNCHANGED <<startup_pipes, startup_flags, startups, listening, proc>>,
           loop' = "restarted" => loop = "restarted" \/ listening <= 0
    PROVE  ListenerInv'
<1>1. Taken' = Taken /\ Flagged' = Flagged /\ Unauthenticated' = Unauthenticated
    BY DEF Taken, Flagged, Unauthenticated
<1>2. ListenerTypeOK'
    BY <1>1 DEF ListenerInv, ListenerTypeOK
<1>3. ASSUME loop' = "restarted", NEW j \in Slots, startup_flags[j] PROVE FALSE
  <2>1. CASE loop = "restarted"
      BY <2>1, <1>3 DEF ListenerInv, SlotsSound
  <2>2. CASE listening <= 0
    <3>1. listening = Cardinality(Flagged) /\ Flagged \in SUBSET Slots
        BY DEF ListenerInv, ListenerTypeOK, Flagged
    <3>2. Flagged = {}
        BY <3>1, <2>2, SlotSets
    <3> QED BY <3>2, <1>3 DEF Flagged
  <2> QED BY <2>1, <2>2, <1>3
<1>4. SlotsSound'
    BY <1>1, <1>3 DEF ListenerInv, SlotsSound
<1> QED BY <1>2, <1>4 DEF ListenerInv

\* A process goes on: a byte, the end of authentication, or the end of the process.
LEMMA BecomesStep ==
    ASSUME ListenerInv, NEW c \in Conns, NEW from \in SUBSET {"starting", "preauth", "noticed"},
           NEW to \in {"preauth", "closed"}, Becomes(c, from, to)
    PROVE  ListenerInv'
<1>1. Taken' = Taken /\ Flagged' = Flagged
    BY DEF Taken, Flagged, Becomes
<1>2. proc' \in [Conns -> ProcStates]
    BY DEF Becomes, ListenerInv, ListenerTypeOK, ProcStates
<1>3. ListenerTypeOK'
    BY <1>1, <1>2 DEF ListenerInv, ListenerTypeOK, Becomes
<1>4. Unauthenticated' \subseteq Unauthenticated
    BY DEF Unauthenticated, Becomes, ListenerInv, ListenerTypeOK
<1>5. \A d \in Conns : /\ proc'[d] = "starting" => proc[d] = "starting"
                       /\ proc'[d] \in {"none", "refused"} => proc[d] \in {"none", "refused"}
    BY DEF Becomes, ListenerInv, ListenerTypeOK
<1>6. \A j \in Taken : startup_pipes[j] \in Conns
    BY DEF Taken, ListenerInv, ListenerTypeOK
<1>7. SlotsSound'
    BY <1>1, <1>4, <1>5, <1>6 DEF Becomes, ListenerInv, SlotsSound
<1> QED BY <1>3, <1>7 DEF ListenerInv

\* The pipes are read: the slots of the ended processes are free, the flags of those and
\* of the ones that sent their byte are cleared.
LEMMA ReadStep ==
    ASSUME ListenerInv, read_pipes, loop' # "restarted"
    PROVE  ListenerInv'
<1> DEFINE Cleared == {j \in Ended \cup Said : startup_flags[j]}
<1>1. /\ startups' = startups - Cardinality(Ended)
      /\ listening' = listening - Cardinality(Cleared)
      /\ startup_flags' = [j \in Slots |-> startup_flags[j] /\ j \notin Ended \cup Said]
      /\ startup_pipes' = [j \in Slots |-> IF j \in Ended THEN NoConn ELSE startup_pipes[j]]
      /\ proc' = [c \in Conns |->
            IF \E j \in Said : startup_pipes[j] = c THEN "noticed" ELSE proc[c]]
    BY DEF read_pipes
<1>2. /\ startup_pipes \in [Slots -> Conns \cup {NoConn}]
      /\ startup_flags \in [Slots -> BOOLEAN]
      /\ startups = Cardinality(Taken) /\ listening = Cardinality(Flagged)
      /\ proc \in [Conns -> ProcStates]
    BY DEF ListenerInv, ListenerTypeOK
<1>3. Ended \subseteq Taken /\ Said \subseteq Taken /\ Cleared \subseteq Flagged
    BY DEF Ended, Said, Taken, Flagged, Readable
<1>4. \A j \in Taken : startup_pipes[j] \in Conns
    BY <1>2 DEF Taken
<1>5. Taken' = Taken \ Ended
    BY <1>1 DEF Taken, NoConn
<1>6. Flagged' = Flagged \ Cleared
    BY <1>1 DEF Flagged
<1> HIDE DEF Cleared
<1>7. Cardinality(Taken \ Ended) = startups - Cardinality(Ended)
  <2>1. IsFiniteSet(Taken) /\ Taken \cap Ended = Ended
      BY <1>3, SlotSets DEF Taken
  <2> QED BY <2>1, <1>2, FS_Difference
<1>8. Cardinality(Flagged \ Cleared) = listening - Cardinality(Cleared)
  <2>1. IsFiniteSet(Flagged) /\ Flagged \cap Cleared = Cleared
      BY <1>3, SlotSets DEF Flagged
  <2> QED BY <2>1, <1>2, FS_Difference
<1>9. ListenerTypeOK'
    BY <1>1, <1>2, <1>5, <1>6, <1>7, <1>8 DEF ListenerTypeOK, ProcStates
<1>10. \A c \in Conns : /\ proc'[c] = "starting" => proc[c] = "starting"
                        /\ proc'[c] \in {"none", "refused"} => proc'[c] = proc[c]
    BY <1>1
<1>11. \A j \in Taken : proc[startup_pipes[j]] = "starting" => j \notin Ended \cup Said
    BY DEF Ended, Said
<1>12. ASSUME NEW c \in Unauthenticated' PROVE \E j \in Slots : startup_pipes'[j] = c
  <2>1. c \in Conns /\ proc'[c] \in {"starting", "preauth", "noticed"}
      BY <1>12 DEF Unauthenticated
  <2>2. PICK j \in Slots : startup_pipes[j] = c /\ proc[c] # "closed"
    <3>1. CASE \E j \in Said : startup_pipes[j] = c
        BY <3>1 DEF Said
    <3>2. CASE ~\E j \in Said : startup_pipes[j] = c
      <4>1. c \in Unauthenticated
          BY <3>2, <2>1, <1>1 DEF Unauthenticated
      <4> QED BY <4>1 DEF ListenerInv, SlotsSound, Unauthenticated
    <3> QED BY <3>1, <3>2
  <2>3. j \notin Ended
      BY <2>2 DEF Ended
  <2> QED BY <2>2, <2>3, <1>1
<1>13. SlotsSound'
  <2>1. \A j \in Slots : startup_flags'[j] => startup_pipes'[j] # NoConn
      BY <1>1 DEF ListenerInv, SlotsSound
  <2>2. \A i, j \in Taken' : startup_pipes'[i] = startup_pipes'[j] => i = j
      BY <1>1, <1>5 DEF ListenerInv, SlotsSound, Taken
  <2>3. \A j \in Taken' : startup_pipes'[j] = startup_pipes[j] /\ j \in Taken
      BY <1>1, <1>5 DEF Taken
  <2>4. \A j \in Taken' : proc'[startup_pipes'[j]] \notin {"none", "refused"}
      BY <2>3, <1>4, <1>10 DEF ListenerInv, SlotsSound
  <2>5. \A j \in Taken' : proc'[startup_pipes'[j]] = "starting" => startup_flags'[j]
    <3>1. SUFFICES ASSUME NEW j \in Taken', proc'[startup_pipes'[j]] = "starting"
                   PROVE  startup_flags'[j]
        OBVIOUS
    <3>2. proc[startup_pipes[j]] = "starting" /\ j \in Taken /\ j \in Slots
        BY <3>1, <2>3, <1>4, <1>10 DEF Taken
    <3>3. startup_flags[j]
        BY <3>2 DEF ListenerInv, SlotsSound
    <3> QED BY <3>2, <3>3, <1>11, <1>1
  <2> QED BY <2>1, <2>2, <2>4, <2>5, <1>12 DEF SlotsSound
<1> QED BY <1>9, <1>13 DEF ListenerInv

\* A connection that drop_connection() lets pass finds a slot.
LEMMA ForkStep ==
    ASSUME ListenerInv, NEW c \in Conns, NEW forked \in BOOLEAN, proc[c] = "none",
           FALSE \in drop_connection(startups), Fork(c, forked)
    PROVE  ListenerInv'
<1> DEFINE free == {j \in Slots : startup_pipes[j] = NoConn}
           s == Min(free)
           state == IF ~forked THEN "closed" ELSE IF rexec_flag THEN "starting" ELSE "preauth"
<1>1. /\ startup_pipes \in [Slots -> Conns \cup {NoConn}]
      /\ startup_flags \in [Slots -> BOOLEAN]
      /\ startups = Cardinality(Taken) /\ listening = Cardinality(Flagged)
      /\ proc \in [Conns -> ProcStates]
    BY DEF ListenerInv, ListenerTypeOK
<1>2. Taken \in SUBSET Slots /\ Flagged \in SUBSET Slots
    BY DEF Taken, Flagged
<1>3. free # {} /\ free \in SUBSET Nat
  <2>1. startups < max_startups
    <3>1. startups \in Nat /\ max_startups \in Nat /\ max_startups_begin \in Nat
          /\ max_startups_begin <= max_startups
        BY <1>1, <1>2, SlotSets, ListenerAssumption
    <3>2. SUFFICES ASSUME startups >= max_startups PROVE FALSE
        BY <3>1
    <3>3. ~(startups < max_startups_begin) /\ startups >= max_startups
        BY <3>1, <3>2
    <3>4. drop_connection(startups) = {TRUE}
        BY <3>3, Zenon DEF drop_connection
    <3>5. FALSE # TRUE
        OBVIOUS
    <3> QED BY <3>4, <3>5, Zenon
  <2>2. Taken # Slots
      BY <2>1, <1>1, <1>2, SlotSets
  <2> QED BY <2>2 DEF Taken, Slots
<1>4. s \in Slots /\ startup_pipes[s] = NoConn
    BY <1>3, MinIn
<1>5. /\ startup_pipes' = [j \in Slots |-> IF j = s THEN c ELSE startup_pipes[j]]
      /\ startup_flags' = [j \in Slots |-> j = s \/ startup_flags[j]]
      /\ startups' = startups + 1 /\ listening' = listening + 1
      /\ proc' = [proc EXCEPT ![c] = state]
      /\ loop' # "restarted"
    BY <1>3 DEF Fork
<1>6. state \in {"closed", "starting", "preauth"}
    OBVIOUS
<1> HIDE DEF s, free, state
<1>7. ~startup_flags[s] /\ c # NoConn
    BY <1>4, ListenerAssumption DEF ListenerInv, SlotsSound, NoConn
<1>8. Taken' = Taken \cup {s} /\ s \notin Taken
    BY <1>4, <1>5, <1>7 DEF Taken, NoConn
<1>9. Flagged' = Flagged \cup {s} /\ s \notin Flagged
    BY <1>4, <1>5, <1>7 DEF Flagged
<1>10. startups' = Cardinality(Taken') /\ listening' = Cardinality(Flagged')
    BY <1>1, <1>2, <1>5, <1>8, <1>9, SlotSets, FS_AddElement
<1>11. ListenerTypeOK'
    BY <1>1, <1>4, <1>5, <1>6, <1>10 DEF ListenerTypeOK, ProcStates
<1>12. \A j \in Taken : startup_pipes[j] \in Conns /\ startup_pipes[j] # c
    BY <1>1 DEF Taken, ListenerInv, SlotsSound
<1>13. \A j \in Taken : startup_pipes'[j] = startup_pipes[j]
                        /\ proc'[startup_pipes[j]] = proc[startup_pipes[j]]
                        /\ (startup_flags[j] => startup_flags'[j])
    BY <1>1, <1>5, <1>8, <1>12 DEF Taken
<1>14. SlotsSound'
  <2>1. \A j \in Slots : startup_flags'[j] => startup_pipes'[j] # NoConn
      BY <1>5, <1>7 DEF ListenerInv, SlotsSound
  <2>3. startup_pipes'[s] = c /\ proc'[c] = state /\ startup_flags'[s]
      BY <1>1, <1>4, <1>5
  <2>2. \A i, j \in Taken' : startup_pipes'[i] = startup_pipes'[j] => i = j
    <3>1. \A i, j \in Taken : startup_pipes'[i] = startup_pipes'[j] => i = j
        BY <1>13 DEF ListenerInv, SlotsSound
    <3>2. \A j \in Taken : startup_pipes'[j] # startup_pipes'[s]
        BY <1>12, <1>13, <2>3
    <3> QED BY <3>1, <3>2, <1>8
  <2>4. \A j \in Taken' : proc'[startup_pipes'[j]] \notin {"none", "refused"}
      BY <1>6, <1>8, <1>13, <2>3 DEF ListenerInv, SlotsSound
  <2>5. \A j \in Taken' : proc'[startup_pipes'[j]] = "starting" => startup_flags'[j]
      BY <1>8, <1>13, <2>3 DEF ListenerInv, SlotsSound
  <2>6. ASSUME NEW d \in Unauthenticated' PROVE \E j \in Slots : startup_pipes'[j] = d
    <3>1. CASE d = c
        BY <3>1, <2>3, <1>4
    <3>2. CASE d # c
      <4>1. d \in Unauthenticated
          BY <3>2, <2>6, <1>1, <1>5 DEF Unauthenticated
      <4>2. PICK j \in Slots : startup_pipes[j] = d
          BY <4>1 DEF ListenerInv, SlotsSound
      <4>3. j # s
          BY <4>1, <4>2, <1>4, ListenerAssumption DEF Unauthenticated, NoConn
      <4> QED BY <4>2, <4>3, <1>5
    <3> QED BY <3>1, <3>2
  <2> QED BY <2>1, <2>2, <2>4, <2>5, <2>6, <1>5 DEF SlotsSound
<1> QED BY <1>11, <1>14 DEF ListenerInv

\* A connection that is refused gets no slot.
LEMMA RefuseStep ==
    ASSUME ListenerInv, NEW c \in Conns, proc[c] = "none",
           proc' = [proc EXCEPT ![c] = "refused"], loop' = "check",
           UNCHANGED <<startup_pipes, startup_flags, startups, listening>>
    PROVE  ListenerInv'
<1>1. Taken' = Taken /\ Flagged' = Flagged
    BY DEF Taken, Flagged
<1>2. ListenerTypeOK'
    BY <1>1 DEF ListenerInv, ListenerTypeOK, ProcStates
<1>3. Unauthenticated' \subseteq Unauthenticated
    BY DEF Unauthenticated, ListenerInv, ListenerTypeOK
<1>4. \A j \in Taken : proc'[startup_pipes[j]] = proc[startup_pipes[j]]
    BY DEF Taken, ListenerInv, ListenerTypeOK, SlotsSound
<1>5. SlotsSound'
    BY <1>1, <1>3, <1>4 DEF ListenerInv, SlotsSound
<1> QED BY <1>2, <1>5 DEF ListenerInv

LEMMA ListenerStep == ListenerInv /\ [ListenerNext]_listenerVars => ListenerInv'
<1> SUFFICES ASSUME ListenerInv, [ListenerNext]_listenerVars PROVE ListenerInv'
    OBVIOUS
<1>1. CASE sighup_handler
    BY <1>1, SignalStep DEF sighup_handler, Running
<1>2. CASE sigterm_handler
    BY <1>2, SignalStep DEF sigterm_handler, Running
<1>3. CASE sighup_restart
    BY <1>3, SignalStep DEF sighup_restart
<1>4. CASE SelectReturns
  <2>1. CASE received_sigterm
      BY <2>1, <1>4, SignalStep DEF SelectReturns
  <2>2. CASE ~received_sigterm
      BY <2>2, <1>4, ReadStep DEF SelectReturns
  <2> QED BY <2>1, <2>2
<1>5. CASE NoAccept
    BY <1>5, SignalStep DEF NoAccept
<1>6. ASSUME NEW c \in Conns, Accept(c) PROVE ListenerInv'
    BY <1>6, ForkStep, RefuseStep DEF Accept
<1>7. ASSUME NEW c \in Conns,
             recv_rexec_state(c) \/ authenticated(c) \/ grace_alarm_handler(c)
      PROVE  ListenerInv'
    BY <1>7, BecomesStep DEF recv_rexec_state, authenticated, grace_alarm_handler
<1>8. CASE UNCHANGED listenerVars
    BY <1>8, SignalStep DEF listenerVars
<1> QED BY <1>1, <1>2, <1>3, <1>4, <1>5, <1>6, <1>7, <1>8 DEF ListenerNext

\* What the invariant says of the counters, of MaxStartups and of the restart.
LEMMA ListenerSound == ListenerInv => StartupsExact /\ RestartSafe
<1> SUFFICES ASSUME ListenerInv PROVE StartupsExact /\ RestartSafe
    OBVIOUS
<1> DEFINE slot == [c \in Unauthenticated |-> CHOOSE j \in Slots : startup_pipes[j] = c]
<1>1. \A c \in Unauthenticated : slot[c] \in Slots /\ startup_pipes[slot[c]] = c
    BY DEF ListenerInv, SlotsSound
<1> HIDE DEF slot
<1>2. slot \in [Unauthenticated -> Slots]
    BY <1>1 DEF slot
<1>3. slot \in Injection(Unauthenticated, Slots)
    BY <1>1, <1>2 DEF Injection, IsInjective
<1>4. Cardinality(Unauthenticated) <= max_startups
    BY <1>3, SlotsFinite, FS_Injection
<1>5. StartupsExact
    BY <1>4 DEF ListenerInv, ListenerTypeOK, SlotsSound, StartupsExact, Taken, Flagged
<1>6. RestartSafe
  <2>1. SUFFICES ASSUME loop = "restarted", NEW c \in Conns, proc[c] = "starting" PROVE FALSE
      BY DEF RestartSafe
  <2>2. c \in Unauthenticated
      BY <2>1 DEF Unauthenticated
  <2>3. PICK j \in Slots : startup_pipes[j] = c
      BY <2>2 DEF ListenerInv, SlotsSound
  <2>4. j \in Taken
      BY <2>3, ListenerAssumption DEF Taken, NoConn
  <2> QED BY <2>1, <2>3, <2>4 DEF ListenerInv, SlotsSound
<1> QED BY <1>5, <1>6

----------------------------------------------------------------------------
(* The sessions: types.                                                    *)

USE DEF None, NoTty, Free

\* A session's entry replaced, and the fields of the entries that replace it.
LEMMA EntryReplaced ==
    ASSUME SessionTypeOK, NEW i \in DOMAIN sessions, NEW r \in SessionRec
    PROVE  /\ [sessions EXCEPT ![i] = r] \in Seq(SessionRec)
           /\ DOMAIN [sessions EXCEPT ![i] = r] = DOMAIN sessions
           /\ Len([sessions EXCEPT ![i] = r]) = Len(sessions)
           /\ [sessions EXCEPT ![i] = r][i] = r
           /\ \A j \in DOMAIN sessions : j # i => [sessions EXCEPT ![i] = r][j] = sessions[j]
BY DEF SessionTypeOK

LEMMA EntryTyped ==
    ASSUME SessionTypeOK, NEW i \in DOMAIN sessions
    PROVE  /\ sessions[i] \in SessionRec /\ i \in Nat \ {0}
           /\ DOMAIN sessions = 1 .. Len(sessions) /\ Len(sessions) \in Nat
BY DEF SessionTypeOK

LEMMA CloseTyped ==
    ASSUME SessionTypeOK, NEW f
    PROVE  Close(fds, f) \in [1 .. MaxFd -> Ttys \cup {Free, "pipe"}]
BY DEF SessionTypeOK, Close

LEMMA CleanupTyped ==
    ASSUME SessionTypeOK, NEW t \in Ttys \cup {NoTty}
    PROVE  Cleanup(t) \in [ttys : SUBSET Ttys, cleanup : Seq(Ttys)]
<1>1. mon \in [ttys : SUBSET Ttys, cleanup : Seq(Ttys)]
    BY DEF SessionTypeOK
<1>2. CASE t # NoTty
  <2>1. Append(mon.cleanup, t) \in Seq(Ttys)
      BY <1>1, <1>2
  <2>2. [mon EXCEPT !.cleanup = Append(@, t)] \in [ttys : SUBSET Ttys, cleanup : Seq(Ttys)]
      BY <1>1, <2>1
  <2> QED BY <2>2, <1>2 DEF Cleanup
<1> QED BY <1>1, <1>2 DEF Cleanup

LEMMA FirstFd ==
    ASSUME SessionTypeOK, FreeFds # {}
    PROVE  Min(FreeFds) \in 1 .. MaxFd /\ Min(FreeFds) \in Nat
<1>1. FreeFds \in SUBSET Nat /\ FreeFds \subseteq 1 .. MaxFd
    BY DEF FreeFds, SessionTypeOK
<1> QED BY <1>1, MinIn

LEMMA FirstChan ==
    ASSUME FreeChans # {}
    PROVE  Min(FreeChans) \in Chans /\ chan[Min(FreeChans)].type = Free
<1>1. FreeChans \in SUBSET Nat
    BY DEF FreeChans, Chans
<1>2. Min(FreeChans) \in FreeChans
    BY <1>1, MinIn
<1> QED BY <1>2 DEF FreeChans

LEMMA NewChan ==
    ASSUME NEW type \in {Free, "larval", "open", "x11", "auth", "zombie"},
           NEW user \in {"session", "x11", "none"}
    PROVE  /\ channel_new(type, user) \in ChanRec
           /\ \A single \in BOOLEAN :
                /\ [channel_new(type, user) EXCEPT !.single = single] \in ChanRec
                /\ [channel_new(type, user) EXCEPT !.single = single].type = type
                /\ [channel_new(type, user) EXCEPT !.single = single].user = user
                /\ [channel_new(type, user) EXCEPT !.single = single].exits = {}
                /\ [channel_new(type, user) EXCEPT !.single = single].started = {}
BY DEF channel_new, ChanRec

LEMMA UnusedTyped ==
    ASSUME NEW n \in Nat
    PROVE  Unused(n) \in SessionRec /\ Unused(n).next = n /\ ~Unused(n).used
BY SessionAssumption DEF Unused, SessionRec

\* The entry that session_new() writes.
NewEntry(k) == [Unused(None) EXCEPT !.used = TRUE, !.chan = k]
LEMMA NewEntryTyped ==
    ASSUME NEW k \in Chans
    PROVE  /\ NewEntry(k) \in SessionRec /\ NewEntry(k).used /\ NewEntry(k).chan = k
           /\ NewEntry(k).pid = None /\ NewEntry(k).tty = NoTty /\ NewEntry(k).x11 = {}
<1>1. MaxChannel \in Nat
    BY SessionAssumption
<1>2. Unused(None) \in SessionRec
    BY <1>1 DEF Unused, SessionRec
<1> DEFINE u == Unused(None)
           v == [u EXCEPT !.used = TRUE]
<1>3. v \in SessionRec /\ v.used /\ v.pid = None /\ v.tty = NoTty /\ v.x11 = {}
    BY <1>2 DEF Unused, SessionRec
<1>4. NewEntry(k) = [v EXCEPT !.chan = k]
    BY DEF NewEntry
<1> HIDE DEF v
<1> QED BY <1>1, <1>3, <1>4 DEF SessionRec, Chans

\* The entries of a session that gets a terminal, gets a process, loses both, or whose
\* X11 listeners or mark change.
LEMMA FieldSet ==
    ASSUME NEW r \in SessionRec
    PROVE  /\ \A t \in Ttys \cup {NoTty} : [r EXCEPT !.tty = t] \in SessionRec
           /\ \A f \in Nat : [r EXCEPT !.ptyfd = f] \in SessionRec
           /\ \A p \in Pids \cup {None} : [r EXCEPT !.pid = p] \in SessionRec
           /\ \A b \in BOOLEAN : [r EXCEPT !.is_subsystem = b] \in SessionRec
           /\ \A x \in SUBSET Chans : [r EXCEPT !.x11 = x] \in SessionRec
BY DEF SessionRec

LEMMA FieldsSet ==
    ASSUME NEW r \in SessionRec, NEW t \in Ttys \cup {NoTty}, NEW f \in Nat,
           NEW p \in Pids \cup {None}, NEW b \in BOOLEAN
    PROVE  /\ [r EXCEPT !.tty = t, !.ptyfd = f] \in SessionRec
           /\ [r EXCEPT !.pid = p, !.is_subsystem = b] \in SessionRec
           /\ [r EXCEPT !.pid = p, !.tty = t] \in SessionRec
<1> DEFINE u == [r EXCEPT !.tty = t]
           v == [r EXCEPT !.pid = p]
<1>1. /\ [r EXCEPT !.tty = t, !.ptyfd = f] = [u EXCEPT !.ptyfd = f]
      /\ [r EXCEPT !.pid = p, !.is_subsystem = b] = [v EXCEPT !.is_subsystem = b]
      /\ [r EXCEPT !.pid = p, !.tty = t] = [v EXCEPT !.tty = t]
    OBVIOUS
<1>2. u \in SessionRec /\ v \in SessionRec
    BY FieldSet
<1> HIDE DEF u, v
<1> QED BY <1>1, <1>2, FieldSet

LEMMA ChanFieldSet ==
    ASSUME NEW c \in ChanRec
    PROVE  /\ \A t \in {"open", "zombie"} : [c EXCEPT !.type = t] \in ChanRec
           /\ \A f \in Nat : [c EXCEPT !.fd = f] \in ChanRec
           /\ \A P \in SUBSET Pids : /\ [c EXCEPT !.started = P] \in ChanRec
                                     /\ [c EXCEPT !.exits = P] \in ChanRec
           /\ [c EXCEPT !.user = "none"] \in ChanRec
           /\ [c EXCEPT !.closed = TRUE] \in ChanRec
           /\ [c EXCEPT !.sent = TRUE] \in ChanRec
           /\ [c EXCEPT !.rcvd = TRUE] \in ChanRec
           /\ [c EXCEPT !.detach_close = TRUE] \in ChanRec
BY DEF ChanRec

LEMMA ChanFieldsSet ==
    ASSUME NEW c \in ChanRec, NEW f \in Nat, NEW p \in Pids
    PROVE  /\ [c EXCEPT !.closed = TRUE, !.fd = f] \in ChanRec
           /\ [c EXCEPT !.user = "none", !.type = "zombie"] \in ChanRec
           /\ [c EXCEPT !.type = "open", !.fd = f, !.started = {p}] \in ChanRec
           /\ [c EXCEPT !.detach_close = TRUE, !.exits = @ \cup {p}, !.fd = f] \in ChanRec
<1> DEFINE u == [c EXCEPT !.closed = TRUE]
           v == [c EXCEPT !.user = "none"]
           w == [c EXCEPT !.type = "open"]
           x == [c EXCEPT !.detach_close = TRUE]
<1>1. u \in ChanRec /\ v \in ChanRec /\ w \in ChanRec /\ x \in ChanRec
    BY ChanFieldSet
<1>2. /\ [c EXCEPT !.closed = TRUE, !.fd = f] = [u EXCEPT !.fd = f]
      /\ [c EXCEPT !.user = "none", !.type = "zombie"] = [v EXCEPT !.type = "zombie"]
      /\ [c EXCEPT !.type = "open", !.fd = f, !.started = {p}]
            = [w EXCEPT !.fd = f, !.started = {p}]
      /\ [c EXCEPT !.detach_close = TRUE, !.exits = @ \cup {p}, !.fd = f]
            = [x EXCEPT !.exits = c.exits \cup {p}, !.fd = f]
    BY DEF ChanRec
<1>3. c.exits \cup {p} \in SUBSET Pids /\ {p} \in SUBSET Pids
    BY DEF ChanRec
<1> HIDE DEF u, v, w, x
<1> DEFINE y == [w EXCEPT !.fd = f]
           z == [x EXCEPT !.exits = c.exits \cup {p}]
<1>4. y \in ChanRec /\ z \in ChanRec
    BY <1>1, <1>3, ChanFieldSet
<1>5. /\ [w EXCEPT !.fd = f, !.started = {p}] = [y EXCEPT !.started = {p}]
      /\ [x EXCEPT !.exits = c.exits \cup {p}, !.fd = f] = [z EXCEPT !.fd = f]
    OBVIOUS
<1> HIDE DEF y, z
<1> QED BY <1>1, <1>2, <1>3, <1>4, <1>5, ChanFieldSet

----------------------------------------------------------------------------
(* The free list.                                                          *)

\* list visits the slots of unused, from first, along next.
Chained(list, unused, first, next) ==
    LET last == Cardinality(unused) IN
    /\ list \in Bijection(1 .. last, unused)
    /\ first = IF last = 0 THEN None ELSE list[1]
    /\ \A n \in 1 .. last : next[list[n]] = IF n = last THEN None ELSE list[n + 1]
FreeList(unused, first, next) == \E list : Chained(list, unused, first, next)

UnusedSlots == DOMAIN sessions \ Used
Links == [i \in DOMAIN sessions |-> sessions[i].next]

LEMMA FreeListMeans == FreeListSound <=> FreeList(UnusedSlots, sessions_first_unused, Links)
<1>1. \A list \in Bijection(1 .. Cardinality(UnusedSlots), UnusedSlots) :
        \A n \in 1 .. Cardinality(UnusedSlots) : Links[list[n]] = sessions[list[n]].next
    BY DEF Bijection, Injection, UnusedSlots, Links
<1> QED BY <1>1 DEF FreeListSound, FreeList, Chained, UnusedSlots

\* A slot put in front.
LEMMA Push ==
    ASSUME NEW U, IsFiniteSet(U), NEW first, NEW next, FreeList(U, first, next),
           NEW i, i \notin U, NEW next2, next2[i] = first, \A j \in U : next2[j] = next[j]
    PROVE  FreeList(U \cup {i}, i, next2)
<1>1. PICK list : Chained(list, U, first, next)
    BY DEF FreeList
<1> DEFINE last == Cardinality(U)
           list2 == [n \in 1 .. last + 1 |-> IF n = 1 THEN i ELSE list[n - 1]]
<1>2. last \in Nat /\ Cardinality(U \cup {i}) = last + 1
    BY FS_CardinalityType, FS_AddElement
<1>3. /\ list \in [1 .. last -> U]
      /\ \A m, n \in 1 .. last : list[m] = list[n] => m = n
      /\ \A u \in U : \E n \in 1 .. last : list[n] = u
      /\ first = IF last = 0 THEN None ELSE list[1]
      /\ \A n \in 1 .. last : next[list[n]] = IF n = last THEN None ELSE list[n + 1]
    BY <1>1 DEF Chained, Bijection, Injection, Surjection, IsInjective
<1> HIDE DEF last
<1>4. list2 \in [1 .. last + 1 -> U \cup {i}]
    BY <1>2, <1>3
<1>5. \A m, n \in 1 .. last + 1 : list2[m] = list2[n] => m = n
    BY <1>2, <1>3
<1>6. \A u \in U \cup {i} : \E n \in 1 .. last + 1 : list2[n] = u
  <2>1. list2[1] = i /\ 1 \in 1 .. last + 1
      BY <1>2
  <2>2. \A n \in 1 .. last : n + 1 \in 1 .. last + 1 /\ list2[n + 1] = list[n]
      BY <1>2
  <2> HIDE DEF list2
  <2>3. ASSUME NEW u \in U PROVE \E n \in 1 .. last + 1 : list2[n] = u
    <3>1. PICK n \in 1 .. last : list[n] = u
        BY <1>3
    <3> QED BY <3>1, <2>2
  <2> QED BY <2>1, <2>3
<1>7. \A n \in 1 .. last + 1 :
        next2[list2[n]] = IF n = last + 1 THEN None ELSE list2[n + 1]
  <2>1. SUFFICES ASSUME NEW n \in 1 .. last + 1
                 PROVE  next2[list2[n]] = IF n = last + 1 THEN None ELSE list2[n + 1]
      OBVIOUS
  <2>2. CASE n = 1
    <3>1. next2[list2[n]] = first
        BY <2>2
    <3>2. n # last + 1 => list2[n + 1] = list[1] /\ last # 0
        BY <2>2, <1>2
    <3> QED BY <2>2, <3>1, <3>2, <1>2, <1>3
  <2>3. CASE n # 1
    <3>1. n - 1 \in 1 .. last /\ list2[n] = list[n - 1] /\ list[n - 1] \in U
        BY <2>3, <1>2, <1>3
    <3>2. next2[list2[n]] = IF n - 1 = last THEN None ELSE list[n - 1 + 1]
        BY <3>1, <1>3
    <3>3. n # last + 1 => list2[n + 1] = list[n] /\ n - 1 + 1 = n /\ n - 1 # last
        BY <2>3, <1>2
    <3> QED BY <3>2, <3>3, <1>2
  <2> QED BY <2>2, <2>3
<1>8. list2[1] = i /\ last + 1 # 0
    BY <1>2
<1> HIDE DEF list2
<1>9. list2 \in Bijection(1 .. last + 1, U \cup {i})
    BY <1>4, <1>5, <1>6 DEF Bijection, Injection, Surjection, IsInjective
<1>10. Chained(list2, U \cup {i}, i, next2)
    BY <1>2, <1>7, <1>8, <1>9 DEF Chained
<1> QED BY <1>10 DEF FreeList

\* The first slot taken away.
LEMMA Pop ==
    ASSUME NEW U, IsFiniteSet(U), NEW first, NEW next, FreeList(U, first, next),
           first # None, NEW next2, \A j \in U \ {first} : next2[j] = next[j]
    PROVE  first \in U /\ FreeList(U \ {first}, next[first], next2)
<1>1. PICK list : Chained(list, U, first, next)
    BY DEF FreeList
<1> DEFINE last == Cardinality(U)
           list2 == [n \in 1 .. last - 1 |-> list[n + 1]]
<1>2. last \in Nat
    BY FS_CardinalityType
<1>3. /\ list \in [1 .. last -> U]
      /\ \A m, n \in 1 .. last : list[m] = list[n] => m = n
      /\ \A u \in U : \E n \in 1 .. last : list[n] = u
      /\ first = IF last = 0 THEN None ELSE list[1]
      /\ \A n \in 1 .. last : next[list[n]] = IF n = last THEN None ELSE list[n + 1]
    BY <1>1 DEF Chained, Bijection, Injection, Surjection, IsInjective
<1>4. Cardinality(U \ {first}) = IF first \in U THEN last - 1 ELSE last
    BY FS_RemoveElement
<1> HIDE DEF last
<1>5. last >= 1 /\ first = list[1] /\ first \in U
    BY <1>2, <1>3
<1>6. Cardinality(U \ {first}) = last - 1
    BY <1>4, <1>5
<1>7. list2 \in [1 .. last - 1 -> U \ {first}]
    BY <1>2, <1>3, <1>5
<1>8. \A m, n \in 1 .. last - 1 : list2[m] = list2[n] => m = n
    BY <1>2, <1>3
<1>9. \A u \in U \ {first} : \E n \in 1 .. last - 1 : list2[n] = u
  <2>1. SUFFICES ASSUME NEW u \in U \ {first} PROVE \E n \in 1 .. last - 1 : list2[n] = u
      OBVIOUS
  <2>2. PICK n \in 1 .. last : list[n] = u
      BY <1>3
  <2>3. n # 1
      BY <2>2, <1>5
  <2>4. n - 1 \in 1 .. last - 1 /\ list2[n - 1] = u
      BY <2>2, <2>3, <1>2
  <2> QED BY <2>4
<1>10. \A n \in 1 .. last - 1 :
        next2[list2[n]] = IF n = last - 1 THEN None ELSE list2[n + 1]
  <2>1. SUFFICES ASSUME NEW n \in 1 .. last - 1
                 PROVE  next2[list2[n]] = IF n = last - 1 THEN None ELSE list2[n + 1]
      OBVIOUS
  <2>2. list2[n] = list[n + 1] /\ list2[n] \in U \ {first} /\ n + 1 \in 1 .. last
      BY <1>2, <1>7
  <2>3. next2[list2[n]] = next[list[n + 1]]
      BY <2>2
  <2>4. n # last - 1 => n + 1 \in 1 .. last - 1 /\ list2[n + 1] = list[n + 1 + 1]
      BY <1>2
  <2>5. n + 1 = last <=> n = last - 1
      BY <1>2
  <2> QED BY <2>2, <2>3, <2>4, <2>5, <1>3
<1>11. next[first] = IF last - 1 = 0 THEN None ELSE list2[1]
    BY <1>2, <1>3, <1>5
<1> HIDE DEF list2
<1>12. list2 \in Bijection(1 .. last - 1, U \ {first})
    BY <1>7, <1>8, <1>9 DEF Bijection, Injection, Surjection, IsInjective
<1>13. Chained(list2, U \ {first}, next[first], next2)
    BY <1>6, <1>10, <1>11, <1>12 DEF Chained
<1> QED BY <1>5, <1>13 DEF FreeList

\* No first slot: there is no unused one.
LEMMA EmptyList ==
    ASSUME NEW U \in SUBSET (Nat \ {0}), IsFiniteSet(U), NEW next, FreeList(U, None, next)
    PROVE  U = {}
<1>1. PICK list : Chained(list, U, None, next)
    BY DEF FreeList
<1>2. Cardinality(U) \in Nat
    BY FS_CardinalityType
<1>3. ASSUME Cardinality(U) # 0 PROVE FALSE
  <2>1. list[1] = None /\ list \in [1 .. Cardinality(U) -> U]
      BY <1>1, <1>3 DEF Chained, Bijection, Injection
  <2>2. 1 \in 1 .. Cardinality(U)
      BY <1>2, <1>3
  <2> QED BY <2>1, <2>2
<1> QED BY <1>3, FS_EmptySet

\* The list of another table with the same links.
LEMMA SameList ==
    ASSUME NEW U, NEW first, NEW next, FreeList(U, first, next),
           NEW next2, \A j \in U : next2[j] = next[j]
    PROVE  FreeList(U, first, next2)
<1>1. PICK list : Chained(list, U, first, next)
    BY DEF FreeList
<1>2. \A n \in 1 .. Cardinality(U) : list[n] \in U
    BY <1>1 DEF Chained, Bijection, Injection
<1>3. Chained(list, U, first, next2)
    BY <1>1, <1>2 DEF Chained
<1> QED BY <1>3 DEF FreeList

----------------------------------------------------------------------------
(* The sessions: steps that change one part of the tables.                 *)

SameEntry(r, s) ==
    /\ r.used = s.used /\ r.next = s.next /\ r.chan = s.chan /\ r.pid = s.pid
    /\ r.tty = s.tty /\ r.x11 = s.x11
SameChannel(c, d) ==
    /\ c.type = d.type /\ c.user = d.user /\ c.started = d.started /\ c.exits = d.exits
SameSessions ==
    /\ DOMAIN sessions' = DOMAIN sessions /\ UNCHANGED sessions_first_unused
    /\ \A i \in DOMAIN sessions : SameEntry(sessions'[i], sessions[i])
SameChannels == \A k \in Chans : SameChannel(chan'[k], chan[k])
SameChildren == \A p \in Pids : child'[p] = Free <=> child[p] = Free

LEMMA SameTable ==
    ASSUME SessionInv, SameSessions
    PROVE  /\ Used' = Used /\ FreeListSound'
           /\ \A i \in Used : SameEntry(sessions'[i], sessions[i])
<1>1. Used' = Used
    BY DEF SameSessions, SameEntry, Used
<1>2. UnusedSlots' = UnusedSlots /\ Links' = Links
    BY <1>1 DEF SameSessions, SameEntry, UnusedSlots, Links
<1>3. FreeList(UnusedSlots, sessions_first_unused, Links)
    BY FreeListMeans DEF SessionInv
<1>4. FreeList(UnusedSlots, sessions_first_unused, Links)'
    BY <1>2, <1>3 DEF SameSessions
<1>5. (FreeListSound <=> FreeList(UnusedSlots, sessions_first_unused, Links))'
    BY FreeListMeans, PTL
<1>6. FreeListSound'
    BY <1>4, <1>5
<1> QED BY <1>1, <1>6 DEF SameSessions, Used

\* The entry of one session changes, its channel and its place in the list do not.
OneEntry(i, r) ==
    /\ i \in Used /\ r \in SessionRec /\ r.used /\ r.next = sessions[i].next
    /\ r.chan = sessions[i].chan
    /\ sessions' = [sessions EXCEPT ![i] = r] /\ UNCHANGED sessions_first_unused

LEMMA OneEntryTable ==
    ASSUME SessionInv, NEW i, NEW r, OneEntry(i, r)
    PROVE  /\ Used' = Used /\ FreeListSound' /\ sessions' \in Seq(SessionRec)
           /\ DOMAIN sessions' = DOMAIN sessions /\ i \in Used /\ r.chan = sessions[i].chan
           /\ sessions'[i] = r /\ \A j \in Used : j # i => sessions'[j] = sessions[j]
<1>1. SessionTypeOK /\ i \in DOMAIN sessions
    BY DEF SessionInv, OneEntry, Used
<1>2. /\ DOMAIN sessions' = DOMAIN sessions /\ sessions' \in Seq(SessionRec)
      /\ sessions'[i] = r /\ \A j \in DOMAIN sessions : j # i => sessions'[j] = sessions[j]
    BY <1>1, EntryReplaced DEF OneEntry
<1>3. Used' = Used
    BY <1>2 DEF Used, OneEntry
<1>4. UnusedSlots' = UnusedSlots /\ Links' = Links
    BY <1>2, <1>3 DEF UnusedSlots, Links, OneEntry
<1>5. FreeList(UnusedSlots, sessions_first_unused, Links)
    BY FreeListMeans DEF SessionInv
<1>6. FreeList(UnusedSlots, sessions_first_unused, Links)'
    BY <1>4, <1>5 DEF OneEntry
<1>7. (FreeListSound <=> FreeList(UnusedSlots, sessions_first_unused, Links))'
    BY FreeListMeans, PTL
<1>8. FreeListSound'
    BY <1>6, <1>7
<1>9. i \in Used /\ r.chan = sessions[i].chan
    BY DEF OneEntry
<1> QED BY <1>2, <1>3, <1>8, <1>9 DEF Used

LEMMA UsedFacts ==
    ASSUME SessionInv, NEW i \in Used
    PROVE  /\ i \in DOMAIN sessions /\ i \in Nat \ {0}
           /\ sessions[i] \in SessionRec /\ sessions[i].used /\ EntrySound(sessions[i])
           /\ sessions[i].chan \in Chans /\ chan[sessions[i].chan] \in ChanRec
           /\ ChannelSound(chan[sessions[i].chan])
           /\ sessions[i].pid \in Pids \cup {None} /\ sessions[i].tty \in Ttys \cup {NoTty}
           /\ sessions[i].x11 \subseteq Chans
<1>1. i \in DOMAIN sessions /\ sessions[i].used
    BY DEF Used
<1>2. sessions[i] \in SessionRec /\ i \in Nat \ {0}
    BY <1>1, EntryTyped DEF SessionInv
<1>3. EntrySound(sessions[i]) /\ sessions[i].chan \in Chans
    BY DEF SessionInv, EntriesSound, EntrySound, Fits
<1>4. chan[sessions[i].chan] \in ChanRec /\ ChannelSound(chan[sessions[i].chan])
    BY <1>3 DEF SessionInv, SessionTypeOK, ChannelsSound
<1>5. /\ sessions[i].pid \in Pids \cup {None} /\ sessions[i].tty \in Ttys \cup {NoTty}
      /\ sessions[i].x11 \subseteq Chans
    BY <1>2 DEF SessionRec
<1> QED BY <1>1, <1>2, <1>3, <1>4, <1>5


----------------------------------------------------------------------------
(* The terminals: what the steps of the sessions and of the monitor are in *)
(* module Terminal.                                                        *)

\* The session of channel c has terminal t.
Held(t, c) == \E i \in Used : sessions[i].tty = t /\ sessions[i].chan = c

\* The owner of a terminal, without choice.
OwnersKnown ==
    /\ tty_owner = [t \in Ttys |-> tty_owner[t]]
    /\ \A t \in Ttys :
        /\ \A c \in Chans : Held(t, c) => tty_owner[t] = c /\ t \in mon.ttys
        /\ (\A c \in Chans : ~Held(t, c)) =>
                tty_owner[t] = IF t \in mon.ttys THEN MaxChannel + 1 ELSE None
        /\ tty_owner[t] \in Chans => Held(t, tty_owner[t])

LEMMA Owner == SessionInv => OwnersKnown
<1>1. SUFFICES ASSUME SessionInv, NEW t \in Ttys
               PROVE  /\ \A c \in Chans : Held(t, c) => tty_owner[t] = c /\ t \in mon.ttys
                      /\ (\A c \in Chans : ~Held(t, c)) =>
                            tty_owner[t] = IF t \in mon.ttys THEN MaxChannel + 1 ELSE None
                      /\ tty_owner[t] \in Chans => Held(t, tty_owner[t])
  <2>1. tty_owner = [t \in Ttys |-> tty_owner[t]]
      BY DEF tty_owner
  <2> QED BY <2>1 DEF OwnersKnown
<1>2. ASSUME NEW i \in Used, sessions[i].tty = t
      PROVE  /\ tty_owner[t] = sessions[i].chan /\ sessions[i].chan \in Chans
             /\ t \in mon.ttys
  <2>1. t # NoTty
      BY SessionAssumption
  <2>2. \A j \in Used : sessions[j].tty = t => j = i
      BY <1>1, <1>2, <2>1 DEF SessionInv, EntriesApart
  <2>3. (CHOOSE j \in Used : sessions[j].tty = t) = i
      BY <1>2, <2>2
  <2>4. tty_owner[t] = sessions[CHOOSE j \in Used : sessions[j].tty = t].chan
      BY <1>2 DEF tty_owner
  <2>5. Fits(sessions[i], chan, child, mon.ttys)
      BY <1>1, UsedFacts DEF EntrySound
  <2> QED BY <1>2, <2>1, <2>3, <2>4, <2>5 DEF Fits
<1>3. ASSUME ~\E i \in Used : sessions[i].tty = t
      PROVE  tty_owner[t] = IF t \in mon.ttys THEN MaxChannel + 1 ELSE None
    BY <1>3 DEF tty_owner
<1>4. MaxChannel + 1 \notin Chans /\ None \notin Chans
    BY SessionAssumption DEF Chans
<1>5. \A c \in Chans : Held(t, c) => tty_owner[t] = c /\ t \in mon.ttys
    BY <1>2 DEF Held
<1>6. (\A c \in Chans : ~Held(t, c)) => ~\E i \in Used : sessions[i].tty = t
    BY <1>2 DEF Held
<1>7. tty_owner[t] \in Chans => Held(t, tty_owner[t])
    BY <1>2, <1>3, <1>4 DEF Held
<1> QED BY <1>3, <1>5, <1>6, <1>7

LEMMA OwnerNext == SessionInv' => OwnersKnown'
<1>1. (SessionInv => OwnersKnown)'
    BY Owner, PTL
<1> QED BY <1>1

TerminalStep == [T!Next]_tty_owner
\* What is shown of every step.
Kept == SessionInv' /\ TerminalStep

LEMMA SameOwners ==
    ASSUME SessionInv, SessionInv', mon'.ttys = mon.ttys,
           \A t \in Ttys : \A c \in Chans : Held(t, c)' <=> Held(t, c)
    PROVE  Kept
<1>1. OwnersKnown /\ OwnersKnown'
    BY Owner, OwnerNext
<1>2. ASSUME NEW t \in Ttys PROVE tty_owner'[t] = tty_owner[t]
  <2>1. CASE \E c \in Chans : Held(t, c)
    <3>1. PICK c \in Chans : Held(t, c)
        BY <2>1
    <3>2. Held(t, c)'
        BY <3>1
    <3> QED BY <1>1, <3>1, <3>2 DEF OwnersKnown
  <2>2. CASE \A c \in Chans : ~Held(t, c)
    <3>1. \A c \in Chans : ~Held(t, c)'
        BY <2>2
    <3> QED BY <1>1, <2>2, <3>1 DEF OwnersKnown
  <2> QED BY <2>1, <2>2
<1>3. tty_owner' = tty_owner
    BY <1>1, <1>2 DEF OwnersKnown
<1> QED BY <1>3 DEF Kept, TerminalStep

\* No session's channel or terminal changes.
LEMMA SameHolders ==
    ASSUME SessionInv, SessionInv', mon'.ttys = mon.ttys, Used' = Used,
           \A i \in Used : sessions'[i].tty = sessions[i].tty /\ sessions'[i].chan = sessions[i].chan
    PROVE  Kept
<1>1. \A t \in Ttys : \A c \in Chans : Held(t, c)' <=> Held(t, c)
    BY DEF Held
<1> QED BY <1>1, SameOwners

\* A session is without its terminal, if it had one; the monitor still has it.
LEMMA GivenUp ==
    ASSUME SessionInv, SessionInv', NEW i \in Used, mon'.ttys = mon.ttys, Used' \subseteq Used,
           \A j \in Used : j # i => j \in Used' /\ sessions'[j] = sessions[j],
           i \in Used' => sessions'[i].tty = NoTty
    PROVE  Kept
<1>1. OwnersKnown /\ OwnersKnown'
    BY Owner, OwnerNext
<1>2. /\ sessions[i].chan \in Chans /\ sessions[i].tty \in Ttys \cup {NoTty} /\ NoTty \notin Ttys
    BY UsedFacts, SessionAssumption
<1>3. ASSUME NEW t \in Ttys, NEW c \in Chans
      PROVE  Held(t, c)' <=> Held(t, c) /\ t # sessions[i].tty
  <2>1. ASSUME Held(t, c)' PROVE Held(t, c) /\ t # sessions[i].tty
    <3>1. PICK j \in Used' : sessions'[j].tty = t /\ sessions'[j].chan = c
        BY <2>1 DEF Held
    <3>2. j # i /\ j \in Used /\ sessions[j].tty = t /\ sessions[j].chan = c
        BY <3>1, <1>2
    <3>3. sessions[j].tty # sessions[i].tty
        BY <3>2, <1>2 DEF SessionInv, EntriesApart
    <3> QED BY <3>2, <3>3 DEF Held
  <2>2. ASSUME Held(t, c), t # sessions[i].tty PROVE Held(t, c)'
    <3>1. PICK j \in Used : sessions[j].tty = t /\ sessions[j].chan = c
        BY <2>2 DEF Held
    <3>2. j \in Used' /\ sessions'[j] = sessions[j]
        BY <2>2, <3>1
    <3> QED BY <3>1, <3>2 DEF Held
  <2> QED BY <2>1, <2>2
<1>4. CASE sessions[i].tty = NoTty
  <2>1. \A t \in Ttys : t # NoTty
      BY <1>2
  <2> QED BY <1>3, <1>4, <2>1, SameOwners
<1>5. CASE sessions[i].tty # NoTty
  <2>0. PICK t \in Ttys : t = sessions[i].tty
      BY <1>2, <1>5
  <2>1. Held(t, sessions[i].chan)
      BY <2>0 DEF Held
  <2>2. tty_owner[t] = sessions[i].chan /\ tty_owner[t] \in Chans /\ t \in mon.ttys
      BY <1>1, <1>2, <2>1 DEF OwnersKnown
  <2>3. \A c \in Chans : ~Held(t, c)'
      BY <1>3, <2>0
  <2>4. tty_owner'[t] = MaxChannel + 1
      BY <1>1, <2>1, <2>2, <2>3 DEF OwnersKnown
  <2>5. ASSUME NEW u \in Ttys, u # t PROVE tty_owner'[u] = tty_owner[u]
    <3>1. \A c \in Chans : Held(u, c)' <=> Held(u, c)
        BY <1>3, <2>0, <2>5
    <3>2. CASE \E c \in Chans : Held(u, c)
      <4>1. PICK c \in Chans : Held(u, c)
          BY <3>2
      <4>2. Held(u, c)'
          BY <3>1, <4>1
      <4> QED BY <1>1, <4>1, <4>2 DEF OwnersKnown
    <3>3. CASE \A c \in Chans : ~Held(u, c)
      <4>1. \A c \in Chans : ~Held(u, c)'
          BY <3>1, <3>3
      <4> QED BY <1>1, <3>3, <4>1 DEF OwnersKnown
    <3> QED BY <3>2, <3>3
  <2>6. tty_owner' = [tty_owner EXCEPT ![t] = MaxChannel + 1]
      BY <1>1, <2>1, <2>4, <2>5 DEF OwnersKnown
  <2>7. T!GiveUp(t)
      BY <2>2, <2>6 DEF T!GiveUp
  <2>8. T!Next
      BY <2>1, <2>7 DEF T!Next
  <2> QED BY <2>8 DEF Kept, TerminalStep
<1> QED BY <1>4, <1>5

\* A session without a terminal gets one that the monitor did not have.
LEMMA Acquired ==
    ASSUME SessionInv, SessionInv', NEW i \in Used, NEW t \in Ttys \ mon.ttys,
           sessions[i].tty = NoTty, Used' = Used, sessions'[i].tty = t,
           sessions'[i].chan = sessions[i].chan,
           \A j \in Used : j # i => sessions'[j] = sessions[j],
           mon'.ttys = mon.ttys \cup {t}
    PROVE  Kept
<1>1. OwnersKnown /\ OwnersKnown'
    BY Owner, OwnerNext
<1>2. PICK c \in Chans : c = sessions[i].chan
    BY UsedFacts
<1>3. Held(t, c)'
    BY <1>2 DEF Held
<1>4. \A d \in Chans : ~Held(t, d)
    BY <1>1 DEF OwnersKnown
<1>5. tty_owner[t] = None /\ tty_owner'[t] = c
    BY <1>1, <1>3, <1>4 DEF OwnersKnown
<1>6. ASSUME NEW u \in Ttys, u # t PROVE tty_owner'[u] = tty_owner[u]
  <2>1. ASSUME NEW d \in Chans PROVE Held(u, d)' <=> Held(u, d)
    <3>1. u # NoTty
        BY SessionAssumption
    <3> QED BY <1>6, <3>1 DEF Held
  <2>2. CASE \E d \in Chans : Held(u, d)
    <3>1. PICK d \in Chans : Held(u, d)
        BY <2>2
    <3>2. Held(u, d)'
        BY <2>1, <3>1
    <3> QED BY <1>1, <3>1, <3>2 DEF OwnersKnown
  <2>3. CASE \A d \in Chans : ~Held(u, d)
    <3>1. \A d \in Chans : ~Held(u, d)'
        BY <2>1, <2>3
    <3> QED BY <1>1, <1>6, <2>3, <3>1 DEF OwnersKnown
  <2> QED BY <2>2, <2>3
<1>7. tty_owner' = [tty_owner EXCEPT ![t] = c]
    BY <1>1, <1>5, <1>6 DEF OwnersKnown
<1>8. \A u \in Ttys : tty_owner[u] # c
  <2>1. SUFFICES ASSUME NEW u \in Ttys, tty_owner[u] = c PROVE FALSE
      OBVIOUS
  <2>2. Held(u, c)
      BY <1>1, <2>1 DEF OwnersKnown
  <2>3. PICK j \in Used : sessions[j].tty = u /\ sessions[j].chan = c
      BY <2>2 DEF Held
  <2>4. j = i
      BY <1>2, <2>3 DEF SessionInv, EntriesApart
  <2> QED BY <2>3, <2>4, SessionAssumption
<1>9. T!Acquire(t, c)
    BY <1>5, <1>7, <1>8 DEF T!Acquire
<1>10. T!Next
    BY <1>9 DEF T!Next
<1> QED BY <1>10 DEF Kept, TerminalStep

\* The monitor releases a terminal that no session has.
LEMMA Released ==
    ASSUME SessionInv, SessionInv', NEW t \in mon.ttys, t \in Ttys,
           \A i \in Used : sessions[i].tty # t, sessions' = sessions,
           mon'.ttys = mon.ttys \ {t}
    PROVE  Kept
<1>1. OwnersKnown /\ OwnersKnown'
    BY Owner, OwnerNext
<1>2. ASSUME NEW u \in Ttys, NEW c \in Chans PROVE Held(u, c)' <=> Held(u, c)
  <2>1. Used' = Used
      BY DEF Used
  <2> QED BY <2>1 DEF Held
<1>3. \A c \in Chans : ~Held(t, c)
    BY DEF Held
<1>4. \A c \in Chans : ~Held(t, c)'
    BY <1>2, <1>3
<1>5. tty_owner[t] = MaxChannel + 1 /\ tty_owner'[t] = None
    BY <1>1, <1>3, <1>4 DEF OwnersKnown
<1>6. ASSUME NEW u \in Ttys, u # t PROVE tty_owner'[u] = tty_owner[u]
  <2>1. CASE \E d \in Chans : Held(u, d)
    <3>1. PICK d \in Chans : Held(u, d)
        BY <2>1
    <3>2. Held(u, d)'
        BY <1>2, <3>1
    <3> QED BY <1>1, <3>1, <3>2 DEF OwnersKnown
  <2>2. CASE \A d \in Chans : ~Held(u, d)
    <3>1. \A d \in Chans : ~Held(u, d)'
        BY <1>2, <2>2
    <3> QED BY <1>1, <1>6, <2>2, <3>1 DEF OwnersKnown
  <2> QED BY <2>1, <2>2
<1>7. tty_owner' = [tty_owner EXCEPT ![t] = None]
    BY <1>1, <1>5, <1>6 DEF OwnersKnown
<1>8. T!Release(t)
    BY <1>5, <1>7 DEF T!Release
<1>9. T!Next
    BY <1>8 DEF T!Next
<1> QED BY <1>9 DEF Kept, TerminalStep

\* The sessions are gone; the monitor has their terminals, or has released them.
LEMMA AllGone ==
    ASSUME SessionInv, SessionInv', Used' = {},
           mon'.ttys = mon.ttys \/ (Used = {} /\ mon'.ttys = {})
    PROVE  Kept
<1>1. OwnersKnown /\ OwnersKnown'
    BY Owner, OwnerNext
<1>2. \A t \in Ttys : \A c \in Chans : ~Held(t, c)'
    BY DEF Held
<1>3. \A t \in Ttys : tty_owner'[t] = IF t \in mon'.ttys THEN MaxChannel + 1 ELSE None
    BY <1>1, <1>2 DEF OwnersKnown
<1>4. CASE mon'.ttys = mon.ttys
  <2>1. ASSUME NEW t \in Ttys
        PROVE  tty_owner'[t] = IF tty_owner[t] \in Chans THEN MaxChannel + 1 ELSE tty_owner[t]
    <3>1. CASE \E c \in Chans : Held(t, c)
        BY <1>1, <1>3, <1>4, <3>1 DEF OwnersKnown
    <3>2. CASE \A c \in Chans : ~Held(t, c)
      <4>1. tty_owner[t] = IF t \in mon.ttys THEN MaxChannel + 1 ELSE None
          BY <1>1, <3>2 DEF OwnersKnown
      <4>2. tty_owner[t] \notin Chans
          BY <4>1, SessionAssumption DEF Chans
      <4> QED BY <1>3, <1>4, <4>1, <4>2
    <3> QED BY <3>1, <3>2
  <2>2. tty_owner' = [t \in Ttys |->
            IF tty_owner[t] \in Chans THEN MaxChannel + 1 ELSE tty_owner[t]]
      BY <1>1, <2>1 DEF OwnersKnown
  <2>3. T!GiveUpAll
      BY <2>2 DEF T!GiveUpAll
  <2>4. T!Next
      BY <2>3 DEF T!Next
  <2> QED BY <2>4 DEF Kept, TerminalStep
<1>5. CASE Used = {} /\ mon'.ttys = {}
  <2>1. \A t \in Ttys : \A c \in Chans : ~Held(t, c)
      BY <1>5 DEF Held
  <2>2. \A t \in Ttys : tty_owner[t] \notin Chans
      BY <1>1, <2>1 DEF OwnersKnown
  <2>3. tty_owner' = [t \in Ttys |-> None]
      BY <1>1, <1>3, <1>5 DEF OwnersKnown
  <2>4. T!ReleaseAll
      BY <2>2, <2>3 DEF T!ReleaseAll
  <2>5. T!Next
      BY <2>4 DEF T!Next
  <2> QED BY <2>5 DEF Kept, TerminalStep
<1> QED BY <1>4, <1>5

----------------------------------------------------------------------------
(* The sessions: what a step does to the entries.                          *)

\* Flags of channels, descriptors, or whether a process has ended.
LEMMA QuietStep ==
    ASSUME SessionInv, SessionTypeOK', SameSessions, SameChannels, SameChildren, mon' = mon
    PROVE  Kept
<1>1. Used' = Used /\ FreeListSound' /\ \A i \in Used : SameEntry(sessions'[i], sessions[i])
    BY SameTable
<1>2. \A i \in Used : sessions[i] \in SessionRec
    BY EntryTyped DEF SessionInv, Used
<1>3. EntriesSound'
  <2>1. SUFFICES ASSUME NEW i \in Used PROVE EntrySound(sessions[i])'
      BY <1>1 DEF EntriesSound
  <2>2. SameEntry(sessions'[i], sessions[i]) /\ EntrySound(sessions[i])
      BY <1>1 DEF SessionInv, EntriesSound
  <2>3. sessions[i].pid # None => sessions[i].pid \in Pids
      BY <1>2 DEF SessionRec
  <2>4. sessions[i].x11 \subseteq Chans
      BY <1>2 DEF SessionRec
  <2> QED BY <2>2, <2>3, <2>4 DEF SameEntry, EntrySound, Fits, SameChannels, SameChannel, SameChildren
<1>4. ChannelsSound'
    BY DEF SessionInv, ChannelsSound, ChannelSound, SameChannels, SameChannel
<1>5. EntriesApart'
    BY <1>1 DEF SessionInv, EntriesApart, SameEntry
<1>6. NoOrphans'
    BY <1>1 DEF SessionInv, NoOrphans, SameEntry, SameChannels, SameChannel, SameChildren
<1>7. CleanupSound'
    BY <1>1 DEF SessionInv, CleanupSound, SameEntry
<1>8. SessionInv'
    BY <1>1, <1>3, <1>4, <1>5, <1>6, <1>7 DEF SessionInv
<1> QED BY <1>1, <1>8, SameHolders DEF SameEntry

\* One entry changed: what is to be shown of it, of the others and of the other tables.
LEMMA OneEntryStep ==
    ASSUME SessionInv, SessionTypeOK', NEW i, NEW r, OneEntry(i, r),
           Fits(r, chan', child', mon'.ttys),
           \A j \in Used \ {i} : Fits(sessions[j], chan', child', mon'.ttys),
           \A j \in Used \ {i} : /\ r.pid # None => sessions[j].pid # r.pid
                                 /\ r.tty # NoTty => sessions[j].tty # r.tty
                                 /\ r.x11 \cap sessions[j].x11 = {},
           ChannelsSound', NoOrphans', CleanupSound'
    PROVE  SessionInv'
<1>1. /\ Used' = Used /\ FreeListSound' /\ i \in Used
      /\ sessions'[i] = r /\ \A j \in Used : j # i => sessions'[j] = sessions[j]
    BY OneEntryTable
<1>2. EntriesSound'
  <2>1. ASSUME NEW j \in Used PROVE Fits(sessions'[j], chan', child', mon'.ttys)
      BY <1>1
  <2> QED BY <2>1, <1>1 DEF EntriesSound, EntrySound
<1>3. EntriesApart'
  <2>1. SUFFICES ASSUME NEW m \in Used, NEW j \in Used, m # j
                 PROVE  /\ sessions'[m].chan # sessions'[j].chan
                        /\ sessions'[m].pid # None => sessions'[m].pid # sessions'[j].pid
                        /\ sessions'[m].tty # NoTty => sessions'[m].tty # sessions'[j].tty
                        /\ sessions'[m].x11 \cap sessions'[j].x11 = {}
      BY <1>1 DEF EntriesApart
  <2>2. /\ sessions[m].chan # sessions[j].chan
        /\ sessions[m].pid # None => sessions[m].pid # sessions[j].pid
        /\ sessions[m].tty # NoTty => sessions[m].tty # sessions[j].tty
        /\ sessions[m].x11 \cap sessions[j].x11 = {}
      BY <2>1 DEF SessionInv, EntriesApart
  <2>3. r.chan = sessions[i].chan
      BY DEF OneEntry
  <2>4. CASE m = i
      BY <2>1, <2>2, <2>3, <2>4, <1>1
  <2>5. CASE j = i
      BY <2>1, <2>2, <2>3, <2>5, <1>1
  <2>6. CASE m # i /\ j # i
      BY <2>2, <2>6, <1>1
  <2> QED BY <2>4, <2>5, <2>6
<1> QED BY <1>1, <1>2, <1>3 DEF SessionInv

\* A session fits the tables after a step that leaves its part of them alone.
LEMMA StillFits ==
    ASSUME SessionInv, NEW j \in Used, SameChannel(chan'[sessions[j].chan], chan[sessions[j].chan]),
           \A k \in sessions[j].x11 : SameChannel(chan'[k], chan[k]),
           sessions[j].pid # None => child'[sessions[j].pid] # Free,
           mon.ttys \subseteq mon'.ttys
    PROVE  Fits(sessions[j], chan', child', mon'.ttys)
<1>1. Fits(sessions[j], chan, child, mon.ttys)
    BY DEF SessionInv, EntriesSound, EntrySound
<1> QED BY <1>1 DEF Fits, SameChannel

\* A session without a terminal gets one that the monitor has just allocated.
LEMMA PtyStep ==
    ASSUME SessionInv, SessionTypeOK', NEW i, NEW r, OneEntry(i, r), NEW t \in Ttys \ mon.ttys,
           sessions[i].tty = NoTty, r.pid = sessions[i].pid, r.x11 = sessions[i].x11, r.tty = t,
           chan' = chan, child' = child,
           mon'.ttys = mon.ttys \cup {t}, mon'.cleanup = mon.cleanup
    PROVE  Kept
<1>1. /\ Used' = Used /\ i \in Used /\ r.chan = sessions[i].chan
      /\ sessions'[i] = r /\ \A j \in Used : j # i => sessions'[j] = sessions[j]
    BY OneEntryTable
<1>2. \A j \in Used : Fits(sessions[j], chan', child', mon'.ttys)
    BY DEF SessionInv, EntriesSound, EntrySound, Fits
<1>3. Fits(r, chan', child', mon'.ttys)
    BY <1>1, <1>2 DEF Fits
<1>4. \A j \in Used : sessions[j].tty # t
    BY SessionAssumption DEF SessionInv, EntriesSound, EntrySound, Fits
<1>5. ChannelsSound'
    BY DEF SessionInv, ChannelsSound
<1>6. NoOrphans'
    BY <1>1 DEF SessionInv, NoOrphans
<1>7. CleanupSound'
    BY <1>1 DEF SessionInv, CleanupSound
<1>8. \A j \in Used \ {i} : /\ r.pid # None => sessions[j].pid # r.pid
                            /\ r.x11 \cap sessions[j].x11 = {}
    BY <1>1 DEF SessionInv, EntriesApart
<1>9. SessionInv'
    BY <1>2, <1>3, <1>4, <1>5, <1>6, <1>7, <1>8, OneEntryStep
<1> QED BY <1>1, <1>9, Acquired

\* A session without listeners gets some, on free channels.
LEMMA X11Step ==
    ASSUME SessionInv, SessionTypeOK', NEW i, NEW r, OneEntry(i, r), NEW new \in SUBSET Chans,
           \A k \in new : /\ chan[k].type = Free /\ chan'[k].type = "x11"
                          /\ chan'[k].user = "x11" /\ chan'[k].exits = {},
           \A k \in Chans \ new : chan'[k] = chan[k],
           sessions[i].x11 = {}, r.pid = sessions[i].pid, r.x11 = new, r.tty = sessions[i].tty,
           child' = child, mon' = mon
    PROVE  Kept
<1>1. /\ Used' = Used /\ i \in Used /\ r.chan = sessions[i].chan
      /\ sessions'[i] = r /\ \A j \in Used : j # i => sessions'[j] = sessions[j]
    BY OneEntryTable
<1>2. \A j \in Used : /\ sessions[j].chan \in Chans \ new
                      /\ sessions[j].x11 \subseteq Chans \ new
    BY UsedFacts DEF EntrySound, Fits
<1>3. \A j \in Used : Fits(sessions[j], chan', child', mon'.ttys)
    BY <1>2 DEF SessionInv, EntriesSound, EntrySound, Fits
<1>4. Fits(r, chan', child', mon'.ttys)
    BY <1>1, <1>3 DEF Fits
<1>5. ChannelsSound'
    BY DEF SessionInv, ChannelsSound, ChannelSound
<1>6. NoOrphans'
  <2>1. ASSUME NEW p \in Pids, child'[p] # Free PROVE \E j \in Used : sessions'[j].pid = p
      BY <2>1, <1>1 DEF SessionInv, NoOrphans
  <2>2. ASSUME NEW k \in Chans, chan'[k].user = "x11"
        PROVE  \E j \in Used : k \in sessions'[j].x11
    <3>1. CASE k \in new
        BY <3>1, <1>1
    <3>2. CASE k \notin new
      <4>1. PICK j \in Used : k \in sessions[j].x11
          BY <2>2, <3>2 DEF SessionInv, NoOrphans
      <4> QED BY <4>1, <1>1
    <3> QED BY <3>1, <3>2
  <2> QED BY <2>1, <2>2, <1>1 DEF NoOrphans
<1>7. CleanupSound'
    BY <1>1 DEF SessionInv, CleanupSound
<1>8. \A j \in Used \ {i} : /\ r.pid # None => sessions[j].pid # r.pid
                            /\ r.tty # NoTty => sessions[j].tty # r.tty
    BY <1>1 DEF SessionInv, EntriesApart
<1>9. \A j \in Used \ {i} : r.x11 \cap sessions[j].x11 = {}
    BY <1>2
<1>10. SessionInv'
    BY <1>3, <1>4, <1>5, <1>6, <1>7, <1>8, <1>9, OneEntryStep
<1> QED BY <1>1, <1>10, SameHolders

\* A session starts a process.
LEMMA ExecStep ==
    ASSUME SessionInv, SessionTypeOK', NEW i, NEW r, OneEntry(i, r), NEW p \in Pids,
           child[p] = Free, child'[p] # Free, \A q \in Pids \ {p} : child'[q] = child[q],
           chan[r.chan].type = "larval", chan'[r.chan].type = "open",
           chan'[r.chan].user = chan[r.chan].user, chan'[r.chan].exits = chan[r.chan].exits,
           chan'[r.chan].started = {p}, \A k \in Chans \ {r.chan} : chan'[k] = chan[k],
           r.pid = p, r.x11 = sessions[i].x11, r.tty = sessions[i].tty, mon' = mon
    PROVE  Kept
<1>1. /\ Used' = Used /\ i \in Used /\ r.chan = sessions[i].chan
      /\ sessions'[i] = r /\ \A j \in Used : j # i => sessions'[j] = sessions[j]
    BY OneEntryTable
<1>2. ASSUME NEW j \in Used PROVE /\ Fits(sessions[j], chan, child, mon.ttys)
                                  /\ sessions[j].chan \in Chans
                                  /\ sessions[j].x11 \subseteq Chans \ {r.chan}
                                  /\ sessions[j].pid \in Pids \cup {None}
                                  /\ sessions[j].pid # p
  <2>1. /\ Fits(sessions[j], chan, child, mon.ttys) /\ sessions[j].x11 \subseteq Chans
        /\ sessions[j].chan \in Chans /\ sessions[j].pid \in Pids \cup {None}
      BY UsedFacts DEF EntrySound
  <2>2. r.chan \notin sessions[j].x11
      BY <2>1 DEF Fits
  <2>3. sessions[j].pid # p
      BY <2>1, SessionAssumption DEF Fits
  <2> QED BY <2>1, <2>2, <2>3
<1>3. ASSUME NEW j \in Used \ {i} PROVE Fits(sessions[j], chan', child', mon'.ttys)
  <2>1. sessions[j].chan # r.chan
      BY <1>1 DEF SessionInv, EntriesApart
  <2> QED BY <1>2, <2>1 DEF Fits
<1>4. Fits(r, chan', child', mon'.ttys)
    BY <1>1, <1>2 DEF Fits
<1>5. ChannelsSound'
    BY DEF SessionInv, ChannelsSound, ChannelSound
<1>6. NoOrphans'
  <2>1. ASSUME NEW q \in Pids, child'[q] # Free PROVE \E j \in Used : sessions'[j].pid = q
    <3>1. CASE q = p
        BY <3>1, <1>1
    <3>2. CASE q # p
      <4>1. PICK j \in Used : sessions[j].pid = q
          BY <2>1, <3>2 DEF SessionInv, NoOrphans
      <4>2. j # i
        <5>1. Fits(sessions[i], chan, child, mon.ttys) /\ q # None
            BY <1>1, <1>2, SessionAssumption
        <5> QED BY <5>1, <4>1, <1>1 DEF Fits
      <4> QED BY <4>1, <4>2, <1>1
    <3> QED BY <3>1, <3>2
  <2>2. ASSUME NEW k \in Chans, chan'[k].user = "x11"
        PROVE  \E j \in Used : k \in sessions'[j].x11
    <3>1. PICK j \in Used : k \in sessions[j].x11
        BY <2>2 DEF SessionInv, NoOrphans
    <3> QED BY <3>1, <1>1
  <2> QED BY <2>1, <2>2, <1>1 DEF NoOrphans
<1>7. CleanupSound'
    BY <1>1 DEF SessionInv, CleanupSound
<1>8. \A j \in Used \ {i} : /\ r.x11 \cap sessions[j].x11 = {}
                            /\ r.tty # NoTty => sessions[j].tty # r.tty
    BY <1>1 DEF SessionInv, EntriesApart
<1>9. SessionInv'
    BY <1>2, <1>3, <1>4, <1>5, <1>6, <1>7, <1>8, OneEntryStep
<1> QED BY <1>1, <1>9, SameHolders

\* A session gives its terminal back to the monitor, and keeps it no longer.
LEMMA CleanupStep ==
    ASSUME SessionInv, NEW i \in Used, mon' = Cleanup(sessions[i].tty), Used' \subseteq Used,
           \A j \in Used' : IF j = i THEN sessions'[j].tty = NoTty
                            ELSE sessions'[j].tty = sessions[j].tty
    PROVE  /\ mon'.ttys = mon.ttys /\ CleanupSound'
           /\ mon' \in [ttys : SUBSET Ttys, cleanup : Seq(Ttys)]
<1> DEFINE t == sessions[i].tty
<1>1. t \in Ttys \cup {NoTty} /\ (t # NoTty => t \in mon.ttys)
    BY UsedFacts DEF EntrySound, Fits
<1>2. mon \in [ttys : SUBSET Ttys, cleanup : Seq(Ttys)] /\ NoTty \notin Ttys
    BY SessionAssumption DEF SessionInv, SessionTypeOK
<1>3. mon' \in [ttys : SUBSET Ttys, cleanup : Seq(Ttys)]
    BY <1>1, CleanupTyped DEF SessionInv
<1>4. /\ \A n \in DOMAIN mon.cleanup : mon.cleanup[n] \in mon.ttys /\ mon.cleanup[n] # t
      /\ \A m, n \in DOMAIN mon.cleanup : mon.cleanup[m] = mon.cleanup[n] => m = n
      /\ \A n \in DOMAIN mon.cleanup, j \in Used : sessions[j].tty # mon.cleanup[n]
    BY DEF SessionInv, CleanupSound
<1>5. \A j \in Used' : j \in Used /\ (t # NoTty => sessions'[j].tty # t)
                       /\ sessions'[j].tty \in {NoTty, sessions[j].tty}
    BY DEF SessionInv, EntriesApart
<1> HIDE DEF t
<1>6. mon' = Cleanup(t)
    BY DEF t
<1> DEFINE q == mon.cleanup
<1>7. CASE t = NoTty
  <2>1. mon' = mon
      BY <1>6, <1>7 DEF Cleanup
  <2>2. \A n \in DOMAIN q : q[n] # NoTty
      BY <1>2
  <2> QED BY <1>2, <1>4, <1>5, <2>1, <2>2 DEF CleanupSound
<1>8. CASE t # NoTty
  <2>1. mon'.ttys = mon.ttys /\ mon'.cleanup = Append(q, t) /\ q \in Seq(Ttys) /\ t \in Ttys
      BY <1>1, <1>2, <1>6, <1>8 DEF Cleanup
  <2>2. DOMAIN q = 1 .. Len(q) /\ Len(q) \in Nat
      BY <2>1
  <2>3. /\ DOMAIN mon'.cleanup = 1 .. Len(q) + 1 /\ mon'.cleanup[Len(q) + 1] = t
        /\ \A n \in 1 .. Len(q) : mon'.cleanup[n] = q[n]
      BY <2>1
  <2> HIDE DEF q
  <2>4. \A n \in 1 .. Len(q) + 1 : n \in 1 .. Len(q) \/ n = Len(q) + 1
      BY <2>2
  <2>5. \A n \in DOMAIN mon'.cleanup : mon'.cleanup[n] \in mon'.ttys
      BY <2>1, <2>2, <2>3, <2>4, <1>1, <1>4, <1>8 DEF q
  <2>6. \A m, n \in DOMAIN mon'.cleanup : mon'.cleanup[m] = mon'.cleanup[n] => m = n
    <3>1. /\ \A n \in 1 .. Len(q) : q[n] # t
          /\ \A m, n \in 1 .. Len(q) : q[m] = q[n] => m = n
        BY <2>2, <1>4 DEF q
    <3> QED BY <2>3, <2>4, <3>1
  <2>7. \A n \in DOMAIN mon'.cleanup, j \in Used' : sessions'[j].tty # mon'.cleanup[n]
    <3>1. \A n \in 1 .. Len(q) : \A j \in Used : sessions[j].tty # q[n]
        BY <2>2, <1>4 DEF q
    <3>2. \A n \in 1 .. Len(q) : q[n] # NoTty
        BY <2>1, <2>2, <1>2
    <3>3. \A j \in Used' : sessions'[j].tty # t
        BY <1>5, <1>8
    <3> QED BY <2>3, <2>4, <3>1, <3>2, <3>3, <1>5
  <2> QED BY <2>1, <2>5, <2>6, <2>7, <1>3 DEF CleanupSound
<1> QED BY <1>3, <1>7, <1>8

\* The channel of a session with a process is closed: only the terminal is given back.
LEMMA TtyCloseStep ==
    ASSUME SessionInv, SessionTypeOK', NEW i, NEW r, OneEntry(i, r),
           r.pid = sessions[i].pid, r.x11 = sessions[i].x11, r.tty = NoTty,
           chan' = chan, child' = child, mon' = Cleanup(sessions[i].tty)
    PROVE  Kept
<1>1. /\ Used' = Used /\ i \in Used /\ r.chan = sessions[i].chan
      /\ sessions'[i] = r /\ \A j \in Used : j # i => sessions'[j] = sessions[j]
    BY OneEntryTable
<1>2. mon'.ttys = mon.ttys /\ CleanupSound'
    BY <1>1, CleanupStep
<1>3. \A j \in Used : Fits(sessions[j], chan', child', mon'.ttys)
    BY <1>2 DEF SessionInv, EntriesSound, EntrySound
<1>4. Fits(r, chan', child', mon'.ttys)
    BY <1>1, <1>3 DEF Fits
<1>5. ChannelsSound'
    BY DEF SessionInv, ChannelsSound
<1>6. NoOrphans'
    BY <1>1 DEF SessionInv, NoOrphans
<1>7. \A j \in Used \ {i} : /\ r.pid # None => sessions[j].pid # r.pid
                            /\ r.x11 \cap sessions[j].x11 = {}
    BY <1>1 DEF SessionInv, EntriesApart
<1>8. SessionInv'
    BY <1>2, <1>3, <1>4, <1>5, <1>6, <1>7, OneEntryStep
<1> QED BY <1>1, <1>2, <1>8, GivenUp

\* The process of a session was waited for: its exit status goes to the session's channel.
LEMMA CollectStep ==
    ASSUME SessionInv, SessionTypeOK', NEW i, NEW r, OneEntry(i, r), NEW p \in Pids,
           sessions[i].pid = p, child'[p] = Free, \A q \in Pids \ {p} : child'[q] = child[q],
           chan'[r.chan].type = chan[r.chan].type, chan'[r.chan].user = chan[r.chan].user,
           chan'[r.chan].exits = chan[r.chan].exits \cup {p},
           chan'[r.chan].started = chan[r.chan].started,
           \A k \in Chans \ {r.chan} : chan'[k] = chan[k],
           r.pid = None, r.x11 = sessions[i].x11, r.tty = NoTty,
           mon' = Cleanup(sessions[i].tty)
    PROVE  Kept
<1>1. /\ Used' = Used /\ i \in Used /\ r.chan = sessions[i].chan
      /\ sessions'[i] = r /\ \A j \in Used : j # i => sessions'[j] = sessions[j]
    BY OneEntryTable
<1>2. mon'.ttys = mon.ttys /\ CleanupSound'
    BY <1>1, CleanupStep
<1>3. ASSUME NEW j \in Used
      PROVE  /\ Fits(sessions[j], chan, child, mon.ttys) /\ sessions[j].x11 \subseteq Chans
             /\ sessions[j].chan \in Chans /\ sessions[j].pid \in Pids \cup {None}
             /\ r.chan \notin sessions[j].x11
  <2>1. /\ Fits(sessions[j], chan, child, mon.ttys) /\ sessions[j].x11 \subseteq Chans
        /\ sessions[j].chan \in Chans /\ sessions[j].pid \in Pids \cup {None}
      BY UsedFacts DEF EntrySound
  <2>2. chan[r.chan].type \in {"larval", "open"}
      BY <1>1, UsedFacts DEF EntrySound, Fits
  <2> QED BY <2>1, <2>2 DEF Fits
<1>4. p # None /\ chan[r.chan].type = "open" /\ chan[r.chan].started = {p}
  <2>1. p # None
      BY SessionAssumption
  <2> QED BY <1>1, <1>3, <2>1 DEF Fits
<1>5. ASSUME NEW j \in Used \ {i} PROVE Fits(sessions[j], chan', child', mon'.ttys)
  <2>1. sessions[j].chan # r.chan /\ sessions[j].pid # p
      BY <1>1, <1>4 DEF SessionInv, EntriesApart
  <2> QED BY <1>2, <1>3, <2>1 DEF Fits
<1>6. Fits(r, chan', child', mon'.ttys)
    BY <1>1, <1>2, <1>3 DEF Fits
<1>7. ChannelsSound'
  <2>1. ASSUME NEW k \in Chans \ {r.chan} PROVE ChannelSound(chan'[k])
      BY DEF SessionInv, ChannelsSound
  <2>2. ChannelSound(chan[r.chan])
      BY <1>1, UsedFacts
  <2>3. ChannelSound(chan'[r.chan])
      BY <2>2, <1>4 DEF ChannelSound
  <2> QED BY <2>1, <2>3 DEF ChannelsSound, ChannelSound
<1>8. NoOrphans'
  <2>1. ASSUME NEW q \in Pids, child'[q] # Free PROVE \E j \in Used : sessions'[j].pid = q
    <3>1. PICK j \in Used : sessions[j].pid = q
        BY <2>1 DEF SessionInv, NoOrphans
    <3> QED BY <2>1, <3>1, <1>1
  <2>2. ASSUME NEW k \in Chans, chan'[k].user = "x11"
        PROVE  \E j \in Used : k \in sessions'[j].x11
    <3>1. PICK j \in Used : k \in sessions[j].x11
        BY <2>2 DEF SessionInv, NoOrphans
    <3> QED BY <3>1, <1>1
  <2> QED BY <2>1, <2>2, <1>1 DEF NoOrphans
<1>9. \A j \in Used \ {i} : r.x11 \cap sessions[j].x11 = {}
    BY <1>1 DEF SessionInv, EntriesApart
<1>10. SessionInv'
    BY <1>2, <1>5, <1>6, <1>7, <1>8, <1>9, OneEntryStep
<1> QED BY <1>1, <1>2, <1>10, GivenUp

\* A listener ends: its siblings are detached, and the session has no display.
LEMMA DisplayStep ==
    ASSUME SessionInv, SessionTypeOK', NEW i, NEW r, OneEntry(i, r),
           \A k \in sessions[i].x11 : ChannelSound(chan'[k]) /\ chan'[k].user # "x11",
           \A k \in Chans \ sessions[i].x11 : chan'[k] = chan[k],
           r.pid = sessions[i].pid, r.x11 = {}, r.tty = sessions[i].tty,
           child' = child, mon' = mon
    PROVE  Kept
<1>1. /\ Used' = Used /\ i \in Used /\ r.chan = sessions[i].chan
      /\ sessions'[i] = r /\ \A j \in Used : j # i => sessions'[j] = sessions[j]
    BY OneEntryTable
<1>2. ASSUME NEW j \in Used
      PROVE  /\ Fits(sessions[j], chan, child, mon.ttys) /\ sessions[j].x11 \subseteq Chans
             /\ sessions[j].chan \in Chans /\ sessions[j].chan \notin sessions[i].x11
  <2>1. /\ Fits(sessions[j], chan, child, mon.ttys) /\ sessions[j].x11 \subseteq Chans
        /\ sessions[j].chan \in Chans
      BY UsedFacts DEF EntrySound
  <2>2. Fits(sessions[i], chan, child, mon.ttys)
      BY <1>1, UsedFacts DEF EntrySound
  <2> QED BY <2>1, <2>2 DEF Fits
<1>3. ASSUME NEW j \in Used \ {i} PROVE Fits(sessions[j], chan', child', mon'.ttys)
  <2>1. sessions[j].x11 \cap sessions[i].x11 = {}
      BY <1>1 DEF SessionInv, EntriesApart
  <2> QED BY <1>2, <2>1 DEF Fits
<1>4. Fits(r, chan', child', mon'.ttys)
    BY <1>1, <1>2 DEF Fits
<1>5. ChannelsSound'
    BY DEF SessionInv, ChannelsSound, ChannelSound
<1>6. NoOrphans'
  <2>1. ASSUME NEW p \in Pids, child'[p] # Free PROVE \E j \in Used : sessions'[j].pid = p
      BY <2>1, <1>1 DEF SessionInv, NoOrphans
  <2>2. ASSUME NEW k \in Chans, chan'[k].user = "x11"
        PROVE  \E j \in Used : k \in sessions'[j].x11
    <3>1. PICK j \in Used : k \in sessions[j].x11
        BY <2>2 DEF SessionInv, NoOrphans
    <3>2. j # i
        BY <2>2, <3>1
    <3> QED BY <3>1, <3>2, <1>1
  <2> QED BY <2>1, <2>2, <1>1 DEF NoOrphans
<1>7. CleanupSound'
    BY <1>1 DEF SessionInv, CleanupSound
<1>8. \A j \in Used \ {i} : /\ r.pid # None => sessions[j].pid # r.pid
                            /\ r.tty # NoTty => sessions[j].tty # r.tty
    BY <1>1 DEF SessionInv, EntriesApart
<1>9. SessionInv'
    BY <1>3, <1>4, <1>5, <1>6, <1>7, <1>8, OneEntryStep
<1> QED BY <1>1, <1>9, SameHolders

\* The channel of no session changes: the agent's listener, or the end of one.
LEMMA OtherChannelStep ==
    ASSUME SessionInv, SessionTypeOK', NEW k \in Chans,
           chan[k].type \notin {"larval", "open"}, chan[k].user # "x11" \/ chan'[k].user = "x11",
           chan[k].user = "x11" => chan'[k].type \in {"x11", "zombie"},
           chan'[k].user = "x11" => chan[k].user = "x11", ChannelSound(chan'[k]),
           \A m \in Chans \ {k} : chan'[m] = chan[m],
           UNCHANGED <<sessions, sessions_first_unused, child, mon>>
    PROVE  Kept
<1>1. Used' = Used /\ FreeListSound'
    BY SameTable DEF SameSessions, SameEntry
<1>2. EntriesSound'
  <2>1. SUFFICES ASSUME NEW j \in Used PROVE Fits(sessions[j], chan', child, mon.ttys)
      BY <1>1 DEF EntriesSound, EntrySound
  <2>2. Fits(sessions[j], chan, child, mon.ttys) /\ sessions[j].x11 \subseteq Chans
      BY UsedFacts DEF EntrySound
  <2> QED BY <2>2 DEF Fits
<1>3. ChannelsSound'
    BY DEF SessionInv, ChannelsSound, ChannelSound
<1>4. EntriesApart'
    BY <1>1 DEF SessionInv, EntriesApart
<1>5. NoOrphans'
    BY <1>1 DEF SessionInv, NoOrphans
<1>6. CleanupSound'
    BY <1>1 DEF SessionInv, CleanupSound
<1>7. SessionInv'
    BY <1>1, <1>2, <1>3, <1>4, <1>5, <1>6 DEF SessionInv
<1> QED BY <1>1, <1>7, SameHolders

\* The slots of the table and their links are finite, and none is 0.
LEMMA SlotsOfTable ==
    ASSUME SessionInv
    PROVE  /\ UnusedSlots \in SUBSET (Nat \ {0}) /\ IsFiniteSet(UnusedSlots)
           /\ FreeList(UnusedSlots, sessions_first_unused, Links)
           /\ DOMAIN sessions = 1 .. Len(sessions) /\ Len(sessions) \in Nat
<1>1. DOMAIN sessions = 1 .. Len(sessions) /\ Len(sessions) \in Nat
    BY DEF SessionInv, SessionTypeOK
<1>2. IsFiniteSet(DOMAIN sessions)
    BY <1>1, FS_Interval
<1>3. IsFiniteSet(UnusedSlots)
    BY <1>2, FS_Subset DEF UnusedSlots
<1> QED BY <1>1, <1>3, FreeListMeans DEF UnusedSlots, SessionInv

\* The table after session_new(): one more slot is in use, and the list is sound.
LEMMA NewTable ==
    ASSUME SessionInv, NEW k \in Chans, session_new(k)
    PROVE  /\ sessions' \in Seq(SessionRec) /\ sessions_first_unused' \in Nat
           /\ NewSlot \notin Used /\ Used' = Used \cup {NewSlot}
           /\ sessions'[NewSlot] = NewEntry(k)
           /\ \A j \in Used : sessions'[j] = sessions[j]
           /\ FreeListSound'
<1> DEFINE i == NewSlot
           e == NewEntry(k)
           first == sessions_first_unused
<1>1. e \in SessionRec /\ e.used
    BY NewEntryTyped
<1>2. /\ sessions' = IF i \in DOMAIN sessions THEN [sessions EXCEPT ![i] = e]
                     ELSE Append(sessions, e)
      /\ sessions_first_unused' = IF i \in DOMAIN sessions THEN sessions[i].next ELSE None
    BY DEF session_new, NewEntry
<1>3. /\ UnusedSlots \in SUBSET (Nat \ {0}) /\ IsFiniteSet(UnusedSlots)
      /\ FreeList(UnusedSlots, first, Links)
      /\ DOMAIN sessions = 1 .. Len(sessions) /\ Len(sessions) \in Nat
    BY SlotsOfTable
<1>4. (FreeListSound <=> FreeList(UnusedSlots, sessions_first_unused, Links))'
    BY FreeListMeans, PTL
<1>5. SessionTypeOK /\ sessions \in Seq(SessionRec) /\ first \in Nat
    BY DEF SessionInv, SessionTypeOK
<1> HIDE DEF e
<1>6. CASE first # None
  <2>1. first \in UnusedSlots
      BY <1>3, <1>6, Pop
  <2>2. i = first /\ i \in DOMAIN sessions /\ i \notin Used
      BY <1>6, <2>1 DEF NewSlot, UnusedSlots
  <2> HIDE DEF i
  <2>3. /\ sessions' \in Seq(SessionRec) /\ DOMAIN sessions' = DOMAIN sessions
        /\ sessions'[i] = e /\ \A j \in DOMAIN sessions : j # i => sessions'[j] = sessions[j]
      BY <1>1, <1>2, <1>5, <2>2, EntryReplaced
  <2>4. Used' = Used \cup {i}
      BY <1>1, <2>2, <2>3 DEF Used
  <2>5. UnusedSlots' = UnusedSlots \ {first}
      BY <2>2, <2>3, <2>4 DEF UnusedSlots
  <2>6. Links[first] = sessions_first_unused' /\ sessions_first_unused' \in Nat
    <3>1. sessions[i] \in SessionRec
        BY <1>5, <2>2
    <3> QED BY <1>2, <2>2, <3>1 DEF Links, SessionRec
  <2>7. \A j \in UnusedSlots \ {first} : Links'[j] = Links[j]
      BY <2>2, <2>3 DEF Links, UnusedSlots
  <2>8. FreeList(UnusedSlots \ {first}, Links[first], Links')
      BY <1>3, <1>6, <2>7, Pop
  <2>9. FreeListSound'
      BY <1>4, <2>5, <2>6, <2>8
  <2> QED BY <2>2, <2>3, <2>4, <2>6, <2>9 DEF Used, i, e
<1>7. CASE first = None
  <2>1. i = Len(sessions) + 1 /\ i \notin DOMAIN sessions /\ i \notin Used
      BY <1>3, <1>7 DEF NewSlot, Used
  <2>2. UnusedSlots = {}
      BY <1>3, <1>7, EmptyList
  <2> HIDE DEF i
  <2>3. sessions' = Append(sessions, e) /\ sessions_first_unused' = first
      BY <1>2, <1>7, <2>1
  <2>4. /\ sessions' \in Seq(SessionRec) /\ DOMAIN sessions' = DOMAIN sessions \cup {i}
        /\ sessions'[i] = e /\ \A j \in DOMAIN sessions : sessions'[j] = sessions[j]
      BY <1>1, <1>3, <1>5, <2>1, <2>3
  <2>5. Used' = Used \cup {i}
      BY <1>1, <2>1, <2>4 DEF Used
  <2>6. UnusedSlots' = UnusedSlots
      BY <2>1, <2>4, <2>5 DEF UnusedSlots, Used
  <2>7. FreeList(UnusedSlots, first, Links')
      BY <1>3, <2>2, SameList
  <2>8. FreeListSound'
      BY <1>4, <2>3, <2>6, <2>7
  <2> QED BY <1>5, <2>1, <2>3, <2>4, <2>5, <2>8 DEF Used, i, e
<1> QED BY <1>6, <1>7

\* The client opens a session on a free channel.
LEMMA OpenStep ==
    ASSUME SessionInv, NEW k \in Chans, session_new(k), chan[k].type = Free, up = "up",
           up' = up, chan' = [chan EXCEPT ![k] = channel_new("larval", "session")],
           UNCHANGED <<child, fds, mon>>
    PROVE  Kept
<1> DEFINE i == NewSlot
           e == NewEntry(k)
           c == channel_new("larval", "session")
<1>1. /\ sessions' \in Seq(SessionRec) /\ sessions_first_unused' \in Nat
      /\ i \notin Used /\ Used' = Used \cup {i} /\ sessions'[i] = e
      /\ \A j \in Used : sessions'[j] = sessions[j]
      /\ FreeListSound'
    BY NewTable
<1>2. e.chan = k /\ e.pid = None /\ e.tty = NoTty /\ e.x11 = {}
    BY NewEntryTyped
<1>3. c \in ChanRec
    BY NewChan
<1>4. c.type = "larval" /\ c.user = "session" /\ c.exits = {} /\ c.started = {}
    BY DEF channel_new
<1> HIDE DEF i, e, c
<1>5. chan' \in [Chans -> ChanRec] /\ chan'[k] = c /\ \A m \in Chans \ {k} : chan'[m] = chan[m]
    BY <1>3 DEF SessionInv, SessionTypeOK, c
<1>6. SessionTypeOK'
    BY <1>1, <1>5 DEF SessionInv, SessionTypeOK
<1>7. ASSUME NEW j \in Used
      PROVE  Fits(sessions[j], chan', child, mon.ttys) /\ sessions[j].chan # k
  <2>1. Fits(sessions[j], chan, child, mon.ttys) /\ sessions[j].x11 \subseteq Chans
        /\ sessions[j].chan \in Chans
      BY UsedFacts DEF EntrySound
  <2>2. k \notin sessions[j].x11 /\ sessions[j].chan # k
      BY <2>1 DEF Fits
  <2> QED BY <2>1, <2>2, <1>5 DEF Fits
<1>8. Fits(e, chan', child, mon.ttys)
    BY <1>2, <1>4, <1>5 DEF Fits
<1>9. EntriesSound'
    BY <1>1, <1>7, <1>8 DEF EntriesSound, EntrySound
<1>10. ChannelsSound'
    BY <1>4, <1>5 DEF SessionInv, ChannelsSound, ChannelSound
<1>11. EntriesApart'
  <2>1. \A m, j \in Used : m # j =>
            /\ sessions'[m].chan # sessions'[j].chan
            /\ sessions'[m].pid # None => sessions'[m].pid # sessions'[j].pid
            /\ sessions'[m].tty # NoTty => sessions'[m].tty # sessions'[j].tty
            /\ sessions'[m].x11 \cap sessions'[j].x11 = {}
      BY <1>1 DEF SessionInv, EntriesApart
  <2>2. \A j \in Used : /\ sessions'[j].chan # sessions'[i].chan
                        /\ sessions'[i].pid = None /\ sessions'[i].tty = NoTty
                        /\ sessions'[i].x11 = {}
      BY <1>1, <1>2, <1>7
  <2> QED BY <1>1, <2>1, <2>2 DEF EntriesApart
<1>12. NoOrphans'
  <2>1. ASSUME NEW p \in Pids, child'[p] # Free PROVE \E j \in Used' : sessions'[j].pid = p
      BY <2>1, <1>1 DEF SessionInv, NoOrphans
  <2>2. ASSUME NEW m \in Chans, chan'[m].user = "x11"
        PROVE  \E j \in Used' : m \in sessions'[j].x11
      BY <2>2, <1>1, <1>4, <1>5 DEF SessionInv, NoOrphans
  <2> QED BY <2>1, <2>2 DEF NoOrphans
<1>13. CleanupSound'
  <2>1. \A n \in DOMAIN mon.cleanup : mon.cleanup[n] # NoTty
    <3>1. mon.cleanup \in Seq(Ttys)
        BY DEF SessionInv, SessionTypeOK
    <3> QED BY <3>1, SessionAssumption
  <2> QED BY <2>1, <1>1, <1>2 DEF SessionInv, CleanupSound
<1>14. SessionInv'
    BY <1>1, <1>6, <1>9, <1>10, <1>11, <1>12, <1>13 DEF SessionInv
<1>15. \A t \in Ttys : \A d \in Chans : Held(t, d)' <=> Held(t, d)
    BY <1>1, <1>2, SessionAssumption DEF Held
<1> QED BY <1>14, <1>15, SameOwners

\* A session without a process is closed: its slot goes to the front of the free list, its
\* listeners are detached, its channel is freed and its terminal given back.
LEMMA CloseStep ==
    ASSUME SessionInv, NEW i \in Used, sessions[i].pid = None,
           chan' \in [Chans -> ChanRec],
           chan'[sessions[i].chan] = NoChannel,
           \A k \in sessions[i].x11 : ChannelSound(chan'[k]) /\ chan'[k].user # "x11",
           \A k \in Chans \ (sessions[i].x11 \cup {sessions[i].chan}) : chan'[k] = chan[k],
           sessions' = [sessions EXCEPT ![i] = Unused(sessions_first_unused)],
           sessions_first_unused' = i, mon' = Cleanup(sessions[i].tty),
           fds' \in [1 .. MaxFd -> Ttys \cup {Free, "pipe"}], child' = child,
           up = "up", up' = "up"
    PROVE  Kept
<1> DEFINE e == Unused(sessions_first_unused)
<1>1. i \in DOMAIN sessions /\ SessionTypeOK /\ i \in Nat \ {0}
    BY UsedFacts DEF SessionInv
<1>2. e \in SessionRec /\ e.next = sessions_first_unused /\ ~e.used
    BY <1>1, UnusedTyped DEF SessionTypeOK
<1> HIDE DEF e
<1>3. /\ sessions' \in Seq(SessionRec) /\ DOMAIN sessions' = DOMAIN sessions
      /\ sessions'[i] = e /\ \A j \in DOMAIN sessions : j # i => sessions'[j] = sessions[j]
    BY <1>1, <1>2, EntryReplaced DEF e
<1>4. Used' = Used \ {i} /\ \A j \in Used' : sessions'[j] = sessions[j]
    BY <1>2, <1>3 DEF Used
<1>5. FreeListSound'
  <2>1. /\ IsFiniteSet(UnusedSlots) /\ FreeList(UnusedSlots, sessions_first_unused, Links)
      BY SlotsOfTable
  <2>2. i \notin UnusedSlots /\ UnusedSlots' = UnusedSlots \cup {i}
      BY <1>1, <1>3, <1>4 DEF UnusedSlots
  <2>3. Links'[i] = sessions_first_unused /\ \A j \in UnusedSlots : Links'[j] = Links[j]
      BY <1>1, <1>2, <1>3, <2>2 DEF Links, UnusedSlots
  <2>4. FreeList(UnusedSlots \cup {i}, i, Links')
      BY <2>1, <2>2, <2>3, Push
  <2>5. (FreeListSound <=> FreeList(UnusedSlots, sessions_first_unused, Links))'
      BY FreeListMeans, PTL
  <2> QED BY <2>2, <2>4, <2>5
<1>6. /\ mon'.ttys = mon.ttys /\ CleanupSound'
      /\ mon' \in [ttys : SUBSET Ttys, cleanup : Seq(Ttys)]
    BY <1>4, CleanupStep
<1>7. SessionTypeOK'
    BY <1>1, <1>3, <1>6 DEF SessionTypeOK
<1>8. ASSUME NEW j \in Used
      PROVE  /\ Fits(sessions[j], chan, child, mon.ttys) /\ sessions[j].x11 \subseteq Chans
             /\ sessions[j].chan \in Chans /\ sessions[j].chan \notin sessions[i].x11
             /\ sessions[i].chan \notin sessions[j].x11
  <2>1. /\ Fits(sessions[j], chan, child, mon.ttys) /\ sessions[j].x11 \subseteq Chans
        /\ sessions[j].chan \in Chans
      BY UsedFacts DEF EntrySound
  <2>2. Fits(sessions[i], chan, child, mon.ttys)
      BY UsedFacts DEF EntrySound
  <2> QED BY <2>1, <2>2 DEF Fits
<1>9. ASSUME NEW j \in Used' PROVE Fits(sessions[j], chan', child', mon'.ttys)
  <2>1. /\ j \in Used /\ sessions[j].x11 \cap sessions[i].x11 = {}
        /\ sessions[j].chan # sessions[i].chan
      BY <1>4 DEF SessionInv, EntriesApart
  <2>2. /\ chan'[sessions[j].chan] = chan[sessions[j].chan]
        /\ \A k \in sessions[j].x11 : chan'[k] = chan[k]
      BY <1>8, <2>1
  <2>3. Fits(sessions[j], chan, child, mon.ttys)
      BY <1>8, <2>1
  <2>4. sessions[j].pid # None => child[sessions[j].pid] # Free
      BY <2>3 DEF Fits
  <2> QED BY <1>6, <2>1, <2>2, <2>4, StillFits DEF SameChannel
<1>10. EntriesSound'
    BY <1>4, <1>9 DEF EntriesSound, EntrySound
<1>11. ChannelsSound'
  <2>1. ChannelSound(NoChannel)
      BY DEF ChannelSound, NoChannel, channel_new
  <2>2. ASSUME NEW k \in Chans PROVE ChannelSound(chan'[k])
      BY <2>1 DEF SessionInv, ChannelsSound
  <2> QED BY <2>2 DEF ChannelsSound, ChannelSound
<1>12. EntriesApart'
    BY <1>4 DEF SessionInv, EntriesApart
<1>13. NoOrphans'
  <2>1. ASSUME NEW p \in Pids, child'[p] # Free PROVE \E j \in Used' : sessions'[j].pid = p
    <3>1. PICK j \in Used : sessions[j].pid = p
        BY <2>1 DEF SessionInv, NoOrphans
    <3>2. j # i
        BY <3>1, SessionAssumption
    <3> QED BY <3>1, <3>2, <1>4
  <2>2. ASSUME NEW k \in Chans, chan'[k].user = "x11"
        PROVE  \E j \in Used' : k \in sessions'[j].x11
    <3>1. k # sessions[i].chan /\ k \notin sessions[i].x11
        BY <2>2 DEF NoChannel, channel_new
    <3>2. PICK j \in Used : k \in sessions[j].x11
        BY <2>2, <3>1 DEF SessionInv, NoOrphans
    <3> QED BY <3>1, <3>2, <1>4
  <2> QED BY <2>1, <2>2 DEF NoOrphans
<1>14. SessionInv'
    BY <1>5, <1>6, <1>7, <1>10, <1>11, <1>12, <1>13 DEF SessionInv
<1> QED BY <1>4, <1>6, <1>14, GivenUp

\* The monitor releases the terminal it was told of first.
LEMMA AnswerStep ==
    ASSUME SessionInv, mm_answer_pty_cleanup
    PROVE  Kept
<1> DEFINE q == mon.cleanup
           t == Head(q)
<1>1. /\ q # <<>> /\ mon' = [ttys |-> mon.ttys \ {t}, cleanup |-> Tail(q)]
      /\ UNCHANGED <<sessions, sessions_first_unused, chan, child, fds, up>>
    BY DEF mm_answer_pty_cleanup
<1>2. q \in Seq(Ttys) /\ mon.ttys \in SUBSET Ttys
    BY DEF SessionInv, SessionTypeOK
<1>3. /\ DOMAIN q = 1 .. Len(q) /\ Len(q) \in Nat /\ Len(q) >= 1 /\ t = q[1]
      /\ DOMAIN Tail(q) = 1 .. Len(q) - 1 /\ Tail(q) \in Seq(Ttys)
      /\ \A n \in 1 .. Len(q) - 1 : Tail(q)[n] = q[n + 1]
    BY <1>1, <1>2
<1>4. /\ \A n \in DOMAIN q : q[n] \in mon.ttys
      /\ \A m, n \in DOMAIN q : q[m] = q[n] => m = n
      /\ \A n \in DOMAIN q, i \in Used : sessions[i].tty # q[n]
    BY DEF SessionInv, CleanupSound
<1>5. mon'.ttys = mon.ttys \ {t} /\ mon'.cleanup = Tail(q)
    BY <1>1
<1> HIDE DEF q, t
<1>6. Used' = Used /\ FreeListSound'
    BY <1>1, SameTable DEF SameSessions, SameEntry
<1>7. SessionTypeOK'
  <2>1. mon' \in [ttys : SUBSET Ttys, cleanup : Seq(Ttys)]
      BY <1>1, <1>2, <1>3
  <2> QED BY <1>1, <2>1 DEF SessionInv, SessionTypeOK
<1>8. \A i \in Used : sessions[i].tty # t
    BY <1>3, <1>4
<1>9. EntriesSound'
    BY <1>1, <1>5, <1>6, <1>8 DEF SessionInv, EntriesSound, EntrySound, Fits
<1>10. CleanupSound'
  <2>1. \A n \in 1 .. Len(q) - 1 : n + 1 \in DOMAIN q /\ n + 1 # 1 /\ 1 \in DOMAIN q
      BY <1>3
  <2>2. \A n \in DOMAIN Tail(q) : Tail(q)[n] \in mon.ttys \ {t}
      BY <1>3, <1>4, <2>1
  <2>3. \A m, n \in DOMAIN Tail(q) : Tail(q)[m] = Tail(q)[n] => m = n
      BY <1>3, <1>4, <2>1
  <2>4. \A n \in DOMAIN Tail(q), i \in Used : sessions[i].tty # Tail(q)[n]
      BY <1>3, <1>4, <2>1
  <2> QED BY <1>1, <1>5, <1>6, <2>2, <2>3, <2>4 DEF CleanupSound
<1>11. ChannelsSound' /\ EntriesApart' /\ NoOrphans'
    BY <1>1, <1>6 DEF SessionInv, ChannelsSound, ChannelSound, EntriesApart, NoOrphans
<1>12. SessionInv'
    BY <1>6, <1>7, <1>9, <1>10, <1>11 DEF SessionInv
<1>13. t \in mon.ttys /\ t \in Ttys
    BY <1>2, <1>3, <1>4
<1> QED BY <1>1, <1>5, <1>8, <1>12, <1>13, Released

\* The tables are empty, the monitor's excepted.
NoSessions ==
    /\ sessions = <<>> /\ sessions_first_unused = None /\ chan = [k \in Chans |-> NoChannel]
    /\ child = [p \in Pids |-> Free] /\ fds \in [1 .. MaxFd -> Ttys \cup {Free, "pipe"}]
    /\ mon \in [ttys : SUBSET Ttys, cleanup : Seq(Ttys)]
    /\ up \in {"up", "ending", "down", "gone"}
    /\ \A n \in DOMAIN mon.cleanup : mon.cleanup[n] \in mon.ttys
    /\ \A m, n \in DOMAIN mon.cleanup : mon.cleanup[m] = mon.cleanup[n] => m = n

LEMMA NoSessionsInv == NoSessions => SessionInv
<1> SUFFICES ASSUME NoSessions PROVE SessionInv
    OBVIOUS
<1> USE DEF NoSessions
<1>1. Used = {} /\ DOMAIN sessions = {} /\ UnusedSlots = {}
    BY DEF Used, UnusedSlots
<1>2. NoChannel \in ChanRec /\ NoChannel.type = Free /\ ChannelSound(NoChannel)
      /\ NoChannel.user = "none"
    BY NewChan DEF NoChannel, channel_new, ChannelSound
<1>3. SessionTypeOK
    BY <1>2 DEF SessionTypeOK
<1>4. FreeListSound
  <2> DEFINE list == <<>>
  <2>1. Cardinality(UnusedSlots) = 0 /\ 1 .. 0 = {}
      BY <1>1, FS_EmptySet
  <2>2. list \in Bijection({}, {})
      BY DEF Bijection, Injection, Surjection, IsInjective
  <2>3. Chained(list, UnusedSlots, sessions_first_unused, Links)
      BY <1>1, <2>1, <2>2 DEF Chained
  <2> QED BY <2>3, FreeListMeans DEF FreeList
<1>5. EntriesSound /\ EntriesApart
    BY <1>1 DEF EntriesSound, EntriesApart
<1>6. ChannelsSound /\ NoOrphans
    BY <1>2 DEF ChannelsSound, NoOrphans
<1>7. CleanupSound
    BY <1>1 DEF CleanupSound
<1> QED BY <1>3, <1>4, <1>5, <1>6, <1>7 DEF SessionInv

LEMMA SessionInitInv == SessionInit => SessionInv
<1> SUFFICES ASSUME SessionInit PROVE SessionInv
    OBVIOUS
<1>1. mon = [ttys |-> {}, cleanup |-> <<>>] /\ mon.cleanup = <<>> /\ mon.ttys = {}
    BY DEF SessionInit
<1> QED BY <1>1, NoSessionsInv DEF SessionInit, NoSessions

LEMMA EndsStep ==
    ASSUME SessionInv, ConnectionEnds
    PROVE  Kept
<1>1. NoSessions'
    BY DEF ConnectionEnds, SessionInv, SessionTypeOK, CleanupSound, NoSessions
<1>2. (NoSessions => SessionInv)'
    BY NoSessionsInv, PTL
<1>3. SessionInv'
    BY <1>1, <1>2
<1>4. Used' = {} /\ mon'.ttys = mon.ttys
    BY DEF ConnectionEnds, Used
<1> QED BY <1>3, <1>4, AllGone

\* The monitor releases what is left when the connection is gone.
LEMMA MonitorEndsStep ==
    ASSUME SessionInv, do_cleanup
    PROVE  Kept
<1>1. /\ up = "down" /\ mon.cleanup = <<>> /\ up' = "gone" /\ mon' = [mon EXCEPT !.ttys = {}]
      /\ UNCHANGED <<sessions, sessions_first_unused, chan, child, fds>>
    BY DEF do_cleanup
<1>2. sessions = <<>> /\ mon \in [ttys : SUBSET Ttys, cleanup : Seq(Ttys)]
    BY <1>1 DEF SessionInv, SessionTypeOK
<1>3. /\ mon' \in [ttys : SUBSET Ttys, cleanup : Seq(Ttys)]
      /\ mon'.ttys = {} /\ mon'.cleanup = <<>>
    BY <1>1, <1>2
<1>4. Used = {} /\ Used' = Used /\ FreeListSound'
    BY <1>1, <1>2, SameTable DEF SameSessions, SameEntry, Used
<1>5. SessionTypeOK'
    BY <1>1, <1>2, <1>3 DEF SessionInv, SessionTypeOK
<1>6. EntriesSound' /\ EntriesApart' /\ CleanupSound'
    BY <1>3, <1>4 DEF EntriesSound, EntriesApart, CleanupSound
<1>7. ChannelsSound' /\ NoOrphans'
    BY <1>1, <1>4 DEF SessionInv, ChannelsSound, ChannelSound, NoOrphans
<1>8. SessionInv'
    BY <1>4, <1>5, <1>6, <1>7 DEF SessionInv
<1> QED BY <1>3, <1>4, <1>8, AllGone

----------------------------------------------------------------------------
(* The sessions: every action.                                             *)

LEMMA SameIsSame ==
    /\ UNCHANGED <<sessions, sessions_first_unused>> => SameSessions
    /\ chan' = chan => SameChannels
    /\ child' = child => SameChildren
BY DEF SameSessions, SameEntry, SameChannels, SameChannel, SameChildren

\* A step that leaves the tables alone; the connection may be about to end.
LEMMA IdleStep ==
    ASSUME SessionInv, UNCHANGED <<sessions, sessions_first_unused, chan, child, fds, mon>>,
           up' = up \/ (up = "up" /\ up' = "ending")
    PROVE  Kept
<1>1. SessionTypeOK'
    BY DEF SessionInv, SessionTypeOK
<1> QED BY <1>1, SameIsSame, QuietStep

LEMMA RequestSessionStep ==
    ASSUME SessionInv, server_request_session
    PROVE  Kept
<1>1. up = "up" /\ FreeChans # {} /\ UNCHANGED <<child, fds, mon>>
    BY DEF server_request_session
<1>2. CASE no_more_sessions
    BY <1>1, <1>2, IdleStep DEF server_request_session
<1>3. CASE ~no_more_sessions /\ CanOpen
  <2>1. Min(FreeChans) \in Chans /\ chan[Min(FreeChans)].type = Free
      BY <1>1, FirstChan
  <2> DEFINE k == Min(FreeChans)
  <2>2. /\ session_new(k) /\ up' = up
        /\ chan' = [chan EXCEPT ![k] = channel_new("larval", "session")]
      BY <1>3 DEF server_request_session
  <2> HIDE DEF k
  <2>3. k \in Chans /\ chan[k].type = Free
      BY <2>1 DEF k
  <2> QED BY <1>1, <2>2, <2>3, OpenStep
<1>4. CASE ~no_more_sessions /\ ~CanOpen
    BY <1>1, <1>4, IdleStep DEF server_request_session
<1> QED BY <1>2, <1>3, <1>4

LEMMA PtyReqStep ==
    ASSUME SessionInv, NEW i \in DOMAIN sessions, session_pty_req(i)
    PROVE  Kept
<1>1. /\ up = "up" /\ i \in Used /\ UNCHANGED <<sessions_first_unused, chan, child>>
    BY DEF session_pty_req, session_input_channel_req
<1>2. CASE sessions[i].tty # NoTty
    BY <1>1, <1>2, IdleStep DEF session_pty_req
<1>3. CASE sessions[i].tty = NoTty /\ UNCHANGED <<sessions, fds, mon>> /\ UNCHANGED up
    BY <1>1, <1>3, IdleStep
<1>4. CASE sessions[i].tty = NoTty /\ FreeFds # {} /\ UNCHANGED up
           /\ \E t \in FreeTtys :
                /\ sessions' = [sessions EXCEPT ![i].tty = t, ![i].ptyfd = Min(FreeFds)]
                /\ fds' = [fds EXCEPT ![Min(FreeFds)] = t]
                /\ mon' = [mon EXCEPT !.ttys = @ \cup {t}]
  <2>1. PICK t \in FreeTtys :
            /\ sessions' = [sessions EXCEPT ![i].tty = t, ![i].ptyfd = Min(FreeFds)]
            /\ fds' = [fds EXCEPT ![Min(FreeFds)] = t]
            /\ mon' = [mon EXCEPT !.ttys = @ \cup {t}]
      BY <1>4
  <2>2. Min(FreeFds) \in Nat
      BY <1>4, FirstFd DEF SessionInv
  <2> DEFINE f == Min(FreeFds)
             r == [sessions[i] EXCEPT !.tty = t, !.ptyfd = f]
  <2>3. t \in Ttys \ mon.ttys
      BY DEF FreeTtys
  <2>4. i \in DOMAIN sessions /\ sessions[i] \in SessionRec /\ sessions[i].used
      BY <1>1, UsedFacts
  <2>5. f \in Nat
      BY <2>2
  <2> HIDE DEF f
  <2>6. sessions' = [sessions EXCEPT ![i] = r]
      BY <2>1, <2>4 DEF SessionInv, SessionTypeOK, f
  <2>7. r \in SessionRec
      BY <2>3, <2>4, <2>5, FieldsSet
  <2>8. /\ r.used = sessions[i].used /\ r.next = sessions[i].next /\ r.chan = sessions[i].chan
        /\ r.pid = sessions[i].pid /\ r.x11 = sessions[i].x11 /\ r.tty = t
      BY <2>4 DEF SessionRec
  <2> HIDE DEF r
  <2>9. OneEntry(i, r)
      BY <1>1, <2>4, <2>6, <2>7, <2>8 DEF OneEntry
  <2>10. mon \in [ttys : SUBSET Ttys, cleanup : Seq(Ttys)]
      BY DEF SessionInv, SessionTypeOK
  <2>11. /\ mon' \in [ttys : SUBSET Ttys, cleanup : Seq(Ttys)]
         /\ mon'.ttys = mon.ttys \cup {t} /\ mon'.cleanup = mon.cleanup
      BY <2>1, <2>3, <2>10
  <2>12. fds' \in [1 .. MaxFd -> Ttys \cup {Free, "pipe"}]
      BY <2>1, <2>3 DEF SessionInv, SessionTypeOK
  <2>13. sessions' \in Seq(SessionRec)
      BY <2>9, OneEntryTable
  <2>14. SessionTypeOK'
      BY <1>1, <1>4, <2>11, <2>12, <2>13 DEF SessionInv, SessionTypeOK
  <2> QED BY <1>1, <1>4, <2>3, <2>8, <2>9, <2>11, <2>14, PtyStep
<1> QED BY <1>2, <1>3, <1>4 DEF session_pty_req

LEMMA X11ReqStep ==
    ASSUME SessionInv, NEW i \in DOMAIN sessions, NEW single \in BOOLEAN,
           session_x11_req(i, single)
    PROVE  Kept
<1>1. /\ up = "up" /\ i \in Used
      /\ UNCHANGED <<sessions_first_unused, child, fds, mon, up>>
    BY DEF session_x11_req, session_input_channel_req
<1>2. CASE sessions[i].x11 # {}
    BY <1>1, <1>2, IdleStep DEF session_x11_req
<1>3. CASE sessions[i].x11 = {}
  <2> DEFINE new == LowestFree(XSocks)
             c == [channel_new("x11", "x11") EXCEPT !.single = single]
             r == [sessions[i] EXCEPT !.x11 = new]
  <2>1. /\ sessions' = [sessions EXCEPT ![i].x11 = new]
        /\ chan' = [k \in Chans |-> IF k \in new THEN c ELSE chan[k]]
      BY <1>3 DEF session_x11_req
  <2>2. new \in SUBSET Chans /\ \A k \in new : chan[k].type = Free
      BY DEF LowestFree, FreeChans
  <2>3. i \in DOMAIN sessions /\ sessions[i] \in SessionRec /\ sessions[i].used
      BY <1>1, UsedFacts
  <2>4. c \in ChanRec /\ c.type = "x11" /\ c.user = "x11" /\ c.exits = {}
      BY NewChan
  <2> HIDE DEF new, c
  <2>5. sessions' = [sessions EXCEPT ![i] = r]
      BY <2>1, <2>3 DEF SessionInv, SessionTypeOK
  <2>6. r \in SessionRec
      BY <2>2, <2>3, FieldSet
  <2>7. /\ r.used = sessions[i].used /\ r.next = sessions[i].next /\ r.chan = sessions[i].chan
        /\ r.pid = sessions[i].pid /\ r.x11 = new /\ r.tty = sessions[i].tty
      BY <2>3 DEF SessionRec
  <2> HIDE DEF r
  <2>8. OneEntry(i, r)
      BY <1>1, <2>3, <2>5, <2>6, <2>7 DEF OneEntry
  <2>9. chan' \in [Chans -> ChanRec] /\ sessions' \in Seq(SessionRec)
      BY <2>1, <2>4, <2>8, OneEntryTable DEF SessionInv, SessionTypeOK
  <2>10. SessionTypeOK'
      BY <1>1, <2>9 DEF SessionInv, SessionTypeOK
  <2>11. \A k \in new : /\ chan[k].type = Free /\ chan'[k].type = "x11"
                        /\ chan'[k].user = "x11" /\ chan'[k].exits = {}
      BY <2>1, <2>2, <2>4
  <2>12. \A k \in Chans \ new : chan'[k] = chan[k]
      BY <2>1
  <2> QED BY <1>1, <1>3, <2>2, <2>7, <2>8, <2>10, <2>11, <2>12, X11Step
<1> QED BY <1>2, <1>3

LEMMA AgentReqStep ==
    ASSUME SessionInv, NEW i \in DOMAIN sessions, NEW ok \in BOOLEAN,
           session_auth_agent_req(i, ok)
    PROVE  Kept
<1>1. /\ up = "up" /\ UNCHANGED <<sessions, sessions_first_unused, child, fds, mon, up>>
    BY DEF session_auth_agent_req, session_input_channel_req
<1>2. CASE chan' = chan
    BY <1>1, <1>2, IdleStep
<1>3. CASE FreeChans # {} /\ chan' = [chan EXCEPT ![Min(FreeChans)] = channel_new("auth", "none")]
  <2> DEFINE k == Min(FreeChans)
             c == channel_new("auth", "none")
  <2>1. k \in Chans /\ chan[k].type = Free
      BY <1>3, FirstChan
  <2>2. c \in ChanRec /\ c.user = "none" /\ ChannelSound(c)
      BY NewChan DEF channel_new, ChannelSound
  <2>3. chan' = [chan EXCEPT ![k] = c]
      BY <1>3
  <2> HIDE DEF k, c
  <2>4. chan' \in [Chans -> ChanRec] /\ chan'[k] = c /\ \A m \in Chans \ {k} : chan'[m] = chan[m]
      BY <2>1, <2>2, <2>3 DEF SessionInv, SessionTypeOK
  <2>5. SessionTypeOK'
      BY <1>1, <2>4 DEF SessionInv, SessionTypeOK
  <2>6. chan[k].user = "none"
      BY <2>1 DEF SessionInv, ChannelsSound, ChannelSound
  <2> QED BY <1>1, <2>1, <2>2, <2>4, <2>5, <2>6, OtherChannelStep
<1> QED BY <1>2, <1>3 DEF session_auth_agent_req

\* The mark of a session changes, and descriptors.
LEMMA ExecFailsStep ==
    ASSUME SessionInv, NEW i \in Used, NEW b \in BOOLEAN, ExecFails(i, b),
           UNCHANGED <<sessions_first_unused, mon, up>>
    PROVE  Kept
<1> DEFINE r == [sessions[i] EXCEPT !.is_subsystem = b]
<1>1. i \in DOMAIN sessions /\ sessions[i] \in SessionRec /\ sessions[i].used
    BY UsedFacts
<1>2. sessions' = [sessions EXCEPT ![i] = r] /\ UNCHANGED <<chan, child>>
    BY <1>1 DEF ExecFails, SessionInv, SessionTypeOK
<1>3. r \in SessionRec
    BY <1>1, FieldSet
<1>4. /\ r.used = sessions[i].used /\ r.next = sessions[i].next /\ r.chan = sessions[i].chan
      /\ r.pid = sessions[i].pid /\ r.x11 = sessions[i].x11 /\ r.tty = sessions[i].tty
    BY <1>1 DEF SessionRec
<1> HIDE DEF r
<1>5. /\ sessions' \in Seq(SessionRec) /\ DOMAIN sessions' = DOMAIN sessions
      /\ sessions'[i] = r /\ \A j \in DOMAIN sessions : j # i => sessions'[j] = sessions[j]
    BY <1>1, <1>2, <1>3, EntryReplaced DEF SessionInv
<1>6. SameSessions
    BY <1>4, <1>5 DEF SameSessions, SameEntry
<1>7. fds' \in [1 .. MaxFd -> Ttys \cup {Free, "pipe"}]
    BY CloseTyped DEF ExecFails, SessionInv, SessionTypeOK
<1>8. up \in {"down", "gone"} => sessions' = <<>>
    BY <1>1 DEF SessionInv, SessionTypeOK
<1>9. SessionTypeOK'
    BY <1>2, <1>5, <1>7, <1>8 DEF SessionInv, SessionTypeOK
<1> QED BY <1>2, <1>6, <1>9, SameIsSame, QuietStep

LEMMA DoExecStep ==
    ASSUME SessionInv, NEW i \in Used, NEW b \in BOOLEAN, NEW p \in FreePids, do_exec(i, b, p),
           chan[sessions[i].chan].type = "larval", up = "up",
           UNCHANGED <<sessions_first_unused, mon, up>>
    PROVE  Kept
<1> DEFINE s == sessions[i]
           fd == IF s.tty # NoTty THEN s.ptyfd ELSE Min(FreeFds)
           r == [s EXCEPT !.pid = p, !.is_subsystem = b]
           k == s.chan
           c == [chan[k] EXCEPT !.type = "open", !.fd = fd, !.started = {p}]
<1>1. /\ i \in DOMAIN sessions /\ s \in SessionRec /\ s.used
      /\ k \in Chans /\ chan[k] \in ChanRec
    BY UsedFacts
<1>2. p \in Pids /\ child[p] = Free
    BY DEF FreePids
<1>3. /\ fds' = IF s.tty # NoTty THEN fds ELSE [fds EXCEPT ![fd] = "pipe"]
      /\ sessions' = [sessions EXCEPT ![i].pid = p, ![i].is_subsystem = b]
      /\ chan' = [chan EXCEPT ![k].type = "open", ![k].fd = fd, ![k].started = {p}]
      /\ child' = [child EXCEPT ![p] = "running"]
      /\ s.tty = NoTty => FreeFds # {}
    BY DEF do_exec
<1>4. fd \in Nat
  <2>1. CASE s.tty # NoTty
      BY <2>1, <1>1 DEF SessionRec
  <2>2. CASE s.tty = NoTty
      BY <2>2, <1>3, FirstFd DEF SessionInv
  <2> QED BY <2>1, <2>2
<1> HIDE DEF fd
<1>5. sessions' = [sessions EXCEPT ![i] = r]
    BY <1>1, <1>3 DEF SessionInv, SessionTypeOK
<1>6. chan' = [chan EXCEPT ![k] = c]
    BY <1>1, <1>3 DEF SessionInv, SessionTypeOK, ChanRec
<1>7. r \in SessionRec
    BY <1>1, <1>2, FieldsSet
<1>8. /\ r.used = s.used /\ r.next = s.next /\ r.chan = s.chan
      /\ r.pid = p /\ r.x11 = s.x11 /\ r.tty = s.tty
    BY <1>1 DEF SessionRec
<1>9. c \in ChanRec
    BY <1>1, <1>2, <1>4, ChanFieldsSet
<1>10. c.type = "open" /\ c.user = chan[k].user /\ c.exits = chan[k].exits /\ c.started = {p}
    BY <1>1 DEF ChanRec
<1> HIDE DEF r, c
<1>11. OneEntry(i, r)
    BY <1>1, <1>5, <1>7, <1>8 DEF OneEntry
<1>12. chan' \in [Chans -> ChanRec] /\ chan'[k] = c /\ \A m \in Chans \ {k} : chan'[m] = chan[m]
    BY <1>1, <1>6, <1>9 DEF SessionInv, SessionTypeOK
<1>13. /\ child' \in [Pids -> {Free, "running", "ended"}] /\ child'[p] # Free
       /\ \A q \in Pids \ {p} : child'[q] = child[q]
    BY <1>2, <1>3 DEF SessionInv, SessionTypeOK
<1>14. fds' \in [1 .. MaxFd -> Ttys \cup {Free, "pipe"}]
    BY <1>3 DEF SessionInv, SessionTypeOK
<1>15. sessions' \in Seq(SessionRec)
    BY <1>11, OneEntryTable
<1>16. SessionTypeOK'
    BY <1>12, <1>13, <1>14, <1>15 DEF SessionInv, SessionTypeOK
<1> HIDE DEF k, s
<1>17. r.chan = k /\ r.x11 = sessions[i].x11 /\ r.tty = sessions[i].tty
       /\ chan[k].type = "larval"
    BY <1>8 DEF k, s
<1> QED BY <1>2, <1>8, <1>10, <1>11, <1>12, <1>13, <1>16, <1>17, ExecStep

LEMMA ExecReqStep ==
    ASSUME SessionInv, NEW i \in DOMAIN sessions, NEW b \in BOOLEAN, session_exec_req(i, b)
    PROVE  Kept
<1>1. /\ up = "up" /\ i \in Used /\ UNCHANGED <<sessions_first_unused, mon, up>>
      /\ chan[sessions[i].chan].type = "larval"
    BY DEF session_exec_req, session_input_channel_req
<1> DEFINE sub == b \/ sessions[i].is_subsystem
<1>2. sub \in BOOLEAN
    OBVIOUS
<1>3. ExecFails(i, sub) \/ \E p \in FreePids : do_exec(i, sub, p)
    BY DEF session_exec_req
<1> HIDE DEF sub
<1> QED BY <1>1, <1>2, <1>3, ExecFailsStep, DoExecStep

\* Whether a process has ended changes.
LEMMA ChildEndsStep ==
    ASSUME SessionInv, NEW p, child[p] = "running", child' = [child EXCEPT ![p] = "ended"],
           UNCHANGED <<sessions, sessions_first_unused, chan, fds, mon, up>>
    PROVE  Kept
<1>1. SessionTypeOK'
    BY DEF SessionInv, SessionTypeOK
<1>2. SameChildren
    BY DEF SessionInv, SessionTypeOK, SameChildren
<1> QED BY <1>1, <1>2, SameIsSame, QuietStep

\* A flag of a channel changes, and descriptors.
LEMMA FlagStep ==
    ASSUME SessionInv, NEW k \in Chans, NEW c \in ChanRec, SameChannel(c, chan[k]),
           chan' = [chan EXCEPT ![k] = c], UNCHANGED <<sessions, sessions_first_unused, child, mon, up>>,
           fds' \in [1 .. MaxFd -> Ttys \cup {Free, "pipe"}]
    PROVE  Kept
<1>1. SessionTypeOK'
    BY DEF SessionInv, SessionTypeOK
<1>2. SameChannels
    BY DEF SessionInv, SessionTypeOK, SameChannels, SameChannel
<1> QED BY <1>1, <1>2, SameIsSame, QuietStep

LEMMA RcvdStep ==
    ASSUME SessionInv, NEW k \in Chans, chan_rcvd_oclose(k)
    PROVE  Kept
<1> DEFINE c == [chan[k] EXCEPT !.rcvd = TRUE]
<1>1. chan[k] \in ChanRec /\ fds \in [1 .. MaxFd -> Ttys \cup {Free, "pipe"}]
    BY DEF SessionInv, SessionTypeOK
<1>2. c \in ChanRec
    BY <1>1, ChanFieldSet
<1>3. SameChannel(c, chan[k])
    BY <1>1 DEF SameChannel, ChanRec
<1>4. chan' = [chan EXCEPT ![k] = c]
      /\ UNCHANGED <<sessions, sessions_first_unused, child, fds, mon, up>>
    BY DEF chan_rcvd_oclose
<1> HIDE DEF c
<1> QED BY <1>1, <1>2, <1>3, <1>4, FlagStep

LEMMA DrainsStep ==
    ASSUME SessionInv, NEW k \in Chans, ChannelDrains(k)
    PROVE  Kept
<1> DEFINE c == [chan[k] EXCEPT !.closed = TRUE, !.fd = None]
<1>1. chan[k] \in ChanRec
    BY DEF SessionInv, SessionTypeOK
<1>2. c \in ChanRec
  <2> DEFINE u == [chan[k] EXCEPT !.closed = TRUE]
  <2>1. u \in ChanRec /\ c = [u EXCEPT !.fd = None]
      BY <1>1, ChanFieldSet
  <2> HIDE DEF u
  <2> QED BY <2>1, ChanFieldSet
<1>3. SameChannel(c, chan[k])
    BY <1>1 DEF SameChannel, ChanRec
<1>4. chan' = [chan EXCEPT ![k] = c] /\ fds' = Close(fds, chan[k].fd)
      /\ UNCHANGED <<sessions, sessions_first_unused, child, mon, up>>
    BY <1>1 DEF ChannelDrains, SessionInv, SessionTypeOK
<1> HIDE DEF c
<1>5. fds' \in [1 .. MaxFd -> Ttys \cup {Free, "pipe"}]
    BY <1>4, CloseTyped DEF SessionInv
<1> QED BY <1>2, <1>3, <1>4, <1>5, FlagStep

LEMMA SendCloseStep ==
    ASSUME SessionInv, NEW k \in Chans, SendClose(k), UNCHANGED <<child, up>>
    PROVE  Kept
<1> DEFINE c == [chan[k] EXCEPT !.sent = TRUE]
<1>1. chan[k] \in ChanRec /\ fds \in [1 .. MaxFd -> Ttys \cup {Free, "pipe"}]
    BY DEF SessionInv, SessionTypeOK
<1>2. c \in ChanRec
    BY <1>1, ChanFieldSet
<1>3. SameChannel(c, chan[k])
    BY <1>1 DEF SameChannel, ChanRec
<1>4. chan' = [chan EXCEPT ![k] = c] /\ UNCHANGED <<sessions, sessions_first_unused, fds, mon>>
    BY DEF SendClose
<1> HIDE DEF c
<1> QED BY <1>1, <1>2, <1>3, <1>4, FlagStep

\* A listener for one connection has had it.
LEMMA PostX11Step ==
    ASSUME SessionInv, NEW k \in Chans, channel_post_x11_listener(k)
    PROVE  Kept
<1> DEFINE c == [chan[k] EXCEPT !.type = "zombie"]
<1>1. chan[k] \in ChanRec /\ ChannelSound(chan[k]) /\ chan[k].type = "x11"
    BY DEF SessionInv, SessionTypeOK, ChannelsSound, channel_post_x11_listener
<1>2. c \in ChanRec
    BY <1>1, ChanFieldSet
<1>3. c.type = "zombie" /\ c.user = "x11" /\ c.exits = chan[k].exits
      /\ c.started = chan[k].started /\ chan[k].user = "x11"
    BY <1>1 DEF ChanRec, ChannelSound
<1>4. chan' = [chan EXCEPT ![k] = c]
      /\ UNCHANGED <<sessions, sessions_first_unused, child, fds, mon, up>>
    BY DEF channel_post_x11_listener
<1> HIDE DEF c
<1>5. chan' \in [Chans -> ChanRec] /\ chan'[k] = c /\ \A m \in Chans \ {k} : chan'[m] = chan[m]
    BY <1>2, <1>4 DEF SessionInv, SessionTypeOK
<1>6. SessionTypeOK'
    BY <1>4, <1>5 DEF SessionInv, SessionTypeOK
<1>7. ChannelSound(c)
    BY <1>1, <1>3 DEF ChannelSound
<1> QED BY <1>1, <1>3, <1>4, <1>5, <1>6, <1>7, OtherChannelStep

LEMMA CollectChildrenStep ==
    ASSUME SessionInv, NEW p \in Pids, collect_children(p)
    PROVE  Kept
<1>1. /\ up = "up" /\ child[p] = "ended" /\ child' = [child EXCEPT ![p] = Free]
      /\ UNCHANGED <<sessions_first_unused, up>> /\ session_close_by_pid(p)
    BY DEF collect_children
<1>2. session_by_pid(p) # {} /\ session_by_pid(p) \in SUBSET Nat
  <2>1. \E i \in Used : sessions[i].pid = p
      BY <1>1 DEF SessionInv, NoOrphans
  <2>2. \A i \in Used : i \in Nat
      BY UsedFacts
  <2> QED BY <2>1, <2>2 DEF session_by_pid
<1> DEFINE i == Min(session_by_pid(p))
           s == sessions[i]
           k == s.chan
           r == [s EXCEPT !.pid = None, !.tty = NoTty]
           c == [chan[k] EXCEPT !.detach_close = TRUE, !.exits = @ \cup {p}, !.fd = None]
<1>3. i \in Used /\ sessions[i].pid = p
  <2>1. i \in session_by_pid(p)
      BY <1>2, MinIn
  <2> QED BY <2>1 DEF session_by_pid
<1>4. /\ fds' = Close(fds, chan[k].fd) /\ mon' = Cleanup(s.tty)
      /\ sessions' = [sessions EXCEPT ![i].pid = None, ![i].tty = NoTty]
      /\ chan' = session_exit_message(p)
    BY <1>1, <1>2 DEF session_close_by_pid
<1> HIDE DEF i
<1>5. /\ i \in DOMAIN sessions /\ s \in SessionRec /\ s.used
      /\ k \in Chans /\ chan[k] \in ChanRec
    BY <1>3, UsedFacts
<1>6. \A m \in Chans : (\E j \in session_by_pid(p) : sessions[j].chan = m) <=> m = k
  <2>1. \A j \in session_by_pid(p) : j = i
    <3>1. p # None
        BY SessionAssumption
    <3> QED BY <1>3, <3>1 DEF session_by_pid, SessionInv, EntriesApart
  <2>2. i \in session_by_pid(p)
      BY <1>3 DEF session_by_pid
  <2> QED BY <2>1, <2>2
<1>7. chan' = [m \in Chans |-> IF m = k THEN c ELSE chan[m]]
  <2>1. chan' = [m \in Chans |->
            IF \E j \in session_by_pid(p) : sessions[j].chan = m
            THEN [chan[m] EXCEPT !.detach_close = TRUE, !.exits = @ \cup {p}, !.fd = None]
            ELSE chan[m]]
      BY <1>4 DEF session_exit_message
  <2>2. \A m \in Chans : chan'[m] = IF m = k THEN c ELSE chan[m]
      BY <2>1, <1>6
  <2> QED BY <2>1, <2>2
<1>8. sessions' = [sessions EXCEPT ![i] = r]
    BY <1>4, <1>5 DEF SessionInv, SessionTypeOK
<1>9. r \in SessionRec
    BY <1>5, FieldsSet
<1>10. /\ r.used = s.used /\ r.next = s.next /\ r.chan = s.chan
       /\ r.pid = None /\ r.x11 = s.x11 /\ r.tty = NoTty
    BY <1>5 DEF SessionRec
<1>11. c \in ChanRec
    BY <1>5, ChanFieldsSet
<1>12. /\ c.type = chan[k].type /\ c.user = chan[k].user
       /\ c.exits = chan[k].exits \cup {p} /\ c.started = chan[k].started
    BY <1>5 DEF ChanRec
<1> HIDE DEF r, c
<1>13. OneEntry(i, r)
    BY <1>1, <1>3, <1>5, <1>8, <1>9, <1>10 DEF OneEntry
<1>14. chan' \in [Chans -> ChanRec] /\ chan'[k] = c /\ \A m \in Chans \ {k} : chan'[m] = chan[m]
    BY <1>5, <1>7, <1>11 DEF SessionInv, SessionTypeOK
<1>15. /\ child' \in [Pids -> {Free, "running", "ended"}] /\ child'[p] = Free
       /\ \A q \in Pids \ {p} : child'[q] = child[q]
    BY <1>1 DEF SessionInv, SessionTypeOK
<1>16. fds' \in [1 .. MaxFd -> Ttys \cup {Free, "pipe"}]
    BY <1>4, CloseTyped DEF SessionInv
<1>17. mon' \in [ttys : SUBSET Ttys, cleanup : Seq(Ttys)]
    BY <1>4, <1>3, UsedFacts, CleanupTyped DEF SessionInv
<1>18. sessions' \in Seq(SessionRec)
    BY <1>13, OneEntryTable
<1>19. SessionTypeOK'
    BY <1>1, <1>14, <1>15, <1>16, <1>17, <1>18 DEF SessionInv, SessionTypeOK
<1> HIDE DEF k, s
<1>20. r.chan = k /\ r.x11 = sessions[i].x11 /\ mon' = Cleanup(sessions[i].tty)
    BY <1>4, <1>10 DEF k, s
<1> QED BY <1>3, <1>10, <1>12, <1>13, <1>14, <1>15, <1>19, <1>20, CollectStep

\* The channels after session_close_x11().
LEMMA Detached ==
    ASSUME SessionInv, NEW ids \in SUBSET Chans, NEW k \in Chans,
           \A m \in ids : chan[m].type # Free,
           chan' = [session_close_x11(chan, ids) EXCEPT ![k] = NoChannel]
    PROVE  /\ chan' \in [Chans -> ChanRec] /\ chan'[k] = NoChannel
           /\ \A m \in ids \cup {k} : ChannelSound(chan'[m]) /\ chan'[m].user # "x11"
           /\ \A m \in Chans \ (ids \cup {k}) : chan'[m] = chan[m]
<1> DEFINE z(m) == [chan[m] EXCEPT !.user = "none", !.type = "zombie"]
<1>1. \A m \in Chans : chan[m] \in ChanRec /\ ChannelSound(chan[m])
    BY DEF SessionInv, SessionTypeOK, ChannelsSound
<1>2. ASSUME NEW m \in Chans PROVE z(m) \in ChanRec
  <2>1. chan[m] \in ChanRec
      BY <1>1
  <2> DEFINE u == [chan[m] EXCEPT !.user = "none"]
  <2>2. u \in ChanRec /\ z(m) = [u EXCEPT !.type = "zombie"]
      BY <2>1, ChanFieldSet
  <2> HIDE DEF u
  <2> QED BY <2>2, ChanFieldSet
<1>3. ASSUME NEW m \in Chans PROVE ChannelSound(z(m)) /\ z(m).user # "x11"
  <2>1. z(m).user = "none" /\ z(m).type = "zombie" /\ z(m).exits = chan[m].exits
        /\ z(m).started = chan[m].started
      BY <1>1 DEF ChanRec
  <2> QED BY <1>1, <2>1 DEF ChannelSound
<1> HIDE DEF z
<1>4. session_close_x11(chan, ids) = [m \in Chans |-> IF m \in ids THEN z(m) ELSE chan[m]]
    BY DEF session_close_x11, z
<1>5. NoChannel \in ChanRec /\ ChannelSound(NoChannel) /\ NoChannel.user # "x11"
    BY NewChan DEF NoChannel, channel_new, ChannelSound
<1>6. chan' = [m \in Chans |-> IF m = k THEN NoChannel ELSE IF m \in ids THEN z(m) ELSE chan[m]]
    BY <1>4
<1> QED BY <1>1, <1>2, <1>3, <1>5, <1>6

LEMMA CloseByChannelStep ==
    ASSUME SessionInv, NEW k \in Chans, session_close_by_channel(k), up = "up",
           UNCHANGED <<child, up>>
    PROVE  Kept
<1>1. PICK i \in session_by_channel(k) :
        IF sessions[i].pid # None
        THEN /\ sessions[i].tty # NoTty /\ mon' = Cleanup(sessions[i].tty)
             /\ sessions' = [sessions EXCEPT ![i].tty = NoTty]
             /\ UNCHANGED <<sessions_first_unused, chan, fds>>
        ELSE /\ chan' = [session_close_x11(chan, sessions[i].x11) EXCEPT ![k] = NoChannel]
             /\ fds' = Close(fds, chan[k].fd)
             /\ mon' = Cleanup(sessions[i].tty)
             /\ sessions' = [sessions EXCEPT ![i] = Unused(sessions_first_unused)]
             /\ sessions_first_unused' = i
    BY DEF session_close_by_channel
<1>2. i \in Used /\ sessions[i].chan = k
    BY DEF session_by_channel
<1>3. /\ i \in DOMAIN sessions /\ sessions[i] \in SessionRec /\ sessions[i].used
      /\ EntrySound(sessions[i]) /\ sessions[i].x11 \in SUBSET Chans
      /\ sessions[i].tty \in Ttys \cup {NoTty}
    BY <1>2, UsedFacts
<1>4. mon' = Cleanup(sessions[i].tty)
    BY <1>1
<1>5. CASE sessions[i].pid # None
  <2> DEFINE r == [sessions[i] EXCEPT !.tty = NoTty]
  <2>1. sessions' = [sessions EXCEPT ![i] = r] /\ UNCHANGED <<sessions_first_unused, chan, fds>>
      BY <1>1, <1>3, <1>5 DEF SessionInv, SessionTypeOK
  <2>2. r \in SessionRec
      BY <1>3, FieldSet
  <2>3. /\ r.used = sessions[i].used /\ r.next = sessions[i].next
        /\ r.chan = sessions[i].chan /\ r.pid = sessions[i].pid
        /\ r.x11 = sessions[i].x11 /\ r.tty = NoTty
      BY <1>3 DEF SessionRec
  <2> HIDE DEF r
  <2>4. OneEntry(i, r)
      BY <1>2, <1>3, <2>1, <2>2, <2>3 DEF OneEntry
  <2>5. mon' \in [ttys : SUBSET Ttys, cleanup : Seq(Ttys)]
      BY <1>3, <1>4, CleanupTyped DEF SessionInv
  <2>6. sessions' \in Seq(SessionRec)
      BY <2>4, OneEntryTable
  <2>7. SessionTypeOK'
      BY <2>1, <2>5, <2>6 DEF SessionInv, SessionTypeOK
  <2> QED BY <1>4, <2>1, <2>3, <2>4, <2>7, TtyCloseStep
<1>6. CASE sessions[i].pid = None
  <2>1. /\ chan' = [session_close_x11(chan, sessions[i].x11) EXCEPT ![k] = NoChannel]
        /\ fds' = Close(fds, chan[k].fd)
        /\ sessions' = [sessions EXCEPT ![i] = Unused(sessions_first_unused)]
        /\ sessions_first_unused' = i
      BY <1>1, <1>6
  <2>2. \A m \in sessions[i].x11 : chan[m].type # Free
      BY <1>3 DEF EntrySound, Fits
  <2>3. /\ chan' \in [Chans -> ChanRec] /\ chan'[k] = NoChannel
        /\ \A m \in sessions[i].x11 \cup {k} : ChannelSound(chan'[m]) /\ chan'[m].user # "x11"
        /\ \A m \in Chans \ (sessions[i].x11 \cup {k}) : chan'[m] = chan[m]
      BY <1>3, <2>1, <2>2, Detached
  <2>4. fds' \in [1 .. MaxFd -> Ttys \cup {Free, "pipe"}]
      BY <2>1, CloseTyped DEF SessionInv
  <2> QED BY <1>2, <1>4, <1>6, <2>1, <2>3, <2>4, CloseStep
<1> QED BY <1>5, <1>6

LEMMA CloseDisplayStep ==
    ASSUME SessionInv, NEW k \in Chans, session_close_single_x11(k), UNCHANGED <<child, up>>
    PROVE  Kept
<1>1. PICK i \in session_by_x11_channel(k) :
        /\ chan' = [session_close_x11(chan, sessions[i].x11 \ {k}) EXCEPT ![k] = NoChannel]
        /\ sessions' = [sessions EXCEPT ![i].x11 = {}]
    BY DEF session_close_single_x11
<1>2. /\ i \in Used /\ k \in sessions[i].x11 /\ UNCHANGED <<sessions_first_unused, fds, mon>>
    BY DEF session_by_x11_channel, session_close_single_x11
<1>3. /\ i \in DOMAIN sessions /\ sessions[i] \in SessionRec /\ sessions[i].used
      /\ EntrySound(sessions[i]) /\ sessions[i].x11 \in SUBSET Chans
    BY <1>2, UsedFacts
<1> DEFINE r == [sessions[i] EXCEPT !.x11 = {}]
           ids == sessions[i].x11 \ {k}
<1>4. sessions' = [sessions EXCEPT ![i] = r]
    BY <1>1, <1>3 DEF SessionInv, SessionTypeOK
<1>5. r \in SessionRec
    BY <1>3, FieldSet
<1>6. /\ r.used = sessions[i].used /\ r.next = sessions[i].next
      /\ r.chan = sessions[i].chan /\ r.pid = sessions[i].pid
      /\ r.tty = sessions[i].tty /\ r.x11 = {}
    BY <1>3 DEF SessionRec
<1> HIDE DEF r
<1>7. OneEntry(i, r)
    BY <1>2, <1>3, <1>4, <1>5, <1>6 DEF OneEntry
<1>8. ids \in SUBSET Chans /\ ids \cup {k} = sessions[i].x11 /\ \A m \in ids : chan[m].type # Free
    BY <1>2, <1>3 DEF EntrySound, Fits
<1>9. chan' = [session_close_x11(chan, ids) EXCEPT ![k] = NoChannel]
    BY <1>1
<1> HIDE DEF ids
<1>10. /\ chan' \in [Chans -> ChanRec]
       /\ \A m \in ids \cup {k} : ChannelSound(chan'[m]) /\ chan'[m].user # "x11"
       /\ \A m \in Chans \ (ids \cup {k}) : chan'[m] = chan[m]
    BY <1>8, <1>9, Detached
<1>11. sessions' \in Seq(SessionRec) /\ (up \in {"down", "gone"} => sessions' = <<>>)
    BY <1>3, <1>7, OneEntryTable DEF SessionInv, SessionTypeOK
<1>12. SessionTypeOK'
    BY <1>2, <1>10, <1>11 DEF SessionInv, SessionTypeOK
<1> QED BY <1>2, <1>6, <1>7, <1>8, <1>10, <1>12, DisplayStep

LEMMA GarbageStep ==
    ASSUME SessionInv, NEW k \in Chans, channel_garbage_collect(k)
    PROVE  Kept
<1>1. up = "up" /\ chan[k].type # Free /\ UNCHANGED <<child, up>>
    BY DEF channel_garbage_collect
<1>2. CASE ~chan_is_dead(k) /\ SendClose(k)
    BY <1>1, <1>2, SendCloseStep
<1>3. CASE chan[k].user = "session" /\ session_close_by_channel(k)
    BY <1>1, <1>3, CloseByChannelStep
<1>4. CASE chan[k].user = "x11" /\ session_close_single_x11(k)
    BY <1>1, <1>4, CloseDisplayStep
<1>5. CASE chan[k].user = "none" /\ channel_free(k)
  <2>1. /\ chan' = [chan EXCEPT ![k] = NoChannel]
        /\ UNCHANGED <<sessions, sessions_first_unused, fds, mon>>
      BY <1>5 DEF channel_free
  <2>2. NoChannel \in ChanRec /\ ChannelSound(NoChannel) /\ NoChannel.user = "none"
      BY NewChan DEF NoChannel, channel_new, ChannelSound
  <2>3. chan' \in [Chans -> ChanRec] /\ chan'[k] = NoChannel
        /\ \A m \in Chans \ {k} : chan'[m] = chan[m]
      BY <2>1, <2>2 DEF SessionInv, SessionTypeOK
  <2>4. SessionTypeOK'
      BY <1>1, <2>1, <2>3 DEF SessionInv, SessionTypeOK
  <2>5. chan[k].type \notin {"larval", "open"}
      BY <1>5 DEF SessionInv, ChannelsSound, ChannelSound
  <2> QED BY <1>1, <1>5, <2>1, <2>2, <2>3, <2>4, <2>5, OtherChannelStep
<1> QED BY <1>2, <1>3, <1>4, <1>5 DEF channel_garbage_collect

LEMMA SessionStep == SessionInv /\ [SessionNext]_sessionVars => Kept
<1> SUFFICES ASSUME SessionInv, [SessionNext]_sessionVars PROVE Kept
    OBVIOUS
<1>1. CASE server_request_session
    BY <1>1, RequestSessionStep
<1>2. CASE request_no_more_sessions
    BY <1>2, IdleStep DEF request_no_more_sessions
<1>3. ASSUME NEW i \in DOMAIN sessions, session_request(i) PROVE Kept
  <2>1. CASE session_signal_req(i)
    <3>1. /\ child[sessions[i].pid] = "running"
          /\ child' = [child EXCEPT ![sessions[i].pid] = "ended"]
          /\ UNCHANGED <<sessions, sessions_first_unused, chan, fds, mon, up>>
        BY <2>1 DEF session_signal_req, session_input_channel_req
    <3> QED BY <3>1, ChildEndsStep
  <2> QED BY <1>3, <2>1, PtyReqStep, X11ReqStep, AgentReqStep, ExecReqStep DEF session_request
<1>4. ASSUME NEW p \in Pids, ProcessEnds(p) PROVE Kept
    BY <1>4, ChildEndsStep DEF ProcessEnds
<1>5. ASSUME NEW p \in Pids, collect_children(p) PROVE Kept
    BY <1>5, CollectChildrenStep
<1>6. ASSUME NEW k \in Chans,
             \/ chan_rcvd_oclose(k) \/ ChannelDrains(k)
             \/ channel_garbage_collect(k) \/ channel_post_x11_listener(k)
      PROVE  Kept
    BY <1>6, RcvdStep, DrainsStep, GarbageStep, PostX11Step
<1>7. CASE mm_answer_pty_cleanup
    BY <1>7, AnswerStep
<1>8. CASE ConnectionEnds
    BY <1>8, EndsStep
<1>9. CASE do_cleanup
    BY <1>9, MonitorEndsStep
<1>10. CASE UNCHANGED sessionVars
    BY <1>10, IdleStep DEF sessionVars
<1> QED BY <1>1, <1>2, <1>3, <1>4, <1>5, <1>6, <1>7, <1>8, <1>9, <1>10 DEF SessionNext

----------------------------------------------------------------------------
(* What the invariants say.                                                *)

LEMMA SessionSound == SessionInv => FreeListSound /\ LookupsSucceed /\ OwnProcess
<1> SUFFICES ASSUME SessionInv PROVE FreeListSound /\ LookupsSucceed /\ OwnProcess
    OBVIOUS
<1>1. FreeListSound
    BY DEF SessionInv
<1>2. ASSUME NEW i \in Used
      PROVE  /\ chan[sessions[i].chan].type \in {"larval", "open"}
             /\ session_by_channel(sessions[i].chan) = {i}
  <2>1. chan[sessions[i].chan].type \in {"larval", "open"}
      BY UsedFacts DEF EntrySound, Fits
  <2>2. \A j \in Used : sessions[j].chan = sessions[i].chan => j = i
      BY DEF SessionInv, EntriesApart
  <2> QED BY <2>1, <2>2 DEF session_by_channel
<1>3. ASSUME NEW k \in Chans, chan[k].type \in {"x11", "zombie"}
      PROVE  chan[k].user = "x11" <=> session_by_x11_channel(k) # {}
  <2>1. ASSUME chan[k].user = "x11" PROVE session_by_x11_channel(k) # {}
      BY <2>1 DEF SessionInv, NoOrphans, session_by_x11_channel
  <2>2. ASSUME NEW i \in session_by_x11_channel(k) PROVE chan[k].user = "x11"
    <3>1. i \in Used /\ k \in sessions[i].x11
        BY DEF session_by_x11_channel
    <3> QED BY <3>1, UsedFacts DEF EntrySound, Fits
  <2> QED BY <2>1, <2>2
<1>4. \A k \in Chans : chan[k].type = "x11" => chan[k].user = "x11"
    BY DEF SessionInv, ChannelsSound, ChannelSound
<1>5. LookupsSucceed
    BY <1>2, <1>3, <1>4 DEF LookupsSucceed
<1>6. \A i \in Used : sessions[i].pid # None =>
        /\ child[sessions[i].pid] # Free
        /\ chan[sessions[i].chan].started = {sessions[i].pid}
    BY DEF SessionInv, EntriesSound, EntrySound, Fits
<1>7. \A k \in Chans : chan[k].exits \subseteq chan[k].started
    BY DEF SessionInv, ChannelsSound, ChannelSound
<1>8. \A p \in Pids : child[p] # Free => session_by_pid(p) # {}
    BY DEF SessionInv, NoOrphans, session_by_pid
<1>9. OwnProcess
    BY <1>6, <1>7, <1>8 DEF OwnProcess
<1> QED BY <1>1, <1>5, <1>9

ServerInv == ListenerInv /\ SessionInv

LEMMA ServerInitInv == MCInit => ServerInv
BY ListenerInitInv, SessionInitInv DEF MCInit, ServerInv

\* Every step of the server keeps the invariant, and is a step of module Terminal or
\* leaves the terminals' owners alone.
LEMMA ServerStep == ServerInv /\ [MCNext]_serverVars => ServerInv' /\ TerminalStep
<1> SUFFICES ASSUME ServerInv, [MCNext]_serverVars PROVE ServerInv' /\ TerminalStep
    OBVIOUS
<1>1. [ListenerNext]_listenerVars /\ [SessionNext]_sessionVars
    BY DEF MCNext, serverVars
<1> QED BY <1>1, ListenerStep, SessionStep DEF ServerInv, Kept

\* In every state the startup slots, flags and counters are exactly those of the processes
\* that have not authenticated, the free list is sound, and the sessions' channels,
\* listeners and processes are their own: server_accept_loop() and session.c with any
\* number of connections, slots, sessions and processes.
THEOREM ServerSafe == MCSpec => []ServerSound
<1>1. ServerInv => ServerSound
    BY ListenerSound, SessionSound DEF ServerInv, ServerSound
<1> QED BY <1>1, ServerInitInv, ServerStep, PTL DEF MCSpec

\* The sessions' table and the monitor's implement module Terminal: a pseudo terminal has
\* one session at a time, and goes to the next only after the monitor has released it,
\* whatever the order in which channels, processes and the connection end.
THEOREM TerminalsRefined == MCSpec => TerminalsExclusive
<1>1. MCInit => T!Init
  <2>1. SUFFICES ASSUME MCInit PROVE T!Init
      OBVIOUS
  <2>2. sessions = <<>> /\ mon.ttys = {}
      BY <2>1 DEF MCInit, SessionInit
  <2>3. Used = {}
      BY <2>2 DEF Used
  <2> QED BY <2>2, <2>3 DEF T!Init, tty_owner
<1>2. ServerInv /\ [MCNext]_serverVars => [T!Next]_tty_owner
    BY ServerStep DEF TerminalStep
<1> QED BY <1>1, <1>2, ServerInitInv, ServerStep, PTL DEF MCSpec, TerminalsExclusive, T!Spec
=============================================================================
