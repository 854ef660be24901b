------------------------------ MODULE Session ------------------------------
(***************************************************************************)
(* The sessions of one authenticated connection: session.c, with the parts *)
(* of serverloop.c, channels.c and monitor.c that create and end them.     *)
(* A session is a slot of a table with a free list; it is tied to a        *)
(* channel (whose number is reused), a child process (whose number is      *)
(* reused), a pseudo terminal that the monitor allocates and releases, and *)
(* X11 listeners, which are channels of their own.  Channel and process    *)
(* may end in either order.  The flow of data is module Channel's.         *)
(***************************************************************************)
EXTENDS Naturals, FiniteSets, Sequences, FiniteSetsExt

CONSTANTS
    max_sessions,   \* option MaxSessions
    Pids,           \* process numbers the kernel may give
    Ttys,           \* pseudo terminals
    MaxChannel,     \* bound: channel numbers 1 .. MaxChannel
    MaxFd,          \* bound: the server's descriptors 1 .. MaxFd for terminals and pipes
    XSocks,         \* sockets of an X11 display, one per address family
    adm_forced_command, \* option ForceCommand is set
    MaxRequests     \* bound: opens and requests of the client

ASSUME SessionAssumption ==
    /\ {max_sessions, MaxChannel, MaxFd, XSocks, MaxRequests} \subseteq Nat \ {0}
    /\ Pids \subseteq Nat \ {0} /\ "notty" \notin Ttys

VARIABLES
    sessions,       \* the table, a sequence
    sessions_first_unused,
    chan,           \* the channels
    child,          \* the server's children: running, or ended and not yet waited for
    fds,            \* what a descriptor of the server refers to
    mon,            \* the monitor's terminals, and the cleanup messages on their way to it
    agentCalled,    \* session_auth_agent_req()'s static variable
    no_more_sessions,
    up,             \* the connection's state: up, ending, down, or gone
    requests        \* number of opens and requests so far

sessionVars == <<sessions, sessions_first_unused, chan, child, fds, mon, agentCalled,
                 no_more_sessions, up, requests>>

None == 0
NoTty == "notty"
Free == "free"
Chans == 1 .. MaxChannel
channel_new(type, user) ==
    [type |-> type, closed |-> FALSE, sent |-> FALSE, rcvd |-> FALSE, user |-> user,
     detach_close |-> FALSE, fd |-> None, single |-> FALSE, started |-> {}, exits |-> {}]
NoChannel == channel_new(Free, "none")

Unused(next) == [used |-> FALSE, next |-> next, chan |-> None, pid |-> None, tty |-> NoTty,
                 ptyfd |-> None, is_subsystem |-> FALSE, x11 |-> {}]

SessionInit ==
    /\ sessions = <<>> /\ sessions_first_unused = None
    /\ chan = [k \in Chans |-> NoChannel]
    /\ child = [p \in Pids |-> Free]
    /\ fds = [f \in 1 .. MaxFd |-> Free]
    /\ mon = [ttys |-> {}, cleanup |-> <<>>]
    /\ agentCalled = FALSE /\ no_more_sessions = FALSE
    /\ up = "up" /\ requests = 0

----------------------------------------------------------------------------
(* The table.                                                              *)

Used == {i \in DOMAIN sessions : sessions[i].used}
session_by_channel(k) == {i \in Used : sessions[i].chan = k}
session_by_x11_channel(k) == {i \in Used : k \in sessions[i].x11}
session_by_pid(p) == {i \in Used : sessions[i].pid = p}

\* session_new(): the head of the free list, or one slot more.
NewSlot == IF sessions_first_unused # None THEN sessions_first_unused
           ELSE Len(sessions) + 1
CanOpen == sessions_first_unused # None \/ Len(sessions) < max_sessions

\* Mistake: the slot stays on the free list.
new_keeps_list(k) ==
    LET i == NewSlot
        s == [Unused(None) EXCEPT !.used = TRUE, !.chan = k]
    IN /\ sessions' = IF i \in DOMAIN sessions THEN [sessions EXCEPT ![i] = s]
                      ELSE Append(sessions, s)
       /\ UNCHANGED sessions_first_unused

session_new(k) ==
    LET i == NewSlot
        s == [Unused(None) EXCEPT !.used = TRUE, !.chan = k]
    IN /\ sessions' = IF i \in DOMAIN sessions THEN [sessions EXCEPT ![i] = s]
                      ELSE Append(sessions, s)
       /\ sessions_first_unused' = IF i \in DOMAIN sessions THEN sessions[i].next ELSE None

----------------------------------------------------------------------------
(* Channels, descriptors and the monitor.                                  *)

\* channel_new() takes the lowest free slot.
FreeChans == {k \in Chans : chan[k].type = Free}
LowestFree(n) == {k \in FreeChans : Cardinality({j \in FreeChans : j < k}) < n}

FreeFds == {f \in DOMAIN fds : fds[f] = Free}
Close(table, f) == IF f = None THEN table ELSE [table EXCEPT ![f] = Free]

\* The kernel gives out a terminal again when nobody holds a descriptor of it.
FreeTtys == Ttys \ (mon.ttys \cup {fds[f] : f \in DOMAIN fds})

\* mm_session_pty_cleanup2(): a message to the monitor, if the session has a terminal.
Cleanup(tty) == IF tty = NoTty THEN mon
                ELSE [mon EXCEPT !.cleanup = Append(@, tty)]

mm_answer_pty_cleanup ==
    /\ mon.cleanup # <<>>
    /\ mon' = [ttys |-> mon.ttys \ {Head(mon.cleanup)}, cleanup |-> Tail(mon.cleanup)]
    /\ UNCHANGED <<sessions, sessions_first_unused, chan, child, fds, agentCalled,
                   no_more_sessions, up, requests>>

----------------------------------------------------------------------------
(* Opening a session, and the requests on it.                              *)

Counted == requests < MaxRequests /\ requests' = requests + 1

\* The client opens a session after it asked for no more: the server disconnects.
server_request_session ==
    /\ up = "up" /\ FreeChans # {} /\ Counted
    /\ IF no_more_sessions
       THEN up' = "ending" /\ UNCHANGED <<sessions, sessions_first_unused, chan>>
       ELSE IF CanOpen
       THEN LET k == Min(FreeChans) IN
            /\ session_new(k)
            /\ chan' = [chan EXCEPT ![k] = channel_new("larval", "session")]
            /\ UNCHANGED up
       ELSE UNCHANGED <<sessions, sessions_first_unused, chan, up>>
    /\ UNCHANGED <<child, fds, mon, agentCalled, no_more_sessions>>

request_no_more_sessions ==
    /\ up = "up" /\ no_more_sessions' = TRUE /\ Counted
    /\ UNCHANGED <<sessions, sessions_first_unused, chan, child, fds, mon, agentCalled, up>>

\* The client's request reaches the session of channel k.  The client sends none after
\* its CLOSE.
session_input_channel_req(i, larval) ==
    /\ up = "up" /\ i \in Used
    /\ LET c == chan[sessions[i].chan] IN
       /\ c.type \in (IF larval THEN {"larval"} ELSE {"larval", "open"})
       /\ ~c.rcvd
    /\ Counted
    /\ UNCHANGED <<sessions_first_unused, no_more_sessions>>

\* The monitor reads the cleanup messages before it reads this request.
session_pty_req(i) ==
    /\ session_input_channel_req(i, TRUE)
    /\ IF sessions[i].tty # NoTty
       THEN up' = "ending" /\ UNCHANGED <<sessions, fds, mon>>
       ELSE /\ mon.cleanup = <<>> /\ UNCHANGED up
            /\ IF FreeTtys # {} /\ Cardinality(mon.ttys) < max_sessions /\ FreeFds # {}
               THEN LET f == Min(FreeFds) IN
                    \E tty \in FreeTtys :
                        /\ sessions' = [sessions EXCEPT ![i].tty = tty, ![i].ptyfd = f]
                        /\ fds' = [fds EXCEPT ![f] = tty]
                        /\ mon' = [mon EXCEPT !.ttys = @ \cup {tty}]
               ELSE UNCHANGED <<sessions, fds, mon>>
    /\ UNCHANGED <<chan, child, agentCalled>>

session_x11_req(i, single) ==
    /\ session_input_channel_req(i, TRUE)
    /\ IF sessions[i].x11 = {}
       THEN /\ Cardinality(FreeChans) >= XSocks
            /\ LET new == LowestFree(XSocks) IN
               /\ sessions' = [sessions EXCEPT ![i].x11 = new]
               /\ chan' = [k \in Chans |->
                    IF k \in new THEN [channel_new("x11", "x11") EXCEPT !.single = single]
                    ELSE chan[k]]
       ELSE UNCHANGED <<sessions, chan>>
    /\ UNCHANGED <<child, fds, mon, agentCalled, up>>

\* Once per connection, whether or not it succeeds.
session_auth_agent_req(i, ok) ==
    /\ session_input_channel_req(i, TRUE)
    /\ ~agentCalled /\ agentCalled' = TRUE
    /\ IF ok /\ FreeChans # {} THEN chan' = [chan EXCEPT ![Min(FreeChans)] =
                                                channel_new("auth", "none")]
       ELSE UNCHANGED chan
    /\ UNCHANGED <<sessions, child, fds, mon, up>>

FreePids == {p \in Pids : child[p] = Free}

\* do_exec() fails: out of descriptors or processes.  With a terminal its descriptors are
\* closed, but the session keeps their numbers.
ExecFails(i, subsystem) ==
    /\ sessions' = [sessions EXCEPT ![i].is_subsystem = subsystem]
    /\ fds' = IF sessions[i].tty # NoTty THEN Close(fds, sessions[i].ptyfd) ELSE fds
    /\ UNCHANGED <<chan, child>>

\* do_exec_pty() and do_exec_no_pty(): the channel writes to the terminal, or to a pipe.
do_exec(i, subsystem, p) ==
    /\ p = Min(FreePids)
    /\ LET s == sessions[i]
           onTty == s.tty # NoTty
           fd == IF onTty THEN s.ptyfd ELSE Min(FreeFds)
       IN /\ IF onTty THEN fds[s.ptyfd] # Free ELSE FreeFds # {}
          /\ fds' = IF onTty THEN fds ELSE [fds EXCEPT ![fd] = "pipe"]
          /\ sessions' = [sessions EXCEPT ![i].pid = p, ![i].is_subsystem = subsystem]
          /\ chan' = [chan EXCEPT ![s.chan].type = "open", ![s.chan].fd = fd,
                                  ![s.chan].started = {p}]
    /\ child' = [child EXCEPT ![p] = "running"]

\* shell, exec and subsystem.  A subsystem request that failed leaves its mark.
session_exec_req(i, subsystem) ==
    /\ session_input_channel_req(i, TRUE)
    /\ LET sub == subsystem \/ sessions[i].is_subsystem IN
       ExecFails(i, sub) \/ \E p \in FreePids : do_exec(i, sub, p)
    /\ UNCHANGED <<mon, agentCalled, up>>

\* A signal for a process that did not end is one more way to end it.
session_signal_req(i) ==
    /\ session_input_channel_req(i, FALSE)
    /\ LET s == sessions[i] IN
       /\ s.pid # None /\ ~adm_forced_command /\ ~s.is_subsystem
       /\ child[s.pid] = "running" /\ child' = [child EXCEPT ![s.pid] = "ended"]
    /\ UNCHANGED <<sessions, chan, fds, mon, agentCalled, up>>

----------------------------------------------------------------------------
(* Ends.                                                                   *)

ProcessEnds(p) ==
    /\ child[p] = "running" /\ child' = [child EXCEPT ![p] = "ended"]
    /\ UNCHANGED <<sessions, sessions_first_unused, chan, fds, mon, agentCalled,
                   no_more_sessions, up, requests>>

\* The client's CLOSE arrives.
chan_rcvd_oclose(k) ==
    /\ up = "up" /\ chan[k].type \in {"larval", "open"} /\ ~chan[k].rcvd
    /\ chan' = [chan EXCEPT ![k].rcvd = TRUE]
    /\ UNCHANGED <<sessions, sessions_first_unused, child, fds, mon, agentCalled,
                   no_more_sessions, up, requests>>

\* Both directions of a channel are closed: after the client's CLOSE, after the process's
\* end, or when each side finished its direction.
ChannelDrains(k) ==
    /\ up = "up" /\ chan[k].type \in {"larval", "open"} /\ ~chan[k].closed
    /\ chan[k].type = "larval" => chan[k].rcvd
    /\ chan' = [chan EXCEPT ![k].closed = TRUE, ![k].fd = None]
    /\ fds' = Close(fds, chan[k].fd)
    /\ UNCHANGED <<sessions, sessions_first_unused, child, mon, agentCalled,
                   no_more_sessions, up, requests>>

\* session_exit_message(): the exit status, and a write failure on the channel.
session_exit_message(p) ==
    [k \in Chans |-> IF \E i \in session_by_pid(p) : sessions[i].chan = k
                     THEN [chan[k] EXCEPT !.detach_close = TRUE, !.exits = @ \cup {p},
                                          !.fd = None]
                     ELSE chan[k]]

\* Mistake: the session keeps the number of the process that was waited for.
close_keeps_pid(p) ==
    /\ chan' = session_exit_message(p)
    /\ IF session_by_pid(p) = {} THEN UNCHANGED <<sessions, fds, mon>>
       ELSE LET i == Min(session_by_pid(p)) IN
            /\ fds' = Close(fds, chan[sessions[i].chan].fd)
            /\ mon' = Cleanup(sessions[i].tty)
            /\ sessions' = [sessions EXCEPT ![i].tty = NoTty]

\* Mistake: the terminal is released, but not unlinked from the session.
close_keeps_tty(p) ==
    /\ chan' = session_exit_message(p)
    /\ IF session_by_pid(p) = {} THEN UNCHANGED <<sessions, fds, mon>>
       ELSE LET i == Min(session_by_pid(p)) IN
            /\ fds' = Close(fds, chan[sessions[i].chan].fd)
            /\ mon' = Cleanup(sessions[i].tty)
            /\ sessions' = [sessions EXCEPT ![i].pid = None]

session_close_by_pid(p) ==
    /\ chan' = session_exit_message(p)
    /\ IF session_by_pid(p) = {} THEN UNCHANGED <<sessions, fds, mon>>
       ELSE LET i == Min(session_by_pid(p)) IN
            /\ fds' = Close(fds, chan[sessions[i].chan].fd)
            /\ mon' = Cleanup(sessions[i].tty)
            /\ sessions' = [sessions EXCEPT ![i].pid = None, ![i].tty = NoTty]

collect_children(p) ==
    /\ up = "up" /\ child[p] = "ended"
    /\ session_close_by_pid(p)
    /\ child' = [child EXCEPT ![p] = Free]
    /\ UNCHANGED <<sessions_first_unused, agentCalled, no_more_sessions, up, requests>>

chan_is_dead(k) == chan[k].type = "zombie" \/ (chan[k].closed /\ chan[k].rcvd)

\* Mistake: the listener keeps its cleanup function.
mark_dead_only(table, ids) ==
    [k \in Chans |-> IF k \in ids /\ table[k].type # Free
                     THEN [table[k] EXCEPT !.type = "zombie"] ELSE table[k]]
\* session_close_x11(): listeners that are still there are detached and marked dead.
session_close_x11(table, ids) ==
    [k \in Chans |-> IF k \in ids /\ table[k].type # Free
                     THEN [table[k] EXCEPT !.user = "none", !.type = "zombie"] ELSE table[k]]

\* chan_send_close2(): a channel whose process has ended does not wait for the client.
SendClose(k) ==
    /\ chan[k].closed /\ ~chan[k].sent /\ chan[k].detach_close
    /\ chan' = [chan EXCEPT ![k].sent = TRUE]
    /\ UNCHANGED <<sessions, sessions_first_unused, fds, mon>>

\* Mistake: the session's slot is freed although its process has not ended.
close_with_child(k) ==
    \E i \in session_by_channel(k) :
        /\ chan' = [session_close_x11(chan, sessions[i].x11) EXCEPT ![k] = NoChannel]
        /\ fds' = Close(fds, chan[k].fd)
        /\ mon' = Cleanup(sessions[i].tty)
        /\ sessions' = [sessions EXCEPT ![i] = Unused(sessions_first_unused)]
        /\ sessions_first_unused' = i

\* session_close_by_channel(): with a child only the terminal is released; otherwise the
\* session is detached and closed, and the channel freed.
session_close_by_channel(k) ==
    \E i \in session_by_channel(k) :
        IF sessions[i].pid # None
        THEN /\ sessions[i].tty # NoTty /\ mon' = Cleanup(sessions[i].tty)
             /\ sessions' = [sessions EXCEPT ![i].tty = NoTty]
             /\ UNCHANGED <<sessions_first_unused, chan, fds>>
        ELSE /\ chan' = [session_close_x11(chan, sessions[i].x11) EXCEPT ![k] = NoChannel]
             /\ fds' = Close(fds, chan[k].fd)
             /\ mon' = Cleanup(sessions[i].tty)
             /\ sessions' = [sessions EXCEPT ![i] = Unused(sessions_first_unused)]
             /\ sessions_first_unused' = i

\* A listener that ends takes its siblings and the session's display with it.
session_close_single_x11(k) ==
    /\ \E i \in session_by_x11_channel(k) :
        /\ chan' = [session_close_x11(chan, sessions[i].x11 \ {k}) EXCEPT ![k] = NoChannel]
        /\ sessions' = [sessions EXCEPT ![i].x11 = {}]
    /\ UNCHANGED <<sessions_first_unused, fds, mon>>

channel_free(k) ==
    /\ chan' = [chan EXCEPT ![k] = NoChannel]
    /\ UNCHANGED <<sessions, sessions_first_unused, fds, mon>>

channel_garbage_collect(k) ==
    /\ up = "up" /\ chan[k].type # Free
    /\ IF ~chan_is_dead(k) THEN SendClose(k)
       ELSE \/ chan[k].user = "session" /\ session_close_by_channel(k)
            \/ chan[k].user = "x11" /\ session_close_single_x11(k)
            \/ chan[k].user = "none" /\ channel_free(k)
    /\ UNCHANGED <<child, agentCalled, no_more_sessions, up, requests>>

\* A connection to a listener for a single connection closes the listener.
channel_post_x11_listener(k) ==
    /\ up = "up" /\ chan[k].type = "x11" /\ chan[k].single
    /\ chan' = [chan EXCEPT ![k].type = "zombie"]
    /\ UNCHANGED <<sessions, sessions_first_unused, child, fds, mon, agentCalled,
                   no_more_sessions, up, requests>>

\* The connection ends, in order or not, or the server process dies: the kernel closes
\* its descriptors.
ConnectionEnds ==
    /\ up \in {"up", "ending"} /\ up' = "down"
    /\ sessions' = <<>> /\ sessions_first_unused' = None
    /\ chan' = [k \in Chans |-> NoChannel] /\ fds' = [f \in DOMAIN fds |-> Free]
    /\ child' = [p \in Pids |-> Free]
    /\ UNCHANGED <<mon, agentCalled, no_more_sessions, requests>>

\* do_cleanup() in the monitor: session_destroy_all(session_pty_cleanup2).
do_cleanup ==
    /\ up = "down" /\ mon.cleanup = <<>> /\ up' = "gone"
    /\ mon' = [mon EXCEPT !.ttys = {}]
    /\ UNCHANGED <<sessions, sessions_first_unused, chan, child, fds, agentCalled,
                   no_more_sessions, requests>>

----------------------------------------------------------------------------

session_request(i) ==
    \/ session_pty_req(i)
    \/ \E single \in BOOLEAN : session_x11_req(i, single)
    \/ \E ok \in BOOLEAN : session_auth_agent_req(i, ok)
    \/ \E subsystem \in BOOLEAN : session_exec_req(i, subsystem)
    \/ session_signal_req(i)

SessionNext ==
    \/ server_request_session
    \/ request_no_more_sessions
    \/ \E i \in DOMAIN sessions : session_request(i)
    \/ \E p \in Pids : ProcessEnds(p) \/ collect_children(p)
    \/ \E k \in Chans :
        \/ chan_rcvd_oclose(k)
        \/ ChannelDrains(k)
        \/ channel_garbage_collect(k)
        \/ channel_post_x11_listener(k)
    \/ mm_answer_pty_cleanup
    \/ ConnectionEnds
    \/ do_cleanup

SessionSpec == SessionInit /\ [][SessionNext]_sessionVars

\* The server's loop goes on; a channel without a process drains, for what is left to
\* write has no reader; the monitor reads its messages.
SessionFairness ==
    /\ \A p \in Pids : WF_sessionVars(collect_children(p))
    /\ \A k \in Chans :
        /\ WF_sessionVars(channel_garbage_collect(k))
        /\ WF_sessionVars(/\ \E i \in session_by_channel(k) : sessions[i].pid = None
                          /\ ChannelDrains(k))
    /\ WF_sessionVars(up = "ending" /\ ConnectionEnds)
    /\ WF_sessionVars(mm_answer_pty_cleanup) /\ WF_sessionVars(do_cleanup)
SessionFairSpec == SessionSpec /\ SessionFairness

----------------------------------------------------------------------------
(* Properties.                                                             *)

\* The free list visits every unused slot once and no slot in use, whatever the order in
\* which sessions end (session_unused() of a slot twice would make a loop of it).
FreeListSound ==
    LET unused == DOMAIN sessions \ Used
        last == Cardinality(unused)
    IN \E list \in Bijection(1 .. last, unused) :
        /\ sessions_first_unused = IF last = 0 THEN None ELSE list[1]
        /\ \A n \in 1 .. last :
            sessions[list[n]].next = IF n = last THEN None ELSE list[n + 1]

\* The lookups whose failure is fatal succeed although channel numbers are reused: the
\* channel of a session in session_exit_message(), the session of a listener in
\* session_close_single_x11().  And no listener outlives its session's display.
LookupsSucceed ==
    /\ \A i \in Used :
        /\ chan[sessions[i].chan].type \in {"larval", "open"}
        /\ session_by_channel(sessions[i].chan) = {i}
    /\ \A k \in Chans : chan[k].type \in {"x11", "zombie"} =>
        (chan[k].user = "x11" <=> session_by_x11_channel(k) # {})
    /\ \A k \in Chans : chan[k].type = "x11" => chan[k].user = "x11"

\* A process number in a session is that of a child of its own that was not waited for:
\* a signal never reaches a stranger that got the number later.  And an exit status is
\* sent on the channel its process was started on, also when numbers were reused.
OwnProcess ==
    /\ \A i \in Used : sessions[i].pid # None =>
        /\ child[sessions[i].pid] # Free
        /\ chan[sessions[i].chan].started = {sessions[i].pid}
    /\ \A k \in Chans : chan[k].type \in {"larval", "open"} =>
        /\ chan[k].exits \subseteq chan[k].started
    /\ \A p \in Pids : up = "up" /\ child[p] # Free => session_by_pid(p) # {}

\* A session whose channel the client closed, and whose process has ended, is freed.
SessionFreed ==
    \A k \in Chans :
        /\ chan[k].type \in {"larval", "open"} /\ chan[k].rcvd
        /\ \A p \in chan[k].started : child[p] # "running"
        ~> chan[k].type \notin {"larval", "open"}

\* What the terminals' users rely on: module Terminal.
tty_owner == [t \in Ttys |->
    IF \E i \in Used : sessions[i].tty = t
    THEN sessions[CHOOSE i \in Used : sessions[i].tty = t].chan
    ELSE IF t \in mon.ttys THEN MaxChannel + 1 ELSE None]
T == INSTANCE Terminal WITH owner <- tty_owner, Owners <- Chans, Terminals <- Ttys,
        Nobody <- None, Releasing <- MaxChannel + 1
\* The two tables, the server's and the monitor's, give a terminal to one session at a
\* time, and to the next only after the monitor released it.
TerminalsExclusive == T!Spec

\* A request that starts a program uses the terminal the session was given, or fails:
\* "detect and gracefully fail out-of-fd conditions" (session.c).
ExecOnOwnPty ==
    \A i \in Used : sessions[i].tty # NoTty /\ chan[sessions[i].chan].type = "larval" =>
        fds[sessions[i].ptyfd] \in {sessions[i].tty, Free}
=============================================================================
