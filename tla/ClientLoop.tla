----------------------------- MODULE ClientLoop -----------------------------
(***************************************************************************)
(* The main loop of ssh(1) once the session runs (clientloop.c): packets   *)
(* of the server, the escape sequences the user types, the terminal's      *)
(* modes, signals, rekeying on request, the keepalive timer and the        *)
(* ControlPersist timer.                                                   *)
(*                                                                         *)
(* Session 1 is the client's own, session 2 the one of a mux client whose  *)
(* terminal the master reads.  Time is counted in seconds; anything may    *)
(* happen between two steps of the loop.                                   *)
(***************************************************************************)
EXTENDS Naturals, Sequences, SequencesExt

CONSTANTS
    LoopCases,      \* what is varied: records [name, typed, events]; the name is "tty", "alive" or "persist", and
                    \* the bounds are on the characters typed and on signals, messages and mux clients together
    Keystrokes,     \* what the user may type; "n" is a newline, "~" the escape character
    MaxTime         \* bound: seconds

VARIABLES
    setting,    \* what does not change: have_pty, alive_interval, count_max, persist_timeout, mux
    loop,       \* the variables of clientloop.c and of sshtty.c
    sess,       \* the two sessions
    around       \* the terminal, the server, the clock

loopVars == <<setting, loop, sess, around>>

Sessions == {1, 2}
NoSession == [state |-> "none", pending |-> FALSE, input |-> <<>>, sent |-> <<>>, read |-> <<>>]
NewSession_l == [NoSession EXCEPT !.state = "open"]

SettingOf(case) ==
    [have_pty        |-> case.name = "tty",
     mux             |-> case.name \in {"tty", "persist"},
     alive_interval  |-> IF case.name = "alive" THEN 2 ELSE 0,
     count_max       |-> 1,
     persist_timeout |-> IF case.name = "persist" THEN 2 ELSE 0,
     typed           |-> case.typed,
     events          |-> case.events]

----------------------------------------------------------------------------
(* sshtty.c: the terminal, what was saved of it, and _in_raw_mode.         *)

leave_raw_mode(l) == IF l.in_raw THEN [l EXCEPT !.in_raw = FALSE, !.tty = l.saved] ELSE l
enter_raw_mode(l) == [l EXCEPT !.in_raw = TRUE, !.saved = l.tty, !.tty = "raw"]

ClientLoopStart(case) ==
    LET s == SettingOf(case)
        l == [pc |-> "top", quit |-> FALSE, signal |-> "", closed |-> FALSE, need |-> FALSE, rekeying |-> FALSE,
              last_was_cr |-> TRUE, in_raw |-> FALSE, tty |-> "cooked", saved |-> "cooked", winch |-> FALSE,
              persist_at |-> 0, alive_at |-> 0, until |-> 0, alive |-> 0, listening |-> TRUE, unsent |-> FALSE,
              background |-> FALSE, forkfailed |-> FALSE, exit_status |-> 255, ended |-> ""]
    IN /\ setting = s
       /\ loop = IF s.have_pty THEN enter_raw_mode(l) ELSE l
       /\ sess = [i \in Sessions |-> IF i = 1 /\ case.name # "persist" THEN NewSession_l ELSE NoSession]
       /\ around = [now |-> 1, heard |-> 1, keys |-> [i \in Sessions |-> <<>>], net |-> <<>>, inbuf |-> <<>>,
                   waiting |-> FALSE, ctl |-> FALSE, fresh |-> FALSE, size |-> 0, known |-> 0, typed |-> 0,
                   events |-> 0, suspended |-> FALSE, stopped |-> FALSE, rest |-> <<>>, ready |-> {}]

ClientLoopInit == \E case \in LoopCases : ClientLoopStart(case)

----------------------------------------------------------------------------
(* Channels.                                                               *)

\* Listeners, abandoned sessions and channels that are gone do not count; a control connection does.
channel_still_open == (\E i \in Sessions : sess[i].state \in {"open", "closing"}) \/ around.ctl

\* channel_garbage_collect(): a channel closed on both sides goes, and the first session's takes the loop along.
Collected_l == [i \in Sessions |-> IF sess[i].state = "closing" THEN [sess[i] EXCEPT !.state = "gone"] ELSE sess[i]]
client_channel_closed(l) == leave_raw_mode([l EXCEPT !.closed = TRUE])
CollectLoop(l) == IF sess[1].state = "closing" THEN client_channel_closed(l) ELSE l
\* The control connection of a mux client ends with its session.
CollectCtl == around.ctl /\ sess[2].state # "closing"

----------------------------------------------------------------------------
(* process_escapes(): f is [l, s, stop, rest], c the next character of      *)
(* session i; ok says whether fork() succeeds.                             *)

\* The rest of what was read waits for client_continued().
client_suspend_self(f) == [f EXCEPT !.s.input = <<>>, !.stop = "suspend", !.l = leave_raw_mode(@)]
client_continued(l) == enter_raw_mode([l EXCEPT !.winch = TRUE])

Background(f, ok) ==
    LET l == [leave_raw_mode(f.l) EXCEPT !.listening = FALSE]
    IN IF ok THEN [f EXCEPT !.l = [l EXCEPT !.background = TRUE], !.s.input = Append(@, "D"), !.stop = "eof"]
             ELSE [f EXCEPT !.l = [l EXCEPT !.forkfailed = TRUE]]

NormalCharacter(f, c) ==
    [f EXCEPT !.l.last_was_cr = c = "n", !.s.input = Append(@, c)]

\* What is answered on the terminal alone: the help, and what a mux client may not do.
AnsweredLocally == {"Z", "&", "C", "?"}

EscapeCommand(i, f, c, ok) ==
    LET g == [f EXCEPT !.s.pending = FALSE] IN
    CASE c = "." /\ i = 1 -> [g EXCEPT !.l.quit = TRUE, !.stop = "eof"]
      [] c = "." /\ i = 2 -> [g EXCEPT !.s.state = "abandoned", !.s.input = <<>>, !.stop = "abandon"]
      [] c = "Z" /\ i = 1 -> client_suspend_self(g)
      [] c = "&" /\ i = 1 -> Background(g, ok)
      [] c = "C" /\ i = 1 -> [g EXCEPT !.l = enter_raw_mode(leave_raw_mode(@))]
      [] c = "R"          -> [g EXCEPT !.l.need = TRUE]
      [] c = "B"          -> [g EXCEPT !.l.unsent = TRUE]
      [] c \in AnsweredLocally -> g
      [] c = "~"          -> NormalCharacter(g, c)
      [] OTHER            -> NormalCharacter([g EXCEPT !.s.input = Append(@, "~")], c)

process_character(i, f, c, ok) ==
    CASE f.stop # ""                      -> [f EXCEPT !.rest = Append(@, c)]
      [] f.stop = "" /\ f.s.pending       -> EscapeCommand(i, f, c, ok)
      [] f.stop = "" /\ ~f.s.pending /\ f.l.last_was_cr /\ c = "~" -> [f EXCEPT !.s.pending = TRUE]
      [] OTHER                            -> NormalCharacter(f, c)

\* Without a terminal there is no escape character and no filter.
process_escapes(i, l, s, buf, ok) ==
    LET f == [l |-> l, s |-> s, stop |-> "", rest |-> <<>>]
        step(g, c) == process_character(i, g, c, ok)
    IN IF setting.have_pty \/ i = 2 THEN FoldLeft(step, f, buf) ELSE [f EXCEPT !.s.input = @ \o buf]

----------------------------------------------------------------------------
(* What happens around the loop.                                           *)

LoopRuns == loop.ended = ""
\* Descriptors are looked at in select() only: what became ready before is as if it became ready there.
Selecting == LoopRuns /\ loop.pc = "select"
More == LoopRuns /\ around.events < setting.events

\* The user types at the terminal of session i.
Types(i, c) ==
    /\ Selecting /\ around.typed < setting.typed /\ sess[i].state = "open" /\ ~loop.background
    /\ around' = [around EXCEPT !.keys[i] = Append(@, c), !.typed = @ + 1]
    /\ UNCHANGED <<setting, loop, sess>>

\* The server answers a request, ends a session, or takes part in a key exchange; or the connection is lost.
ServerSends(m) ==
    /\ More /\ Selecting /\ Len(around.net) < 2 /\ "eof" \notin Range(around.net)
    /\ (m = "close1" => sess[1].state = "open" /\ m \notin Range(around.net \o around.inbuf))
    /\ (m = "close2" => sess[2].state \in {"open", "abandoned"} /\ m \notin Range(around.net \o around.inbuf))
    /\ (m = "newkeys" => loop.rekeying /\ m \notin Range(around.net \o around.inbuf))
    /\ around' = [around EXCEPT !.net = Append(@, m), !.events = @ + 1]
    /\ UNCHANGED <<setting, loop, sess>>

\* A mux client connects to the control socket.
MuxConnects ==
    /\ More /\ Selecting /\ setting.mux /\ ~around.waiting /\ ~around.ctl /\ sess[2].state = "none"
    /\ around' = [around EXCEPT !.waiting = TRUE, !.events = @ + 1]
    /\ UNCHANGED <<setting, loop, sess>>

\* signal_handler()
SignalArrives(sig) ==
    /\ More /\ loop.signal = ""
    /\ loop' = [loop EXCEPT !.signal = sig, !.quit = TRUE]
    /\ around' = [around EXCEPT !.events = @ + 1]
    /\ UNCHANGED <<setting, sess>>

\* The window of the terminal is resized: window_change_handler().
WindowChanges ==
    /\ More /\ setting.have_pty
    /\ loop' = [loop EXCEPT !.winch = TRUE]
    /\ around' = [around EXCEPT !.size = 1 - @, !.events = @ + 1]
    /\ UNCHANGED <<setting, sess>>

Tick ==
    /\ LoopRuns /\ around.now < MaxTime /\ (setting.alive_interval > 0 \/ setting.persist_timeout > 0)
    /\ around' = [around EXCEPT !.now = @ + 1]
    /\ UNCHANGED <<setting, loop, sess>>

----------------------------------------------------------------------------
(* The loop.                                                               *)

LoopAt(pc) == LoopRuns /\ loop.pc = pc /\ ~around.stopped

\* Packets in the order received; every packet ends the count of unanswered keepalives.
PacketsHandled(m, ms) == m \in Range(ms)
client_process_buffered_input_packets ==
    LET ms == around.inbuf IN
    [l |-> [loop EXCEPT !.rekeying = @ /\ ~PacketsHandled("newkeys", ms),
                        !.alive = IF ms = <<>> THEN @ ELSE 0,
                        !.unsent = @ \/ PacketsHandled("close1", ms) \/ PacketsHandled("close2", ms)],
     s |-> [i \in Sessions |->
               IF PacketsHandled(IF i = 1 THEN "close1" ELSE "close2", ms) THEN [sess[i] EXCEPT !.state = "closing"]
               ELSE sess[i]]]

\* The end of client_loop(): the terminal is restored, then the exit status decided.
Ends(l, why) ==
    LET m == IF setting.have_pty THEN leave_raw_mode(l) ELSE l
    IN [m EXCEPT !.pc = "done", !.ended = why, !.exit_status = IF l.signal # "" THEN 0 ELSE @]

\* The head of the loop up to client_check_window_change().
LoopTop ==
    /\ LoopAt("top")
    /\ IF loop.quit THEN loop' = Ends(loop, "quit") /\ UNCHANGED <<sess, around>>
       ELSE LET p == client_process_buffered_input_packets
                open == (\E i \in Sessions : p.s[i].state \in {"open", "closing"}) \/ around.ctl
            IN /\ around' = [around EXCEPT !.inbuf = <<>>, !.heard = IF around.inbuf = <<>> THEN @ ELSE around.now]
               /\ IF p.l.closed /\ ~open THEN loop' = Ends(p.l, "closed") /\ sess' = p.s
                  ELSE IF p.l.rekeying THEN loop' = [p.l EXCEPT !.pc = "wait"] /\ sess' = p.s
                  ELSE IF p.l.need
                  THEN loop' = [p.l EXCEPT !.pc = "wait", !.need = FALSE, !.rekeying = TRUE, !.unsent = TRUE] /\ sess' = p.s
                  ELSE /\ loop' = [p.l EXCEPT !.pc = "winch",
                                   !.unsent = @ \/ \E i \in Sessions : p.s[i].state = "open" /\ p.s[i].input # <<>>]
                       /\ sess' = [i \in Sessions |->
                             IF p.s[i].state = "open" THEN [p.s[i] EXCEPT !.sent = @ \o p.s[i].input, !.input = <<>>]
                             ELSE p.s[i]]
    /\ UNCHANGED setting

\* client_check_window_change(): the flag is cleared, and then the size is asked for.
ClearWindowFlag ==
    /\ LoopAt("winch")
    /\ loop' = [loop EXCEPT !.winch = FALSE, !.pc = IF loop.winch THEN "resize" ELSE "quit?"]
    /\ UNCHANGED <<setting, sess, around>>

channel_send_window_changes ==
    /\ LoopAt("resize")
    /\ loop' = [loop EXCEPT !.pc = "quit?", !.unsent = @ \/ sess[1].state = "open"]
    /\ around' = [around EXCEPT !.known = IF sess[1].state = "open" THEN around.size ELSE @]
    /\ UNCHANGED <<setting, sess>>

QuitOrWait ==
    /\ LoopAt("quit?")
    /\ loop' = IF loop.quit THEN Ends(loop, "quit") ELSE [loop EXCEPT !.pc = "wait"]
    /\ UNCHANGED <<setting, sess, around>>

\* A mutant: a scheduled exit is not cancelled when a client connects.
set_control_persist_never_cancelled(at, open) ==
    IF setting.persist_timeout = 0 THEN 0
    ELSE IF at = 0 /\ ~open THEN around.now + setting.persist_timeout ELSE at

\* set_control_persist_exit_time(), with the channels as they are.
set_control_persist_exit_time(at, open) ==
    IF setting.persist_timeout = 0 \/ open THEN 0
    ELSE IF at = 0 THEN around.now + setting.persist_timeout ELSE at

Earlier(a, b) == IF a = 0 THEN b ELSE IF b = 0 THEN a ELSE IF a < b THEN a ELSE b

\* client_wait_until_can_do_something() up to select(); dead channels are collected unless keys are exchanged.
PrepareSelect ==
    /\ LoopAt("wait")
    /\ LET s    == IF loop.rekeying THEN sess ELSE Collected_l
           l    == IF loop.rekeying THEN loop ELSE CollectLoop(loop)
           ctl  == IF loop.rekeying THEN around.ctl ELSE CollectCtl
           open == (\E i \in Sessions : s[i].state \in {"open", "closing"}) \/ ctl
           exit == set_control_persist_exit_time(l.persist_at, open)
           alive == IF setting.alive_interval > 0 THEN around.now + setting.alive_interval ELSE 0
       IN /\ sess' = s
          /\ around' = [around EXCEPT !.ctl = ctl]
          /\ loop' = IF l.closed /\ ~open /\ ~l.unsent THEN [l EXCEPT !.pc = "none"]
                     ELSE [l EXCEPT !.pc = "select", !.alive_at = alive, !.persist_at = exit, !.until = Earlier(alive, exit)]
    /\ UNCHANGED setting

\* server_alive_check()
server_alive_check(l) ==
    IF l.alive + 1 > setting.count_max THEN [l EXCEPT !.alive = @ + 1, !.ended = "timeout", !.pc = "done"]
    ELSE [l EXCEPT !.alive = @ + 1, !.unsent = TRUE, !.pc = "none"]

\* Nothing became ready before the time was up.
SelectTimesOut ==
    /\ LoopAt("select") /\ loop.until # 0 /\ around.now >= loop.until
    /\ loop' = IF loop.alive_at # 0 /\ loop.alive_at <= around.now THEN server_alive_check(loop)
               ELSE [loop EXCEPT !.pc = "none"]
    /\ UNCHANGED <<setting, sess, around>>

\* A signal ended select(); the masks are cleared.
SelectInterrupted ==
    /\ LoopAt("select") /\ (loop.quit \/ loop.winch)
    /\ loop' = [loop EXCEPT !.pc = "none"]
    /\ UNCHANGED <<setting, sess, around>>

\* The other end of the terminal of a client in the background is not read any more.
ReadyKeys(i) == around.keys[i] # <<>> /\ sess[i].state = "open" /\ ~loop.rekeying /\ (i = 1 => ~loop.background)
ReadyAccept == ~loop.rekeying /\ around.waiting
ReadyRequest == ~loop.rekeying /\ around.ctl /\ sess[2].state = "none"
ReadySet ==
    {k \in {"key1", "key2", "accept", "request"} :
        CASE k = "key1" -> ReadyKeys(1) [] k = "key2" -> ReadyKeys(2)
          [] k = "accept" -> ReadyAccept [] OTHER -> ReadyRequest}

\* Some descriptor is ready; around.ready are those of channels.
SelectReturns ==
    /\ LoopAt("select")
    /\ ReadySet # {} \/ around.net # <<>> \/ loop.unsent
    /\ loop' = [loop EXCEPT !.pc = "after"]
    /\ around' = [around EXCEPT !.fresh = FALSE, !.ready = ReadySet]
    /\ UNCHANGED <<setting, sess>>

\* channel_after_select() for one terminal: channel_handle_rfd() and the escape filter.
Filtered(i, l, buf, ok, w) ==
    LET f == process_escapes(i, l, sess[i], buf, ok)
        suspend == f.stop = "suspend"
    IN /\ loop' = f.l
       /\ sess' = [sess EXCEPT ![i] = [f.s EXCEPT !.read = @ \o buf]]
       /\ around' = [w EXCEPT !.suspended = @ \/ suspend, !.stopped = suspend, !.rest = IF suspend THEN f.rest ELSE <<>>,
                              !.ctl = @ /\ f.stop # "abandon"]
       /\ UNCHANGED setting

KeyOf(i) == IF i = 1 THEN "key1" ELSE "key2"
ChannelAfterSelect(i, ok) ==
    /\ LoopAt("after") /\ KeyOf(i) \in around.ready
    /\ Filtered(i, loop, around.keys[i], ok, [around EXCEPT !.keys[i] = <<>>, !.ready = @ \ {KeyOf(i)}])

\* The user continues a suspended client.
Continues(ok) ==
    /\ around.stopped
    /\ Filtered(1, client_continued(loop), around.rest, ok, around)

\* The mux listener accepts, and the client asks for its session.
AcceptMux ==
    /\ LoopAt("after") /\ "accept" \in around.ready
    /\ around' = [around EXCEPT !.waiting = FALSE, !.ready = @ \ {"accept"}, !.ctl = TRUE, !.fresh = TRUE]
    /\ UNCHANGED <<setting, loop, sess>>

MuxSession ==
    /\ LoopAt("after") /\ "request" \in around.ready
    /\ sess' = [sess EXCEPT ![2] = NewSession_l]
    /\ around' = [around EXCEPT !.ready = @ \ {"request"}]
    /\ UNCHANGED <<setting, loop>>

\* client_process_net_input(), the write to the server, and the ControlPersist timer.
NetInput(l, net) ==
    IF net # <<>> /\ net[1] = "eof" THEN [l EXCEPT !.quit = TRUE] ELSE l

ControlPersistExpired(l) == l.persist_at > 0 /\ around.now >= l.persist_at

LoopBottom(read, written) ==
    /\ loop.pc \in {"after", "none"} /\ LoopAt(loop.pc) /\ around.ready = {}
    /\ (loop.pc = "none" => ~read /\ ~written)
    /\ (read => around.net # <<>>) /\ (written => loop.unsent)
    /\ IF loop.quit THEN loop' = Ends(loop, "quit") /\ UNCHANGED <<sess, around>>
       ELSE LET collect == loop.pc = "after" /\ ~loop.rekeying
                l  == IF collect THEN CollectLoop(loop) ELSE loop
                m  == IF read THEN NetInput(l, around.net) ELSE l
                n  == IF written THEN [m EXCEPT !.unsent = FALSE] ELSE m
                lost == read /\ around.net[1] = "eof"
            IN /\ loop' = IF m.quit THEN Ends(m, "quit")
                          ELSE IF ControlPersistExpired(n) THEN Ends(n, "persist")
                          ELSE [n EXCEPT !.pc = "top"]
               /\ sess' = IF collect THEN Collected_l ELSE sess
               /\ around' = [around EXCEPT !.ctl = IF collect THEN CollectCtl ELSE @,
                                         !.net = IF read THEN Tail(@) ELSE @,
                                         !.inbuf = IF read /\ ~lost THEN Append(@, around.net[1]) ELSE @]
    /\ UNCHANGED setting

ClientLoopNext ==
    \/ \E i \in Sessions, c \in Keystrokes : Types(i, c)
    \/ \E m \in {"reply", "close1", "close2", "newkeys", "eof"} : ServerSends(m)
    \/ MuxConnects \/ WindowChanges \/ Tick
    \/ \E sig \in {"INT", "TERM"} : SignalArrives(sig)
    \/ LoopTop \/ ClearWindowFlag \/ channel_send_window_changes \/ QuitOrWait
    \/ PrepareSelect \/ SelectTimesOut \/ SelectInterrupted \/ SelectReturns
    \/ \E i \in Sessions, ok \in BOOLEAN : ChannelAfterSelect(i, ok)
    \/ \E ok \in BOOLEAN : Continues(ok)
    \/ AcceptMux \/ MuxSession
    \/ \E read, written \in BOOLEAN : LoopBottom(read, written)

ClientLoopSpec == ClientLoopInit /\ [][ClientLoopNext]_loopVars

----------------------------------------------------------------------------
(* Properties.                                                             *)

\* What ssh(1) says of escapes: [out, start, pending] after each character of what was typed at one terminal.
OwnFilter(typed) ==
    LET At0 == [out |-> <<>>, start |-> TRUE, pending |-> FALSE, over |-> FALSE]
        Command(c) == c \in {"R", "B", "Z", "&", "C", "?"}
        After(a, c) ==
            IF a.over THEN a
            ELSE IF a.pending /\ c = "." THEN [a EXCEPT !.pending = FALSE, !.over = TRUE]
            ELSE IF a.pending /\ Command(c) THEN [a EXCEPT !.pending = FALSE]
            ELSE IF a.pending
            THEN [a EXCEPT !.pending = FALSE, !.out = @ \o (IF c = "~" THEN <<c>> ELSE <<"~", c>>), !.start = c = "n"]
            ELSE IF a.start /\ c = "~" THEN [a EXCEPT !.pending = TRUE]
            ELSE [a EXCEPT !.out = Append(@, c), !.start = c = "n"]
    IN FoldLeft(After, At0, typed).out

\* What the user types and is not part of an escape sequence reaches the server once and in order, whatever signals,
\* rekeying and resizes come in between.  Left out: input waiting when the client is suspended, which is discarded,
\* and the case in which two terminals share last_was_cr.
TypedArrives ==
    \A i \in Sessions :
        (/\ sess[i].state \in {"open", "closing", "gone"} /\ setting.have_pty
         /\ ~around.suspended /\ ~loop.background /\ sess[3 - i].read = <<>>)
        => sess[i].sent \o sess[i].input = OwnFilter(sess[i].read)

\* The terminal has its own modes back whenever the user is returned to the shell: the client is suspended, ended or in
\* the background; and it is raw while the session runs, unless the client could not be put into the background.
TerminalRestored ==
    /\ ((~LoopRuns \/ around.stopped \/ loop.background) => (loop.tty = "cooked" \/ loop.ended = "timeout"))
    /\ ((LoopRuns /\ setting.have_pty /\ ~loop.closed /\ ~around.stopped /\ ~loop.background /\ ~loop.forkfailed)
        => loop.tty = "raw")

\* A server is given up only after it was silent for as long as ssh_config(5) says.
GivenUpOnlyWhenSilent ==
    loop.ended = "timeout" => around.now - around.heard >= setting.alive_interval * (setting.count_max + 1)

\* The server knows the size of the window, or the client remembers to tell it.
WindowKnown ==
    (LoopRuns /\ sess[1].state = "open" /\ setting.have_pty) =>
        (around.known = around.size \/ loop.winch \/ loop.pc = "resize" \/ around.stopped)

\* A master that ends because it was idle leaves nobody behind but a client accepted in its very last pass.
PersistWaits == loop.ended = "persist" => (~channel_still_open \/ around.fresh)

\* No client at all.
PersistNeverCutsOff == loop.ended = "persist" => ~channel_still_open

ClientLoopSound ==
    TypedArrives /\ TerminalRestored /\ GivenUpOnlyWhenSilent /\ WindowKnown /\ PersistWaits
=============================================================================
