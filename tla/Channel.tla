------------------------------ MODULE Channel ------------------------------
(***************************************************************************)
(* One channel between a client and a server process, from the OPEN        *)
(* request to channel_free() on both ends (channels.c, with the callbacks  *)
(* of clientloop.c, serverloop.c, session.c and mux.c that act on it).     *)
(*                                                                         *)
(* Both programs are single-threaded loops: dispatch every buffered        *)
(* packet, channel_output_poll, channel_prepare_select, select, (server)   *)
(* collect_children, channel_after_select.  Only the network is shared, so *)
(* a loop pass is one action and the handling of one packet another.       *)
(***************************************************************************)
EXTENDS Nchan

CONSTANTS
  Kinds,      \* which channels are modelled, a subset of AllKinds
  Window,     \* local_window_max
  MaxPacket,  \* local_maxpacket of both ends
  \* For each kind:
  MaxRead,    \* what one read() from a descriptor returns at most
  MaxData,    \* bound: bytes read from rfd per end
  MaxExt,     \* bound: bytes the server reads from stderr
  MaxReq      \* bound: window-change and keepalive requests per end

(* "session": the client's own session.  "mux": a session of a multiplexed *)
(* slave, whose descriptors the master holds.  "tcpip": a forwarded        *)
(* connection.                                                             *)
AllKinds == {"session", "mux", "tcpip"}
Sessions == {"session", "mux"}

ASSUME ChannelAssumption ==
  /\ Kinds \subseteq AllKinds
  /\ Window \in Nat \ {0, 1} /\ MaxPacket \in Nat \ {0}
  /\ MaxRead \in [AllKinds -> Nat \ {0}]
  /\ {MaxData, MaxExt, MaxReq} \subseteq [AllKinds -> Nat]

VARIABLES
  kind,  \* the kind of this channel
  ch,    \* the two ends
  reqs,  \* requests sent by timers and signals, per end
  conn   \* "up", or "quit" once the client gives up the connection

vars == <<kind, ch, reqs, conn>>

Peer == {"client", "server"}
Other(p) == IF p = "client" THEN "server" ELSE "client"

TypeOK ==
  /\ kind \in Kinds
  /\ ch \in [Peer -> Chan]
  /\ reqs \in [Peer -> 0 .. MaxReq[kind]]
  /\ conn \in {"up", "quit"}
-----------------------------------------------------------------------------
(* Allocation. *)

(* No channel in the slot. *)
NoChan ==
  [type |-> "none", istate |-> "open", ostate |-> "open", flags |-> {},
   have_remote_id |-> FALSE, input |-> 0, output |-> 0, extended |-> 0,
   efd |-> FALSE, extended_usage |-> "ignore",
   local_window |-> 0, local_consumed |-> 0, remote_window |-> 0,
   detach_user |-> "none", detach_close |-> FALSE,
   isatty |-> FALSE, confirm |-> FALSE, session |-> FALSE,
   child |-> "none", died |-> FALSE,
   nread |-> 0, eread |-> 0, nwritten |-> 0, cut |-> FALSE, exit_rcvd |-> FALSE,
   sent |-> 0, granted |-> 0, rcvd |-> 0, got |-> 0, wire |-> <<>>]

(* channel_new(): a zeroed channel of a type, with its window. *)
channel_new(c, type, window, session) ==
  [c EXCEPT !.type = type, !.local_window = window, !.session = session]

(* channel_free(): buffers and descriptors go; the rest is history. *)
channel_free(c) ==
  [c EXCEPT !.type = "freed", !.input = 0, !.output = 0, !.extended = 0,
            !.efd = FALSE, !.confirm = FALSE]

channel_register_cleanup(c, user, do_close) ==
  [c EXCEPT !.detach_user = user, !.detach_close = do_close]
channel_cancel_cleanup(c) == channel_register_cleanup(c, "none", FALSE)

(* channel_lookup() finds the channel: there is one and it is not torn     *)
(* down.                                                                   *)
Exists(c) == c.type \notin {"none", "freed"}
-----------------------------------------------------------------------------
(* Sending: channel_output_poll(). *)

Least(a, b) == IF a < b THEN a ELSE b

(* Mutants: the packet is not cut to what is buffered; the EOF does not    *)
(* wait for stderr.                                                        *)
poll_input_unclamped(c) ==
  LET len == Least(c.remote_window, MaxPacket)
      s   == send_to_remote(c, "DATA", len)
  IN  CASE c.input = 0 /\ c.istate = "drain" /\ ~EFD_INPUT_ACTIVE(c) -> chan_ibuf_empty(c)
        [] len > 0 -> [s EXCEPT !.input = @ - len, !.remote_window = @ - len]
        [] OTHER   -> c
poll_input_forgets_stderr(c) ==
  LET len == Least(Least(c.input, c.remote_window), MaxPacket)
      s   == send_to_remote(c, "DATA", len)
  IN  CASE c.input = 0 /\ c.istate = "drain" -> chan_ibuf_empty(c)
        [] len > 0 -> [s EXCEPT !.input = @ - len, !.remote_window = @ - len]
        [] OTHER   -> c

channel_output_poll_input_open(c) ==
  LET len == Least(Least(c.input, c.remote_window), MaxPacket)
      s   == send_to_remote(c, "DATA", len)
  IN  CASE c.input = 0 /\ c.istate = "drain" /\ ~EFD_INPUT_ACTIVE(c) -> chan_ibuf_empty(c)
        [] len > 0 -> [s EXCEPT !.input = @ - len, !.remote_window = @ - len]
        [] OTHER   -> c

channel_output_poll_extended_read(c) ==
  LET len == Least(Least(c.extended, c.remote_window), MaxPacket)
      s   == send_to_remote(c, "EXT", len)
  IN  IF len > 0 THEN [s EXCEPT !.extended = @ - len, !.remote_window = @ - len] ELSE c

channel_output_poll(c) ==
  LET a == IF c.istate # "closed" THEN channel_output_poll_input_open(c) ELSE c
      b == IF "eof_sent" \notin a.flags /\ a.extended_usage = "read"
           THEN channel_output_poll_extended_read(a) ELSE a
  IN  IF c.type = "open" /\ c.flags \cap CloseFlags = {} THEN b ELSE c
-----------------------------------------------------------------------------
(* Before select(): the descriptors a channel waits for. *)

ReadSelected(c) ==
  c.istate = "open" /\ c.remote_window > 0 /\ c.input < c.remote_window
WriteSelected(c) == c.ostate # "closed" /\ c.output > 0
BothClosed(c) == c.istate = "closed" /\ c.ostate = "closed"
EfdSelected(c) ==
  /\ c.efd /\ ~BothClosed(c)
  /\ IF c.extended_usage = "write" THEN c.extended > 0
     ELSE "eof_sent" \notin c.flags /\ c.extended < c.remote_window

(* Mutant: a drained output side is not closed. *)
pre_open_never_closes(c) == c

channel_pre_open(c) ==
  IF c.type = "open" /\ c.ostate = "drain" /\ c.output = 0 /\ ~EFD_OUTPUT_ACTIVE(c)
  THEN chan_obuf_empty(c) ELSE c
-----------------------------------------------------------------------------
(* After select(): io.rfd, io.wfd and io.efd are what read() or write()    *)
(* makes of the descriptor: a number of bytes, 0 for "not ready", -1 for   *)
(* end of file or an error.  at is the channel when the sets were filled.  *)

(* A tty whose process is gone is read without waiting for select().       *)
ForceRead(c) == c.isatty /\ c.detach_close /\ c.istate # "closed"

channel_handle_rfd(c, at, io) ==
  IF c.istate = "open" /\ (ReadSelected(at) \/ ForceRead(c))
  THEN CASE io.rfd < 0 \/ (io.rfd = 0 /\ ForceRead(c)) -> chan_read_failed(c)
         [] OTHER -> [c EXCEPT !.input = @ + io.rfd, !.nread = @ + io.rfd]
  ELSE c

channel_handle_wfd(c, at, io) ==
  LET len == Least(io.wfd, c.output)
  IN  IF WriteSelected(at) /\ c.output > 0
      THEN IF io.wfd < 0 THEN chan_write_failed(c)
           ELSE [c EXCEPT !.output = @ - len, !.local_consumed = @ + len,
                          !.nwritten = @ + len]
      ELSE c

channel_handle_efd_write(c, at, io) ==
  LET len == Least(io.efd, c.extended)
  IN  IF EfdSelected(at) /\ c.extended > 0
      THEN IF io.efd < 0 THEN [c EXCEPT !.efd = FALSE]
           ELSE [c EXCEPT !.extended = @ - len, !.local_consumed = @ + len]
      ELSE c

channel_handle_efd_read(c, at, io) ==
  IF EfdSelected(at) \/ ForceRead(c)
  THEN CASE io.efd < 0 \/ (io.efd = 0 /\ ForceRead(c)) -> [c EXCEPT !.efd = FALSE]
         [] OTHER -> [c EXCEPT !.extended = IF c.extended_usage = "read" THEN @ + io.efd ELSE @,
                               !.eread = @ + io.efd]
  ELSE c

channel_handle_efd(c, at, io) ==
  CASE ~c.efd -> c
    [] c.efd /\ c.extended_usage = "write" -> channel_handle_efd_write(c, at, io)
    [] OTHER -> channel_handle_efd_read(c, at, io)

(* Mutants: consumed bytes credited twice; the low-window test left out.   *)
check_window_credits_twice(c) ==
  LET s == send_to_remote(c, "ADJUST", c.local_consumed)
  IN  IF /\ c.flags \cap CloseFlags = {}
         /\ \/ Window - c.local_window > 3 * MaxPacket
            \/ c.local_window < Window \div 2
         /\ c.local_consumed > 0
      THEN [s EXCEPT !.local_window = @ + c.local_consumed]
      ELSE c
check_window_large_only(c) ==
  LET s == send_to_remote(c, "ADJUST", c.local_consumed)
  IN  IF /\ c.flags \cap CloseFlags = {}
         /\ Window - c.local_window > 3 * MaxPacket
         /\ c.local_consumed > 0
      THEN [s EXCEPT !.local_window = @ + c.local_consumed, !.local_consumed = 0]
      ELSE c

(* Tell the peer of consumed data once enough of the window is used up. *)
channel_check_window(c) ==
  LET s == send_to_remote(c, "ADJUST", c.local_consumed)
  IN  IF /\ c.flags \cap CloseFlags = {}
         /\ \/ Window - c.local_window > 3 * MaxPacket
            \/ c.local_window < Window \div 2
         /\ c.local_consumed > 0
      THEN [s EXCEPT !.local_window = @ + c.local_consumed, !.local_consumed = 0]
      ELSE c

channel_post_open(c, at, io) ==
  LET r == channel_handle_rfd(c, at, io)
      w == channel_handle_wfd(r, at, io)
      e == channel_handle_efd(w, at, io)
  IN  IF c.type = "open" THEN channel_check_window(e) ELSE c
-----------------------------------------------------------------------------
(* Garbage collection: the callback of a dead channel may still hold on    *)
(* to it (session_close_by_channel() does while the process runs).         *)

notify_user(c) ==
  IF c.detach_user = "session" /\ c.child = "running" THEN c ELSE channel_cancel_cleanup(c)

channel_collect(c) ==
  IF chan_is_dead(c, TRUE) THEN channel_free(is_dead_send(c, TRUE)) ELSE is_dead_send(c, TRUE)

channel_garbage_collect(c) ==
  LET a == is_dead_send(c, c.detach_close)
      b == notify_user(a)
  IN  CASE ~Exists(c) -> c
        [] Exists(c) /\ c.detach_user = "none" -> channel_collect(c)
        [] Exists(c) /\ c.detach_user # "none" /\ ~chan_is_dead(c, c.detach_close) -> a
        [] OTHER -> IF b.detach_user # "none" THEN b ELSE channel_collect(b)

(* Mutant: the callback is not changed to let the CLOSE go out. *)
close_by_pid_keeps_callback(c) ==
  LET w == chan_write_failed(send_to_remote(c, "exit", 0))
  IN  [w EXCEPT !.child = "reaped"]

(* The session's process was reaped (collect_children, session_close_by_pid*)
(* and session_exit_message): report it, let the close go out, and act as  *)
(* if writing to it had failed.                                            *)
session_close_by_pid(c) ==
  LET s == send_to_remote(c, "exit", 0)
      r == channel_register_cleanup(s, "session", TRUE)
      w == chan_write_failed(r)
  IN  [w EXCEPT !.child = "reaped"]
-----------------------------------------------------------------------------
(* Packets: one operator per entry of the dispatch table. *)

channel_input_data(c, n) ==
  CASE c.type # "open" -> c
    [] c.type = "open" /\ c.ostate # "open" ->
         [c EXCEPT !.local_window = @ - n, !.local_consumed = @ + n]
    [] c.type = "open" /\ c.ostate = "open" /\ n <= MaxPacket /\ n <= c.local_window ->
         [c EXCEPT !.local_window = @ - n, !.output = @ + n]
    [] OTHER -> c

channel_input_extended_data(c, n) ==
  CASE c.type # "open" -> c
    [] c.type = "open" /\ "eof_rcvd" \in c.flags -> fatal(c)
    [] /\ c.type = "open" /\ "eof_rcvd" \notin c.flags
       /\ c.efd /\ c.extended_usage = "write" /\ n <= c.local_window ->
         [c EXCEPT !.local_window = @ - n, !.extended = @ + n]
    [] OTHER -> c

(* The open_confirm callback of a session asks for the command at once     *)
(* (client_session2_setup, client_expect_confirm).                         *)
channel_input_open_confirmation(c, n) ==
  LET o == [c EXCEPT !.have_remote_id = TRUE, !.remote_window = n, !.type = "open"]
      s == send_to_remote(o, "exec", 0)
  IN  CASE c.type # "opening" -> fatal(c)
        [] c.type = "opening" /\ c.session -> [s EXCEPT !.confirm = TRUE]
        [] OTHER -> o

channel_input_open_failure(c) ==
  IF c.type = "opening" THEN chan_mark_dead(c) ELSE fatal(c)

channel_input_window_adjust(c, n) == [c EXCEPT !.remote_window = @ + n]

(* A reply to the awaited request: a refused command closes the channel of *)
(* a slave (client_status_confirm with CONFIRM_CLOSE).                     *)
channel_input_status_confirm(c, t) ==
  LET d == [c EXCEPT !.confirm = FALSE]
  IN  IF c.confirm /\ t = "FAILURE" THEN chan_write_failed(chan_read_failed(d)) ELSE d

(* client_input_channel_req(): only keepalive@openssh.com wants a reply,   *)
(* and as an unknown request is refused.                                   *)
client_input_channel_req(c, t) ==
  CASE t = "eow"  -> chan_rcvd_eow(c)
    [] t = "exit" -> [c EXCEPT !.exit_rcvd = TRUE]
    [] t = "keepalive" /\ "close_sent" \notin c.flags -> send_to_remote(c, "FAILURE", 0)
    [] OTHER -> c

(* Mutant: the window is granted to the client but not opened here. *)
set_fds_grants_only(c, tty) ==
  LET o == [c EXCEPT !.type = "open", !.child = "running", !.isatty = tty, !.efd = ~tty,
                     !.extended_usage = IF tty THEN "ignore" ELSE "read"]
  IN  send_to_remote(o, "ADJUST", Window)

(* channel_set_fds(): the session's process runs; its window opens. *)
channel_set_fds(c, tty) ==
  LET o == [c EXCEPT !.type = "open", !.local_window = Window, !.child = "running",
                     !.isatty = tty, !.efd = ~tty,
                     !.extended_usage = IF tty THEN "ignore" ELSE "read"]
  IN  send_to_remote(o, "ADJUST", Window)

(* server_input_channel_req() with session_input_channel_req(): a command  *)
(* is started on a larval channel only; ok is whether that succeeds.       *)
server_input_channel_req(c, t, ok, tty) ==
  LET go  == t = "exec" /\ c.type = "larval" /\ ok
      s   == IF go THEN channel_set_fds(c, tty) ELSE c
  IN  CASE t = "eow" -> chan_rcvd_eow(c)
        [] t = "exec" /\ "close_sent" \notin s.flags ->
             send_to_remote(s, IF go THEN "SUCCESS" ELSE "FAILURE", 0)
        [] OTHER -> s

(* Mutant: a session's callback lets the CLOSE go out from the start. *)
open_session_may_close(c, n, ok) ==
  LET session == kind \in Sessions
      new == IF session
             THEN channel_register_cleanup(channel_new(c, "larval", 0, TRUE), "session", TRUE)
             ELSE channel_new(c, "connecting", Window, FALSE)
      rid == [new EXCEPT !.have_remote_id = TRUE, !.remote_window = n]
  IN  CASE ~ok -> sshpkt_send(channel_free(c), "OPENFAIL", 0)
        [] ok /\ session -> send_to_remote(rid, "CONFIRM", rid.local_window)
        [] OTHER -> rid

(* server_input_channel_open(): ok is whether the session or the           *)
(* connection attempt could be set up.  A connection is confirmed later.   *)
server_input_channel_open(c, n, ok) ==
  LET session == kind \in Sessions
      new == IF session
             THEN channel_register_cleanup(channel_new(c, "larval", 0, TRUE), "session", FALSE)
             ELSE channel_new(c, "connecting", Window, FALSE)
      rid == [new EXCEPT !.have_remote_id = TRUE, !.remote_window = n]
  IN  CASE ~ok -> sshpkt_send(channel_free(c), "OPENFAIL", 0)
        [] ok /\ session -> send_to_remote(rid, "CONFIRM", rid.local_window)
        [] OTHER -> rid

Requests == {"exec", "eow", "exit", "window-change", "keepalive"}

(* The dispatch function of the message's type.  A message for a channel   *)
(* that does not exist is an error except where the handler tolerates it.  *)
Handle(p, c, m, ok, tty) ==
  CASE m.t = "OPEN" -> server_input_channel_open(c, m.n, ok)
    [] m.t # "OPEN" /\ ~Exists(c) ->
         IF m.t \in {"ADJUST", "SUCCESS", "FAILURE"} \/ (p = "client" /\ m.t \in Requests)
         THEN c ELSE fatal(c)
    [] m.t = "CONFIRM" /\ Exists(c) -> channel_input_open_confirmation(c, m.n)
    [] m.t = "OPENFAIL" /\ Exists(c) -> channel_input_open_failure(c)
    [] m.t = "ADJUST" /\ Exists(c) -> channel_input_window_adjust(c, m.n)
    [] m.t = "DATA" /\ Exists(c) -> channel_input_data(c, m.n)
    [] m.t = "EXT" /\ Exists(c) -> channel_input_extended_data(c, m.n)
    [] m.t = "EOF" /\ Exists(c) -> chan_rcvd_ieof(c)
    [] m.t = "CLOSE" /\ Exists(c) -> chan_rcvd_oclose(c)
    [] m.t \in {"SUCCESS", "FAILURE"} /\ Exists(c) -> channel_input_status_confirm(c, m.t)
    [] m.t \in Requests /\ Exists(c) ->
         IF p = "client" THEN client_input_channel_req(c, m.t)
         ELSE server_input_channel_req(c, m.t, ok, tty)

(* The message is off the wire: the receiver's totals. *)
Received(c, m) ==
  [c EXCEPT !.rcvd = IF m.t \in Carrying THEN @ + m.n ELSE @,
            !.got  = IF m.t \in Granting THEN @ + m.n ELSE @]
-----------------------------------------------------------------------------
(* Actions. *)

Alive == conn = "up" /\ \A p \in Peer : ~ch[p].died

Init ==
  /\ kind \in Kinds
  /\ ch = [p \in Peer |-> NoChan]
  /\ reqs = [p \in Peer |-> 0]
  /\ conn = "up"

(* The client allocates its end and sends the OPEN request.  A session's   *)
(* stderr is written to; its cleanup callback sends the CLOSE only for a   *)
(* slave's session.                                                        *)
channel_send_open ==
  /\ Alive /\ ch["client"].type = "none"
  /\ LET c == channel_new(ch["client"], "opening", Window, kind \in Sessions)
         s == IF kind \in Sessions
              THEN [channel_register_cleanup(c, "client", kind = "mux")
                    EXCEPT !.efd = TRUE, !.extended_usage = "write"]
              ELSE c
     IN  ch' = [ch EXCEPT !["client"] = sshpkt_send(s, "OPEN", Window)]
  /\ UNCHANGED <<kind, reqs, conn>>

(* ssh_dispatch_run(): take one packet off the wire and handle it.  A      *)
(* refused command on the client's own session ends the client.            *)
Dispatch(p) ==
  LET q == Other(p) IN
  /\ Alive /\ ch[q].wire # <<>>
  /\ LET m == Head(ch[q].wire) IN
     /\ \E ok, tty \in BOOLEAN :
          ch' = [ch EXCEPT ![q].wire = Tail(@),
                           ![p] = Handle(p, Received(ch[p], m), m, ok, tty)]
     /\ conn' = IF kind = "session" /\ ch[p].confirm /\ m.t = "FAILURE"
                THEN "quit" ELSE conn
  /\ UNCHANGED <<kind, reqs>>

(* What select(), read() and write() may answer for the descriptors that   *)
(* channel c waits for; at is c when the descriptor sets were filled.      *)
Ready(c, at) ==
  [rfd : IF c.type = "open" /\ c.istate = "open" /\ (ReadSelected(at) \/ ForceRead(c))
         THEN -1 .. Least(MaxRead[kind], MaxData[kind] - c.nread) ELSE {0},
   wfd : IF c.type = "open" /\ WriteSelected(at) THEN -1 .. c.output ELSE {0},
   efd : IF c.type = "open" /\ EfdSelected(at)
         THEN -1 .. IF c.extended_usage = "write" THEN c.extended
                    ELSE Least(MaxRead[kind], MaxExt[kind] - c.eread)
         ELSE {0}]

(* One pass of the server or client loop without its packet dispatch.      *)
(* poll: there is not too much data waiting to be written to the network;  *)
(* exits: the session's process has ended.                                 *)
LoopPre(c, poll) ==
  channel_garbage_collect(channel_pre_open(IF poll THEN channel_output_poll(c) ELSE c))

LoopPost(b, exits, io) ==
  channel_garbage_collect(
    channel_post_open(IF exits THEN session_close_by_pid(b) ELSE b, b, io))

LoopStep(p, poll, exits) ==
  LET b == LoopPre(ch[p], poll)
      e == IF exits THEN session_close_by_pid(b) ELSE b
  IN  /\ Alive /\ Exists(ch[p])
      /\ exits => b.child = "running"
      /\ \E io \in Ready(e, b) : ch' = [ch EXCEPT ![p] = LoopPost(b, exits, io)]
      /\ UNCHANGED <<kind, reqs, conn>>

Loop(p) == \E poll, exits \in BOOLEAN : LoopStep(p, poll, exits)

(* channel_post_connecting(): the connection attempt ends. *)
channel_post_connecting ==
  LET c == ch["server"] IN
  /\ Alive /\ c.type = "connecting"
  /\ \E ok \in BOOLEAN :
       LET o == [c EXCEPT !.type = "open"]
           f == IF ok THEN send_to_remote(o, "CONFIRM", o.local_window)
                ELSE chan_mark_dead(send_to_remote(c, "OPENFAIL", 0))
       IN  ch' = [ch EXCEPT !["server"] = channel_garbage_collect(f)]
  /\ UNCHANGED <<kind, reqs, conn>>

(* Mutant: the slave's end is acted on while its session is being opened.  *)
slave_gone_while_opening ==
  LET c == ch["client"]
      r == chan_read_failed(c)
      w == IF r.ostate = "open" THEN chan_write_failed(r) ELSE r
  IN  /\ Alive /\ kind = "mux" /\ c.type \in {"opening", "open"}
      /\ ch' = [ch EXCEPT !["client"] = w]
      /\ UNCHANGED <<kind, reqs, conn>>

(* mux_master_control_cleanup_cb(): the slave is gone; its session's       *)
(* descriptors are treated as failed.                                      *)
mux_master_control_cleanup_cb ==
  LET c == ch["client"]
      r == chan_read_failed(c)
      w == IF r.ostate = "open" THEN chan_write_failed(r) ELSE r
  IN  /\ Alive /\ kind = "mux" /\ c.type = "open"
      /\ ch' = [ch EXCEPT !["client"] = w]
      /\ UNCHANGED <<kind, reqs, conn>>

(* channel_send_window_changes(), on SIGWINCH: the ioctl fails once rfd    *)
(* is closed, which it is when the input side has left "open".             *)
channel_send_window_changes ==
  LET c == ch["client"] IN
  /\ Alive /\ kind \in Sessions /\ c.type = "open" /\ c.istate = "open"
  /\ reqs["client"] < MaxReq[kind]
  /\ ch' = [ch EXCEPT !["client"] = send_to_remote(c, "window-change", 0)]
  /\ reqs' = [reqs EXCEPT !["client"] = @ + 1]
  /\ UNCHANGED <<kind, conn>>

(* client_alive_check(), on a timeout, probes the client on a channel that *)
(* channel_find_open() returns: larval or open, whatever has been closed.  *)
client_alive_check ==
  LET c == ch["server"] IN
  /\ Alive /\ c.have_remote_id /\ c.type \in {"larval", "open"}
  /\ reqs["server"] < MaxReq[kind]
  /\ ch' = [ch EXCEPT !["server"] = send_to_remote(c, "keepalive", 0)]
  /\ reqs' = [reqs EXCEPT !["server"] = @ + 1]
  /\ UNCHANGED <<kind, conn>>

Next ==
  \/ channel_send_open
  \/ \E p \in Peer : Dispatch(p) \/ Loop(p)
  \/ channel_post_connecting
  \/ mux_master_control_cleanup_cb
  \/ channel_send_window_changes
  \/ client_alive_check

Spec == Init /\ [][Next]_vars
-----------------------------------------------------------------------------
(* Fairness.  Both loops keep running and keep dispatching packets, and    *)
(* the programs behind the descriptors keep taking what is written to      *)
(* them (or fail).  Nobody is obliged to produce data, to close a          *)
(* descriptor or to end a process.                                         *)

(* What a pass can make of an end when select() reports every descriptor   *)
(* that is waited for in order to write.                                   *)
ServedOutcomes(c) ==
  LET b == LoopPre(c, TRUE) IN
  {LoopPost(b, FALSE, io) : io \in
     {i \in Ready(b, b) : /\ WriteSelected(b) => i.wfd # 0
                          /\ EfdSelected(b) /\ b.extended_usage = "write" => i.efd # 0}}

Served(p) ==
  /\ Alive /\ Exists(ch[p])
  /\ \E c \in ServedOutcomes(ch[p]) : ch' = [ch EXCEPT ![p] = c]
  /\ UNCHANGED <<kind, reqs, conn>>

(* Weak fairness of Served(p) and Dispatch(p).  For Served the condition   *)
(* under which it is enabled and changes the state is written out.         *)
CanServe(p) == Alive /\ Exists(ch[p]) /\ \E c \in ServedOutcomes(ch[p]) : c # ch[p]

Fairness ==
  \A p \in Peer :
    /\ []<>~CanServe(p) \/ []<><<Served(p)>>_vars
    /\ WF_vars(Dispatch(p))

FairSpec == Spec /\ Fairness
-----------------------------------------------------------------------------
(* Properties. *)

InFlight(p) == {ch[p].wire[i] : i \in DOMAIN ch[p].wire}

(* No order of packets, descriptor events, process exits, probes and       *)
(* closes makes either program call fatal() or ssh_packet_disconnect() on  *)
(* the channel: no packet refers to a channel its receiver has freed, no   *)
(* stderr data follows an EOF, and no message is sent before the remote id *)
(* is known.                                                               *)
NoProtocolError == \A p \in Peer : ~ch[p].died

(* After CLOSE an end sends nothing but the server's keepalive probe,      *)
(* which client_alive_check() puts on any channel not yet freed.           *)
CloseIsLast ==
  \A p \in Peer : \A i, j \in DOMAIN ch[p].wire :
    i < j /\ ch[p].wire[i].t = "CLOSE" => ch[p].wire[j].t = "keepalive"

(* When an end has freed its channel, nothing that its peer sent is still  *)
(* on the way, the probe apart: a new channel may take over the number.    *)
FreedIsQuiet ==
  \A p \in Peer : ch[p].type = "freed" =>
    \A m \in InFlight(Other(p)) : m.t = "keepalive"

(* The sender never exceeds the window: all the data on the wire fits in   *)
(* the receiver's present local_window ("rcvd too much data" cannot        *)
(* happen), packets respect its maximum, and the adjustments can never     *)
(* overflow the sender's counter since it stays within local_window_max.   *)
WindowRespected ==
  \A p \in Peer : LET q == Other(p) IN
    /\ ch[p].remote_window \in 0 .. Window
    /\ \A m \in InFlight(p) : m.t \in Carrying =>
         /\ m.n <= MaxPacket
         /\ ch[q].type \notin {"none", "larval", "connecting"}
         /\ ch[q].type \in {"opening", "open"} => m.sent - ch[q].rcvd <= ch[q].local_window

(* An EOF is never early: unless the receiver's own output failed first,   *)
(* everything the sender read from its descriptors, stderr included, has   *)
(* arrived before the EOF, and the local descriptor is shut down only when *)
(* all of it has been written there.                                       *)
EofComplete ==
  \A p \in Peer : LET q == Other(p)
                       all == ch[p].nread +
                              IF ch[p].extended_usage = "read" THEN ch[p].eread ELSE 0 IN
    "eof_rcvd" \in ch[q].flags /\ ~ch[q].cut =>
      /\ ch[q].rcvd = all
      /\ ch[q].ostate = "closed" => ch[q].nwritten = ch[p].nread

(* The client learns the exit status of a command that was started before  *)
(* it learns that the channel is closed, whoever closes first.             *)
ExitStatusFirst ==
  ch["server"].child # "none" /\ "close_rcvd" \in ch["client"].flags => ch["client"].exit_rcvd

Over == ~Alive \/ \A p \in Peer : ch[p].type = "freed"

(* Once an end has sent CLOSE and no process holds the session, both ends  *)
(* are freed: the close handshake cannot get stuck, whatever is buffered.  *)
CloseCompletes ==
  (/\ \E p \in Peer : "close_sent" \in ch[p].flags
   /\ ch["server"].child # "running") ~> Over

(* A session whose process was reaped and whose output has ended is closed *)
(* and freed on both ends, whatever the client still wants to send.        *)
ExitCloses ==
  (ch["server"].child = "reaped" /\ ch["server"].istate = "closed") ~> Over

(* A used-up window reopens: an end that has sent all it may is allowed to *)
(* send again sooner or later, as long as its peer can write what it gets. *)
Unwritable(c) == c.cut \/ (c.extended_usage = "write" /\ ~c.efd)
Stalled(p) == ch[p].type = "open" /\ ch[p].istate = "open" /\ ch[p].remote_window = 0
WindowReopens ==
  \A p \in Peer : Stalled(p) ~> ~Stalled(p) \/ ~Alive \/ Unwritable(ch[Other(p)])

(* As WindowReopens, for a peer whose stderr cannot be written any more    *)
(* but whose output side is in order.                                      *)
WindowReopensWithoutStderr ==
  \A p \in Peer : Stalled(p) ~> ~Stalled(p) \/ ~Alive \/ ch[Other(p)].cut

(* The two ends agree on the protocol: no message arrives that its receiver cannot take,
   nothing follows a CLOSE, and a freed number is not written to. *)
ProtocolKept == NoProtocolError /\ CloseIsLast /\ FreedIsQuiet

(* What the reader is told is true: EOF comes after the last byte, and the exit status
   before the end of the session. *)
DataComplete == EofComplete /\ ExitStatusFirst

(* Closing, exiting and reading always come to their effect on the other end. *)
ChannelLive == CloseCompletes /\ ExitCloses /\ WindowReopens
=============================================================================
