------------------------------- MODULE Nchan -------------------------------
(***************************************************************************)
(* The close state machine of one end of a channel (nchan.c).              *)
(*                                                                         *)
(* An end of a channel is a record; every C function that takes a Channel  *)
(* is an operator from a record to a record that bears the function's      *)
(* name.  The packets the function queues are appended to c.wire, the      *)
(* ordered stream this end sends to its peer.                              *)
(***************************************************************************)
EXTENDS Integers, Sequences

(* c->type, as far as protocol 2 channels that carry data go through it.   *)
(* "none": not allocated yet; "freed": channel_free() has been called.     *)
ChannelType == {"none", "opening", "connecting", "larval", "open", "zombie", "freed"}

(* c->istate and c->ostate.  wait_oclose and wait_ieof belong to protocol  *)
(* 1 and no code sets them any more.                                       *)
HalfState == {"open", "drain", "closed"}

(* c->flags; CHAN_LOCAL is set for multiplexing control channels only.     *)
Flag == {"eof_sent", "eof_rcvd", "close_sent", "close_rcvd"}

(* c->extended_usage *)
ExtUsage == {"ignore", "read", "write"}

(* The message kinds, the channel requests by their request type.          *)
MsgType == {"OPEN", "CONFIRM", "OPENFAIL", "ADJUST", "DATA", "EXT", "EOF", "CLOSE",
            "exec", "eow", "exit", "window-change", "keepalive", "SUCCESS", "FAILURE"}

(* Messages whose length counts against the receiver's window, and the     *)
(* messages that grant window to their receiver.                           *)
Carrying == {"DATA", "EXT"}
Granting == {"OPEN", "CONFIRM", "ADJUST"}

(* A message: kind, length or window, and the sender's totals after it.    *)
Msg == {m \in [t : MsgType, n : Int, sent : Nat, granted : Int] : m.t \in Carrying => m.n >= 0}

(* One end of a channel:                                                   *)
(*   input, output, extended      bytes in c->input, c->output, c->extended *)
(*   efd, extended_usage          c->efd != -1 and what it is used for     *)
(*   detach_user, detach_close    the cleanup callback and its do_close    *)
(*   isatty                       c->isatty                                *)
(*   confirm                      a request's reply is awaited             *)
(*   session                      strcmp(c->ctype, "session") == 0         *)
(*   child                        the session's process: not started,      *)
(*                                running or reaped (session.c)            *)
(*   died                         fatal() or ssh_packet_disconnect()       *)
(* History: nread / eread / nwritten, the bytes read from rfd and efd and  *)
(* written to wfd;                                                         *)
(* cut, the output side was closed by a failed write; exit_rcvd, the exit  *)
(* status arrived; sent / granted and rcvd / got, the running totals of    *)
(* data and window bytes this end put on its wire and took from the other. *)
Chan == [type : ChannelType, istate : HalfState, ostate : HalfState,
         flags : SUBSET Flag, have_remote_id : BOOLEAN,
         input : Nat, output : Nat, extended : Nat,
         efd : BOOLEAN, extended_usage : ExtUsage,
         local_window : Int, local_consumed : Nat, remote_window : Int,
         detach_user : {"none", "client", "session"}, detach_close : BOOLEAN,
         isatty : BOOLEAN, confirm : BOOLEAN, session : BOOLEAN,
         child : {"none", "running", "reaped"}, died : BOOLEAN,
         nread : Nat, eread : Nat, nwritten : Nat, cut : BOOLEAN, exit_rcvd : BOOLEAN,
         sent : Nat, granted : Int, rcvd : Nat, got : Int,
         wire : Seq(Msg)]

-----------------------------------------------------------------------------
(* fatal() and ssh_packet_disconnect(): the process is gone. *)
fatal(c) == [c EXCEPT !.died = TRUE]

(* sshpkt_start() ... sshpkt_send(): queue one message of length n. *)
sshpkt_send(c, t, n) ==
  LET d == IF t \in Carrying THEN c.sent + n ELSE c.sent
      g == IF t \in Granting THEN c.granted + n ELSE c.granted
  IN  [c EXCEPT !.sent = d, !.granted = g,
                !.wire = Append(@, [t |-> t, n |-> n, sent |-> d, granted |-> g])]

(* A message addressed to c->remote_id: fatal() when it is not known. *)
send_to_remote(c, t, n) ==
  IF c.have_remote_id THEN sshpkt_send(c, t, n) ELSE fatal(c)

(* The bits of c->flags that end the exchange of data. *)
CloseFlags == {"close_sent", "close_rcvd"}

(* CHANNEL_EFD_INPUT_ACTIVE and CHANNEL_EFD_OUTPUT_ACTIVE *)
EFD_INPUT_ACTIVE(c) ==
  c.extended_usage = "read" /\ (c.efd \/ c.extended > 0)
EFD_OUTPUT_ACTIVE(c) ==
  /\ c.extended_usage = "write"
  /\ c.efd
  /\ c.flags \cap {"eof_rcvd", "close_rcvd"} = {} \/ c.extended > 0

(* Closing the descriptors: what is in the buffer of a closed output side  *)
(* is thrown away; stderr is closed only if it is read from.               *)
chan_shutdown_write(c) == [c EXCEPT !.output = 0]
chan_shutdown_extended_read(c) ==
  IF c.type # "larval" /\ c.extended_usage # "write"
  THEN [c EXCEPT !.efd = FALSE] ELSE c

chan_send_eof2(c) ==
  IF c.istate = "drain"
  THEN LET s == send_to_remote(c, "EOF", 0)
       IN  [s EXCEPT !.flags = @ \cup {"eof_sent"}]
  ELSE c

(* Mutant: the CLOSE is sent again on every pass. *)
close2_repeats(c) ==
  IF c.ostate = "closed" /\ c.istate = "closed"
  THEN LET s == send_to_remote(c, "CLOSE", 0)
       IN  [s EXCEPT !.flags = @ \cup {"close_sent"}]
  ELSE c

chan_send_close2(c) ==
  IF c.ostate = "closed" /\ c.istate = "closed" /\ "close_sent" \notin c.flags
  THEN LET s == send_to_remote(c, "CLOSE", 0)
       IN  [s EXCEPT !.flags = @ \cup {"close_sent"}]
  ELSE c

chan_send_eow2(c) ==
  IF c.ostate = "closed" THEN c ELSE send_to_remote(c, "eow", 0)

(* The local input ended: what is buffered is still to be sent. *)
chan_read_failed(c) ==
  IF c.istate = "open" THEN [c EXCEPT !.istate = "drain"] ELSE c

chan_ibuf_empty(c) ==
  IF c.input = 0 /\ c.istate = "drain"
  THEN LET s == IF "close_sent" \in c.flags THEN c ELSE chan_send_eof2(c)
       IN  [s EXCEPT !.istate = "closed"]
  ELSE c

chan_obuf_empty(c) ==
  IF c.output = 0 /\ c.ostate = "drain"
  THEN LET s == chan_shutdown_write(c) IN [s EXCEPT !.ostate = "closed"]
  ELSE c

chan_rcvd_eow(c) ==
  IF c.istate = "open" THEN [c EXCEPT !.istate = "closed"] ELSE c

(* Mutant: EOF closes the output side with data still to be written. *)
ieof_drops_output(c) ==
  LET a == [c EXCEPT !.flags = @ \cup {"eof_rcvd"}]
  IN  IF a.ostate = "closed" THEN a
      ELSE LET s == chan_shutdown_write(a) IN [s EXCEPT !.ostate = "closed"]

chan_rcvd_ieof(c) ==
  LET a == [c EXCEPT !.flags = @ \cup {"eof_rcvd"},
                     !.ostate = IF @ = "open" THEN "drain" ELSE @]
  IN  IF a.ostate = "drain" /\ a.output = 0 /\ ~EFD_OUTPUT_ACTIVE(a)
      THEN chan_obuf_empty(a) ELSE a

(* CLOSE received: a larval channel is torn down at once; else the output  *)
(* drains and the input is abandoned, whatever it still holds.             *)
chan_rcvd_oclose(c) ==
  LET a == [c EXCEPT !.flags = @ \cup {"close_rcvd"}]
      b == [a EXCEPT !.ostate = IF @ = "open" THEN "drain" ELSE @]
      e == IF b.istate = "drain" THEN chan_send_eof2(b) ELSE b
      x == IF b.istate = "closed" THEN e ELSE chan_shutdown_extended_read(e)
  IN  IF c.type = "larval"
      THEN [a EXCEPT !.ostate = "closed", !.istate = "closed"]
      ELSE [x EXCEPT !.istate = "closed"]

chan_write_failed(c) ==
  IF c.ostate = "closed" THEN c
  ELSE LET s == chan_shutdown_write(c)
           e == IF c.session THEN chan_send_eow2(s) ELSE s
       IN  [e EXCEPT !.ostate = "closed", !.cut = TRUE]

chan_mark_dead(c) == [c EXCEPT !.type = "zombie"]

(* chan_is_dead() may send the CLOSE before it answers: is_dead_send is    *)
(* the channel after the call, chan_is_dead its result.                    *)
is_dead_send(c, do_send) ==
  IF c.type # "zombie" /\ do_send THEN chan_send_close2(c) ELSE c

(* Mutant: the peer's CLOSE is not awaited. *)
dead_once_close_sent(c, do_send) ==
  \/ c.type = "zombie"
  \/ /\ c.istate = "closed" /\ c.ostate = "closed"
     /\ "close_sent" \in is_dead_send(c, do_send).flags

chan_is_dead(c, do_send) ==
  \/ c.type = "zombie"
  \/ /\ c.istate = "closed" /\ c.ostate = "closed"
     /\ LET f == is_dead_send(c, do_send).flags
        IN  "close_rcvd" \in f /\ (do_send => "close_sent" \in f)
=============================================================================
