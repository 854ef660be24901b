--------------------------- MODULE ChannelProofs ---------------------------
(***************************************************************************)
(* Theorems about the channel (modules Nchan and Channel), for all windows,*)
(* packet sizes and bounds.                                                *)
(***************************************************************************)
EXTENDS Channel, TLAPS

(* The fields of a channel, once and for all. *)
LEMMA Fields ==
  ASSUME NEW c \in Chan
  PROVE  /\ c.type \in ChannelType /\ c.istate \in HalfState /\ c.ostate \in HalfState
         /\ c.flags \in SUBSET Flag /\ c.input \in Nat /\ c.output \in Nat
         /\ c.extended \in Nat /\ c.local_window \in Int /\ c.local_consumed \in Nat
         /\ c.remote_window \in Int /\ c.nread \in Nat /\ c.eread \in Nat
         /\ c.nwritten \in Nat /\ c.sent \in Nat /\ c.granted \in Int
         /\ c.rcvd \in Nat /\ c.got \in Int /\ c.wire \in Seq(Msg)
         /\ c.child \in {"none", "running", "reaped"}
         /\ c.detach_user \in {"none", "client", "session"}
BY DEF Chan

(* What an assignment to some fields yields is a channel again: one lemma  *)
(* per combination of fields that the code assigns together.               *)
LEMMA SetFlags ==
  ASSUME NEW c \in Chan, NEW f \in SUBSET Flag PROVE [c EXCEPT !.flags = f] \in Chan
BY Zenon DEF Chan
LEMMA SetIstate ==
  ASSUME NEW c \in Chan, NEW x \in HalfState PROVE [c EXCEPT !.istate = x] \in Chan
BY Zenon DEF Chan
LEMMA SetOstate ==
  ASSUME NEW c \in Chan, NEW x \in HalfState PROVE [c EXCEPT !.ostate = x] \in Chan
BY Zenon DEF Chan
LEMMA SetOutput ==
  ASSUME NEW c \in Chan, NEW n \in Nat PROVE [c EXCEPT !.output = n] \in Chan
BY Zenon DEF Chan
LEMMA SetEfd ==
  ASSUME NEW c \in Chan, NEW b \in BOOLEAN PROVE [c EXCEPT !.efd = b] \in Chan
BY Zenon DEF Chan
LEMMA SetSend ==
  ASSUME NEW c \in Chan, NEW s \in Nat, NEW g \in Int, NEW w \in Seq(Msg)
  PROVE  [c EXCEPT !.sent = s, !.granted = g, !.wire = w] \in Chan
BY Zenon DEF Chan

LEMMA fatalType == ASSUME NEW c \in Chan PROVE fatal(c) \in Chan
BY Zenon DEF Chan, fatal

LEMMA sshpkt_sendType ==
  ASSUME NEW c \in Chan, NEW t \in MsgType, NEW n \in Int, t \in Carrying => n >= 0
  PROVE  sshpkt_send(c, t, n) \in Chan
<1> DEFINE d == IF t \in Carrying THEN c.sent + n ELSE c.sent
           g == IF t \in Granting THEN c.granted + n ELSE c.granted
           m == [t |-> t, n |-> n, sent |-> d, granted |-> g]
           w == Append(c.wire, m)
<1>1. d \in Nat /\ g \in Int BY Fields
<1>2. m \in Msg BY <1>1 DEF Msg
<1>3. w \in Seq(Msg) BY <1>2, Fields
<1>4. sshpkt_send(c, t, n) = [c EXCEPT !.sent = d, !.granted = g, !.wire = w]
  BY DEF sshpkt_send
<1> HIDE DEF d, g, m, w
<1>5. [c EXCEPT !.sent = d, !.granted = g, !.wire = w] \in Chan BY <1>1, <1>3, SetSend, Zenon
<1> QED BY <1>4, <1>5, Zenon

LEMMA send_to_remoteType ==
  ASSUME NEW c \in Chan, NEW t \in MsgType, NEW n \in Int, t \in Carrying => n >= 0
  PROVE  send_to_remote(c, t, n) \in Chan
BY sshpkt_sendType, fatalType DEF send_to_remote

LEMMA chan_send_eof2Type == ASSUME NEW c \in Chan PROVE chan_send_eof2(c) \in Chan
<1> DEFINE s == send_to_remote(c, "EOF", 0)
<1>1. s \in Chan BY send_to_remoteType DEF MsgType
<1>2. s.flags \cup {"eof_sent"} \in SUBSET Flag BY <1>1, Fields DEF Flag
<1>3. [s EXCEPT !.flags = s.flags \cup {"eof_sent"}] \in Chan BY <1>1, <1>2, SetFlags, Zenon
<1> HIDE DEF s
<1> QED BY <1>3, Zenon DEF chan_send_eof2, s

LEMMA chan_write_failedType == ASSUME NEW c \in Chan PROVE chan_write_failed(c) \in Chan
<1> DEFINE s == chan_shutdown_write(c)
           e == IF c.session THEN chan_send_eow2(s) ELSE s
<1>1. s \in Chan BY SetOutput DEF chan_shutdown_write
<1>2. chan_send_eow2(s) \in Chan BY <1>1, send_to_remoteType DEF chan_send_eow2, MsgType
<1>3. e \in Chan BY <1>1, <1>2
<1>4. [e EXCEPT !.ostate = "closed", !.cut = TRUE] \in Chan BY <1>3, Zenon DEF Chan, HalfState
<1> QED BY <1>4 DEF chan_write_failed
LEMMA chan_send_close2Type == ASSUME NEW c \in Chan PROVE chan_send_close2(c) \in Chan
<1> DEFINE s == send_to_remote(c, "CLOSE", 0)
<1>1. s \in Chan BY send_to_remoteType DEF MsgType
<1>2. s.flags \cup {"close_sent"} \in SUBSET Flag BY <1>1, Fields DEF Flag
<1>3. [s EXCEPT !.flags = s.flags \cup {"close_sent"}] \in Chan BY <1>1, <1>2, SetFlags, Zenon
<1> HIDE DEF s
<1> QED BY <1>3, Zenon DEF chan_send_close2, s

LEMMA chan_read_failedType == ASSUME NEW c \in Chan PROVE chan_read_failed(c) \in Chan
BY SetIstate DEF chan_read_failed, HalfState

LEMMA chan_rcvd_eowType == ASSUME NEW c \in Chan PROVE chan_rcvd_eow(c) \in Chan
BY SetIstate DEF chan_rcvd_eow, HalfState

LEMMA chan_ibuf_emptyType == ASSUME NEW c \in Chan PROVE chan_ibuf_empty(c) \in Chan
<1> DEFINE s == IF "close_sent" \in c.flags THEN c ELSE chan_send_eof2(c)
<1>1. s \in Chan BY chan_send_eof2Type
<1>2. [s EXCEPT !.istate = "closed"] \in Chan BY <1>1, SetIstate DEF HalfState
<1> QED BY <1>2 DEF chan_ibuf_empty

LEMMA chan_obuf_emptyType == ASSUME NEW c \in Chan PROVE chan_obuf_empty(c) \in Chan
<1> DEFINE s == chan_shutdown_write(c)
<1>1. s \in Chan BY SetOutput DEF chan_shutdown_write
<1>2. [s EXCEPT !.ostate = "closed"] \in Chan BY <1>1, SetOstate DEF HalfState
<1> QED BY <1>2 DEF chan_obuf_empty

LEMMA chan_rcvd_ieofType == ASSUME NEW c \in Chan PROVE chan_rcvd_ieof(c) \in Chan
<1> DEFINE f == c.flags \cup {"eof_rcvd"}
           o == IF c.ostate = "open" THEN "drain" ELSE c.ostate
           a == [c EXCEPT !.flags = f, !.ostate = o]
<1>1. f \in SUBSET Flag BY Fields DEF Flag
<1>2. o \in HalfState BY Fields DEF HalfState
<1>3. a \in Chan
  <2> HIDE DEF f, o
  <2> QED BY <1>1, <1>2, Zenon DEF Chan
<1>4. chan_rcvd_ieof(c) = IF a.ostate = "drain" /\ a.output = 0 /\ ~EFD_OUTPUT_ACTIVE(a)
                          THEN chan_obuf_empty(a) ELSE a
  BY DEF chan_rcvd_ieof
<1> HIDE DEF a
<1> QED BY <1>3, <1>4, chan_obuf_emptyType

LEMMA chan_shutdown_extended_readType ==
  ASSUME NEW c \in Chan PROVE chan_shutdown_extended_read(c) \in Chan
BY SetEfd DEF chan_shutdown_extended_read

LEMMA chan_rcvd_ocloseType == ASSUME NEW c \in Chan PROVE chan_rcvd_oclose(c) \in Chan
<1> DEFINE f == c.flags \cup {"close_rcvd"}
           a == [c EXCEPT !.flags = f]
           b == [a EXCEPT !.ostate = IF a.ostate = "open" THEN "drain" ELSE a.ostate]
           e == IF b.istate = "drain" THEN chan_send_eof2(b) ELSE b
           x == IF b.istate = "closed" THEN e ELSE chan_shutdown_extended_read(e)
<1>1. f \in SUBSET Flag BY Fields DEF Flag
<1>2. a \in Chan BY <1>1, SetFlags
<1>3. b \in Chan
  <2> HIDE DEF a
  <2> QED BY <1>2, SetOstate, Fields DEF HalfState
<1>4. e \in Chan
  <2> HIDE DEF b
  <2> QED BY <1>3, chan_send_eof2Type
<1>5. x \in Chan
  <2> HIDE DEF b, e
  <2> QED BY <1>4, chan_shutdown_extended_readType
<1>6. [x EXCEPT !.istate = "closed"] \in Chan
  <2> HIDE DEF x
  <2> QED BY <1>5, SetIstate DEF HalfState
<1>7. [a EXCEPT !.ostate = "closed", !.istate = "closed"] \in Chan
  <2> HIDE DEF a
  <2> QED BY <1>2, Zenon DEF Chan, HalfState
<1>8. chan_rcvd_oclose(c) = IF c.type = "larval"
                            THEN [a EXCEPT !.ostate = "closed", !.istate = "closed"]
                            ELSE [x EXCEPT !.istate = "closed"]
  BY DEF chan_rcvd_oclose
<1> HIDE DEF a, x
<1> QED BY <1>6, <1>7, <1>8, Zenon

LEMMA chan_mark_deadType == ASSUME NEW c \in Chan PROVE chan_mark_dead(c) \in Chan
BY Zenon DEF chan_mark_dead, Chan, ChannelType

LEMMA is_dead_sendType ==
  ASSUME NEW c \in Chan, NEW b \in BOOLEAN PROVE is_dead_send(c, b) \in Chan
BY chan_send_close2Type DEF is_dead_send
-----------------------------------------------------------------------------
(* A packet is no longer than what it is cut from. *)
LEMMA LeastType ==
  ASSUME NEW a \in Int, NEW b \in Int
  PROVE  Least(Least(a, b), MaxPacket) \in Int /\ Least(Least(a, b), MaxPacket) <= a
BY ChannelAssumption DEF Least

LEMMA SetIn ==
  ASSUME NEW c \in Chan, NEW n \in Nat, NEW r \in Int
  PROVE  [c EXCEPT !.input = n, !.remote_window = r] \in Chan
BY Zenon DEF Chan
LEMMA SetExt ==
  ASSUME NEW c \in Chan, NEW n \in Nat, NEW r \in Int
  PROVE  [c EXCEPT !.extended = n, !.remote_window = r] \in Chan
BY Zenon DEF Chan

(* Sending leaves the buffers and the window alone. *)
LEMMA SendFrame ==
  ASSUME NEW c \in Chan, NEW t \in MsgType, NEW n \in Int
  PROVE  LET s == send_to_remote(c, t, n)
         IN  s.input = c.input /\ s.extended = c.extended /\ s.remote_window = c.remote_window
             /\ s.local_window = c.local_window
BY Zenon DEF send_to_remote, sshpkt_send, fatal, Chan

LEMMA channel_output_poll_input_openType ==
  ASSUME NEW c \in Chan PROVE channel_output_poll_input_open(c) \in Chan
<1> DEFINE len == Least(Least(c.input, c.remote_window), MaxPacket)
           s == send_to_remote(c, "DATA", len)
<1>0. c.input \in Int /\ c.remote_window \in Int BY Fields
<1>1. len \in Int /\ len <= c.input BY <1>0, LeastType
<1>2. CASE len > 0
  <2> HIDE DEF len
  <2>1. len \in Nat BY <1>1, <1>2
  <2>2. s \in Chan BY <2>1, send_to_remoteType DEF MsgType
  <2>a. len \in Int /\ "DATA" \in MsgType BY <1>1 DEF MsgType
  <2>b. s.input = c.input /\ s.remote_window = c.remote_window BY <2>a, SendFrame, Zenon
  <2>3. s.input - len \in Nat /\ s.remote_window - len \in Int
    <3> HIDE DEF s
    <3> QED BY <1>0, <1>1, <2>1, <2>b
  <2> HIDE DEF s
  <2>4. [s EXCEPT !.input = s.input - len, !.remote_window = s.remote_window - len] \in Chan
    BY <2>2, <2>3, SetIn, Zenon
  <2> QED BY <2>4, chan_ibuf_emptyType, <1>2 DEF channel_output_poll_input_open, s, len
<1>3. CASE ~(len > 0)
  BY <1>3, chan_ibuf_emptyType DEF channel_output_poll_input_open
<1> QED BY <1>2, <1>3
LEMMA channel_output_poll_extended_readType ==
  ASSUME NEW c \in Chan PROVE channel_output_poll_extended_read(c) \in Chan
<1> DEFINE len == Least(Least(c.extended, c.remote_window), MaxPacket)
           s == send_to_remote(c, "EXT", len)
<1>0. c.extended \in Int /\ c.remote_window \in Int BY Fields
<1>1. len \in Int /\ len <= c.extended BY <1>0, LeastType
<1>2. CASE len > 0
  <2> HIDE DEF len
  <2>1. len \in Nat BY <1>1, <1>2
  <2>2. s \in Chan BY <2>1, send_to_remoteType DEF MsgType
  <2>a. len \in Int /\ "EXT" \in MsgType BY <1>1 DEF MsgType
  <2>b. s.extended = c.extended /\ s.remote_window = c.remote_window BY <2>a, SendFrame, Zenon
  <2>3. s.extended - len \in Nat /\ s.remote_window - len \in Int
    <3> HIDE DEF s
    <3> QED BY <1>0, <1>1, <2>1, <2>b
  <2> HIDE DEF s
  <2>4. [s EXCEPT !.extended = s.extended - len, !.remote_window = s.remote_window - len] \in Chan
    BY <2>2, <2>3, SetExt, Zenon
  <2> QED BY <2>4, <1>2 DEF channel_output_poll_extended_read, s, len
<1>3. CASE ~(len > 0)
  BY <1>3 DEF channel_output_poll_extended_read
<1> QED BY <1>2, <1>3

LEMMA channel_output_pollType == ASSUME NEW c \in Chan PROVE channel_output_poll(c) \in Chan
<1> DEFINE a == IF c.istate # "closed" THEN channel_output_poll_input_open(c) ELSE c
<1>1. a \in Chan BY channel_output_poll_input_openType
<1>2. channel_output_poll_extended_read(a) \in Chan
  <2> HIDE DEF a
  <2> QED BY <1>1, channel_output_poll_extended_readType
<1> QED BY <1>1, <1>2 DEF channel_output_poll

LEMMA channel_pre_openType == ASSUME NEW c \in Chan PROVE channel_pre_open(c) \in Chan
BY chan_obuf_emptyType DEF channel_pre_open
-----------------------------------------------------------------------------
(* The answers of the descriptors. *)
LEMMA ReadyType ==
  ASSUME NEW c \in Chan, NEW at \in Chan, NEW io \in Ready(c, at)
  PROVE  /\ io.rfd \in Int /\ io.wfd \in Int /\ io.efd \in Int
         /\ io.rfd >= -1 /\ io.wfd >= -1 /\ io.efd >= -1
BY Fields DEF Ready

LEMMA channel_handle_rfdType ==
  ASSUME NEW c \in Chan, NEW at, NEW io, io.rfd \in Int
  PROVE  channel_handle_rfd(c, at, io) \in Chan
<1> DEFINE i == c.input + io.rfd
           r == c.nread + io.rfd
<1>1. chan_read_failed(c) \in Chan BY chan_read_failedType
<1>2. io.rfd >= 0 => [c EXCEPT !.input = i, !.nread = r] \in Chan
  <2>1. SUFFICES ASSUME io.rfd >= 0 PROVE [c EXCEPT !.input = i, !.nread = r] \in Chan
    OBVIOUS
  <2>2. i \in Nat /\ r \in Nat BY <2>1, Fields
  <2> HIDE DEF i, r
  <2> QED BY <2>2, Zenon DEF Chan
<1> QED BY <1>1, <1>2 DEF channel_handle_rfd, ForceRead

LEMMA channel_handle_wfdType ==
  ASSUME NEW c \in Chan, NEW at, NEW io, io.wfd \in Int
  PROVE  channel_handle_wfd(c, at, io) \in Chan
<1> DEFINE len == Least(io.wfd, c.output)
           o == c.output - len
           k == c.local_consumed + len
           w == c.nwritten + len
<1>1. CASE io.wfd < 0 BY <1>1, chan_write_failedType DEF channel_handle_wfd
<1>2. CASE ~(io.wfd < 0)
  <2>1. o \in Nat /\ k \in Nat /\ w \in Nat BY <1>2, Fields DEF Least
  <2>2. [c EXCEPT !.output = o, !.local_consumed = k, !.nwritten = w] \in Chan
    <3> HIDE DEF o, k, w
    <3> QED BY <2>1, Zenon DEF Chan
  <2> QED BY <1>2, <2>2 DEF channel_handle_wfd
<1> QED BY <1>1, <1>2

LEMMA channel_handle_efdType ==
  ASSUME NEW c \in Chan, NEW at, NEW io, io.efd \in Int
  PROVE  channel_handle_efd(c, at, io) \in Chan
<1>1. channel_handle_efd_write(c, at, io) \in Chan
  <2> DEFINE len == Least(io.efd, c.extended)
             x == c.extended - len
             k == c.local_consumed + len
  <2>1. CASE io.efd < 0 BY <2>1, SetEfd DEF channel_handle_efd_write
  <2>2. CASE ~(io.efd < 0)
    <3>1. x \in Nat /\ k \in Nat BY <2>2, Fields DEF Least
    <3>2. [c EXCEPT !.extended = x, !.local_consumed = k] \in Chan
      <4> HIDE DEF x, k
      <4> QED BY <3>1, Zenon DEF Chan
    <3> QED BY <2>2, <3>2 DEF channel_handle_efd_write
  <2> QED BY <2>1, <2>2
<1>2. channel_handle_efd_read(c, at, io) \in Chan
  <2> DEFINE x == IF c.extended_usage = "read" THEN c.extended + io.efd ELSE c.extended
             e == c.eread + io.efd
  <2>1. [c EXCEPT !.efd = FALSE] \in Chan BY SetEfd
  <2>2. io.efd >= 0 => [c EXCEPT !.extended = x, !.eread = e] \in Chan
    <3>1. SUFFICES ASSUME io.efd >= 0 PROVE [c EXCEPT !.extended = x, !.eread = e] \in Chan
      OBVIOUS
    <3>2. x \in Nat /\ e \in Nat BY <3>1, Fields
    <3> HIDE DEF x, e
    <3> QED BY <3>2, Zenon DEF Chan
  <2> QED BY <2>1, <2>2 DEF channel_handle_efd_read, ForceRead
<1> QED BY <1>1, <1>2 DEF channel_handle_efd

LEMMA channel_check_windowType == ASSUME NEW c \in Chan PROVE channel_check_window(c) \in Chan
<1> DEFINE s == send_to_remote(c, "ADJUST", c.local_consumed)
           l == s.local_window + c.local_consumed
<1>1. s \in Chan BY send_to_remoteType, Fields DEF MsgType
<1>2. l \in Int BY <1>1, Fields
<1>3. [s EXCEPT !.local_window = l, !.local_consumed = 0] \in Chan
  <2> HIDE DEF s, l
  <2> QED BY <1>1, <1>2, Zenon DEF Chan
<1> QED BY <1>3 DEF channel_check_window

LEMMA channel_post_openType ==
  ASSUME NEW c \in Chan, NEW at, NEW io, io.rfd \in Int, io.wfd \in Int, io.efd \in Int
  PROVE  channel_post_open(c, at, io) \in Chan
<1> DEFINE r == channel_handle_rfd(c, at, io)
           w == channel_handle_wfd(r, at, io)
           e == channel_handle_efd(w, at, io)
<1>1. r \in Chan BY channel_handle_rfdType
<1>2. w \in Chan
  <2> HIDE DEF r
  <2> QED BY <1>1, channel_handle_wfdType
<1>3. e \in Chan
  <2> HIDE DEF w
  <2> QED BY <1>2, channel_handle_efdType
<1>4. channel_check_window(e) \in Chan
  <2> HIDE DEF e
  <2> QED BY <1>3, channel_check_windowType
<1> QED BY <1>4 DEF channel_post_open
-----------------------------------------------------------------------------
LEMMA CleanupType ==
  ASSUME NEW c \in Chan, NEW u \in {"none", "client", "session"}, NEW b \in BOOLEAN
  PROVE  channel_register_cleanup(c, u, b) \in Chan
BY Zenon DEF channel_register_cleanup, Chan

LEMMA channel_freeType == ASSUME NEW c \in Chan PROVE channel_free(c) \in Chan
BY Zenon DEF channel_free, Chan, ChannelType

LEMMA channel_collectType == ASSUME NEW c \in Chan PROVE channel_collect(c) \in Chan
<1>1. is_dead_send(c, TRUE) \in Chan BY is_dead_sendType
<1>2. channel_free(is_dead_send(c, TRUE)) \in Chan BY <1>1, channel_freeType
<1> QED BY <1>1, <1>2, Zenon DEF channel_collect

LEMMA channel_garbage_collectType ==
  ASSUME NEW c \in Chan PROVE channel_garbage_collect(c) \in Chan
<1> DEFINE a == is_dead_send(c, c.detach_close)
           b == notify_user(a)
<1>1. c.detach_close \in BOOLEAN BY DEF Chan
<1>2. a \in Chan BY <1>1, is_dead_sendType
<1>3. b \in Chan
  <2> HIDE DEF a
  <2> QED BY <1>2, CleanupType DEF notify_user, channel_cancel_cleanup
<1>4. channel_collect(c) \in Chan BY channel_collectType
<1>5. channel_collect(b) \in Chan
  <2> HIDE DEF b
  <2> QED BY <1>3, channel_collectType
<1>6. channel_garbage_collect(c) \in {c, a, b, channel_collect(c), channel_collect(b)}
  BY DEF channel_garbage_collect
<1> HIDE DEF a, b
<1> QED BY <1>2, <1>3, <1>4, <1>5, <1>6

LEMMA session_close_by_pidType ==
  ASSUME NEW c \in Chan PROVE session_close_by_pid(c) \in Chan
<1> DEFINE s == send_to_remote(c, "exit", 0)
           r == channel_register_cleanup(s, "session", TRUE)
           w == chan_write_failed(r)
<1>1. s \in Chan BY send_to_remoteType DEF MsgType
<1>2. r \in Chan
  <2> HIDE DEF s
  <2> QED BY <1>1, CleanupType
<1>3. w \in Chan
  <2> HIDE DEF r
  <2> QED BY <1>2, chan_write_failedType
<1>4. [w EXCEPT !.child = "reaped"] \in Chan
  <2> HIDE DEF w
  <2> QED BY <1>3, Zenon DEF Chan
<1> QED BY <1>4 DEF session_close_by_pid

LEMMA LoopPreType ==
  ASSUME NEW c \in Chan, NEW poll \in BOOLEAN PROVE LoopPre(c, poll) \in Chan
<1> DEFINE a == IF poll THEN channel_output_poll(c) ELSE c
<1>1. a \in Chan BY channel_output_pollType
<1> HIDE DEF a
<1>2. channel_pre_open(a) \in Chan BY <1>1, channel_pre_openType
<1>3. channel_garbage_collect(channel_pre_open(a)) \in Chan
  BY <1>2, channel_garbage_collectType
<1> QED BY <1>3 DEF LoopPre, a

LEMMA LoopPostType ==
  ASSUME NEW b \in Chan, NEW exits \in BOOLEAN, NEW io,
         io.rfd \in Int, io.wfd \in Int, io.efd \in Int
  PROVE  LoopPost(b, exits, io) \in Chan
<1> DEFINE e == IF exits THEN session_close_by_pid(b) ELSE b
<1>1. e \in Chan BY session_close_by_pidType
<1> HIDE DEF e
<1>2. channel_post_open(e, b, io) \in Chan BY <1>1, channel_post_openType
<1>3. channel_garbage_collect(channel_post_open(e, b, io)) \in Chan
  BY <1>2, channel_garbage_collectType
<1> QED BY <1>3 DEF LoopPost, e
-----------------------------------------------------------------------------
(* The packet handlers. *)
LEMMA channel_input_dataType ==
  ASSUME NEW c \in Chan, NEW n \in Nat PROVE channel_input_data(c, n) \in Chan
<1> DEFINE l == c.local_window - n
           k == c.local_consumed + n
           o == c.output + n
<1>1. l \in Int /\ k \in Nat /\ o \in Nat BY Fields
<1>2. [c EXCEPT !.local_window = l, !.local_consumed = k] \in Chan
  <2> HIDE DEF l, k
  <2> QED BY <1>1, Zenon DEF Chan
<1>3. [c EXCEPT !.local_window = l, !.output = o] \in Chan
  <2> HIDE DEF l, o
  <2> QED BY <1>1, Zenon DEF Chan
<1> QED BY <1>2, <1>3 DEF channel_input_data

LEMMA channel_input_extended_dataType ==
  ASSUME NEW c \in Chan, NEW n \in Nat PROVE channel_input_extended_data(c, n) \in Chan
<1> DEFINE l == c.local_window - n
           x == c.extended + n
<1>1. l \in Int /\ x \in Nat BY Fields
<1>2. [c EXCEPT !.local_window = l, !.extended = x] \in Chan
  <2> HIDE DEF l, x
  <2> QED BY <1>1, Zenon DEF Chan
<1>3. fatal(c) \in Chan BY fatalType
<1>4. channel_input_extended_data(c, n) \in
        {c, fatal(c), [c EXCEPT !.local_window = l, !.extended = x]}
  BY DEF channel_input_extended_data
<1> QED BY <1>2, <1>3, <1>4, Zenon

LEMMA channel_input_open_confirmationType ==
  ASSUME NEW c \in Chan, NEW n \in Int PROVE channel_input_open_confirmation(c, n) \in Chan
<1> DEFINE o == [c EXCEPT !.have_remote_id = TRUE, !.remote_window = n, !.type = "open"]
           s == send_to_remote(o, "exec", 0)
<1>0. n \in Int OBVIOUS
<1>1. o \in Chan BY <1>0, Zenon DEF Chan, ChannelType
<1>2. s \in Chan
  <2> HIDE DEF o
  <2> QED BY <1>1, send_to_remoteType DEF MsgType
<1>3. [s EXCEPT !.confirm = TRUE] \in Chan
  <2> HIDE DEF s
  <2> QED BY <1>2, Zenon DEF Chan
<1>4. fatal(c) \in Chan BY fatalType
<1>5. channel_input_open_confirmation(c, n) \in {o, fatal(c), [s EXCEPT !.confirm = TRUE]}
  BY DEF channel_input_open_confirmation
<1> HIDE DEF o, s
<1> QED BY <1>1, <1>3, <1>4, <1>5, Zenon

LEMMA channel_input_window_adjustType ==
  ASSUME NEW c \in Chan, NEW n \in Int PROVE channel_input_window_adjust(c, n) \in Chan
<1> DEFINE r == c.remote_window + n
<1>1. r \in Int BY Fields
<1>2. [c EXCEPT !.remote_window = r] \in Chan
  <2> HIDE DEF r
  <2> QED BY <1>1, Zenon DEF Chan
<1> QED BY <1>2 DEF channel_input_window_adjust

LEMMA channel_input_status_confirmType ==
  ASSUME NEW c \in Chan, NEW t PROVE channel_input_status_confirm(c, t) \in Chan
<1> DEFINE d == [c EXCEPT !.confirm = FALSE]
<1>1. d \in Chan BY Zenon DEF Chan
<1>2. chan_read_failed(d) \in Chan
  <2> HIDE DEF d
  <2> QED BY <1>1, chan_read_failedType
<1>3. chan_write_failed(chan_read_failed(d)) \in Chan BY <1>2, chan_write_failedType
<1>4. channel_input_status_confirm(c, t) \in {d, chan_write_failed(chan_read_failed(d))}
  BY DEF channel_input_status_confirm
<1> HIDE DEF d
<1> QED BY <1>1, <1>3, <1>4, Zenon

LEMMA client_input_channel_reqType ==
  ASSUME NEW c \in Chan, NEW t PROVE client_input_channel_req(c, t) \in Chan
<1>1. chan_rcvd_eow(c) \in Chan BY chan_rcvd_eowType
<1>2. [c EXCEPT !.exit_rcvd = TRUE] \in Chan BY Zenon DEF Chan
<1>3. send_to_remote(c, "FAILURE", 0) \in Chan BY send_to_remoteType DEF MsgType
<1>4. client_input_channel_req(c, t) \in
        {c, chan_rcvd_eow(c), [c EXCEPT !.exit_rcvd = TRUE], send_to_remote(c, "FAILURE", 0)}
  BY DEF client_input_channel_req
<1> QED BY <1>1, <1>2, <1>3, <1>4, Zenon

LEMMA channel_set_fdsType ==
  ASSUME NEW c \in Chan, NEW tty \in BOOLEAN PROVE channel_set_fds(c, tty) \in Chan
<1> DEFINE u == IF tty THEN "ignore" ELSE "read"
           e == ~tty
           o == [c EXCEPT !.type = "open", !.local_window = Window, !.child = "running",
                          !.isatty = tty, !.efd = e, !.extended_usage = u]
<1>1. Window \in Int /\ Window \in Nat BY ChannelAssumption
<1>2. u \in ExtUsage /\ e \in BOOLEAN BY DEF ExtUsage
<1>3. o \in Chan
  <2> HIDE DEF u, e
  <2> QED BY <1>1, <1>2, Zenon DEF Chan, ChannelType
<1>4. send_to_remote(o, "ADJUST", Window) \in Chan
  <2> HIDE DEF o
  <2> QED BY <1>1, <1>3, send_to_remoteType DEF MsgType
<1> QED BY <1>4 DEF channel_set_fds

LEMMA server_input_channel_reqType ==
  ASSUME NEW c \in Chan, NEW t, NEW ok \in BOOLEAN, NEW tty \in BOOLEAN
  PROVE  server_input_channel_req(c, t, ok, tty) \in Chan
<1> DEFINE go == t = "exec" /\ c.type = "larval" /\ ok
           s  == IF go THEN channel_set_fds(c, tty) ELSE c
           r  == IF go THEN "SUCCESS" ELSE "FAILURE"
<1>1. s \in Chan BY channel_set_fdsType
<1>2. r \in MsgType BY DEF MsgType
<1>3. chan_rcvd_eow(c) \in Chan BY chan_rcvd_eowType
<1>4. send_to_remote(s, r, 0) \in Chan
  <2> HIDE DEF s, r
  <2> QED BY <1>1, <1>2, send_to_remoteType
<1>5. server_input_channel_req(c, t, ok, tty) \in {s, chan_rcvd_eow(c), send_to_remote(s, r, 0)}
  BY DEF server_input_channel_req
<1> HIDE DEF s, r
<1> QED BY <1>1, <1>3, <1>4, <1>5, Zenon

LEMMA channel_input_open_failureType ==
  ASSUME NEW c \in Chan PROVE channel_input_open_failure(c) \in Chan
BY chan_mark_deadType, fatalType DEF channel_input_open_failure

LEMMA channel_newType ==
  ASSUME NEW c \in Chan, NEW t \in ChannelType, NEW w \in Int, NEW b \in BOOLEAN
  PROVE  channel_new(c, t, w, b) \in Chan
BY Zenon DEF Chan, channel_new

LEMMA server_input_channel_openType ==
  ASSUME NEW c \in Chan, NEW n \in Int, NEW ok \in BOOLEAN
  PROVE  server_input_channel_open(c, n, ok) \in Chan
<1> DEFINE lar == channel_register_cleanup(channel_new(c, "larval", 0, TRUE), "session", FALSE)
           con == channel_new(c, "connecting", Window, FALSE)
           new == IF kind \in Sessions THEN lar ELSE con
           rid == [new EXCEPT !.have_remote_id = TRUE, !.remote_window = n]
           lw  == IF kind \in Sessions THEN 0 ELSE Window
<1>0. /\ TRUE \in BOOLEAN /\ FALSE \in BOOLEAN /\ 0 \in Int /\ Window \in Int
      /\ "larval" \in ChannelType /\ "connecting" \in ChannelType
  BY ChannelAssumption DEF ChannelType
<1>1. lar \in Chan BY <1>0, channel_newType, CleanupType, Zenon
<1>2. con \in Chan BY <1>0, channel_newType, Zenon
<1>3. new \in Chan
  <2> HIDE DEF lar, con
  <2> QED BY <1>1, <1>2
<1>4. rid \in Chan
  <2>1. n \in Int OBVIOUS
  <2> HIDE DEF new
  <2> QED BY <2>1, <1>3, Zenon DEF Chan
<1>5. kind \in Sessions => rid.local_window = 0
  <2>1. kind \in Sessions => new = lar BY Zenon
  <2>2. lar.local_window = 0 BY Zenon DEF channel_register_cleanup, channel_new, Chan
  <2>3. rid.local_window = new.local_window
    <3> HIDE DEF new
    <3> QED BY <1>3, Zenon DEF Chan
  <2> HIDE DEF rid, new, lar
  <2> QED BY <2>1, <2>2, <2>3, Zenon
<1>6. kind \in Sessions => send_to_remote(rid, "CONFIRM", rid.local_window) \in Chan
  <2> HIDE DEF rid
  <2> QED BY <1>4, <1>5, send_to_remoteType DEF MsgType
<1>7. sshpkt_send(channel_free(c), "OPENFAIL", 0) \in Chan
  BY channel_freeType, sshpkt_sendType DEF MsgType
<1>8. server_input_channel_open(c, n, ok) =
        CASE ~ok -> sshpkt_send(channel_free(c), "OPENFAIL", 0)
          [] ok /\ kind \in Sessions -> send_to_remote(rid, "CONFIRM", rid.local_window)
          [] OTHER -> rid
  BY Zenon DEF server_input_channel_open
<1> HIDE DEF rid
<1> QED BY <1>4, <1>6, <1>7, <1>8

LEMMA ReceivedType == ASSUME NEW c \in Chan, NEW m \in Msg PROVE Received(c, m) \in Chan
<1> DEFINE r == IF m.t \in Carrying THEN c.rcvd + m.n ELSE c.rcvd
           g == IF m.t \in Granting THEN c.got + m.n ELSE c.got
<1>0. m.n \in Int /\ (m.t \in Carrying => m.n >= 0) BY Zenon DEF Msg
<1>1. r \in Nat /\ g \in Int BY <1>0, Fields
<1>2. Received(c, m) = [c EXCEPT !.rcvd = r, !.got = g] BY Zenon DEF Received
<1>3. [c EXCEPT !.rcvd = r, !.got = g] \in Chan
  <2> HIDE DEF r, g
  <2> QED BY <1>1, Zenon DEF Chan
<1> QED BY <1>2, <1>3, Zenon

LEMMA HandleType ==
  ASSUME NEW p \in Peer, NEW c \in Chan, NEW m \in Msg,
         NEW ok \in BOOLEAN, NEW tty \in BOOLEAN
  PROVE  Handle(p, c, m, ok, tty) \in Chan
<1>0. m.t \in MsgType /\ m.n \in Int /\ (m.t \in Carrying => m.n >= 0) BY Zenon DEF Msg
<1>1. m.t \in MsgType /\ m.n \in Int /\ (m.t \in {"DATA", "EXT"} => m.n \in Nat)
  BY <1>0 DEF Carrying
<1>2. /\ server_input_channel_open(c, m.n, ok) \in Chan
      /\ fatal(c) \in Chan
      /\ channel_input_open_confirmation(c, m.n) \in Chan
      /\ channel_input_open_failure(c) \in Chan
      /\ channel_input_window_adjust(c, m.n) \in Chan
      /\ m.t = "DATA" => channel_input_data(c, m.n) \in Chan
      /\ m.t = "EXT" => channel_input_extended_data(c, m.n) \in Chan
  BY <1>1, server_input_channel_openType, fatalType, channel_input_open_confirmationType,
     channel_input_open_failureType, channel_input_window_adjustType, channel_input_dataType,
     channel_input_extended_dataType
<1>3. /\ chan_rcvd_ieof(c) \in Chan
      /\ chan_rcvd_oclose(c) \in Chan
      /\ channel_input_status_confirm(c, m.t) \in Chan
      /\ client_input_channel_req(c, m.t) \in Chan
      /\ server_input_channel_req(c, m.t, ok, tty) \in Chan
  BY chan_rcvd_ieofType, chan_rcvd_ocloseType, channel_input_status_confirmType,
     client_input_channel_reqType, server_input_channel_reqType
<1> QED BY <1>1, <1>2, <1>3 DEF Handle, MsgType, Requests, Exists
-----------------------------------------------------------------------------
(* The actions. *)

LEMMA InitType == Init => TypeOK
<1>1. NoChan \in Chan
  <2>1. {} \in SUBSET Flag /\ <<>> \in Seq(Msg) /\ 0 \in Nat /\ 0 \in Int OBVIOUS
  <2> QED BY <2>1, Zenon DEF NoChan, Chan, ChannelType, HalfState, ExtUsage
<1> HIDE DEF NoChan
<1> QED BY <1>1, ChannelAssumption DEF Init, TypeOK

(* Every step of an end leaves the variables well typed when the new end   *)
(* is a channel.                                                           *)
LEMMA StepType ==
  ASSUME TypeOK, NEW p \in Peer, NEW d \in Chan,
         ch' = [ch EXCEPT ![p] = d], UNCHANGED kind,
         reqs' \in [Peer -> 0 .. MaxReq[kind]], conn' \in {"up", "quit"}
  PROVE  TypeOK'
BY Zenon DEF TypeOK

LEMMA channel_send_openType == TypeOK /\ channel_send_open => TypeOK'
<1> SUFFICES ASSUME TypeOK, channel_send_open PROVE TypeOK'
  OBVIOUS
<1> DEFINE b == kind \in Sessions
           c == channel_new(ch["client"], "opening", Window, b)
           r == channel_register_cleanup(c, "client", kind = "mux")
           s == IF kind \in Sessions
                THEN [r EXCEPT !.efd = TRUE, !.extended_usage = "write"] ELSE c
           d == sshpkt_send(s, "OPEN", Window)
<1>0. Window \in Int /\ Window \in Nat /\ b \in BOOLEAN /\ (kind = "mux") \in BOOLEAN
  BY ChannelAssumption
<1>1. c \in Chan
  <2>1. ch["client"] \in Chan BY DEF TypeOK, Peer
  <2> HIDE DEF b
  <2> QED BY <2>1, <1>0, channel_newType DEF ChannelType
<1>2. r \in Chan
  <2> HIDE DEF c
  <2> QED BY <1>0, <1>1, CleanupType
<1>3. [r EXCEPT !.efd = TRUE, !.extended_usage = "write"] \in Chan
  <2> HIDE DEF r
  <2> QED BY <1>2, Zenon DEF Chan, ExtUsage
<1>4. s \in Chan
  <2> HIDE DEF c, r
  <2> QED BY <1>1, <1>3, Zenon
<1>5. d \in Chan
  <2> HIDE DEF s
  <2> QED BY <1>0, <1>4, sshpkt_sendType DEF MsgType
<1>6. ch' = [ch EXCEPT !["client"] = d] BY Zenon DEF channel_send_open
<1>7. UNCHANGED <<kind, reqs, conn>> BY DEF channel_send_open
<1> HIDE DEF d
<1> QED BY <1>5, <1>6, <1>7, StepType DEF TypeOK, Peer

LEMMA DispatchType == ASSUME NEW p \in Peer PROVE TypeOK /\ Dispatch(p) => TypeOK'
<1> SUFFICES ASSUME TypeOK, Dispatch(p) PROVE TypeOK'
  OBVIOUS
<1> DEFINE q == Other(p)
           m == Head(ch[q].wire)
           t == [ch[q] EXCEPT !.wire = Tail(ch[q].wire)]
<1>0. q \in Peer /\ q # p BY DEF Peer, Other
<1>1. ch[q] \in Chan /\ ch[p] \in Chan BY <1>0 DEF TypeOK
<1>2. ch[q].wire \in Seq(Msg) /\ ch[q].wire # <<>> BY <1>1, Fields DEF Dispatch
<1>3. m \in Msg /\ Tail(ch[q].wire) \in Seq(Msg) BY <1>2
<1>4. t \in Chan
  <2> DEFINE w == Tail(ch[q].wire)
  <2>1. w \in Seq(Msg) BY <1>3
  <2> HIDE DEF w
  <2>2. [ch[q] EXCEPT !.wire = w] \in Chan BY <1>1, <2>1, Zenon DEF Chan
  <2> QED BY <2>2 DEF w
<1>5. PICK ok \in BOOLEAN, tty \in BOOLEAN :
        ch' = [ch EXCEPT ![q].wire = Tail(@),
                         ![p] = Handle(p, Received(ch[p], m), m, ok, tty)]
  BY Zenon DEF Dispatch
<1>6. Handle(p, Received(ch[p], m), m, ok, tty) \in Chan
  <2> HIDE DEF m
  <2> QED BY <1>1, <1>3, ReceivedType, HandleType
<1>7. ch' \in [Peer -> Chan]
  <2> DEFINE h == Handle(p, Received(ch[p], m), m, ok, tty)
  <2>1. h \in Chan BY <1>6
  <2>2. ch' = [ch EXCEPT ![q] = t, ![p] = h] BY <1>5, Zenon
  <2> HIDE DEF t, h
  <2> QED BY <1>0, <1>4, <2>1, <2>2 DEF TypeOK
<1> QED BY <1>7, Zenon DEF Dispatch, TypeOK

LEMMA LoopType == ASSUME NEW p \in Peer PROVE TypeOK /\ Loop(p) => TypeOK'
<1> SUFFICES ASSUME TypeOK, Loop(p) PROVE TypeOK'
  OBVIOUS
<1>1. PICK poll \in BOOLEAN, exits \in BOOLEAN : LoopStep(p, poll, exits) BY DEF Loop
<1> DEFINE b == LoopPre(ch[p], poll)
           e == IF exits THEN session_close_by_pid(b) ELSE b
<1>2. b \in Chan BY LoopPreType DEF TypeOK
<1>3. e \in Chan
  <2> HIDE DEF b
  <2> QED BY <1>2, session_close_by_pidType
<1>4. PICK io \in Ready(e, b) : ch' = [ch EXCEPT ![p] = LoopPost(b, exits, io)]
  BY <1>1, Zenon DEF LoopStep
<1>5. UNCHANGED <<kind, reqs, conn>> BY <1>1, Zenon DEF LoopStep
<1>6. LoopPost(b, exits, io) \in Chan
  <2> HIDE DEF b, e
  <2>1. io.rfd \in Int /\ io.wfd \in Int /\ io.efd \in Int BY <1>2, <1>3, <1>4, ReadyType
  <2> QED BY <1>2, <2>1, LoopPostType
<1> HIDE DEF b, e
<1> QED BY <1>4, <1>5, <1>6, StepType DEF TypeOK

LEMMA StepAlone ==
  ASSUME TypeOK, NEW p \in Peer, NEW d \in Chan,
         ch' = [ch EXCEPT ![p] = d], UNCHANGED <<kind, reqs, conn>>
  PROVE  TypeOK'
BY StepType DEF TypeOK

LEMMA channel_post_connectingType == TypeOK /\ channel_post_connecting => TypeOK'
<1> SUFFICES ASSUME TypeOK, channel_post_connecting PROVE TypeOK'
  OBVIOUS
<1> DEFINE c == ch["server"]
           o == [c EXCEPT !.type = "open"]
           s == send_to_remote(o, "CONFIRM", o.local_window)
           x == chan_mark_dead(send_to_remote(c, "OPENFAIL", 0))
<1>1. c \in Chan BY DEF TypeOK, Peer
<1>2. o \in Chan
  <2> HIDE DEF c
  <2> QED BY <1>1, Zenon DEF Chan, ChannelType
<1>3. s \in Chan
  <2> HIDE DEF o
  <2>1. o.local_window \in Int BY <1>2, Fields
  <2> QED BY <1>2, <2>1, send_to_remoteType DEF MsgType, Carrying
<1>4. x \in Chan
  <2> HIDE DEF c
  <2> QED BY <1>1, send_to_remoteType, chan_mark_deadType DEF MsgType, Carrying
<1>5. channel_garbage_collect(s) \in Chan /\ channel_garbage_collect(x) \in Chan
  <2> HIDE DEF s, x
  <2> QED BY <1>3, <1>4, channel_garbage_collectType
<1>6. UNCHANGED <<kind, reqs, conn>> BY DEF channel_post_connecting
<1>7. \/ ch' = [ch EXCEPT !["server"] = channel_garbage_collect(s)]
      \/ ch' = [ch EXCEPT !["server"] = channel_garbage_collect(x)]
  BY Zenon DEF channel_post_connecting
<1>8. "server" \in Peer BY DEF Peer
<1> HIDE DEF s, x
<1> QED BY <1>5, <1>6, <1>7, <1>8, StepAlone

LEMMA mux_master_control_cleanup_cbType == TypeOK /\ mux_master_control_cleanup_cb => TypeOK'
<1> SUFFICES ASSUME TypeOK, mux_master_control_cleanup_cb PROVE TypeOK'
  OBVIOUS
<1> DEFINE c == ch["client"]
           r == chan_read_failed(c)
           w == IF r.ostate = "open" THEN chan_write_failed(r) ELSE r
<1>1. c \in Chan BY DEF TypeOK, Peer
<1>2. r \in Chan BY <1>1, chan_read_failedType
<1>3. w \in Chan
  <2> HIDE DEF r
  <2> QED BY <1>2, chan_write_failedType
<1>4. ch' = [ch EXCEPT !["client"] = w] /\ UNCHANGED <<kind, reqs, conn>>
  BY Zenon DEF mux_master_control_cleanup_cb
<1>5. "client" \in Peer BY DEF Peer
<1> HIDE DEF w
<1> QED BY <1>3, <1>4, <1>5, StepAlone

(* A request sent by a timer or a signal: the bound on their number holds. *)
LEMMA RequestType ==
  ASSUME TypeOK, NEW p \in Peer, NEW t \in MsgType \ Carrying, reqs[p] < MaxReq[kind],
         ch' = [ch EXCEPT ![p] = send_to_remote(ch[p], t, 0)],
         reqs' = [reqs EXCEPT ![p] = reqs[p] + 1], UNCHANGED <<kind, conn>>
  PROVE  TypeOK'
<1>1. ch[p] \in Chan BY DEF TypeOK
<1>2. send_to_remote(ch[p], t, 0) \in Chan BY <1>1, send_to_remoteType
<1>3. reqs[p] + 1 \in 0 .. MaxReq[kind] BY ChannelAssumption DEF TypeOK
<1>4. reqs' \in [Peer -> 0 .. MaxReq[kind]] BY <1>3 DEF TypeOK
<1> QED BY <1>2, <1>4, StepType DEF TypeOK

LEMMA channel_send_window_changesType == TypeOK /\ channel_send_window_changes => TypeOK'
BY RequestType, Zenon DEF channel_send_window_changes, Peer, MsgType, Carrying

LEMMA client_alive_checkType == TypeOK /\ client_alive_check => TypeOK'
BY RequestType, Zenon DEF client_alive_check, Peer, MsgType, Carrying

(* The buffers never go negative, only messages of the protocol are sent,  *)
(* with a length that is not negative where it counts against a window,    *)
(* and every state, flag and callback of both ends is one of those the     *)
(* code knows, for all windows, packet and read sizes and all bounds.      *)
THEOREM TypeCorrect == Spec => []TypeOK
<1>1. TypeOK /\ [Next]_vars => TypeOK'
  <2> SUFFICES ASSUME TypeOK, [Next]_vars PROVE TypeOK'
    OBVIOUS
  <2>1. CASE channel_send_open BY <2>1, channel_send_openType
  <2>2. CASE \E p \in Peer : Dispatch(p) BY <2>2, DispatchType
  <2>3. CASE \E p \in Peer : Loop(p) BY <2>3, LoopType
  <2>4. CASE channel_post_connecting BY <2>4, channel_post_connectingType
  <2>5. CASE mux_master_control_cleanup_cb BY <2>5, mux_master_control_cleanup_cbType
  <2>6. CASE channel_send_window_changes BY <2>6, channel_send_window_changesType
  <2>7. CASE client_alive_check BY <2>7, client_alive_checkType
  <2>8. CASE UNCHANGED vars BY <2>8 DEF vars, TypeOK
  <2> QED BY <2>1, <2>2, <2>3, <2>4, <2>5, <2>6, <2>7, <2>8 DEF Next
<1> QED BY InitType, <1>1, PTL DEF Spec
-----------------------------------------------------------------------------
(***************************************************************************)
(* Safety. The invariant relates the two ends through the messages that    *)
(* are on their way between them: what an end has sent and granted is what *)
(* the other has received plus what its wire carries (Totals), what it has *)
(* granted never exceeds the room it still has (Windows), the wire is in   *)
(* the order of the protocol (Order), and the types of the two ends go     *)
(* through the opening and the closing together (Phase, below).            *)
(***************************************************************************)
Unopened == {"none", "larval", "connecting"}
Opening == {"none", "opening", "connecting"}
Setup == {"OPEN", "CONFIRM", "OPENFAIL"}

(* The windows of one end: what it has granted and not yet received fits   *)
(* its local window, what it believes it may send it has been granted, and *)
(* window, buffers and consumed bytes together never exceed local_window_max. *)
Windows(c) ==
  /\ c.granted - c.rcvd <= c.local_window
  /\ 0 <= c.remote_window /\ c.remote_window <= c.got - c.sent
  /\ c.local_window + c.local_consumed + c.output +
       (IF c.extended_usage = "write" THEN c.extended ELSE 0) <= Window
  /\ c.type \in Unopened =>
       /\ c.granted = 0 /\ c.local_window >= 0
       /\ c.local_consumed = 0 /\ c.output = 0 /\ c.extended = 0

(* What the type, the half states and the flags of end p say of each other. *)
Basic(p, c) ==
  /\ c.died = FALSE
  /\ c.type \in {"larval", "connecting", "open"} => c.have_remote_id = TRUE
  /\ "close_sent" \in c.flags => c.istate = "closed" /\ c.ostate = "closed"
  /\ c.type \in Opening =>
       c.istate = "open" /\ c.ostate = "open" /\ c.flags = {}
  /\ p = "client" => c.child = "none" /\ c.type \notin {"larval", "connecting"}
  /\ p = "server" => c.type \notin {"opening", "zombie"}

(* While the child runs the session's callback holds the channel, and no  *)
(* CLOSE has been sent.                                                    *)
Held(c) ==
  /\ c.child = "running" => c.type = "open"
  /\ c.child = "running" \/ c.type = "larval" =>
       c.detach_user = "session" /\ c.detach_close = FALSE /\ "close_sent" \notin c.flags

(* What a message counts against the window, and adds to it. *)
Data(m) == IF m.t \in Carrying THEN m.n ELSE 0
Grant(m) == IF m.t \in Granting THEN m.n ELSE 0

(* The running totals along wire w: its sender has sent s and granted g in *)
(* all, its receiver has received r and been granted o.                    *)
Totals(w, s, g, r, o) ==
  /\ IF w = <<>> THEN s = r /\ g = o ELSE s = w[Len(w)].sent /\ g = w[Len(w)].granted
  /\ r <= s /\ o <= g
  /\ \A i \in 1 .. Len(w) :
       /\ w[i].t \in Carrying => w[i].n \in 1 .. MaxPacket
       /\ w[i].t \in Granting => w[i].n >= 0
       /\ r + Data(w[i]) <= w[i].sent /\ o + Grant(w[i]) <= w[i].granted
       /\ w[i].sent <= s /\ w[i].granted <= g
       /\ i = 1 => w[i].sent = r + Data(w[i]) /\ w[i].granted = o + Grant(w[i])
  /\ \A i, j \in 1 .. Len(w) : i < j =>
       /\ w[i].sent + Data(w[j]) <= w[j].sent
       /\ w[i].granted + Grant(w[j]) <= w[j].granted
       /\ j = i + 1 => /\ w[j].sent = w[i].sent + Data(w[j])
                       /\ w[j].granted = w[i].granted + Grant(w[j])

(* The order of the messages on the wire w of end p, which has the flags   *)
(* fl and whose peer has f: h comes first unless it is "any", nothing but  *)
(* a keepalive follows a CLOSE, and no extended data an EOF.               *)
Order(p, w, fl, f, h) ==
  /\ h # "any" => w # <<>> /\ w[1].t = h
  /\ "close_rcvd" \in f => "close_sent" \in fl
  /\ "eof_rcvd" \in f => "eof_sent" \in fl
  /\ \A i \in 1 .. Len(w) :
       /\ i > 1 \/ h = "any" => w[i].t \notin Setup
       /\ w[i].t = "CLOSE" => "close_sent" \in fl
       /\ w[i].t = "EOF" => "eof_sent" \in fl
       /\ w[i].t = "keepalive" => p = "server"
       /\ "close_rcvd" \in f => w[i].t = "keepalive"
       /\ "eof_rcvd" \in f => w[i].t # "EXT"
  /\ \A i, j \in 1 .. Len(w) : i < j =>
       /\ w[i].t = "CLOSE" => w[j].t = "keepalive"
       /\ w[i].t = "EOF" => w[j].t # "EXT"

LEMMA MsgFields ==
  ASSUME NEW w \in Seq(Msg), NEW i \in 1 .. Len(w)
  PROVE  /\ w[i].t \in MsgType /\ w[i].n \in Int /\ w[i].sent \in Nat /\ w[i].granted \in Int
         /\ Data(w[i]) \in Int /\ Grant(w[i]) \in Int
<1>1. w[i] \in Msg OBVIOUS
<1> QED BY <1>1 DEF Msg, Data, Grant

LEMMA EmptySeq == ASSUME NEW v \in Seq(Msg) PROVE v = <<>> <=> Len(v) = 0
OBVIOUS

(* One more message. *)
LEMMA TotalsAppend ==
  ASSUME NEW w \in Seq(Msg), NEW s \in Nat, NEW g \in Int, NEW r \in Nat, NEW o \in Int,
         Totals(w, s, g, r, o), NEW m \in Msg,
         m.t \in Carrying => m.n \in 1 .. MaxPacket, m.t \in Granting => m.n >= 0,
         m.sent = s + Data(m), m.granted = g + Grant(m)
  PROVE  Totals(Append(w, m), m.sent, m.granted, r, o)
<1> DEFINE v == Append(w, m)  L == Len(w)
<1>1. v \in Seq(Msg) /\ Len(v) = L + 1 /\ v # <<>> /\ v[L + 1] = m OBVIOUS
<1>2. \A i \in 1 .. L : v[i] = w[i] OBVIOUS
<1>3. L \in Nat OBVIOUS
<1>4. Data(m) \in Nat /\ Grant(m) \in Nat
  BY DEF Msg, Data, Grant
<1>5. m.sent \in Int /\ m.granted \in Int BY <1>4
<1>6. w = <<>> => L = 0 OBVIOUS
<1>7. w # <<>> => L \in 1 .. L BY <1>3
<1> HIDE DEF v, L
<1>8. \A i \in 1 .. L : /\ w[i].sent \in Int /\ w[i].granted \in Int
                        /\ Data(w[i]) \in Int /\ Grant(w[i]) \in Int
  BY MsgFields DEF L
<1>9. \A i \in 1 .. L : w[i].sent <= s /\ w[i].granted <= g BY DEF Totals, L
<1>10. \A i \in 1 .. L + 1 :
       /\ v[i].t \in Carrying => v[i].n \in 1 .. MaxPacket
       /\ v[i].t \in Granting => v[i].n >= 0
       /\ r + Data(v[i]) <= v[i].sent /\ o + Grant(v[i]) <= v[i].granted
       /\ v[i].sent <= m.sent /\ v[i].granted <= m.granted
       /\ i = 1 => v[i].sent = r + Data(v[i]) /\ v[i].granted = o + Grant(v[i])
  <2> SUFFICES ASSUME NEW i \in 1 .. L + 1 PROVE
       /\ v[i].t \in Carrying => v[i].n \in 1 .. MaxPacket
       /\ v[i].t \in Granting => v[i].n >= 0
       /\ r + Data(v[i]) <= v[i].sent /\ o + Grant(v[i]) <= v[i].granted
       /\ v[i].sent <= m.sent /\ v[i].granted <= m.granted
       /\ i = 1 => v[i].sent = r + Data(v[i]) /\ v[i].granted = o + Grant(v[i])
    OBVIOUS
  <2>1. CASE i \in 1 .. L
    <3>1. v[i] = w[i] BY <2>1, <1>2
    <3>2. /\ w[i].t \in Carrying => w[i].n \in 1 .. MaxPacket
          /\ w[i].t \in Granting => w[i].n >= 0
          /\ r + Data(w[i]) <= w[i].sent /\ o + Grant(w[i]) <= w[i].granted
          /\ i = 1 => w[i].sent = r + Data(w[i]) /\ w[i].granted = o + Grant(w[i])
      BY <2>1 DEF Totals, L
    <3>3. w[i].sent <= m.sent /\ w[i].granted <= m.granted BY <2>1, <1>4, <1>8, <1>9
    <3> QED BY <3>1, <3>2, <3>3
  <2>2. CASE i = L + 1
    <3>1. i = 1 => s = r /\ g = o BY <2>2, <1>3, <1>6, <1>7 DEF Totals, L
    <3> QED BY <2>2, <3>1, <1>1, <1>4, <1>5 DEF Totals
  <2> QED BY <2>1, <2>2, <1>3
<1>11. \A i, j \in 1 .. L + 1 : i < j =>
       /\ v[i].sent + Data(v[j]) <= v[j].sent
       /\ v[i].granted + Grant(v[j]) <= v[j].granted
       /\ j = i + 1 => /\ v[j].sent = v[i].sent + Data(v[j])
                       /\ v[j].granted = v[i].granted + Grant(v[j])
  <2> SUFFICES ASSUME NEW i \in 1 .. L + 1, NEW j \in 1 .. L + 1, i < j PROVE
       /\ v[i].sent + Data(v[j]) <= v[j].sent
       /\ v[i].granted + Grant(v[j]) <= v[j].granted
       /\ j = i + 1 => /\ v[j].sent = v[i].sent + Data(v[j])
                       /\ v[j].granted = v[i].granted + Grant(v[j])
    OBVIOUS
  <2>0. i \in 1 .. L BY <1>3
  <2>1. CASE j \in 1 .. L BY <2>0, <2>1, <1>2 DEF Totals, L
  <2>2. CASE j = L + 1
    <3>1. v[i] = w[i] /\ v[j] = m BY <2>0, <2>2, <1>1, <1>2
    <3>2. w[i].sent <= s /\ w[i].granted <= g /\ w[i].sent \in Int /\ w[i].granted \in Int
      BY <2>0, <1>8, <1>9
    <3>3. j = i + 1 => s = w[i].sent /\ g = w[i].granted
      <4> SUFFICES ASSUME j = i + 1 PROVE s = w[i].sent /\ g = w[i].granted OBVIOUS
      <4>1. i = L BY <2>2, <1>3
      <4>2. w # <<>> BY <4>1, <2>0, <1>6
      <4> QED BY <4>1, <4>2 DEF Totals, L
    <3>4. w[i].sent + Data(m) <= m.sent BY <3>2, <1>4
    <3>5. w[i].granted + Grant(m) <= m.granted BY <3>2, <1>4
    <3>6. j = i + 1 => m.sent = w[i].sent + Data(m) /\ m.granted = w[i].granted + Grant(m)
      BY <3>3
    <3> QED BY <3>1, <3>4, <3>5, <3>6
  <2> QED BY <2>0, <2>1, <2>2, <1>3
<1>12. r <= m.sent /\ o <= m.granted BY <1>4 DEF Totals
<1> HIDE DEF Totals
<1>13. v[Len(v)] = m BY <1>1
<1> QED BY <1>1, <1>10, <1>11, <1>12, <1>13 DEF Totals, v

LEMMA OrderAppend ==
  ASSUME NEW p, NEW w \in Seq(Msg), NEW fl, NEW fm, NEW f, NEW h, Order(p, w, fl, f, h),
         NEW m \in Msg,
         m.t \notin Setup,
         "close_sent" \in fl => m.t = "keepalive" /\ "close_sent" \in fm,
         "eof_sent" \in fl => m.t # "EXT" /\ "eof_sent" \in fm,
         m.t = "keepalive" => p = "server",
         m.t = "CLOSE" => "close_sent" \in fm, m.t = "EOF" => "eof_sent" \in fm
  PROVE  Order(p, Append(w, m), fm, f, h)
<1> DEFINE v == Append(w, m)  L == Len(w)
<1>1. v \in Seq(Msg) /\ Len(v) = L + 1 /\ v # <<>> /\ v[L + 1] = m /\ L \in Nat OBVIOUS
<1>2. \A i \in 1 .. L : v[i] = w[i] OBVIOUS
<1>3. w # <<>> => v[1] = w[1] OBVIOUS
<1> HIDE DEF v, L
<1>4. \A i \in 1 .. L + 1 : i \in 1 .. L \/ i = L + 1 BY <1>1
<1>5. \A i, j \in 1 .. L + 1 : i < j => i \in 1 .. L BY <1>1
<1> QED BY <1>1, <1>2, <1>3, <1>4, <1>5 DEF Order, v, L

(* The first message is taken. *)
LEMMA TotalsTail ==
  ASSUME NEW w \in Seq(Msg), w # <<>>, NEW s \in Nat, NEW g \in Int, NEW r \in Nat, NEW o \in Int,
         Totals(w, s, g, r, o)
  PROVE  Totals(Tail(w), s, g, r + Data(Head(w)), o + Grant(Head(w)))
<1> DEFINE v == Tail(w)  L == Len(v)
<1>1. v \in Seq(Msg) /\ Len(w) = L + 1 /\ L \in Nat /\ Head(w) = w[1] OBVIOUS
<1>2. \A i \in 1 .. L : v[i] = w[i + 1] /\ i + 1 \in 1 .. Len(w) OBVIOUS
<1>3. 1 \in 1 .. Len(w) BY <1>1
<1>4. v = <<>> <=> L = 0 BY <1>1, EmptySeq DEF L
<1> HIDE DEF v
<1> DEFINE r1 == r + Data(w[1])  o1 == o + Grant(w[1])
<1>5. w[1].sent = r1 /\ w[1].granted = o1 /\ r1 \in Int /\ o1 \in Int BY <1>3, MsgFields DEF Totals
<1>6. r1 <= s /\ o1 <= g BY <1>3, <1>5 DEF Totals
<1> HIDE DEF r1, o1
<1>7. IF v = <<>> THEN s = r1 /\ g = o1 ELSE s = v[Len(v)].sent /\ g = v[Len(v)].granted
  <2>1. CASE L = 0 BY <2>1, <1>1, <1>4, <1>5 DEF Totals
  <2>2. CASE L # 0
    <3>1. L \in 1 .. L /\ v # <<>> BY <2>2, <1>1, <1>4
    <3>2. v[L] = w[L + 1] /\ Len(v) = L BY <3>1, <1>2
    <3> QED BY <3>1, <3>2, <1>1 DEF Totals
  <2> QED BY <2>1, <2>2
<1>8. \A i \in 1 .. L :
       /\ v[i].t \in Carrying => v[i].n \in 1 .. MaxPacket
       /\ v[i].t \in Granting => v[i].n >= 0
       /\ r1 + Data(v[i]) <= v[i].sent /\ o1 + Grant(v[i]) <= v[i].granted
       /\ v[i].sent <= s /\ v[i].granted <= g
       /\ i = 1 => v[i].sent = r1 + Data(v[i]) /\ v[i].granted = o1 + Grant(v[i])
  <2> SUFFICES ASSUME NEW i \in 1 .. L PROVE
       /\ v[i].t \in Carrying => v[i].n \in 1 .. MaxPacket
       /\ v[i].t \in Granting => v[i].n >= 0
       /\ r1 + Data(v[i]) <= v[i].sent /\ o1 + Grant(v[i]) <= v[i].granted
       /\ v[i].sent <= s /\ v[i].granted <= g
       /\ i = 1 => v[i].sent = r1 + Data(v[i]) /\ v[i].granted = o1 + Grant(v[i])
    OBVIOUS
  <2>1. v[i] = w[i + 1] /\ i + 1 \in 1 .. Len(w) /\ 1 < i + 1 BY <1>2
  <2> QED BY <2>1, <1>3, <1>5 DEF Totals
<1>9. \A i, j \in 1 .. L : i < j =>
       /\ v[i].sent + Data(v[j]) <= v[j].sent
       /\ v[i].granted + Grant(v[j]) <= v[j].granted
       /\ j = i + 1 => /\ v[j].sent = v[i].sent + Data(v[j])
                       /\ v[j].granted = v[i].granted + Grant(v[j])
  BY <1>2 DEF Totals
<1> HIDE DEF Totals
<1>10. L = Len(v) BY DEF L
<1> HIDE DEF L
<1> QED BY <1>1, <1>6, <1>7, <1>8, <1>9, <1>10 DEF Totals, v, r1, o1

LEMMA OrderTail ==
  ASSUME NEW p, NEW w \in Seq(Msg), w # <<>>, NEW fl, NEW f, NEW h, Order(p, w, fl, f, h),
         NEW fm, "close_rcvd" \in fm => "close_rcvd" \in f \/ Head(w).t = "CLOSE",
         "eof_rcvd" \in fm => "eof_rcvd" \in f \/ Head(w).t = "EOF"
  PROVE  Order(p, Tail(w), fl, fm, "any")
<1> DEFINE v == Tail(w)  L == Len(v)
<1>1. Len(w) = L + 1 /\ L \in Nat /\ Head(w) = w[1] /\ 1 \in 1 .. Len(w) OBVIOUS
<1>2. \A i \in 1 .. L : v[i] = w[i + 1] /\ i + 1 \in 1 .. Len(w) /\ 1 < i + 1 OBVIOUS
<1> HIDE DEF v
<1>3. \A i \in 1 .. L : v[i].t \notin Setup BY <1>2 DEF Order
<1>4. /\ "close_rcvd" \in fm => "close_sent" \in fl
      /\ "eof_rcvd" \in fm => "eof_sent" \in fl
  BY <1>1 DEF Order
<1>5. \A i \in 1 .. L :
        /\ v[i].t = "CLOSE" => "close_sent" \in fl
        /\ v[i].t = "EOF" => "eof_sent" \in fl
        /\ v[i].t = "keepalive" => p = "server"
  BY <1>2 DEF Order
<1>6. \A i \in 1 .. L :
        /\ "close_rcvd" \in fm => v[i].t = "keepalive"
        /\ "eof_rcvd" \in fm => v[i].t # "EXT"
  BY <1>1, <1>2 DEF Order
<1>7. \A i, j \in 1 .. L : i < j =>
        /\ v[i].t = "CLOSE" => v[j].t = "keepalive"
        /\ v[i].t = "EOF" => v[j].t # "EXT"
  <2> SUFFICES ASSUME NEW i \in 1 .. L, NEW j \in 1 .. L, i < j
               PROVE  /\ v[i].t = "CLOSE" => v[j].t = "keepalive"
                      /\ v[i].t = "EOF" => v[j].t # "EXT"
    OBVIOUS
  <2>1. i + 1 < j + 1 OBVIOUS
  <2> QED BY <1>2, <2>1 DEF Order
<1> HIDE DEF Order
<1>8. L = Len(v) BY DEF L
<1> HIDE DEF L
<1>9. Order(p, v, fl, fm, "any") BY <1>3, <1>4, <1>5, <1>6, <1>7, <1>8 DEF Order
<1> QED BY <1>9 DEF v
-----------------------------------------------------------------------------
(* One end, as the other knows it: x.p is the role of the end, x.r and x.o *)
(* what the other has received and been granted, x.f the other's flags, and *)
(* x.h the message about the opening that comes first, if there is one.    *)
Wire(x, c) ==
  Totals(c.wire, c.sent, c.granted, x.r, x.o) /\ Order(x.p, c.wire, c.flags, x.f, x.h)
Sane(x, c) ==
  /\ x.r \in Nat /\ x.o \in Int
  /\ c \in Chan /\ Windows(c) /\ Basic(x.p, c) /\ Wire(x, c)

(* What an operator leaves alone that the other end, and the callback, depend on. *)
Holds(c, d) ==
  /\ d.type = c.type /\ d.have_remote_id = c.have_remote_id /\ d.session = c.session
  /\ d.rcvd = c.rcvd /\ d.got = c.got
  /\ d.child = c.child /\ d.detach_user = c.detach_user /\ d.detach_close = c.detach_close
  /\ "close_sent" \in d.flags => "close_sent" \in c.flags
Deaf(c, d) ==
  /\ "close_rcvd" \in d.flags <=> "close_rcvd" \in c.flags
  /\ "eof_rcvd" \in d.flags <=> "eof_rcvd" \in c.flags
Keeps(x, c, d) == Sane(x, d) /\ Holds(c, d) /\ Deaf(c, d)

LEMMA KeepsSelf == ASSUME NEW x, NEW c, Sane(x, c) PROVE Keeps(x, c, c)
BY DEF Keeps, Holds, Deaf
LEMMA KeepsBoth ==
  ASSUME NEW x, NEW c, NEW d, NEW e, Keeps(x, c, d), Keeps(x, d, e) PROVE Keeps(x, c, e)
BY DEF Keeps, Holds, Deaf

LEMMA WireSame ==
  ASSUME NEW x, NEW c, NEW d, Wire(x, c),
         d.wire = c.wire, d.sent = c.sent, d.granted = c.granted,
         "close_sent" \in c.flags => "close_sent" \in d.flags,
         "eof_sent" \in c.flags => "eof_sent" \in d.flags
  PROVE  Wire(x, d)
<1>1. Totals(d.wire, d.sent, d.granted, x.r, x.o) BY DEF Wire
<1>2. Order(x.p, d.wire, d.flags, x.f, x.h)
  <2> DEFINE w == c.wire  fl == c.flags  fm == d.flags
  <2>1. Order(x.p, w, fl, x.f, x.h) BY DEF Wire
  <2>2. ("close_sent" \in fl => "close_sent" \in fm) /\ ("eof_sent" \in fl => "eof_sent" \in fm)
    OBVIOUS
  <2> HIDE DEF w, fl, fm
  <2>3. Order(x.p, w, fm, x.f, x.h) BY <2>1, <2>2 DEF Order
  <2> QED BY <2>3 DEF w, fm
<1> QED BY <1>1, <1>2 DEF Wire

(* The fields a message does not change. *)
Rest(c, s) ==
  /\ s.type = c.type /\ s.istate = c.istate /\ s.ostate = c.ostate /\ s.flags = c.flags
  /\ s.have_remote_id = c.have_remote_id /\ s.output = c.output /\ s.extended = c.extended
  /\ s.extended_usage = c.extended_usage /\ s.local_window = c.local_window
  /\ s.local_consumed = c.local_consumed /\ s.remote_window = c.remote_window
  /\ s.detach_user = c.detach_user /\ s.detach_close = c.detach_close /\ s.session = c.session
  /\ s.child = c.child /\ s.died = c.died /\ s.rcvd = c.rcvd /\ s.got = c.got
  /\ s.input = c.input

Message(c, t, n) ==
  LET d == IF t \in Carrying THEN c.sent + n ELSE c.sent
      g == IF t \in Granting THEN c.granted + n ELSE c.granted
  IN  [t |-> t, n |-> n, sent |-> d, granted |-> g]

LEMMA Sent ==
  ASSUME NEW c \in Chan, NEW t \in MsgType, NEW n \in Int, t \in Carrying => n >= 0
  PROVE  LET s == sshpkt_send(c, t, n)
             m == Message(c, t, n)
         IN  /\ s \in Chan /\ Rest(c, s) /\ m \in Msg
             /\ m.t = t /\ m.n = n
             /\ m.sent = c.sent + Data(m) /\ m.granted = c.granted + Grant(m)
             /\ s.wire = Append(c.wire, m) /\ s.sent = m.sent /\ s.granted = m.granted
<1> DEFINE s == sshpkt_send(c, t, n)
           m == Message(c, t, n)
<1>1. s \in Chan BY sshpkt_sendType
<1>2. Rest(c, s) BY DEF sshpkt_send, Rest, Chan
<1>3. s.wire = Append(c.wire, m) /\ s.sent = m.sent /\ s.granted = m.granted
  BY DEF sshpkt_send, Message, Chan
<1>4. m.t = t /\ m.n = n /\ m \in Msg
  <2> DEFINE d == IF t \in Carrying THEN c.sent + n ELSE c.sent
             g == IF t \in Granting THEN c.granted + n ELSE c.granted
  <2>1. d \in Nat /\ g \in Int BY Fields
  <2>2. m = [t |-> t, n |-> n, sent |-> d, granted |-> g] BY DEF Message
  <2> HIDE DEF d, g
  <2> QED BY <2>1, <2>2 DEF Msg
<1>5. m.sent = c.sent + Data(m) /\ m.granted = c.granted + Grant(m)
  BY Fields DEF Message, Data, Grant
<1> QED BY <1>1, <1>2, <1>3, <1>4, <1>5

(* A message behind those that are on the way; d has at least the flags. *)
LEMMA WireSend ==
  ASSUME NEW x, x.r \in Nat, x.o \in Int, NEW c \in Chan, Wire(x, c),
         NEW t \in MsgType \ Setup, NEW n \in Int,
         t \in Carrying => n \in 1 .. MaxPacket, t \in Granting => n >= 0,
         "close_sent" \in c.flags => t = "keepalive",
         "eof_sent" \in c.flags => t # "EXT",
         t = "keepalive" => x.p = "server",
         NEW d, d.wire = sshpkt_send(c, t, n).wire, d.sent = sshpkt_send(c, t, n).sent,
         d.granted = sshpkt_send(c, t, n).granted,
         "close_sent" \in c.flags \/ t = "CLOSE" => "close_sent" \in d.flags,
         "eof_sent" \in c.flags \/ t = "EOF" => "eof_sent" \in d.flags
  PROVE  Wire(x, d)
<1> DEFINE m == Message(c, t, n)
<1>1. t \in Carrying => n >= 0 BY ChannelAssumption
<1>2. /\ m \in Msg /\ m.t = t /\ m.n = n
      /\ m.sent = c.sent + Data(m) /\ m.granted = c.granted + Grant(m)
      /\ d.wire = Append(c.wire, m) /\ d.sent = m.sent /\ d.granted = m.granted
  BY <1>1, Sent
<1>3. c.wire \in Seq(Msg) /\ c.sent \in Nat /\ c.granted \in Int BY Fields
<1> HIDE DEF m
<1>4. Totals(Append(c.wire, m), m.sent, m.granted, x.r, x.o)
  BY <1>2, <1>3, TotalsAppend DEF Wire
<1>5. Order(x.p, Append(c.wire, m), d.flags, x.f, x.h)
  BY <1>2, <1>3, OrderAppend DEF Wire
<1> QED BY <1>2, <1>4, <1>5 DEF Wire

LEMMA SaneFrom ==
  ASSUME NEW x, NEW c, Sane(x, c), NEW d \in Chan, Windows(d), Basic(x.p, d), Wire(x, d)
  PROVE  Sane(x, d)
BY DEF Sane

(* A message that carries nothing, and the two that change flags. *)
Plain == MsgType \ (Setup \cup Carrying \cup Granting \cup {"EOF", "CLOSE"})

LEMMA SendKeeps ==
  ASSUME NEW x, NEW c, Sane(x, c), c.have_remote_id = TRUE, NEW t \in Plain,
         "close_sent" \in c.flags => t = "keepalive", t = "keepalive" => x.p = "server"
  PROVE  /\ Keeps(x, c, send_to_remote(c, t, 0))
         /\ Rest(c, send_to_remote(c, t, 0))
<1> DEFINE s == sshpkt_send(c, t, 0)
<1>0. c \in Chan /\ t \in MsgType \ Setup /\ t \notin Carrying /\ t \notin Granting
      /\ t \notin {"EOF", "CLOSE", "EXT"}
  BY DEF Sane, Plain, Carrying
<1>1. s = send_to_remote(c, t, 0) BY DEF send_to_remote
<1>2. s \in Chan /\ Rest(c, s) BY <1>0, Sent
<1>3. s.sent = c.sent /\ s.granted = c.granted
  BY <1>0, Fields DEF sshpkt_send, Chan
<1> HIDE DEF s
<1>4. Wire(x, s)
  <2>1. s.flags = c.flags BY <1>2 DEF Rest
  <2> QED BY <1>0, <2>1, WireSend DEF Sane, s
<1>5. Windows(s) BY <1>2, <1>3 DEF Sane, Rest, Windows
<1>6. Basic(x.p, s) BY <1>2 DEF Sane, Rest, Basic
<1>7. Holds(c, s) /\ Deaf(c, s) BY <1>2 DEF Rest, Holds, Deaf
<1> QED BY <1>1, <1>2, <1>4, <1>5, <1>6, <1>7, SaneFrom DEF Keeps
-----------------------------------------------------------------------------
(* The close state machine. *)

(* An assignment to fields the wire does not depend on. *)
LEMMA Assigned ==
  ASSUME NEW x, NEW c, Sane(x, c), NEW d \in Chan, d.wire = c.wire, d.sent = c.sent,
         d.granted = c.granted, d.flags = c.flags, Windows(d), Basic(x.p, d), Holds(c, d)
  PROVE  Keeps(x, c, d)
<1>1. Wire(x, d) BY WireSame DEF Sane
<1> QED BY <1>1, SaneFrom DEF Keeps, Deaf

LEMMA IstateKeeps ==
  ASSUME NEW x, NEW c, Sane(x, c), c.type \notin Opening, NEW v \in {"drain", "closed"},
         "close_sent" \in c.flags => v = "closed"
  PROVE  Keeps(x, c, [c EXCEPT !.istate = v])
<1> DEFINE d == [c EXCEPT !.istate = v]
<1>0. c \in Chan BY DEF Sane
<1>1. d \in Chan BY <1>0, SetIstate DEF HalfState
<1>2. /\ d.wire = c.wire /\ d.sent = c.sent /\ d.granted = c.granted /\ d.flags = c.flags
      /\ Holds(c, d)
  BY <1>0 DEF Chan, Holds
<1>3. Windows(d) BY <1>0 DEF Sane, Windows, Chan
<1>4. Basic(x.p, d) BY <1>0 DEF Sane, Basic, Chan, Opening
<1> HIDE DEF d
<1>5. Keeps(x, c, d) BY <1>1, <1>2, <1>3, <1>4, Assigned
<1> QED BY <1>5 DEF d

LEMMA OstateKeeps ==
  ASSUME NEW x, NEW c, Sane(x, c), c.type \notin Opening, NEW v \in {"drain", "closed"},
         "close_sent" \in c.flags => v = "closed"
  PROVE  Keeps(x, c, [c EXCEPT !.ostate = v])
<1> DEFINE d == [c EXCEPT !.ostate = v]
<1>0. c \in Chan BY DEF Sane
<1>1. d \in Chan BY <1>0, SetOstate DEF HalfState
<1>2. /\ d.wire = c.wire /\ d.sent = c.sent /\ d.granted = c.granted /\ d.flags = c.flags
      /\ Holds(c, d)
  BY <1>0 DEF Chan, Holds
<1>3. Windows(d) BY <1>0 DEF Sane, Windows, Chan
<1>4. Basic(x.p, d) BY <1>0 DEF Sane, Basic, Chan, Opening
<1> HIDE DEF d
<1>5. Keeps(x, c, d) BY <1>1, <1>2, <1>3, <1>4, Assigned
<1> QED BY <1>5 DEF d

LEMMA OutputKeeps ==
  ASSUME NEW x, NEW c, Sane(x, c)
  PROVE  Keeps(x, c, chan_shutdown_write(c)) /\ chan_shutdown_write(c).ostate = c.ostate
<1> DEFINE d == chan_shutdown_write(c)
<1>0. c \in Chan BY DEF Sane
<1>1. d \in Chan BY <1>0, SetOutput DEF chan_shutdown_write
<1>2. /\ d.wire = c.wire /\ d.sent = c.sent /\ d.granted = c.granted /\ d.flags = c.flags
      /\ Holds(c, d) /\ d.ostate = c.ostate
  BY <1>0 DEF Chan, Holds, chan_shutdown_write
<1>3. Windows(d)
  <2>1. /\ d.granted = c.granted /\ d.rcvd = c.rcvd /\ d.local_window = c.local_window
        /\ d.remote_window = c.remote_window /\ d.got = c.got /\ d.sent = c.sent
        /\ d.local_consumed = c.local_consumed /\ d.output = 0 /\ d.extended = c.extended
        /\ d.extended_usage = c.extended_usage /\ d.type = c.type
    BY <1>0 DEF Chan, chan_shutdown_write
  <2>2. /\ c.local_window \in Int /\ c.local_consumed \in Nat /\ c.output \in Nat
        /\ c.extended \in Nat /\ Window \in Nat
    BY <1>0, Fields, ChannelAssumption
  <2>3. Windows(c) BY DEF Sane
  <2> HIDE DEF d
  <2> QED BY <2>1, <2>2, <2>3 DEF Windows
<1>4. Basic(x.p, d) BY <1>0 DEF Sane, Basic, Chan, chan_shutdown_write
<1> HIDE DEF d
<1>5. Keeps(x, c, d) BY <1>1, <1>2, <1>3, <1>4, Assigned
<1> QED BY <1>2, <1>5 DEF d

LEMMA EfdKeeps ==
  ASSUME NEW x, NEW c, Sane(x, c), NEW b \in BOOLEAN
  PROVE  Keeps(x, c, [c EXCEPT !.efd = b])
<1> DEFINE d == [c EXCEPT !.efd = b]
<1>0. c \in Chan BY DEF Sane
<1>1. d \in Chan BY <1>0, SetEfd
<1>2. /\ d.wire = c.wire /\ d.sent = c.sent /\ d.granted = c.granted /\ d.flags = c.flags
      /\ Holds(c, d)
  BY <1>0 DEF Chan, Holds
<1>3. Windows(d) BY <1>0 DEF Sane, Windows, Chan
<1>4. Basic(x.p, d) BY <1>0 DEF Sane, Basic, Chan
<1> HIDE DEF d
<1>5. Keeps(x, c, d) BY <1>1, <1>2, <1>3, <1>4, Assigned
<1> QED BY <1>5 DEF d

(* A flag is added: only close_sent asks for something. *)
LEMMA FlagSane ==
  ASSUME NEW x, NEW c, Sane(x, c), c.type \notin Opening, NEW a \in Flag \ {"close_sent"}
  PROVE  Sane(x, [c EXCEPT !.flags = c.flags \cup {a}])
<1> DEFINE d == [c EXCEPT !.flags = c.flags \cup {a}]
<1>0. c \in Chan BY DEF Sane
<1>1. d \in Chan
  <2>1. c.flags \cup {a} \in SUBSET Flag BY <1>0, Fields
  <2> QED BY <1>0, <2>1, SetFlags
<1>2. /\ d.wire = c.wire /\ d.sent = c.sent /\ d.granted = c.granted
      /\ d.flags = c.flags \cup {a}
  BY <1>0 DEF Chan
<1>3. Windows(d) BY <1>0 DEF Sane, Windows, Chan
<1>4. Basic(x.p, d) BY <1>0 DEF Sane, Basic, Chan, Opening
<1> HIDE DEF d
<1>5. Wire(x, d) BY <1>2, WireSame DEF Sane
<1>6. Sane(x, d) BY <1>1, <1>3, <1>4, <1>5, SaneFrom
<1> QED BY <1>6 DEF d

LEMMA chan_send_eof2Keeps ==
  ASSUME NEW x, NEW c, Sane(x, c), c.type \notin Opening, c.have_remote_id = TRUE
  PROVE  /\ Keeps(x, c, chan_send_eof2(c))
         /\ chan_send_eof2(c).ostate = c.ostate /\ chan_send_eof2(c).istate = c.istate
<1> DEFINE s == sshpkt_send(c, "EOF", 0)
           d == [s EXCEPT !.flags = s.flags \cup {"eof_sent"}]
<1>0. c \in Chan /\ "EOF" \in MsgType \ Setup /\ "EOF" \notin Carrying /\ "EOF" \notin Granting
  BY DEF Sane, MsgType, Setup, Carrying, Granting
<1>1. chan_send_eof2(c) = IF c.istate = "drain" THEN d ELSE c
  BY DEF chan_send_eof2, send_to_remote
<1>2. s \in Chan /\ Rest(c, s) BY <1>0, Sent
<1>3. s.sent = c.sent /\ s.granted = c.granted BY <1>0, Fields DEF sshpkt_send, Chan
<1> HIDE DEF s
<1>4. CASE c.istate = "drain"
  <2>1. d \in Chan
    <3>1. s.flags \cup {"eof_sent"} \in SUBSET Flag BY <1>2, Fields DEF Flag
    <3> QED BY <1>2, <3>1, SetFlags
  <2>2. /\ d.wire = s.wire /\ d.sent = s.sent /\ d.granted = s.granted
        /\ d.flags = c.flags \cup {"eof_sent"} /\ d.ostate = c.ostate /\ d.istate = c.istate
    BY <1>2 DEF Chan, Rest
  <2>3. "close_sent" \notin c.flags BY <1>4 DEF Sane, Basic
  <2>4. Windows(d) BY <1>2, <1>3 DEF Sane, Windows, Chan, Rest
  <2>5. Basic(x.p, d) BY <1>2, <2>3 DEF Sane, Basic, Chan, Rest, Opening
  <2>6. Holds(c, d) /\ Deaf(c, d) BY <1>2, <2>2 DEF Holds, Deaf, Rest, Chan
  <2> HIDE DEF d
  <2>7. Wire(x, d) BY <1>0, <2>2, <2>3, WireSend DEF Sane, s
  <2> QED BY <1>1, <1>4, <2>1, <2>2, <2>4, <2>5, <2>6, <2>7, SaneFrom DEF Keeps
<1>5. CASE c.istate # "drain" BY <1>1, <1>5, KeepsSelf
<1> QED BY <1>4, <1>5

LEMMA chan_read_failedKeeps ==
  ASSUME NEW x, NEW c, Sane(x, c), c.type \notin Opening
  PROVE  Keeps(x, c, chan_read_failed(c)) /\ chan_read_failed(c).ostate = c.ostate
<1>1. CASE c.istate = "open"
  <2>1. "close_sent" \notin c.flags BY <1>1 DEF Sane, Basic
  <2>2. Keeps(x, c, [c EXCEPT !.istate = "drain"]) BY <2>1, IstateKeeps
  <2>3. [c EXCEPT !.istate = "drain"].ostate = c.ostate BY DEF Sane, Chan
  <2> QED BY <1>1, <2>2, <2>3 DEF chan_read_failed
<1>2. CASE c.istate # "open" BY <1>2, KeepsSelf DEF chan_read_failed
<1> QED BY <1>1, <1>2

LEMMA chan_rcvd_eowKeeps ==
  ASSUME NEW x, NEW c, Sane(x, c), c.type \notin Opening PROVE Keeps(x, c, chan_rcvd_eow(c))
BY IstateKeeps, KeepsSelf DEF chan_rcvd_eow

LEMMA chan_ibuf_emptyKeeps ==
  ASSUME NEW x, NEW c, Sane(x, c), c.type = "open" PROVE Keeps(x, c, chan_ibuf_empty(c))
<1> DEFINE s == IF "close_sent" \in c.flags THEN c ELSE chan_send_eof2(c)
<1>1. c.have_remote_id = TRUE /\ c.type \notin Opening BY DEF Sane, Basic, Opening
<1>2. Keeps(x, c, s) BY <1>1, chan_send_eof2Keeps, KeepsSelf
<1> HIDE DEF s
<1>3. Sane(x, s) /\ s.type \notin Opening BY <1>1, <1>2 DEF Keeps, Holds
<1>4. Keeps(x, s, [s EXCEPT !.istate = "closed"]) BY <1>3, IstateKeeps
<1>5. Keeps(x, c, [s EXCEPT !.istate = "closed"]) BY <1>2, <1>4, KeepsBoth
<1> QED BY <1>5, KeepsSelf DEF chan_ibuf_empty, s

LEMMA chan_obuf_emptyKeeps ==
  ASSUME NEW x, NEW c, Sane(x, c), c.type \notin Opening PROVE Keeps(x, c, chan_obuf_empty(c))
<1> DEFINE s == chan_shutdown_write(c)
<1>1. Keeps(x, c, s) BY OutputKeeps
<1> HIDE DEF s
<1>2. Sane(x, s) /\ s.type \notin Opening BY <1>1 DEF Keeps, Holds
<1>3. Keeps(x, s, [s EXCEPT !.ostate = "closed"]) BY <1>2, OstateKeeps
<1>4. Keeps(x, c, [s EXCEPT !.ostate = "closed"]) BY <1>1, <1>3, KeepsBoth
<1> QED BY <1>4, KeepsSelf DEF chan_obuf_empty, s

LEMMA chan_write_failedKeeps ==
  ASSUME NEW x, NEW c, Sane(x, c), c.type \in {"larval", "open"}
  PROVE  Keeps(x, c, chan_write_failed(c))
<1> DEFINE s == chan_shutdown_write(c)
           e == IF c.session THEN chan_send_eow2(s) ELSE s
           d == [e EXCEPT !.ostate = "closed", !.cut = TRUE]
<1>0. c.have_remote_id = TRUE /\ c.type \notin Opening BY DEF Sane, Basic, Opening
<1>1. Keeps(x, c, s) /\ s.ostate = c.ostate BY OutputKeeps
<1> HIDE DEF s
<1>2. Sane(x, s) /\ s.have_remote_id = TRUE BY <1>0, <1>1 DEF Keeps, Holds
<1>3. CASE c.ostate = "closed" BY <1>3, KeepsSelf DEF chan_write_failed
<1>4. CASE c.ostate # "closed"
  <2>1. "close_sent" \notin s.flags BY <1>1, <1>2, <1>4 DEF Sane, Basic
  <2>2. "eow" \in Plain BY DEF Plain, MsgType, Setup, Carrying, Granting
  <2>3. Keeps(x, s, send_to_remote(s, "eow", 0)) BY <1>2, <2>1, <2>2, SendKeeps
  <2>4. Keeps(x, s, e) BY <1>1, <1>2, <1>4, <2>3, KeepsSelf DEF chan_send_eow2
  <2> HIDE DEF e
  <2>5. Keeps(x, c, e) BY <1>1, <2>4, KeepsBoth
  <2>6. Sane(x, e) /\ e \in Chan /\ e.type \notin Opening BY <1>0, <2>5 DEF Keeps, Holds, Sane
  <2>7. d \in Chan
    <3> QED BY <2>6, Zenon DEF Chan, HalfState
  <2>8. /\ d.wire = e.wire /\ d.sent = e.sent /\ d.granted = e.granted /\ d.flags = e.flags
        /\ Holds(e, d)
    BY <2>6 DEF Chan, Holds
  <2>9. Windows(d) BY <2>6 DEF Sane, Windows, Chan
  <2>10. Basic(x.p, d) BY <2>6 DEF Sane, Basic, Chan, Opening
  <2>11. d = chan_write_failed(c) BY <1>4 DEF chan_write_failed, e, s
  <2> HIDE DEF d
  <2>12. Keeps(x, e, d) BY <2>6, <2>7, <2>8, <2>9, <2>10, Assigned
  <2> QED BY <2>5, <2>11, <2>12, KeepsBoth
<1> QED BY <1>3, <1>4
-----------------------------------------------------------------------------
(* What every operator that does not collect the channel leaves alone. *)
Same(c, d) ==
  /\ d.type = c.type /\ d.have_remote_id = c.have_remote_id /\ d.session = c.session
  /\ d.rcvd = c.rcvd /\ d.got = c.got
  /\ d.child = c.child /\ d.detach_user = c.detach_user /\ d.detach_close = c.detach_close

LEMMA HoldsHeld == ASSUME NEW c, NEW d, Held(c), Holds(c, d) PROVE Held(d)
BY DEF Held, Holds

LEMMA chan_rcvd_ieofSane ==
  ASSUME NEW x, NEW c, Sane(x, c), c.type \notin Opening
  PROVE  LET d == chan_rcvd_ieof(c)
         IN  /\ Sane(x, d) /\ Holds(c, d)
             /\ "close_rcvd" \in d.flags => "close_rcvd" \in c.flags
<1> DEFINE b == [c EXCEPT !.flags = c.flags \cup {"eof_rcvd"}]
           o == IF c.ostate = "open" THEN "drain" ELSE c.ostate
           a == [c EXCEPT !.flags = c.flags \cup {"eof_rcvd"}, !.ostate = o]
<1>0. c \in Chan BY DEF Sane
<1>1. Sane(x, b)
  <2>1. "eof_rcvd" \in Flag \ {"close_sent"} BY DEF Flag
  <2> QED BY <2>1, FlagSane
<1>2. /\ Holds(c, b) /\ b.type = c.type /\ b.ostate = c.ostate
      /\ b.flags = c.flags \cup {"eof_rcvd"}
  BY <1>0 DEF Holds, Chan
<1>3. Keeps(x, b, a)
  <2>1. a = [b EXCEPT !.ostate = o] BY <1>0 DEF Chan
  <2>2. CASE c.ostate = "open"
    <3>1. "close_sent" \notin b.flags BY <1>1, <1>2, <2>2 DEF Sane, Basic
    <3> HIDE DEF b
    <3>2. Keeps(x, b, [b EXCEPT !.ostate = "drain"]) BY <1>1, <1>2, <3>1, OstateKeeps
    <3> QED BY <2>1, <2>2, <3>2
  <2>3. CASE c.ostate # "open"
    <3>1. a = b BY <2>3, <1>0 DEF Chan
    <3> QED BY <1>1, <3>1, KeepsSelf
  <2> QED BY <2>2, <2>3
<1>4. chan_rcvd_ieof(c) = IF a.ostate = "drain" /\ a.output = 0 /\ ~EFD_OUTPUT_ACTIVE(a)
                          THEN chan_obuf_empty(a) ELSE a
  BY DEF chan_rcvd_ieof
<1> HIDE DEF a, b
<1>5. Sane(x, a) /\ a.type \notin Opening BY <1>2, <1>3 DEF Keeps, Holds
<1>6. Keeps(x, a, chan_rcvd_ieof(c)) BY <1>4, <1>5, chan_obuf_emptyKeeps, KeepsSelf
<1>7. Keeps(x, b, chan_rcvd_ieof(c)) BY <1>3, <1>6, KeepsBoth
<1> QED BY <1>2, <1>7 DEF Keeps, Holds, Deaf

LEMMA chan_rcvd_ocloseSane ==
  ASSUME NEW x, NEW c, Sane(x, c), c.type \in {"larval", "open"}
  PROVE  LET d == chan_rcvd_oclose(c)
         IN  /\ Sane(x, d) /\ Holds(c, d)
             /\ "eof_rcvd" \in d.flags => "eof_rcvd" \in c.flags
<1> DEFINE a == [c EXCEPT !.flags = c.flags \cup {"close_rcvd"}]
           b == [a EXCEPT !.ostate = IF a.ostate = "open" THEN "drain" ELSE a.ostate]
           e == IF b.istate = "drain" THEN chan_send_eof2(b) ELSE b
           y == IF b.istate = "closed" THEN e ELSE chan_shutdown_extended_read(e)
           la == [[a EXCEPT !.ostate = "closed"] EXCEPT !.istate = "closed"]
           op == [y EXCEPT !.istate = "closed"]
<1>0. c \in Chan BY DEF Sane
<1>1. Sane(x, a)
  <2>1. "close_rcvd" \in Flag \ {"close_sent"} BY DEF Flag
  <2> QED BY <2>1, FlagSane DEF Opening
<1>2. /\ Holds(c, a) /\ a.type \notin Opening /\ a.have_remote_id = TRUE
      /\ a.flags = c.flags \cup {"close_rcvd"}
  BY <1>0 DEF Holds, Chan, Sane, Basic, Opening
<1>3. chan_rcvd_oclose(c) = IF c.type = "larval" THEN la ELSE op
  <2>1. la = [a EXCEPT !.ostate = "closed", !.istate = "closed"] BY <1>0 DEF Chan
  <2> HIDE DEF la
  <2> QED BY <2>1 DEF chan_rcvd_oclose
<1> HIDE DEF a
<1>4. Keeps(x, a, la)
  <2> DEFINE k == [a EXCEPT !.ostate = "closed"]
  <2>1. Keeps(x, a, k) BY <1>1, <1>2, OstateKeeps
  <2> HIDE DEF k
  <2>2. Sane(x, k) /\ k.type \notin Opening BY <1>2, <2>1 DEF Keeps, Holds
  <2>3. Keeps(x, k, [k EXCEPT !.istate = "closed"]) BY <2>2, IstateKeeps
  <2>4. Keeps(x, a, [k EXCEPT !.istate = "closed"]) BY <2>1, <2>3, KeepsBoth
  <2> QED BY <2>4 DEF k
<1>5. Keeps(x, a, op)
  <2>1. Keeps(x, a, b)
    <3>1. CASE a.ostate = "open"
      <4>1. "close_sent" \notin a.flags BY <1>1, <3>1 DEF Sane, Basic
      <4>2. Keeps(x, a, [a EXCEPT !.ostate = "drain"]) BY <1>1, <1>2, <4>1, OstateKeeps
      <4> QED BY <3>1, <4>2
    <3>2. CASE a.ostate # "open"
      <4>1. b = a BY <3>2, <1>1 DEF Sane, Chan
      <4> QED BY <4>1, <1>1, KeepsSelf
    <3> QED BY <3>1, <3>2
  <2> HIDE DEF b
  <2>2. Sane(x, b) /\ b.type \notin Opening /\ b.have_remote_id = TRUE
    BY <1>2, <2>1 DEF Keeps, Holds
  <2>3. Keeps(x, b, e) BY <2>2, chan_send_eof2Keeps, KeepsSelf
  <2> HIDE DEF e
  <2>4. Sane(x, e) BY <2>3 DEF Keeps
  <2>5. Keeps(x, e, y)
    <3>1. Keeps(x, e, [e EXCEPT !.efd = FALSE]) BY <2>4, EfdKeeps
    <3> QED BY <2>4, <3>1, KeepsSelf DEF chan_shutdown_extended_read
  <2> HIDE DEF y
  <2>6. Keeps(x, a, y) BY <2>1, <2>3, <2>5, KeepsBoth
  <2>7. Sane(x, y) /\ y.type \notin Opening BY <1>2, <2>6 DEF Keeps, Holds
  <2>8. Keeps(x, y, op) BY <2>7, IstateKeeps
  <2> HIDE DEF op
  <2> QED BY <2>6, <2>8, KeepsBoth
<1> HIDE DEF la, op
<1>6. Keeps(x, a, chan_rcvd_oclose(c)) BY <1>3, <1>4, <1>5
<1> QED BY <1>2, <1>6 DEF Keeps, Holds, Deaf

LEMMA chan_send_close2Sane ==
  ASSUME NEW x, NEW c, Sane(x, c), c.type \notin Opening, c.have_remote_id = TRUE
  PROVE  LET d == chan_send_close2(c)
         IN  /\ Sane(x, d) /\ Same(c, d) /\ Deaf(c, d)
             /\ d.istate = c.istate /\ d.ostate = c.ostate
             /\ c.istate = "closed" /\ c.ostate = "closed" => "close_sent" \in d.flags
             /\ ~(c.istate = "closed" /\ c.ostate = "closed") => d = c
<1> DEFINE s == sshpkt_send(c, "CLOSE", 0)
           d == [s EXCEPT !.flags = s.flags \cup {"close_sent"}]
           go == c.ostate = "closed" /\ c.istate = "closed" /\ "close_sent" \notin c.flags
<1>0. /\ c \in Chan /\ "CLOSE" \in MsgType \ Setup
      /\ "CLOSE" \notin Carrying /\ "CLOSE" \notin Granting
  BY DEF Sane, MsgType, Setup, Carrying, Granting
<1>1. chan_send_close2(c) = IF go THEN d ELSE c
  BY DEF chan_send_close2, send_to_remote
<1>2. s \in Chan /\ Rest(c, s) BY <1>0, Sent
<1>3. s.sent = c.sent /\ s.granted = c.granted BY <1>0, Fields DEF sshpkt_send, Chan
<1> HIDE DEF s
<1>4. CASE go
  <2>1. d \in Chan
    <3>1. s.flags \cup {"close_sent"} \in SUBSET Flag BY <1>2, Fields DEF Flag
    <3> QED BY <1>2, <3>1, SetFlags
  <2>2. /\ d.wire = s.wire /\ d.sent = s.sent /\ d.granted = s.granted
        /\ d.flags = c.flags \cup {"close_sent"} /\ d.ostate = c.ostate /\ d.istate = c.istate
    BY <1>2 DEF Chan, Rest
  <2>4. Windows(d) BY <1>2, <1>3 DEF Sane, Windows, Chan, Rest
  <2>5. Basic(x.p, d)
    <3>1. /\ d.died = c.died /\ d.type = c.type
          /\ d.have_remote_id = c.have_remote_id /\ d.child = c.child
      BY <1>2 DEF Chan, Rest
    <3> HIDE DEF d
    <3> QED BY <1>4, <2>2, <3>1 DEF Sane, Basic, Opening
  <2>6. Same(c, d) /\ Deaf(c, d) BY <1>2, <2>2 DEF Same, Deaf, Rest, Chan
  <2> HIDE DEF d
  <2>7. Wire(x, d) BY <1>0, <1>4, <2>2, WireSend DEF Sane, s
  <2> QED BY <1>1, <1>4, <2>1, <2>2, <2>4, <2>5, <2>6, <2>7, SaneFrom
<1>5. CASE ~go BY <1>1, <1>5 DEF Same, Deaf
<1> QED BY <1>4, <1>5
-----------------------------------------------------------------------------
(* One pass of a loop. *)

LEMMA LeastBounds ==
  ASSUME NEW a \in Int, NEW b \in Int, Least(Least(a, b), MaxPacket) > 0
  PROVE  /\ Least(Least(a, b), MaxPacket) \in 1 .. MaxPacket
         /\ Least(Least(a, b), MaxPacket) <= b
BY ChannelAssumption DEF Least

LEMMA channel_output_poll_input_openKeeps ==
  ASSUME NEW x, NEW c, Sane(x, c), c.type = "open", "close_sent" \notin c.flags
  PROVE  Keeps(x, c, channel_output_poll_input_open(c))
<1> DEFINE len == Least(Least(c.input, c.remote_window), MaxPacket)
           s == sshpkt_send(c, "DATA", len)
           d == [s EXCEPT !.input = s.input - len, !.remote_window = s.remote_window - len]
           empty == c.input = 0 /\ c.istate = "drain" /\ ~EFD_INPUT_ACTIVE(c)
<1>0. c \in Chan /\ c.have_remote_id = TRUE BY DEF Sane, Basic
<1>1. channel_output_poll_input_open(c) = CASE empty -> chan_ibuf_empty(c)
                                            [] len > 0 -> d
                                            [] OTHER -> c
  BY <1>0 DEF channel_output_poll_input_open, send_to_remote
<1>2. Keeps(x, c, chan_ibuf_empty(c)) BY chan_ibuf_emptyKeeps
<1>3. Keeps(x, c, c) BY KeepsSelf
<1>4. c.input = 0 /\ len > 0 => FALSE
  <2>1. c.input \in Int /\ c.remote_window \in Int BY <1>0, Fields
  <2> QED BY <2>1, ChannelAssumption DEF Least
<1>5. CASE len > 0
  <2>1. len \in 1 .. MaxPacket /\ len <= c.remote_window /\ len \in Int /\ len >= 0
    <3>1. c.input \in Int /\ c.remote_window \in Int BY <1>0, Fields
    <3> HIDE DEF len
    <3>2. len \in 1 .. MaxPacket /\ len <= c.remote_window BY <1>5, <3>1, LeastBounds DEF len
    <3> QED BY <3>2, ChannelAssumption
  <2>2. d = channel_output_poll_input_open(c) BY <1>1, <1>4, <1>5
  <2>3. d \in Chan BY <1>0, <2>2, channel_output_poll_input_openType
  <2> HIDE DEF len
  <2>4. "DATA" \in MsgType \ Setup /\ "DATA" \in Carrying /\ "DATA" \notin Granting
    BY DEF MsgType, Setup, Carrying, Granting
  <2>5. s \in Chan /\ Rest(c, s) BY <1>0, <2>1, <2>4, Sent
  <2>6. s.sent = c.sent + len /\ s.granted = c.granted BY <1>0, <2>4, Fields DEF sshpkt_send, Chan
  <2> HIDE DEF s
  <2>7. /\ d.wire = s.wire /\ d.sent = s.sent /\ d.granted = s.granted /\ d.flags = c.flags
        /\ Holds(c, d) /\ Deaf(c, d)
    BY <2>5 DEF Chan, Rest, Holds, Deaf
  <2>8. Windows(d)
    <3>1. /\ d.granted = c.granted /\ d.rcvd = c.rcvd /\ d.local_window = c.local_window
          /\ d.remote_window = c.remote_window - len /\ d.got = c.got /\ d.sent = c.sent + len
          /\ d.local_consumed = c.local_consumed /\ d.output = c.output /\ d.extended = c.extended
          /\ d.extended_usage = c.extended_usage /\ d.type = c.type
      BY <2>5, <2>6 DEF Chan, Rest
    <3>2. c.remote_window \in Int /\ c.got \in Int /\ c.sent \in Nat BY <1>0, Fields
    <3>3. Windows(c) BY DEF Sane
    <3> HIDE DEF d
    <3> QED BY <2>1, <3>1, <3>2, <3>3 DEF Windows
  <2>9. Basic(x.p, d) BY <2>5 DEF Sane, Basic, Chan, Rest
  <2> HIDE DEF d
  <2>10. Wire(x, d) BY <1>0, <2>1, <2>4, <2>7, WireSend DEF Sane, s
  <2> QED BY <2>2, <2>3, <2>7, <2>8, <2>9, <2>10, SaneFrom DEF Keeps
<1> HIDE DEF d, len
<1> QED BY <1>1, <1>2, <1>3, <1>5

LEMMA channel_output_poll_extended_readKeeps ==
  ASSUME NEW x, NEW c, Sane(x, c), c.type = "open", "close_sent" \notin c.flags,
         "eof_sent" \notin c.flags, c.extended_usage = "read"
  PROVE  Keeps(x, c, channel_output_poll_extended_read(c))
<1> DEFINE len == Least(Least(c.extended, c.remote_window), MaxPacket)
           s == sshpkt_send(c, "EXT", len)
           d == [s EXCEPT !.extended = s.extended - len, !.remote_window = s.remote_window - len]
<1>0. c \in Chan /\ c.have_remote_id = TRUE BY DEF Sane, Basic
<1>1. channel_output_poll_extended_read(c) = IF len > 0 THEN d ELSE c
  BY <1>0 DEF channel_output_poll_extended_read, send_to_remote
<1>2. CASE len > 0
  <2>1. len \in 1 .. MaxPacket /\ len <= c.remote_window /\ len \in Int /\ len >= 0
    <3>1. c.extended \in Int /\ c.remote_window \in Int BY <1>0, Fields
    <3> HIDE DEF len
    <3>2. len \in 1 .. MaxPacket /\ len <= c.remote_window BY <1>2, <3>1, LeastBounds DEF len
    <3> QED BY <3>2, ChannelAssumption
  <2>2. d = channel_output_poll_extended_read(c) BY <1>1, <1>2
  <2>3. d \in Chan BY <1>0, <2>2, channel_output_poll_extended_readType
  <2> HIDE DEF len
  <2>4. "EXT" \in MsgType \ Setup /\ "EXT" \in Carrying /\ "EXT" \notin Granting
    BY DEF MsgType, Setup, Carrying, Granting
  <2>5. s \in Chan /\ Rest(c, s) BY <1>0, <2>1, <2>4, Sent
  <2>6. s.sent = c.sent + len /\ s.granted = c.granted BY <1>0, <2>4, Fields DEF sshpkt_send, Chan
  <2> HIDE DEF s
  <2>7. /\ d.wire = s.wire /\ d.sent = s.sent /\ d.granted = s.granted /\ d.flags = c.flags
        /\ Holds(c, d) /\ Deaf(c, d)
    BY <2>5 DEF Chan, Rest, Holds, Deaf
  <2>8. Windows(d)
    <3>1. /\ d.granted = c.granted /\ d.rcvd = c.rcvd /\ d.local_window = c.local_window
          /\ d.remote_window = c.remote_window - len /\ d.got = c.got /\ d.sent = c.sent + len
          /\ d.local_consumed = c.local_consumed /\ d.output = c.output
          /\ d.extended_usage = "read" /\ d.type = "open"
      BY <2>5, <2>6 DEF Chan, Rest
    <3>2. c.remote_window \in Int /\ c.got \in Int /\ c.sent \in Nat BY <1>0, Fields
    <3>3. Windows(c) BY DEF Sane
    <3> HIDE DEF d
    <3> QED BY <2>1, <3>1, <3>2, <3>3 DEF Windows, Unopened
  <2>9. Basic(x.p, d) BY <2>5 DEF Sane, Basic, Chan, Rest
  <2> HIDE DEF d
  <2>10. Wire(x, d) BY <1>0, <2>1, <2>4, <2>7, WireSend DEF Sane, s
  <2> QED BY <2>2, <2>3, <2>7, <2>8, <2>9, <2>10, SaneFrom DEF Keeps
<1>3. CASE ~(len > 0) BY <1>1, <1>3, KeepsSelf
<1> QED BY <1>2, <1>3

LEMMA channel_output_pollKeeps ==
  ASSUME NEW x, NEW c, Sane(x, c) PROVE Keeps(x, c, channel_output_poll(c))
<1> DEFINE a == IF c.istate # "closed" THEN channel_output_poll_input_open(c) ELSE c
           b == IF "eof_sent" \notin a.flags /\ a.extended_usage = "read"
                THEN channel_output_poll_extended_read(a) ELSE a
<1>1. CASE c.type = "open" /\ c.flags \cap CloseFlags = {}
  <2>1. "close_sent" \notin c.flags BY <1>1 DEF CloseFlags
  <2>2. Keeps(x, c, a) BY <1>1, <2>1, channel_output_poll_input_openKeeps, KeepsSelf
  <2>3. channel_output_poll(c) = b BY <1>1 DEF channel_output_poll
  <2> HIDE DEF a
  <2>4. Sane(x, a) /\ a.type = "open" /\ "close_sent" \notin a.flags
    BY <1>1, <2>1, <2>2 DEF Keeps, Holds
  <2>5. Keeps(x, a, b) BY <2>4, channel_output_poll_extended_readKeeps, KeepsSelf
  <2> HIDE DEF b
  <2> QED BY <2>2, <2>3, <2>5, KeepsBoth
<1>2. CASE ~(c.type = "open" /\ c.flags \cap CloseFlags = {})
  <2>1. channel_output_poll(c) = c BY <1>2 DEF channel_output_poll
  <2> QED BY <2>1, KeepsSelf
<1> QED BY <1>1, <1>2

LEMMA channel_pre_openKeeps ==
  ASSUME NEW x, NEW c, Sane(x, c) PROVE Keeps(x, c, channel_pre_open(c))
<1>1. c.type = "open" => c.type \notin Opening BY DEF Opening
<1> QED BY <1>1, chan_obuf_emptyKeeps, KeepsSelf DEF channel_pre_open

LEMMA channel_handle_rfdKeeps ==
  ASSUME NEW x, NEW c, Sane(x, c), c.type = "open", NEW at, NEW io, io.rfd \in Int
  PROVE  Keeps(x, c, channel_handle_rfd(c, at, io))
<1> DEFINE d == [c EXCEPT !.input = c.input + io.rfd, !.nread = c.nread + io.rfd]
           go == c.istate = "open" /\ (ReadSelected(at) \/ ForceRead(c))
           end == io.rfd < 0 \/ (io.rfd = 0 /\ ForceRead(c))
<1>0. c \in Chan /\ c.type \notin Opening BY DEF Sane, Opening
<1>1. channel_handle_rfd(c, at, io) =
        IF go THEN (IF end THEN chan_read_failed(c) ELSE d) ELSE c
  BY DEF channel_handle_rfd
<1>2. Keeps(x, c, chan_read_failed(c)) BY <1>0, chan_read_failedKeeps
<1>3. CASE go /\ ~end
  <2>1. d \in Chan BY <1>0, <1>1, <1>3, channel_handle_rfdType
  <2>2. /\ d.wire = c.wire /\ d.sent = c.sent /\ d.granted = c.granted /\ d.flags = c.flags
        /\ Holds(c, d)
    BY <1>0 DEF Chan, Holds
  <2>3. Windows(d) BY <1>0 DEF Sane, Windows, Chan
  <2>4. Basic(x.p, d) BY <1>0 DEF Sane, Basic, Chan
  <2> HIDE DEF d
  <2> QED BY <1>1, <1>3, <2>1, <2>2, <2>3, <2>4, Assigned
<1> HIDE DEF d, go, end
<1> QED BY <1>1, <1>2, <1>3, KeepsSelf

LEMMA channel_handle_wfdKeeps ==
  ASSUME NEW x, NEW c, Sane(x, c), c.type = "open", NEW at, NEW io, io.wfd \in Int
  PROVE  Keeps(x, c, channel_handle_wfd(c, at, io))
<1> DEFINE len == Least(io.wfd, c.output)
           d == [c EXCEPT !.output = c.output - len, !.local_consumed = c.local_consumed + len,
                          !.nwritten = c.nwritten + len]
           go == WriteSelected(at) /\ c.output > 0
<1>0. c \in Chan BY DEF Sane
<1>1. channel_handle_wfd(c, at, io) =
        IF go THEN (IF io.wfd < 0 THEN chan_write_failed(c) ELSE d) ELSE c
  BY DEF channel_handle_wfd
<1>2. Keeps(x, c, chan_write_failed(c)) BY chan_write_failedKeeps
<1>3. CASE go /\ ~(io.wfd < 0)
  <2>1. d \in Chan BY <1>0, <1>1, <1>3, channel_handle_wfdType
  <2>2. /\ d.wire = c.wire /\ d.sent = c.sent /\ d.granted = c.granted /\ d.flags = c.flags
        /\ Holds(c, d)
    BY <1>0 DEF Chan, Holds
  <2>3. Windows(d)
    <3>1. /\ d.granted = c.granted /\ d.rcvd = c.rcvd /\ d.local_window = c.local_window
          /\ d.remote_window = c.remote_window /\ d.got = c.got /\ d.sent = c.sent
          /\ d.local_consumed = c.local_consumed + len /\ d.output = c.output - len
          /\ d.extended = c.extended /\ d.extended_usage = c.extended_usage /\ d.type = "open"
      BY <1>0 DEF Chan
    <3>2. /\ c.local_window \in Int /\ c.local_consumed \in Nat /\ c.output \in Nat
          /\ c.extended \in Nat /\ Window \in Nat /\ len \in Int
      BY <1>0, Fields, ChannelAssumption DEF Least
    <3>3. Windows(c) BY DEF Sane
    <3> HIDE DEF d, len
    <3> QED BY <3>1, <3>2, <3>3 DEF Windows, Unopened
  <2>4. Basic(x.p, d) BY <1>0 DEF Sane, Basic, Chan
  <2> HIDE DEF d
  <2> QED BY <1>1, <1>3, <2>1, <2>2, <2>3, <2>4, Assigned
<1> HIDE DEF d, go
<1> QED BY <1>1, <1>2, <1>3, KeepsSelf

LEMMA channel_handle_efd_writeKeeps ==
  ASSUME NEW x, NEW c, Sane(x, c), c.type = "open", NEW at, NEW io, io.efd \in Int,
         c.extended_usage = "write", c.efd = TRUE
  PROVE  Keeps(x, c, channel_handle_efd_write(c, at, io))
<1> DEFINE len == Least(io.efd, c.extended)
           d == [c EXCEPT !.extended = c.extended - len, !.local_consumed = c.local_consumed + len]
           go == EfdSelected(at) /\ c.extended > 0
<1>0. c \in Chan BY DEF Sane
<1>1. channel_handle_efd_write(c, at, io) =
        IF go THEN (IF io.efd < 0 THEN [c EXCEPT !.efd = FALSE] ELSE d) ELSE c
  BY DEF channel_handle_efd_write
<1>2. Keeps(x, c, [c EXCEPT !.efd = FALSE]) BY EfdKeeps
<1>3. CASE go /\ ~(io.efd < 0)
  <2>0. channel_handle_efd(c, at, io) = channel_handle_efd_write(c, at, io)
    BY DEF channel_handle_efd
  <2>1. d \in Chan BY <1>0, <1>1, <1>3, <2>0, channel_handle_efdType
  <2>2. /\ d.wire = c.wire /\ d.sent = c.sent /\ d.granted = c.granted /\ d.flags = c.flags
        /\ Holds(c, d)
    BY <1>0 DEF Chan, Holds
  <2>3. Windows(d)
    <3>1. /\ d.granted = c.granted /\ d.rcvd = c.rcvd /\ d.local_window = c.local_window
          /\ d.remote_window = c.remote_window /\ d.got = c.got /\ d.sent = c.sent
          /\ d.local_consumed = c.local_consumed + len /\ d.output = c.output
          /\ d.extended = c.extended - len /\ d.extended_usage = "write" /\ d.type = "open"
      BY <1>0 DEF Chan
    <3>2. /\ c.local_window \in Int /\ c.local_consumed \in Nat /\ c.output \in Nat
          /\ c.extended \in Nat /\ Window \in Nat /\ len \in Int
      BY <1>0, Fields, ChannelAssumption DEF Least
    <3>3. Windows(c) BY DEF Sane
    <3> HIDE DEF d, len
    <3> QED BY <3>1, <3>2, <3>3 DEF Windows, Unopened
  <2>4. Basic(x.p, d) BY <1>0 DEF Sane, Basic, Chan
  <2> HIDE DEF d
  <2> QED BY <1>1, <1>3, <2>1, <2>2, <2>3, <2>4, Assigned
<1> HIDE DEF d, go
<1> QED BY <1>1, <1>2, <1>3, KeepsSelf

LEMMA channel_handle_efd_readKeeps ==
  ASSUME NEW x, NEW c, Sane(x, c), c.type = "open", NEW at, NEW io, io.efd \in Int,
         c.extended_usage # "write", c.efd = TRUE
  PROVE  Keeps(x, c, channel_handle_efd_read(c, at, io))
<1> DEFINE d == [c EXCEPT !.extended = IF c.extended_usage = "read" THEN c.extended + io.efd
                                       ELSE c.extended,
                          !.eread = c.eread + io.efd]
           go == EfdSelected(at) \/ ForceRead(c)
           end == io.efd < 0 \/ (io.efd = 0 /\ ForceRead(c))
<1>0. c \in Chan BY DEF Sane
<1>1. channel_handle_efd_read(c, at, io) =
        IF go THEN (IF end THEN [c EXCEPT !.efd = FALSE] ELSE d) ELSE c
  BY DEF channel_handle_efd_read
<1>2. Keeps(x, c, [c EXCEPT !.efd = FALSE]) BY EfdKeeps
<1>3. CASE go /\ ~end
  <2>0. channel_handle_efd(c, at, io) = channel_handle_efd_read(c, at, io)
    BY DEF channel_handle_efd
  <2>1. d \in Chan BY <1>0, <1>1, <1>3, <2>0, channel_handle_efdType
  <2>2. /\ d.wire = c.wire /\ d.sent = c.sent /\ d.granted = c.granted /\ d.flags = c.flags
        /\ Holds(c, d)
    BY <1>0 DEF Chan, Holds
  <2>3. Windows(d)
    <3>1. /\ d.granted = c.granted /\ d.rcvd = c.rcvd /\ d.local_window = c.local_window
          /\ d.remote_window = c.remote_window /\ d.got = c.got /\ d.sent = c.sent
          /\ d.local_consumed = c.local_consumed /\ d.output = c.output
          /\ d.extended_usage = c.extended_usage /\ d.type = "open"
      BY <1>0 DEF Chan
    <3>2. Windows(c) BY DEF Sane
    <3> HIDE DEF d
    <3> QED BY <3>1, <3>2 DEF Windows, Unopened
  <2>4. Basic(x.p, d) BY <1>0 DEF Sane, Basic, Chan
  <2> HIDE DEF d
  <2> QED BY <1>1, <1>3, <2>1, <2>2, <2>3, <2>4, Assigned
<1> HIDE DEF d, go, end
<1> QED BY <1>1, <1>2, <1>3, KeepsSelf

LEMMA channel_handle_efdKeeps ==
  ASSUME NEW x, NEW c, Sane(x, c), c.type = "open", NEW at, NEW io, io.efd \in Int
  PROVE  Keeps(x, c, channel_handle_efd(c, at, io))
<1>0. c.efd \in BOOLEAN BY DEF Sane, Chan
<1>1. CASE ~c.efd BY <1>1, KeepsSelf DEF channel_handle_efd
<1>2. CASE c.efd = TRUE
  <2>1. channel_handle_efd(c, at, io) = IF c.extended_usage = "write"
          THEN channel_handle_efd_write(c, at, io) ELSE channel_handle_efd_read(c, at, io)
    BY <1>2 DEF channel_handle_efd
  <2> QED BY <1>2, <2>1, channel_handle_efd_writeKeeps, channel_handle_efd_readKeeps
<1> QED BY <1>0, <1>1, <1>2

LEMMA channel_check_windowKeeps ==
  ASSUME NEW x, NEW c, Sane(x, c), c.type = "open" PROVE Keeps(x, c, channel_check_window(c))
<1> DEFINE n == c.local_consumed
           s == sshpkt_send(c, "ADJUST", n)
           d == [s EXCEPT !.local_window = s.local_window + n, !.local_consumed = 0]
           go == /\ c.flags \cap CloseFlags = {}
                 /\ \/ Window - c.local_window > 3 * MaxPacket
                    \/ c.local_window < Window \div 2
                 /\ n > 0
<1>0. c \in Chan /\ c.have_remote_id = TRUE /\ n \in Nat BY Fields DEF Sane, Basic
<1>1. channel_check_window(c) = IF go THEN d ELSE c
  BY <1>0 DEF channel_check_window, send_to_remote
<1>2. CASE go
  <2>1. d \in Chan BY <1>0, <1>1, <1>2, channel_check_windowType
  <2>2. "close_sent" \notin c.flags BY <1>2 DEF CloseFlags
  <2>3. "ADJUST" \in MsgType \ Setup /\ "ADJUST" \notin Carrying /\ "ADJUST" \in Granting
    BY DEF MsgType, Setup, Carrying, Granting
  <2>4. s \in Chan /\ Rest(c, s) BY <1>0, <2>3, Sent
  <2>5. s.sent = c.sent /\ s.granted = c.granted + n BY <1>0, <2>3, Fields DEF sshpkt_send, Chan
  <2> HIDE DEF s
  <2>6. /\ d.wire = s.wire /\ d.sent = s.sent /\ d.granted = s.granted /\ d.flags = c.flags
        /\ Holds(c, d) /\ Deaf(c, d)
    BY <2>4 DEF Chan, Rest, Holds, Deaf
  <2>7. Windows(d)
    <3>1. /\ d.granted = c.granted + n /\ d.rcvd = c.rcvd /\ d.local_window = c.local_window + n
          /\ d.remote_window = c.remote_window /\ d.got = c.got /\ d.sent = c.sent
          /\ d.local_consumed = 0 /\ d.output = c.output /\ d.extended = c.extended
          /\ d.extended_usage = c.extended_usage /\ d.type = "open"
      BY <2>4, <2>5 DEF Chan, Rest
    <3>2. /\ c.local_window \in Int /\ c.output \in Nat /\ c.granted \in Int /\ c.rcvd \in Nat
          /\ c.extended \in Nat /\ Window \in Nat
      BY <1>0, Fields, ChannelAssumption
    <3>3. Windows(c) BY DEF Sane
    <3>4. n = c.local_consumed OBVIOUS
    <3> HIDE DEF d, n
    <3> QED BY <1>0, <3>1, <3>2, <3>3, <3>4 DEF Windows, Unopened
  <2>8. Basic(x.p, d) BY <2>4 DEF Sane, Basic, Chan, Rest
  <2> HIDE DEF d
  <2>9. Wire(x, d) BY <1>0, <2>2, <2>3, <2>6, WireSend DEF Sane, s
  <2> QED BY <1>1, <1>2, <2>1, <2>6, <2>7, <2>8, <2>9, SaneFrom DEF Keeps
<1>3. CASE ~go BY <1>1, <1>3, KeepsSelf
<1> QED BY <1>2, <1>3

LEMMA channel_post_openKeeps ==
  ASSUME NEW x, NEW c, Sane(x, c), NEW at, NEW io,
         io.rfd \in Int, io.wfd \in Int, io.efd \in Int
  PROVE  Keeps(x, c, channel_post_open(c, at, io))
<1> DEFINE r == channel_handle_rfd(c, at, io)
           w == channel_handle_wfd(r, at, io)
           e == channel_handle_efd(w, at, io)
<1>1. CASE c.type = "open"
  <2>0. channel_post_open(c, at, io) = channel_check_window(e) BY <1>1 DEF channel_post_open
  <2>1. Keeps(x, c, r) BY <1>1, channel_handle_rfdKeeps
  <2> HIDE DEF r
  <2>2. Sane(x, r) /\ r.type = "open" BY <1>1, <2>1 DEF Keeps, Holds
  <2>3. Keeps(x, r, w) BY <2>2, channel_handle_wfdKeeps
  <2> HIDE DEF w
  <2>4. Sane(x, w) /\ w.type = "open" BY <2>2, <2>3 DEF Keeps, Holds
  <2>5. Keeps(x, w, e) BY <2>4, channel_handle_efdKeeps
  <2> HIDE DEF e
  <2>6. Sane(x, e) /\ e.type = "open" BY <2>4, <2>5 DEF Keeps, Holds
  <2>7. Keeps(x, e, channel_check_window(e)) BY <2>6, channel_check_windowKeeps
  <2>8. Keeps(x, c, e) BY <2>1, <2>3, <2>5, KeepsBoth
  <2> QED BY <2>0, <2>7, <2>8, KeepsBoth
<1>2. CASE c.type # "open" BY <1>2, KeepsSelf DEF channel_post_open
<1> QED BY <1>1, <1>2
-----------------------------------------------------------------------------
(* Garbage collection. *)

(* What the other end sees of a pass: the channel stays what it is, or is  *)
(* freed after the other's CLOSE.                                          *)
Passes(c, d) ==
  /\ d.rcvd = c.rcvd /\ d.got = c.got /\ Deaf(c, d)
  /\ d.type \in {c.type, "freed"}
  /\ d.type # c.type => "close_rcvd" \in d.flags

LEMMA KeepsPasses == ASSUME NEW x, NEW c, NEW d, Keeps(x, c, d) PROVE Passes(c, d)
BY DEF Keeps, Holds, Passes

LEMMA PassesBoth ==
  ASSUME NEW c, NEW d, NEW e, Passes(c, d), Passes(d, e) PROVE Passes(c, e)
BY DEF Passes, Deaf

LEMMA FreedSane ==
  ASSUME NEW x, x.r \in Nat, x.o \in Int, NEW c \in Chan, Windows(c), Wire(x, c), c.died = FALSE,
         "close_sent" \in c.flags => c.istate = "closed" /\ c.ostate = "closed",
         x.p = "client" => c.child = "none", c.child # "running"
  PROVE  LET d == channel_free(c)
         IN  /\ Sane(x, d) /\ Held(d) /\ d.type = "freed" /\ d.rcvd = c.rcvd /\ d.got = c.got
             /\ d.flags = c.flags /\ d.wire = c.wire
<1> DEFINE d == channel_free(c)
<1>1. d \in Chan BY channel_freeType
<1>2. /\ d.type = "freed" /\ d.rcvd = c.rcvd /\ d.got = c.got /\ d.flags = c.flags
      /\ d.wire = c.wire /\ d.sent = c.sent /\ d.granted = c.granted /\ d.child = c.child
      /\ d.died = c.died /\ d.istate = c.istate /\ d.ostate = c.ostate
      /\ d.local_window = c.local_window /\ d.remote_window = c.remote_window
      /\ d.local_consumed = c.local_consumed /\ d.output = 0 /\ d.extended = 0
      /\ d.extended_usage = c.extended_usage
  BY DEF channel_free, Chan
<1>3. /\ c.local_window \in Int /\ c.local_consumed \in Nat /\ c.output \in Nat
      /\ c.extended \in Nat /\ Window \in Nat
  BY Fields, ChannelAssumption
<1> HIDE DEF d
<1>4. Windows(d) BY <1>2, <1>3 DEF Windows, Unopened
<1>5. Basic(x.p, d) BY <1>2 DEF Basic, Opening
<1>6. Held(d) BY <1>2 DEF Held
<1>7. Wire(x, d) BY <1>2, WireSame
<1>8. Sane(x, d) BY <1>1, <1>4, <1>5, <1>7 DEF Sane
<1> QED BY <1>2, <1>6, <1>8 DEF d

LEMMA CancelKeeps ==
  ASSUME NEW x, NEW c, Sane(x, c)
  PROVE  LET d == channel_cancel_cleanup(c)
         IN  /\ Sane(x, d) /\ d.type = c.type /\ d.have_remote_id = c.have_remote_id
             /\ d.rcvd = c.rcvd /\ d.got = c.got /\ d.child = c.child /\ d.flags = c.flags
             /\ d.istate = c.istate /\ d.ostate = c.ostate /\ d.detach_user = "none"
<1> DEFINE d == channel_cancel_cleanup(c)
<1>0. c \in Chan BY DEF Sane
<1>1. d \in Chan BY <1>0, CleanupType DEF channel_cancel_cleanup
<1>2. /\ d.wire = c.wire /\ d.sent = c.sent /\ d.granted = c.granted
      /\ d.type = c.type /\ d.have_remote_id = c.have_remote_id
      /\ d.rcvd = c.rcvd /\ d.got = c.got /\ d.child = c.child /\ d.flags = c.flags
      /\ d.istate = c.istate /\ d.ostate = c.ostate /\ d.detach_user = "none"
  BY <1>0 DEF Chan, channel_cancel_cleanup, channel_register_cleanup
<1>3. Windows(d)
  BY <1>0 DEF Sane, Windows, Chan, channel_cancel_cleanup, channel_register_cleanup
<1>4. Basic(x.p, d)
  BY <1>0 DEF Sane, Basic, Chan, channel_cancel_cleanup, channel_register_cleanup
<1> HIDE DEF d
<1>5. Wire(x, d) BY <1>2, WireSame DEF Sane
<1>6. Sane(x, d) BY <1>1, <1>3, <1>4, <1>5, SaneFrom
<1> QED BY <1>2, <1>6 DEF d

LEMMA channel_collectSane ==
  ASSUME NEW x, NEW c, Sane(x, c), c.type \in {"larval", "open"}, c.child # "running"
  PROVE  LET d == channel_collect(c)
         IN  /\ Sane(x, d) /\ d.child # "running" /\ Passes(c, d)
             /\ c.istate = "closed" /\ c.ostate = "closed" /\ "close_rcvd" \in c.flags =>
                  d.type = "freed"
<1> DEFINE s == chan_send_close2(c)
           dead == /\ c.istate = "closed" /\ c.ostate = "closed"
                   /\ "close_rcvd" \in s.flags /\ "close_sent" \in s.flags
<1>0. c.type \notin Opening /\ c.have_remote_id = TRUE /\ c.type # "zombie" /\ c.type # "freed"
  BY DEF Sane, Basic, Opening
<1>1. /\ Sane(x, s) /\ Same(c, s) /\ Deaf(c, s)
      /\ s.istate = c.istate /\ s.ostate = c.ostate
      /\ c.istate = "closed" /\ c.ostate = "closed" => "close_sent" \in s.flags
  BY <1>0, chan_send_close2Sane
<1>2. is_dead_send(c, TRUE) = s BY <1>0 DEF is_dead_send
<1>3. chan_is_dead(c, TRUE) <=> dead BY <1>0, <1>2 DEF chan_is_dead
<1>4. channel_collect(c) = IF dead THEN channel_free(s) ELSE s BY <1>2, <1>3 DEF channel_collect
<1> HIDE DEF s
<1>5. CASE dead
  <2>1. /\ s \in Chan /\ Windows(s) /\ Wire(x, s) /\ s.died = FALSE /\ x.r \in Nat /\ x.o \in Int
        /\ "close_sent" \in s.flags => s.istate = "closed" /\ s.ostate = "closed"
        /\ x.p = "client" => s.child = "none"
        /\ s.child # "running"
    BY <1>1 DEF Sane, Basic, Same
  <2> DEFINE d == channel_free(s)
  <2>2. /\ Sane(x, d) /\ Held(d) /\ d.type = "freed" /\ d.rcvd = s.rcvd /\ d.got = s.got
        /\ d.flags = s.flags
    BY <2>1, FreedSane
  <2> HIDE DEF d
  <2>3. Passes(c, d) BY <1>1, <1>5, <2>2 DEF Passes, Same, Deaf
  <2>4. d.child # "running" BY <2>2 DEF Held
  <2> QED BY <1>4, <1>5, <2>2, <2>3, <2>4 DEF d
<1>6. CASE ~dead
  <2>1. channel_collect(c) = s BY <1>4, <1>6
  <2>2. Passes(c, s) BY <1>1 DEF Passes, Same
  <2>3. s.child # "running" BY <1>1 DEF Same
  <2>4. ~(c.istate = "closed" /\ c.ostate = "closed" /\ "close_rcvd" \in c.flags)
    BY <1>1, <1>6 DEF Deaf
  <2> QED BY <1>1, <2>1, <2>2, <2>3, <2>4
<1> QED BY <1>5, <1>6

LEMMA CollectIdle ==
  ASSUME NEW c, c.type # "zombie", c.istate # "closed" \/ c.ostate # "closed"
  PROVE  channel_garbage_collect(c) = c
<1>1. \A b \in BOOLEAN : is_dead_send(c, b) = c BY DEF is_dead_send, chan_send_close2
<1>2. is_dead_send(c, c.detach_close) = c BY DEF is_dead_send, chan_send_close2
<1>3. ~chan_is_dead(c, TRUE) /\ ~chan_is_dead(c, c.detach_close) BY DEF chan_is_dead
<1>4. channel_collect(c) = c BY <1>1, <1>3 DEF channel_collect
<1> QED BY <1>2, <1>3, <1>4 DEF channel_garbage_collect

LEMMA CollectHeld ==
  ASSUME NEW c, c.type # "zombie", c.child = "running", Held(c)
  PROVE  channel_garbage_collect(c) = c
<1>1. c.detach_user = "session" /\ c.detach_close = FALSE BY DEF Held
<1>2. is_dead_send(c, c.detach_close) = c BY <1>1 DEF is_dead_send
<1>3. notify_user(c) = c BY <1>1 DEF notify_user
<1> QED BY <1>1, <1>2, <1>3 DEF channel_garbage_collect

LEMMA CollectZombie ==
  ASSUME NEW c \in Chan, c.type = "zombie", c.child # "running"
  PROVE  \/ channel_garbage_collect(c) = channel_free(c)
         \/ channel_garbage_collect(c) = channel_free(channel_cancel_cleanup(c))
<1> DEFINE b == channel_cancel_cleanup(c)
<1>1. is_dead_send(c, TRUE) = c /\ is_dead_send(c, c.detach_close) = c BY DEF is_dead_send
<1>2. chan_is_dead(c, TRUE) /\ chan_is_dead(c, c.detach_close) BY DEF chan_is_dead
<1>3. channel_collect(c) = channel_free(c) BY <1>1, <1>2 DEF channel_collect
<1>4. notify_user(c) = b BY DEF notify_user
<1>5. CASE c.detach_user = "none" BY <1>3, <1>5 DEF channel_garbage_collect, Exists
<1>6. CASE c.detach_user # "none"
  <2>1. channel_garbage_collect(c) = IF b.detach_user # "none" THEN b ELSE channel_collect(b)
    BY <1>1, <1>2, <1>4, <1>6 DEF channel_garbage_collect, Exists
  <2>2. b.detach_user = "none" /\ b.type = "zombie"
    BY DEF channel_cancel_cleanup, channel_register_cleanup, Chan
  <2> HIDE DEF b
  <2>3. channel_collect(b) = channel_free(b)
    BY <2>2 DEF channel_collect, chan_is_dead, is_dead_send
  <2> QED BY <2>1, <2>2, <2>3 DEF b
<1> QED BY <1>5, <1>6

LEMMA channel_garbage_collectSane ==
  ASSUME NEW x, NEW c, Sane(x, c), Held(c), c.type # "zombie"
  PROVE  LET d == channel_garbage_collect(c) IN Sane(x, d) /\ Held(d) /\ Passes(c, d)
<1> DEFINE g == channel_garbage_collect(c)
           a == is_dead_send(c, c.detach_close)
           b == channel_cancel_cleanup(a)
<1>0. c \in Chan /\ c.type \in ChannelType BY Fields DEF Sane
<1>1. Passes(c, c) BY DEF Passes, Deaf
<1>2. CASE g = c BY <1>1, <1>2
<1>3. CASE ~Exists(c)
  <2>1. g = c BY <1>3 DEF channel_garbage_collect
  <2> QED BY <1>2, <2>1
<1>4. CASE c.type \in Opening
  <2>1. c.istate # "closed" BY <1>4 DEF Sane, Basic, Opening
  <2>2. g = c BY <2>1, CollectIdle
  <2> QED BY <1>2, <2>2
<1>5. CASE c.child = "running"
  <2>1. g = c BY <1>5, CollectHeld
  <2> QED BY <1>2, <2>1
<1>6. CASE c.type \in {"larval", "open"} /\ c.child # "running"
  <2>0. Exists(c) /\ c.type \notin Opening /\ c.have_remote_id = TRUE
    BY <1>6 DEF Exists, Sane, Basic, Opening
  <2>1. CASE c.detach_user = "none"
    <3>1. g = channel_collect(c) BY <2>0, <2>1 DEF channel_garbage_collect
    <3>2. c.type = "open" BY <1>6, <2>1 DEF Held
    <3>3. Sane(x, g) /\ g.child # "running" /\ Passes(c, g) BY <1>6, <3>1, channel_collectSane
    <3> HIDE DEF g
    <3>4. Held(g) BY <3>2, <3>3 DEF Held, Passes
    <3> QED BY <3>3, <3>4 DEF g
  <2>2. CASE c.detach_user # "none" /\ ~chan_is_dead(c, c.detach_close)
    <3>1. g = a BY <2>0, <2>2 DEF channel_garbage_collect
    <3>2. CASE c.detach_close = FALSE
      <4>1. a = c BY <3>2 DEF is_dead_send
      <4> QED BY <1>2, <3>1, <4>1
    <3>3. CASE c.detach_close = TRUE
      <4>1. a = chan_send_close2(c) BY <1>6, <3>3 DEF is_dead_send
      <4>2. Sane(x, a) /\ Same(c, a) /\ Deaf(c, a) BY <2>0, <4>1, chan_send_close2Sane
      <4>3. c.type = "open" BY <1>6, <3>3 DEF Held
      <4> HIDE DEF a
      <4>4. Held(a) /\ Passes(c, a) BY <1>6, <4>2, <4>3 DEF Held, Same, Passes
      <4> QED BY <3>1, <4>2, <4>4
    <3>4. c.detach_close \in BOOLEAN BY <1>0 DEF Chan
    <3> QED BY <3>2, <3>3, <3>4
  <2>3. CASE c.detach_user # "none" /\ chan_is_dead(c, c.detach_close)
    <3>1. Sane(x, a) /\ Same(c, a) /\ Deaf(c, a) /\ a.istate = c.istate /\ a.ostate = c.ostate
      BY <2>0, chan_send_close2Sane DEF is_dead_send, Same, Deaf
    <3>2. c.istate = "closed" /\ c.ostate = "closed" /\ "close_rcvd" \in a.flags
      BY <2>3 DEF chan_is_dead
    <3>3. notify_user(a) = b BY <1>6, <3>1 DEF notify_user, Same
    <3>4. g = IF b.detach_user # "none" THEN b ELSE channel_collect(b)
      BY <2>0, <2>3, <3>3 DEF channel_garbage_collect
    <3> HIDE DEF a
    <3>5. /\ Sane(x, b) /\ b.type = a.type /\ b.rcvd = a.rcvd /\ b.got = a.got
          /\ b.child = a.child /\ b.flags = a.flags /\ b.istate = a.istate
          /\ b.ostate = a.ostate /\ b.detach_user = "none"
      BY <3>1, CancelKeeps
    <3> HIDE DEF b
    <3>6. b.type \in {"larval", "open"} /\ b.child # "running" BY <1>6, <3>1, <3>5 DEF Same
    <3>7. g = channel_collect(b) BY <3>4, <3>5
    <3>8. Sane(x, g) /\ g.child # "running" /\ Passes(b, g) /\ g.type = "freed"
      BY <3>1, <3>2, <3>5, <3>6, <3>7, channel_collectSane
    <3> HIDE DEF g
    <3>9. Passes(c, b) BY <3>1, <3>5 DEF Passes, Same, Deaf
    <3>10. Held(g) BY <3>8 DEF Held
    <3> QED BY <3>8, <3>9, <3>10, PassesBoth DEF g
  <2> QED BY <2>1, <2>2, <2>3
<1> HIDE DEF g
<1>7. c.type \in {"none", "freed", "opening", "connecting", "larval", "open"}
  BY <1>0 DEF ChannelType
<1>8. \/ ~Exists(c) \/ c.type \in Opening \/ c.type \in {"larval", "open"}
  BY <1>7 DEF Exists, Opening
<1> QED BY <1>3, <1>4, <1>5, <1>6, <1>8 DEF g

(* The process is reaped: its exit status goes out, and the CLOSE may. *)
LEMMA session_close_by_pidSane ==
  ASSUME NEW x, NEW c, Sane(x, c), Held(c), c.child = "running"
  PROVE  LET d == session_close_by_pid(c)
         IN  Sane(x, d) /\ Held(d) /\ Passes(c, d) /\ d.type = c.type
<1> DEFINE s == send_to_remote(c, "exit", 0)
           r == channel_register_cleanup(s, "session", TRUE)
           w == chan_write_failed(r)
           d == [w EXCEPT !.child = "reaped"]
<1>0. /\ c.type = "open" /\ c.have_remote_id = TRUE /\ "close_sent" \notin c.flags
      /\ x.p # "client"
  BY DEF Held, Sane, Basic
<1>1. d = session_close_by_pid(c) BY DEF session_close_by_pid
<1>2. Keeps(x, c, s)
  <2>1. "exit" \in Plain /\ "exit" # "keepalive" BY DEF Plain, MsgType, Setup, Carrying, Granting
  <2> QED BY <1>0, <2>1, SendKeeps
<1> HIDE DEF s
<1>3. Sane(x, s) /\ s \in Chan /\ s.type = "open" BY <1>0, <1>2 DEF Keeps, Holds, Sane
<1>4. Sane(x, r) /\ r.type = "open" /\ r.rcvd = s.rcvd /\ r.got = s.got /\ r.flags = s.flags
  <2>1. r \in Chan BY <1>3, CleanupType
  <2>2. /\ r.wire = s.wire /\ r.sent = s.sent /\ r.granted = s.granted /\ r.flags = s.flags
        /\ r.type = s.type /\ r.rcvd = s.rcvd /\ r.got = s.got
    BY <1>3 DEF Chan, channel_register_cleanup
  <2>3. Windows(r) BY <1>3 DEF Sane, Windows, Chan, channel_register_cleanup
  <2>4. Basic(x.p, r) BY <1>3 DEF Sane, Basic, Chan, channel_register_cleanup
  <2> HIDE DEF r
  <2>5. Wire(x, r) BY <1>3, <2>2, WireSame DEF Sane
  <2> QED BY <1>3, <2>1, <2>2, <2>3, <2>4, <2>5, SaneFrom
<1> HIDE DEF r
<1>5. Keeps(x, r, w) BY <1>4, chan_write_failedKeeps
<1> HIDE DEF w
<1>6. Sane(x, w) /\ w \in Chan /\ w.type = "open" BY <1>4, <1>5 DEF Keeps, Holds, Sane
<1>7. d \in Chan BY <1>6, Zenon DEF Chan
<1>8. /\ d.wire = w.wire /\ d.sent = w.sent /\ d.granted = w.granted /\ d.flags = w.flags
      /\ d.type = "open" /\ d.rcvd = w.rcvd /\ d.got = w.got /\ d.child = "reaped"
  BY <1>6 DEF Chan
<1>9. Windows(d) BY <1>6 DEF Sane, Windows, Chan
<1>10. Basic(x.p, d)
  <2>1. /\ d.died = w.died /\ d.have_remote_id = w.have_remote_id
        /\ d.istate = w.istate /\ d.ostate = w.ostate
    BY <1>6 DEF Chan
  <2> HIDE DEF d
  <2> QED BY <1>0, <1>6, <1>8, <2>1 DEF Sane, Basic
<1> HIDE DEF d
<1>11. Wire(x, d) BY <1>6, <1>8, WireSame DEF Sane
<1>12. Sane(x, d) BY <1>6, <1>7, <1>9, <1>10, <1>11, SaneFrom
<1>13. Held(d) BY <1>8 DEF Held
<1>14. Passes(c, d)
  BY <1>0, <1>2, <1>4, <1>5, <1>8 DEF Passes, Keeps, Holds, Deaf
<1> QED BY <1>0, <1>1, <1>8, <1>12, <1>13, <1>14

LEMMA LoopPreSane ==
  ASSUME NEW x, NEW c, Sane(x, c), Held(c), c.type # "zombie", NEW poll \in BOOLEAN
  PROVE  LET d == LoopPre(c, poll)
         IN  /\ Sane(x, d) /\ Held(d) /\ Passes(c, d) /\ d.type # "zombie"
             /\ c.type \in Opening => d = c
<1> DEFINE a == IF poll THEN channel_output_poll(c) ELSE c
           b == channel_pre_open(a)
           d == channel_garbage_collect(b)
<1>0. d = LoopPre(c, poll) BY DEF LoopPre
<1>1. Keeps(x, c, a) BY channel_output_pollKeeps, KeepsSelf
<1>2. c.type \in Opening => a = c BY DEF channel_output_poll, Opening
<1> HIDE DEF a
<1>3. Sane(x, a) BY <1>1 DEF Keeps
<1>4. Keeps(x, a, b) BY <1>3, channel_pre_openKeeps
<1>5. c.type \in Opening => b = c BY <1>2 DEF channel_pre_open, Opening
<1> HIDE DEF b
<1>6. Keeps(x, c, b) BY <1>1, <1>4, KeepsBoth
<1>7. Sane(x, b) /\ Held(b) /\ b.type # "zombie" /\ Passes(c, b)
  BY <1>6, HoldsHeld, KeepsPasses DEF Keeps, Holds
<1>8. Sane(x, d) /\ Held(d) /\ Passes(b, d) BY <1>7, channel_garbage_collectSane
<1>9. c.type \in Opening => d = c
  <2>1. c.type \in Opening => c.istate # "closed" BY DEF Sane, Basic
  <2> QED BY <1>5, <2>1, CollectIdle
<1> HIDE DEF d
<1>10. Passes(c, d) BY <1>7, <1>8, PassesBoth
<1>11. d.type # "zombie" BY <1>10 DEF Passes
<1> QED BY <1>0, <1>8, <1>9, <1>10, <1>11

LEMMA LoopPostSane ==
  ASSUME NEW x, NEW b, Sane(x, b), Held(b), b.type # "zombie", NEW exits \in BOOLEAN,
         exits => b.child = "running", NEW io, io.rfd \in Int, io.wfd \in Int, io.efd \in Int
  PROVE  LET d == LoopPost(b, exits, io)
         IN  /\ Sane(x, d) /\ Held(d) /\ Passes(b, d)
             /\ b.type \in Opening => d = b
<1> DEFINE e == IF exits THEN session_close_by_pid(b) ELSE b
           o == channel_post_open(e, b, io)
           d == channel_garbage_collect(o)
<1>0. d = LoopPost(b, exits, io) BY DEF LoopPost
<1>1. Sane(x, e) /\ Held(e) /\ Passes(b, e) /\ e.type = b.type
  BY session_close_by_pidSane DEF Passes, Deaf
<1>2. b.type \in Opening => e = b
  <2>1. b.type \in Opening => b.child # "running" BY DEF Held, Opening
  <2> QED BY <2>1
<1> HIDE DEF e
<1>3. Keeps(x, e, o) BY <1>1, channel_post_openKeeps
<1>4. b.type \in Opening => o = b BY <1>2 DEF channel_post_open, Opening
<1> HIDE DEF o
<1>5. Sane(x, o) /\ Held(o) /\ o.type # "zombie" /\ Passes(e, o)
  BY <1>1, <1>3, HoldsHeld, KeepsPasses DEF Keeps, Holds
<1>6. Sane(x, d) /\ Held(d) /\ Passes(o, d) BY <1>5, channel_garbage_collectSane
<1>7. b.type \in Opening => d = b
  <2>1. b.type \in Opening => b.istate # "closed" BY DEF Sane, Basic
  <2> QED BY <1>4, <2>1, CollectIdle
<1> HIDE DEF d
<1>8. Passes(b, d) BY <1>1, <1>5, <1>6, PassesBoth
<1> QED BY <1>0, <1>6, <1>7, <1>8

(* A refused channel of the client is freed. *)
LEMMA LoopZombie ==
  ASSUME NEW x, NEW c, Sane(x, c), c.type = "zombie", x.p = "client",
         NEW poll \in BOOLEAN, NEW exits \in BOOLEAN,
         exits => LoopPre(c, poll).child = "running", NEW io
  PROVE  LET b == LoopPre(c, poll)
             d == LoopPost(b, exits, io)
         IN  /\ Sane(x, d) /\ Held(d) /\ d.type = "freed" /\ d.rcvd = c.rcvd /\ d.got = c.got
             /\ d.flags = c.flags /\ d.wire = c.wire
<1> DEFINE b == LoopPre(c, poll)
           k == channel_cancel_cleanup(c)
<1>0. c \in Chan /\ c.child = "none" BY DEF Sane, Basic
<1>1. b = channel_garbage_collect(c)
  <2>1. channel_output_poll(c) = c BY DEF channel_output_poll
  <2>2. channel_pre_open(c) = c BY DEF channel_pre_open
  <2> QED BY <2>1, <2>2 DEF LoopPre
<1>2. b = channel_free(c) \/ b = channel_free(k)
  <2>1. c.child # "running" BY <1>0
  <2> QED BY <1>0, <1>1, <2>1, CollectZombie
<1>3. /\ Sane(x, k) /\ k.rcvd = c.rcvd /\ k.got = c.got /\ k.child = c.child /\ k.flags = c.flags
      /\ k.wire = c.wire
  BY <1>0, CancelKeeps DEF channel_cancel_cleanup, channel_register_cleanup, Chan
<1>4. \A v : Sane(x, v) /\ v.child = "none" =>
        LET d == channel_free(v)
        IN  /\ Sane(x, d) /\ Held(d) /\ d.type = "freed" /\ d.rcvd = v.rcvd /\ d.got = v.got
            /\ d.flags = v.flags /\ d.wire = v.wire
  <2> SUFFICES ASSUME NEW v, Sane(x, v), v.child = "none"
               PROVE  LET d == channel_free(v)
                      IN  /\ Sane(x, d) /\ Held(d) /\ d.type = "freed" /\ d.rcvd = v.rcvd
                          /\ d.got = v.got /\ d.flags = v.flags /\ d.wire = v.wire
    OBVIOUS
  <2>1. /\ x.r \in Nat /\ x.o \in Int /\ v \in Chan /\ Windows(v) /\ Wire(x, v) /\ v.died = FALSE
        /\ "close_sent" \in v.flags => v.istate = "closed" /\ v.ostate = "closed"
        /\ v.child # "running"
    BY DEF Sane, Basic
  <2> QED BY <2>1, FreedSane
<1> HIDE DEF b, k
<1>5. /\ Sane(x, b) /\ Held(b) /\ b.type = "freed" /\ b.rcvd = c.rcvd /\ b.got = c.got
      /\ b.flags = c.flags /\ b.wire = c.wire
  BY <1>0, <1>2, <1>3, <1>4
<1>6. LoopPost(b, exits, io) = b
  <2>1. channel_post_open(b, b, io) = b BY <1>5 DEF channel_post_open
  <2>2. channel_garbage_collect(b) = b BY <1>5 DEF channel_garbage_collect, Exists
  <2>3. b.child = "none" BY <1>5 DEF Sane, Basic
  <2>4. ~exits BY <2>3 DEF b
  <2> QED BY <2>1, <2>2, <2>4 DEF LoopPost
<1> QED BY <1>5, <1>6 DEF b
-----------------------------------------------------------------------------
(* The packet handlers, on a channel that has counted the packet. *)

LEMMA ReceivedSane ==
  ASSUME NEW x, NEW c, Sane(x, c), NEW m \in Msg, m.t \in Granting => m.n >= 0
  PROVE  LET d == Received(c, m)
         IN  /\ Sane(x, d) /\ d.type = c.type /\ d.flags = c.flags /\ d.wire = c.wire
             /\ d.child = c.child /\ d.detach_user = c.detach_user
             /\ d.detach_close = c.detach_close /\ d.istate = c.istate /\ d.ostate = c.ostate
             /\ d.rcvd = c.rcvd + Data(m) /\ d.got = c.got + Grant(m)
             /\ d.granted - d.rcvd + Data(m) <= d.local_window
             /\ d.remote_window + Grant(m) <= d.got - d.sent
             /\ Data(m) >= 0 /\ Grant(m) >= 0
<1> DEFINE d == Received(c, m)
<1>0. c \in Chan BY DEF Sane
<1>1. d \in Chan BY <1>0, ReceivedType
<1>2. /\ Data(m) \in Int /\ Grant(m) \in Int /\ Data(m) >= 0 /\ Grant(m) >= 0
  BY DEF Data, Grant, Msg
<1>3. /\ d.type = c.type /\ d.flags = c.flags /\ d.wire = c.wire
      /\ d.child = c.child /\ d.detach_user = c.detach_user
      /\ d.detach_close = c.detach_close /\ d.istate = c.istate /\ d.ostate = c.ostate
      /\ d.sent = c.sent /\ d.granted = c.granted /\ d.local_window = c.local_window
      /\ d.remote_window = c.remote_window /\ d.local_consumed = c.local_consumed
      /\ d.output = c.output /\ d.extended = c.extended /\ d.extended_usage = c.extended_usage
      /\ d.died = c.died /\ d.have_remote_id = c.have_remote_id
  BY <1>0 DEF Received, Chan
<1>4. d.rcvd = c.rcvd + Data(m) /\ d.got = c.got + Grant(m)
  <2>1. c.rcvd \in Nat /\ c.got \in Int BY <1>0, Fields
  <2>2. /\ d.rcvd = IF m.t \in Carrying THEN c.rcvd + m.n ELSE c.rcvd
        /\ d.got = IF m.t \in Granting THEN c.got + m.n ELSE c.got
    BY <1>0 DEF Received, Chan
  <2> HIDE DEF d
  <2> QED BY <2>1, <2>2 DEF Data, Grant
<1>5. /\ c.rcvd \in Nat /\ c.got \in Int /\ c.granted \in Int /\ c.local_window \in Int
      /\ c.remote_window \in Int /\ c.sent \in Nat
  BY <1>0, Fields
<1> HIDE DEF d
<1>6. Windows(c) BY DEF Sane
<1>7. Windows(d)
  <2>1. d.granted - d.rcvd <= d.local_window BY <1>2, <1>3, <1>4, <1>5, <1>6 DEF Windows
  <2>2. 0 <= d.remote_window /\ d.remote_window <= d.got - d.sent
    BY <1>2, <1>3, <1>4, <1>5, <1>6 DEF Windows
  <2> QED BY <1>3, <1>6, <2>1, <2>2 DEF Windows
<1>8. /\ d.granted - d.rcvd + Data(m) <= d.local_window
      /\ d.remote_window + Grant(m) <= d.got - d.sent
  BY <1>2, <1>3, <1>4, <1>5, <1>6 DEF Windows
<1>9. Basic(x.p, d) BY <1>3 DEF Sane, Basic
<1>10. Wire(x, d) BY <1>3, WireSame DEF Sane
<1>11. Sane(x, d) BY <1>1, <1>7, <1>9, <1>10, SaneFrom
<1> QED BY <1>2, <1>3, <1>4, <1>8, <1>11 DEF d

LEMMA channel_input_dataKeeps ==
  ASSUME NEW x, NEW c, Sane(x, c), NEW n \in Nat, c.granted - c.rcvd + n <= c.local_window
  PROVE  Keeps(x, c, channel_input_data(c, n))
<1> DEFINE d == channel_input_data(c, n)
<1>0. c \in Chan BY DEF Sane
<1>1. d \in Chan BY <1>0, channel_input_dataType
<1>2. /\ d.wire = c.wire /\ d.sent = c.sent /\ d.granted = c.granted /\ d.flags = c.flags
      /\ Holds(c, d) /\ d.extended = c.extended /\ d.extended_usage = c.extended_usage
      /\ d.remote_window = c.remote_window /\ d.died = c.died /\ d.istate = c.istate
      /\ d.ostate = c.ostate
  BY <1>0 DEF Chan, Holds, channel_input_data
<1>3. \/ d = c
      \/ /\ c.type = "open" /\ d.local_window = c.local_window - n
         /\ \/ d.local_consumed = c.local_consumed + n /\ d.output = c.output
            \/ d.local_consumed = c.local_consumed /\ d.output = c.output + n
  BY <1>0 DEF Chan, channel_input_data
<1>4. /\ c.local_window \in Int /\ c.local_consumed \in Nat /\ c.output \in Nat
      /\ c.extended \in Nat /\ Window \in Nat /\ c.granted \in Int /\ c.rcvd \in Nat
  BY <1>0, Fields, ChannelAssumption
<1> HIDE DEF d
<1>5. Windows(d)
  <2>1. Windows(c) BY DEF Sane
  <2>2. CASE d = c BY <2>1, <2>2
  <2>3. CASE d # c
    <3>1. /\ d.type = "open" /\ d.rcvd = c.rcvd /\ d.got = c.got
          /\ d.local_window = c.local_window - n
          /\ d.local_consumed + d.output = c.local_consumed + c.output + n
          /\ d.local_consumed \in Int /\ d.output \in Int
      BY <1>2, <1>3, <1>4, <2>3 DEF Holds
    <3> QED BY <1>2, <1>4, <2>1, <3>1 DEF Windows, Unopened
  <2> QED BY <2>2, <2>3
<1>6. Basic(x.p, d) BY <1>2 DEF Sane, Basic, Holds
<1>7. Keeps(x, c, d) BY <1>1, <1>2, <1>5, <1>6, Assigned
<1> QED BY <1>7 DEF d

LEMMA channel_input_extended_dataKeeps ==
  ASSUME NEW x, NEW c, Sane(x, c), NEW n \in Nat, c.granted - c.rcvd + n <= c.local_window,
         "eof_rcvd" \notin c.flags
  PROVE  Keeps(x, c, channel_input_extended_data(c, n))
<1> DEFINE d == channel_input_extended_data(c, n)
<1>0. c \in Chan BY DEF Sane
<1>1. d \in Chan BY <1>0, channel_input_extended_dataType
<1>2. /\ d.wire = c.wire /\ d.sent = c.sent /\ d.granted = c.granted /\ d.flags = c.flags
      /\ Holds(c, d) /\ d.extended_usage = c.extended_usage /\ d.output = c.output
      /\ d.local_consumed = c.local_consumed
      /\ d.remote_window = c.remote_window /\ d.died = c.died /\ d.istate = c.istate
      /\ d.ostate = c.ostate
  BY <1>0 DEF Chan, Holds, channel_input_extended_data
<1>3. \/ d = c
      \/ /\ c.type = "open" /\ d.local_window = c.local_window - n
         /\ c.extended_usage = "write" /\ d.extended = c.extended + n
  BY <1>0 DEF Chan, channel_input_extended_data
<1>4. /\ c.local_window \in Int /\ c.local_consumed \in Nat /\ c.output \in Nat
      /\ c.extended \in Nat /\ Window \in Nat /\ c.granted \in Int /\ c.rcvd \in Nat
  BY <1>0, Fields, ChannelAssumption
<1> HIDE DEF d
<1>5. Windows(d)
  <2>1. Windows(c) BY DEF Sane
  <2>2. CASE d = c BY <2>1, <2>2
  <2>3. CASE d # c
    <3>1. d.type = "open" /\ d.rcvd = c.rcvd /\ d.got = c.got BY <1>2, <1>3, <2>3 DEF Holds
    <3> QED BY <1>2, <1>3, <1>4, <2>1, <2>3, <3>1 DEF Windows, Unopened
  <2> QED BY <2>2, <2>3
<1>6. Basic(x.p, d) BY <1>2 DEF Sane, Basic, Holds
<1>7. Keeps(x, c, d) BY <1>1, <1>2, <1>5, <1>6, Assigned
<1> QED BY <1>7 DEF d

LEMMA channel_input_window_adjustKeeps ==
  ASSUME NEW x, NEW c, Sane(x, c), NEW n \in Nat, c.remote_window + n <= c.got - c.sent
  PROVE  Keeps(x, c, channel_input_window_adjust(c, n))
<1> DEFINE d == channel_input_window_adjust(c, n)
<1>0. c \in Chan BY DEF Sane
<1>1. d \in Chan BY <1>0, channel_input_window_adjustType
<1>2. /\ d.wire = c.wire /\ d.sent = c.sent /\ d.granted = c.granted /\ d.flags = c.flags
      /\ Holds(c, d) /\ d.extended = c.extended /\ d.extended_usage = c.extended_usage
      /\ d.output = c.output /\ d.local_consumed = c.local_consumed
      /\ d.remote_window = c.remote_window + n /\ d.local_window = c.local_window
      /\ d.died = c.died /\ d.istate = c.istate /\ d.ostate = c.ostate
  BY <1>0 DEF Chan, Holds, channel_input_window_adjust
<1>3. c.remote_window \in Int BY <1>0, Fields
<1> HIDE DEF d
<1>4. Windows(d) BY <1>2, <1>3 DEF Sane, Windows, Holds
<1>5. Basic(x.p, d) BY <1>2 DEF Sane, Basic, Holds
<1>6. Keeps(x, c, d) BY <1>1, <1>2, <1>4, <1>5, Assigned
<1> QED BY <1>6 DEF d

LEMMA ConfirmKeeps ==
  ASSUME NEW x, NEW c, Sane(x, c), NEW b \in BOOLEAN PROVE Keeps(x, c, [c EXCEPT !.confirm = b])
<1> DEFINE d == [c EXCEPT !.confirm = b]
<1>0. c \in Chan BY DEF Sane
<1>1. d \in Chan BY <1>0, Zenon DEF Chan
<1>2. /\ d.wire = c.wire /\ d.sent = c.sent /\ d.granted = c.granted /\ d.flags = c.flags
      /\ Holds(c, d)
  BY <1>0 DEF Chan, Holds
<1>3. Windows(d) BY <1>0 DEF Sane, Windows, Chan
<1>4. Basic(x.p, d) BY <1>0 DEF Sane, Basic, Chan
<1> HIDE DEF d
<1>5. Keeps(x, c, d) BY <1>1, <1>2, <1>3, <1>4, Assigned
<1> QED BY <1>5 DEF d

LEMMA channel_input_status_confirmKeeps ==
  ASSUME NEW x, NEW c, Sane(x, c), c.type \in {"larval", "open"}, NEW t
  PROVE  Keeps(x, c, channel_input_status_confirm(c, t))
<1> DEFINE d == [c EXCEPT !.confirm = FALSE]
           r == chan_read_failed(d)
           w == chan_write_failed(r)
<1>1. Keeps(x, c, d) BY ConfirmKeeps
<1>2. channel_input_status_confirm(c, t) = IF c.confirm /\ t = "FAILURE" THEN w ELSE d
  BY DEF channel_input_status_confirm
<1> HIDE DEF d
<1>3. Sane(x, d) /\ d.type \in {"larval", "open"} /\ d.type \notin Opening
  BY <1>1 DEF Keeps, Holds, Opening
<1>4. Keeps(x, d, r) BY <1>3, chan_read_failedKeeps
<1> HIDE DEF r
<1>5. Sane(x, r) /\ r.type \in {"larval", "open"} BY <1>3, <1>4 DEF Keeps, Holds
<1>6. Keeps(x, r, w) BY <1>5, chan_write_failedKeeps
<1> HIDE DEF w
<1>7. Keeps(x, c, w) BY <1>1, <1>4, <1>6, KeepsBoth
<1> QED BY <1>1, <1>2, <1>7

LEMMA client_input_channel_reqKeeps ==
  ASSUME NEW x, NEW c, Sane(x, c), c.type \in {"larval", "open"}, NEW t
  PROVE  Keeps(x, c, client_input_channel_req(c, t))
<1> DEFINE d == [c EXCEPT !.exit_rcvd = TRUE]
<1>0. c \in Chan /\ c.type \notin Opening /\ c.have_remote_id = TRUE BY DEF Sane, Basic, Opening
<1>1. Keeps(x, c, chan_rcvd_eow(c)) BY <1>0, chan_rcvd_eowKeeps
<1>2. Keeps(x, c, d)
  <2>1. d \in Chan BY <1>0, Zenon DEF Chan
  <2>2. /\ d.wire = c.wire /\ d.sent = c.sent /\ d.granted = c.granted /\ d.flags = c.flags
        /\ Holds(c, d)
    BY <1>0 DEF Chan, Holds
  <2>3. Windows(d) BY <1>0 DEF Sane, Windows, Chan
  <2>4. Basic(x.p, d) BY <1>0 DEF Sane, Basic, Chan
  <2> HIDE DEF d
  <2> QED BY <2>1, <2>2, <2>3, <2>4, Assigned
<1>3. "close_sent" \notin c.flags => Keeps(x, c, send_to_remote(c, "FAILURE", 0))
  <2>1. "FAILURE" \in Plain BY DEF Plain, MsgType, Setup, Carrying, Granting
  <2> QED BY <1>0, <2>1, SendKeeps
<1>4. \/ client_input_channel_req(c, t) \in {c, d, chan_rcvd_eow(c)}
      \/ "close_sent" \notin c.flags
         /\ client_input_channel_req(c, t) = send_to_remote(c, "FAILURE", 0)
  BY DEF client_input_channel_req
<1> HIDE DEF d
<1> QED BY <1>1, <1>2, <1>3, <1>4, KeepsSelf

LEMMA channel_set_fdsSane ==
  ASSUME NEW x, NEW c, Sane(x, c), Held(c), c.type = "larval", NEW tty \in BOOLEAN
  PROVE  LET d == channel_set_fds(c, tty)
         IN  /\ Sane(x, d) /\ Held(d) /\ d.type = "open" /\ d.rcvd = c.rcvd /\ d.got = c.got
             /\ d.flags = c.flags /\ d.have_remote_id = TRUE
<1> DEFINE u == IF tty THEN "ignore" ELSE "read"
           o == [c EXCEPT !.type = "open", !.local_window = Window, !.child = "running",
                          !.isatty = tty, !.efd = ~tty, !.extended_usage = u]
           s == sshpkt_send(o, "ADJUST", Window)
<1>0. /\ c \in Chan /\ c.have_remote_id = TRUE /\ "close_sent" \notin c.flags /\ x.p # "client"
      /\ c.detach_user = "session" /\ c.detach_close = FALSE
  BY DEF Sane, Basic, Held
<1>1. u \in ExtUsage /\ (~tty) \in BOOLEAN /\ Window \in Nat /\ Window \in Int
  BY ChannelAssumption DEF ExtUsage
<1>2. o \in Chan
  <2> DEFINE e == ~tty
  <2> HIDE DEF u, e
  <2>1. [c EXCEPT !.type = "open", !.local_window = Window, !.child = "running",
                  !.isatty = tty, !.efd = e, !.extended_usage = u] \in Chan
    BY <1>0, <1>1, Zenon DEF Chan, ChannelType, e
  <2> QED BY <2>1 DEF e
<1>3. /\ o.type = "open" /\ o.local_window = Window /\ o.child = "running" /\ o.extended_usage = u
      /\ o.have_remote_id = TRUE /\ o.flags = c.flags /\ o.wire = c.wire /\ o.sent = c.sent
      /\ o.granted = c.granted /\ o.rcvd = c.rcvd /\ o.got = c.got
      /\ o.local_consumed = c.local_consumed /\ o.output = c.output /\ o.extended = c.extended
      /\ o.remote_window = c.remote_window /\ o.died = c.died
      /\ o.istate = c.istate /\ o.ostate = c.ostate
      /\ o.detach_user = "session" /\ o.detach_close = FALSE
  BY <1>0 DEF Chan
<1>4. channel_set_fds(c, tty) = s BY <1>3 DEF channel_set_fds, send_to_remote
<1>5. u # "write" OBVIOUS
<1> HIDE DEF o, u
<1>6. "ADJUST" \in MsgType \ Setup /\ "ADJUST" \notin Carrying /\ "ADJUST" \in Granting
  BY DEF MsgType, Setup, Carrying, Granting
<1>7. s \in Chan /\ Rest(o, s) BY <1>1, <1>2, <1>6, Sent
<1>8. s.sent = o.sent /\ s.granted = o.granted + Window
  BY <1>1, <1>2, <1>6, Fields DEF sshpkt_send, Chan
<1> HIDE DEF s
<1>9. Windows(s)
  <2>1. /\ c.granted = 0 /\ c.local_consumed = 0 /\ c.output = 0 /\ c.extended = 0
        /\ 0 <= c.remote_window /\ c.remote_window <= c.got - c.sent
    BY DEF Sane, Windows, Unopened
  <2>2. /\ s.granted = Window /\ s.rcvd = c.rcvd /\ s.local_window = Window
        /\ s.local_consumed = 0 /\ s.output = 0 /\ s.extended_usage # "write"
        /\ s.remote_window = c.remote_window /\ s.got = c.got /\ s.sent = c.sent /\ s.type = "open"
    BY <1>1, <1>3, <1>5, <1>7, <1>8, <2>1 DEF Rest
  <2>3. c.rcvd \in Nat BY <1>0, Fields
  <2> QED BY <1>1, <2>1, <2>2, <2>3 DEF Windows, Unopened
<1>10. Basic(x.p, s) BY <1>0, <1>3, <1>7 DEF Sane, Basic, Rest, Opening
<1>11. Wire(x, s)
  <2>1. Wire(x, o) BY <1>3, WireSame DEF Sane
  <2>2. s.flags = o.flags BY <1>7 DEF Rest
  <2> QED BY <1>0, <1>1, <1>2, <1>3, <1>6, <2>1, <2>2, WireSend DEF Sane, s
<1>12. Sane(x, s) BY <1>7, <1>9, <1>10, <1>11, SaneFrom
<1>13. Held(s) BY <1>0, <1>3, <1>7 DEF Held, Rest
<1> QED BY <1>3, <1>4, <1>7, <1>12, <1>13 DEF Rest

LEMMA server_input_channel_reqSane ==
  ASSUME NEW x, NEW c, Sane(x, c), Held(c), c.type \in {"larval", "open"},
         NEW t, NEW ok \in BOOLEAN, NEW tty \in BOOLEAN
  PROVE  LET d == server_input_channel_req(c, t, ok, tty)
         IN  /\ Sane(x, d) /\ Held(d) /\ d.rcvd = c.rcvd /\ d.got = c.got /\ Deaf(c, d)
             /\ d.type = c.type \/ (c.type = "larval" /\ d.type = "open")
<1> DEFINE go == t = "exec" /\ c.type = "larval" /\ ok
           s  == IF go THEN channel_set_fds(c, tty) ELSE c
           r  == IF go THEN "SUCCESS" ELSE "FAILURE"
           e  == send_to_remote(s, r, 0)
           d  == server_input_channel_req(c, t, ok, tty)
<1>0. c.type \notin Opening /\ c.have_remote_id = TRUE BY DEF Sane, Basic, Opening
<1>1. /\ Sane(x, s) /\ Held(s) /\ s.rcvd = c.rcvd /\ s.got = c.got /\ s.flags = c.flags
      /\ s.have_remote_id = TRUE
      /\ s.type = c.type \/ (c.type = "larval" /\ s.type = "open")
  BY <1>0, channel_set_fdsSane
<1>2. Keeps(x, c, chan_rcvd_eow(c)) BY <1>0, chan_rcvd_eowKeeps
<1>3. r \in Plain /\ r # "keepalive" BY DEF Plain, MsgType, Setup, Carrying, Granting
<1>4. \/ d = chan_rcvd_eow(c)
      \/ "close_sent" \notin s.flags /\ d = e
      \/ d = s
  BY DEF server_input_channel_req
<1> HIDE DEF s, r, d
<1>5. "close_sent" \notin s.flags => Keeps(x, s, e) BY <1>1, <1>3, SendKeeps
<1> HIDE DEF e
<1>6. CASE d = chan_rcvd_eow(c)
  <2>1. Keeps(x, c, d) BY <1>2, <1>6
  <2>2. Held(d) BY <2>1, HoldsHeld DEF Keeps
  <2> QED BY <2>1, <2>2 DEF Keeps, Holds, d
<1>7. CASE d = s BY <1>1, <1>7 DEF Deaf, d
<1>8. CASE "close_sent" \notin s.flags /\ d = e
  <2>1. Keeps(x, s, d) BY <1>5, <1>8
  <2>2. Held(d) BY <1>1, <2>1, HoldsHeld DEF Keeps
  <2> QED BY <1>1, <2>1, <2>2 DEF Keeps, Holds, Deaf, d
<1> QED BY <1>4, <1>6, <1>7, <1>8

LEMMA channel_input_open_confirmationSane ==
  ASSUME NEW x, NEW c, Sane(x, c), c.type = "opening", x.p = "client",
         NEW n \in Nat, n <= c.got - c.sent
  PROVE  LET d == channel_input_open_confirmation(c, n)
         IN  /\ Sane(x, d) /\ Held(d) /\ d.type = "open" /\ d.rcvd = c.rcvd /\ d.got = c.got
             /\ Deaf(c, d)
<1> DEFINE o == [c EXCEPT !.have_remote_id = TRUE, !.remote_window = n, !.type = "open"]
           s == send_to_remote(o, "exec", 0)
           f == [s EXCEPT !.confirm = TRUE]
<1>0. c \in Chan /\ c.flags = {} /\ c.child = "none" /\ n \in Int BY DEF Sane, Basic, Opening
<1>1. channel_input_open_confirmation(c, n) = IF c.session THEN f ELSE o
  BY DEF channel_input_open_confirmation
<1>2. o \in Chan BY <1>0, Zenon DEF Chan, ChannelType
<1>3. /\ o.type = "open" /\ o.remote_window = n /\ o.have_remote_id = TRUE
      /\ o.local_window = c.local_window /\ o.child = c.child /\ o.extended_usage = c.extended_usage
      /\ o.flags = c.flags /\ o.wire = c.wire /\ o.sent = c.sent
      /\ o.granted = c.granted /\ o.rcvd = c.rcvd /\ o.got = c.got
      /\ o.local_consumed = c.local_consumed /\ o.output = c.output /\ o.extended = c.extended
      /\ o.died = c.died /\ o.istate = c.istate /\ o.ostate = c.ostate
  BY <1>0 DEF Chan
<1> HIDE DEF o
<1>4. Windows(o)
  <2>1. Windows(c) BY DEF Sane
  <2> QED BY <1>3, <2>1 DEF Windows, Unopened
<1>5. Basic(x.p, o) BY <1>0, <1>3 DEF Sane, Basic, Opening
<1>6. Wire(x, o) BY <1>3, WireSame DEF Sane
<1>7. Sane(x, o) BY <1>2, <1>4, <1>5, <1>6, SaneFrom
<1>8. Keeps(x, o, s)
  <2>1. "exec" \in Plain /\ "exec" # "keepalive" BY DEF Plain, MsgType, Setup, Carrying, Granting
  <2>2. "close_sent" \notin o.flags BY <1>0, <1>3
  <2> QED BY <1>3, <1>7, <2>1, <2>2, SendKeeps
<1> HIDE DEF s
<1>9. Keeps(x, s, f)
  <2>1. Sane(x, s) BY <1>8 DEF Keeps
  <2> QED BY <2>1, ConfirmKeeps
<1> HIDE DEF f
<1>10. Keeps(x, o, f) BY <1>8, <1>9, KeepsBoth
<1>11. Held(o) BY <1>0, <1>3 DEF Held
<1>12. Held(f) BY <1>10, <1>11, HoldsHeld DEF Keeps
<1>13. Deaf(c, o) BY <1>3 DEF Deaf
<1> QED BY <1>1, <1>3, <1>7, <1>10, <1>11, <1>12, <1>13 DEF Keeps, Holds, Deaf

LEMMA channel_input_open_failureSane ==
  ASSUME NEW x, NEW c, Sane(x, c), c.type = "opening", x.p = "client"
  PROVE  LET d == channel_input_open_failure(c)
         IN  /\ Sane(x, d) /\ Held(d) /\ d.type = "zombie" /\ d.rcvd = c.rcvd /\ d.got = c.got
             /\ d.flags = c.flags /\ d.wire = c.wire
<1> DEFINE d == channel_input_open_failure(c)
<1>0. c \in Chan BY DEF Sane
<1>1. d \in Chan BY <1>0, channel_input_open_failureType
<1>2. /\ d.type = "zombie" /\ d.remote_window = c.remote_window
      /\ d.have_remote_id = c.have_remote_id
      /\ d.local_window = c.local_window /\ d.child = c.child /\ d.extended_usage = c.extended_usage
      /\ d.flags = c.flags /\ d.wire = c.wire /\ d.sent = c.sent
      /\ d.granted = c.granted /\ d.rcvd = c.rcvd /\ d.got = c.got
      /\ d.local_consumed = c.local_consumed /\ d.output = c.output /\ d.extended = c.extended
      /\ d.died = c.died /\ d.istate = c.istate /\ d.ostate = c.ostate
  BY <1>0 DEF Chan, channel_input_open_failure, chan_mark_dead
<1> HIDE DEF d
<1>3. Windows(d) BY <1>2 DEF Sane, Windows, Unopened
<1>4. Basic(x.p, d) BY <1>2 DEF Sane, Basic, Opening
<1>5. Wire(x, d) BY <1>2, WireSame DEF Sane
<1>6. Sane(x, d) BY <1>1, <1>3, <1>4, <1>5, SaneFrom
<1>7. Held(d) BY <1>2 DEF Sane, Basic, Held
<1> QED BY <1>2, <1>6, <1>7 DEF d
-----------------------------------------------------------------------------
(* The messages about the opening: the first one that an end sends. *)

(* Nothing is on the way. *)
Silent(c) == c.wire = <<>>

(* The context x, in which message h now comes first. *)
Expecting(x, h) == [p |-> x.p, r |-> x.r, o |-> x.o, f |-> x.f, h |-> h]

LEMMA FirstSane ==
  ASSUME NEW x, NEW c, Sane(x, c), Silent(c), "close_rcvd" \notin x.f,
         NEW t \in Setup, NEW n \in Nat,
         t \in Granting => c.granted = 0 /\ n <= c.local_window,
         t \in Granting /\ c.type \in Unopened => n = 0
  PROVE  LET s == sshpkt_send(c, t, n)
         IN  Sane(Expecting(x, t), s) /\ Rest(c, s) /\ Len(s.wire) = 1
<1> DEFINE s == sshpkt_send(c, t, n)
           m == Message(c, t, n)
           y == Expecting(x, t)
<1>0. /\ c \in Chan /\ t \in MsgType /\ t \notin Carrying /\ n \in Int
      /\ t \notin {"CLOSE", "EOF", "EXT", "keepalive"} /\ x.r \in Nat /\ x.o \in Int
  BY DEF Setup, MsgType, Carrying, Sane
<1>1. /\ s \in Chan /\ Rest(c, s) /\ m \in Msg /\ m.t = t /\ m.n = n
      /\ m.sent = c.sent + Data(m) /\ m.granted = c.granted + Grant(m)
      /\ s.wire = Append(c.wire, m) /\ s.sent = m.sent /\ s.granted = m.granted
  BY <1>0, Sent
<1> HIDE DEF s, m
<1>2. s.wire = <<m>> BY <1>1 DEF Silent
<1>3. y.p = x.p /\ y.r = x.r /\ y.o = x.o /\ y.f = x.f /\ y.h = t BY DEF Expecting
<1> HIDE DEF y
<1>4. Data(m) = 0 /\ Grant(m) = (IF t \in Granting THEN n ELSE 0) BY <1>0, <1>1 DEF Data, Grant
<1>5. c.sent \in Nat /\ c.granted \in Int /\ c.rcvd \in Nat /\ c.local_window \in Int
  BY <1>0, Fields
<1>6. Windows(s)
  <2>1. Windows(c) BY DEF Sane
  <2>2. s.sent = c.sent /\ s.granted = c.granted + Grant(m) BY <1>1, <1>4, <1>5
  <2>3. CASE t \in Granting
    <3>1. s.granted = n /\ n <= c.local_window /\ (c.type \in Unopened => n = 0)
      BY <1>4, <2>2, <2>3
    <3> QED BY <1>1, <1>5, <2>1, <2>2, <3>1 DEF Windows, Rest
  <2>4. CASE t \notin Granting
    <3>1. s.granted = c.granted BY <1>4, <1>5, <2>2, <2>4
    <3> QED BY <1>1, <2>1, <2>2, <3>1 DEF Windows, Rest
  <2> QED BY <2>3, <2>4
<1>7. Basic(x.p, s) BY <1>1 DEF Sane, Basic, Rest
<1>8. Totals(s.wire, s.sent, s.granted, y.r, y.o)
  <2>1. Totals(c.wire, c.sent, c.granted, x.r, x.o) BY DEF Sane, Wire
  <2>2. c.wire \in Seq(Msg) BY <1>0, Fields
  <2>3. (m.t \in Carrying => m.n \in 1 .. MaxPacket) /\ (m.t \in Granting => m.n >= 0)
    BY <1>0, <1>1
  <2>4. Totals(Append(c.wire, m), m.sent, m.granted, x.r, x.o)
    BY <1>0, <1>1, <1>5, <2>1, <2>2, <2>3, TotalsAppend
  <2> QED BY <1>1, <1>3, <2>4
<1>9. Order(y.p, s.wire, s.flags, y.f, y.h)
  <2> DEFINE w == s.wire
  <2>1. Len(w) = 1 /\ w[1] = m /\ w # <<>> BY <1>2
  <2>2. s.flags = c.flags BY <1>1 DEF Rest
  <2>3. "eof_rcvd" \in x.f => "eof_sent" \in c.flags BY DEF Sane, Wire, Order
  <2> HIDE DEF w
  <2>4. \A i \in 1 .. Len(w) : i = 1 BY <2>1
  <2>5. /\ y.h # "any" => w # <<>> /\ w[1].t = y.h
        /\ "close_rcvd" \in y.f => "close_sent" \in s.flags
        /\ "eof_rcvd" \in y.f => "eof_sent" \in s.flags
    BY <1>1, <1>3, <2>1, <2>2, <2>3
  <2>6. \A i \in 1 .. Len(w) :
         /\ i > 1 \/ y.h = "any" => w[i].t \notin Setup
         /\ w[i].t = "CLOSE" => "close_sent" \in s.flags
         /\ w[i].t = "EOF" => "eof_sent" \in s.flags
         /\ w[i].t = "keepalive" => y.p = "server"
         /\ "close_rcvd" \in y.f => w[i].t = "keepalive"
         /\ "eof_rcvd" \in y.f => w[i].t # "EXT"
    <3> SUFFICES ASSUME NEW i \in 1 .. Len(w)
                 PROVE  /\ i > 1 \/ y.h = "any" => w[i].t \notin Setup
                        /\ w[i].t = "CLOSE" => "close_sent" \in s.flags
                        /\ w[i].t = "EOF" => "eof_sent" \in s.flags
                        /\ w[i].t = "keepalive" => y.p = "server"
                        /\ "close_rcvd" \in y.f => w[i].t = "keepalive"
                        /\ "eof_rcvd" \in y.f => w[i].t # "EXT"
      OBVIOUS
    <3>1. t # "any" BY DEF Setup
    <3>2. i = 1 /\ ~(i > 1) BY <2>4
    <3>3. w[i].t = t BY <1>1, <2>1, <3>2
    <3>4. t # "CLOSE" /\ t # "EOF" /\ t # "keepalive" /\ t # "EXT" BY <1>0
    <3> QED BY <1>3, <3>1, <3>2, <3>3, <3>4
  <2>7. \A i, j \in 1 .. Len(w) : i < j =>
         /\ w[i].t = "CLOSE" => w[j].t = "keepalive"
         /\ w[i].t = "EOF" => w[j].t # "EXT"
    <3> SUFFICES ASSUME NEW i \in 1 .. Len(w), NEW j \in 1 .. Len(w), i < j PROVE FALSE
      OBVIOUS
    <3> QED BY <2>4
  <2>8. Order(y.p, w, s.flags, y.f, y.h) BY <2>5, <2>6, <2>7 DEF Order
  <2> QED BY <2>8 DEF w
<1>10. Sane(y, s) BY <1>0, <1>1, <1>3, <1>6, <1>7, <1>8, <1>9 DEF Sane, Wire
<1>11. Len(s.wire) = 1 BY <1>2
<1> QED BY <1>1, <1>10, <1>11 DEF s, y

LEMMA server_input_channel_openSane ==
  ASSUME NEW x, NEW c, Sane(x, c), Held(c), c.type = "none", Silent(c), x.p = "server",
         "close_rcvd" \notin x.f, NEW n \in Nat, n <= c.got - c.sent, NEW ok \in BOOLEAN
  PROVE  LET d == server_input_channel_open(c, n, ok)
         IN  /\ Held(d) /\ d.rcvd = c.rcvd /\ d.got = c.got /\ Deaf(c, d)
             /\ \/ d.type = "larval" /\ Sane(Expecting(x, "CONFIRM"), d)
                \/ d.type = "freed" /\ Sane(Expecting(x, "OPENFAIL"), d) /\ Len(d.wire) = 1
                \/ d.type = "connecting" /\ Sane(x, d) /\ Silent(d)
<1> DEFINE d == server_input_channel_open(c, n, ok)
           f == channel_free(c)
           lar == [c EXCEPT !.type = "larval", !.local_window = 0, !.session = TRUE,
                            !.detach_user = "session", !.detach_close = FALSE,
                            !.have_remote_id = TRUE, !.remote_window = n]
           con == [c EXCEPT !.type = "connecting", !.local_window = Window, !.session = FALSE,
                            !.have_remote_id = TRUE, !.remote_window = n]
<1>0. /\ c \in Chan /\ c.child # "running" /\ c.flags = {} /\ n \in Int /\ Window \in Nat
      /\ Window \in Int /\ c.istate = "open" /\ c.ostate = "open" /\ c.died = FALSE
      /\ c.granted = 0 /\ c.local_consumed = 0 /\ c.output = 0 /\ c.extended = 0
      /\ c.rcvd \in Nat /\ 0 \in Int
  <2>1. c \in Chan BY DEF Sane
  <2>2. c.rcvd \in Nat BY <2>1, Fields
  <2>3. c.child # "running" BY DEF Held
  <2>4. c.flags = {} /\ c.istate = "open" /\ c.ostate = "open" /\ c.died = FALSE
    BY DEF Sane, Basic, Opening
  <2>5. c.granted = 0 /\ c.local_consumed = 0 /\ c.output = 0 /\ c.extended = 0
    BY DEF Sane, Windows, Unopened
  <2> QED BY <2>1, <2>2, <2>3, <2>4, <2>5, ChannelAssumption
<1>1. d = IF ~ok THEN sshpkt_send(f, "OPENFAIL", 0)
          ELSE IF kind \in Sessions THEN send_to_remote(lar, "CONFIRM", lar.local_window)
          ELSE con
  BY <1>0 DEF server_input_channel_open, channel_new, channel_register_cleanup, Chan
<1>2. CASE ~ok
  <2>1. /\ x.r \in Nat /\ x.o \in Int /\ c \in Chan /\ Windows(c) /\ Wire(x, c) /\ c.died = FALSE
        /\ "close_sent" \in c.flags => c.istate = "closed" /\ c.ostate = "closed"
        /\ x.p = "client" => c.child = "none"
        /\ c.child # "running"
    BY <1>0 DEF Sane
  <2>2. /\ Sane(x, f) /\ Held(f) /\ f.type = "freed" /\ f.rcvd = c.rcvd /\ f.got = c.got
        /\ f.flags = c.flags /\ f.wire = c.wire
    BY <2>1, FreedSane
  <2>3. "OPENFAIL" \in Setup /\ "OPENFAIL" \notin Granting BY DEF Setup, Granting
  <2> HIDE DEF f
  <2> DEFINE s == sshpkt_send(f, "OPENFAIL", 0)
  <2>4. Sane(Expecting(x, "OPENFAIL"), s) /\ Rest(f, s) /\ Len(s.wire) = 1
    <3>1. Silent(f) BY <2>2 DEF Silent
    <3> QED BY <2>2, <2>3, <3>1, FirstSane
  <2>6. d = s BY <1>1, <1>2
  <2> HIDE DEF s, d
  <2>7. Held(d) /\ d.rcvd = c.rcvd /\ d.got = c.got /\ Deaf(c, d) /\ d.type = "freed"
    BY <2>2, <2>4, <2>6 DEF Held, Rest, Deaf
  <2> QED BY <2>4, <2>6, <2>7 DEF d
<1>3. CASE ok /\ kind \in Sessions
  <2>1. lar \in Chan BY <1>0, Zenon DEF Chan, ChannelType
  <2>2. /\ lar.type = "larval" /\ lar.remote_window = n /\ lar.have_remote_id = TRUE
        /\ lar.local_window = 0 /\ lar.child = c.child /\ lar.extended_usage = c.extended_usage
        /\ lar.flags = c.flags /\ lar.wire = c.wire /\ lar.sent = c.sent
        /\ lar.granted = c.granted /\ lar.rcvd = c.rcvd /\ lar.got = c.got
        /\ lar.local_consumed = c.local_consumed /\ lar.output = c.output
        /\ lar.extended = c.extended /\ lar.died = c.died /\ lar.istate = c.istate
        /\ lar.ostate = c.ostate /\ lar.detach_user = "session" /\ lar.detach_close = FALSE
    BY <1>0 DEF Chan
  <2> DEFINE s == sshpkt_send(lar, "CONFIRM", 0)
  <2>3. d = s BY <1>1, <1>3, <2>2 DEF send_to_remote
  <2> HIDE DEF lar
  <2>4. Windows(lar)
    <3>1. lar.granted - lar.rcvd <= lar.local_window BY <1>0, <2>2
    <3>2. 0 <= lar.remote_window /\ lar.remote_window <= lar.got - lar.sent BY <2>2
    <3>3. lar.local_window + lar.local_consumed + lar.output +
            (IF lar.extended_usage = "write" THEN lar.extended ELSE 0) <= Window
      BY <1>0, <2>2
    <3>4. /\ lar.granted = 0 /\ lar.local_window >= 0
          /\ lar.local_consumed = 0 /\ lar.output = 0 /\ lar.extended = 0
      BY <1>0, <2>2
    <3> QED BY <3>1, <3>2, <3>3, <3>4 DEF Windows
  <2>5. Basic(x.p, lar) BY <1>0, <2>2 DEF Basic, Opening
  <2>6. Wire(x, lar) BY <2>2, WireSame DEF Sane
  <2>7. Sane(x, lar) BY <2>1, <2>4, <2>5, <2>6, SaneFrom
  <2>8. "CONFIRM" \in Setup BY DEF Setup
  <2>9. Sane(Expecting(x, "CONFIRM"), s) /\ Rest(lar, s)
    <3>1. Silent(lar) BY <2>2 DEF Silent
    <3>2. lar.granted = 0 /\ 0 <= lar.local_window BY <1>0, <2>2
    <3> QED BY <2>7, <2>8, <3>1, <3>2, FirstSane
  <2> HIDE DEF s, d
  <2>10. Held(d) /\ d.rcvd = c.rcvd /\ d.got = c.got /\ Deaf(c, d) /\ d.type = "larval"
    BY <1>0, <2>2, <2>3, <2>9 DEF Held, Rest, Deaf
  <2> QED BY <2>3, <2>9, <2>10 DEF d
<1>4. CASE ok /\ kind \notin Sessions
  <2>1. con \in Chan BY <1>0, Zenon DEF Chan, ChannelType
  <2>2. /\ con.type = "connecting" /\ con.remote_window = n /\ con.have_remote_id = TRUE
        /\ con.local_window = Window /\ con.child = c.child /\ con.extended_usage = c.extended_usage
        /\ con.flags = c.flags /\ con.wire = c.wire /\ con.sent = c.sent
        /\ con.granted = c.granted /\ con.rcvd = c.rcvd /\ con.got = c.got
        /\ con.local_consumed = c.local_consumed /\ con.output = c.output
        /\ con.extended = c.extended /\ con.died = c.died /\ con.istate = c.istate
        /\ con.ostate = c.ostate
    BY <1>0 DEF Chan
  <2>3. d = con BY <1>1, <1>4
  <2> HIDE DEF con, d
  <2>4. Windows(con)
    <3>1. con.granted - con.rcvd <= con.local_window BY <1>0, <2>2
    <3>2. 0 <= con.remote_window /\ con.remote_window <= con.got - con.sent BY <2>2
    <3>3. con.local_window + con.local_consumed + con.output +
            (IF con.extended_usage = "write" THEN con.extended ELSE 0) <= Window
      BY <1>0, <2>2
    <3>4. /\ con.granted = 0 /\ con.local_window >= 0
          /\ con.local_consumed = 0 /\ con.output = 0 /\ con.extended = 0
      BY <1>0, <2>2
    <3> QED BY <3>1, <3>2, <3>3, <3>4 DEF Windows
  <2>5. Basic(x.p, con) BY <1>0, <2>2 DEF Basic, Opening
  <2>6. Wire(x, con) BY <2>2, WireSame DEF Sane
  <2>7. Sane(x, con) BY <2>1, <2>4, <2>5, <2>6, SaneFrom
  <2>8. Held(con) /\ Deaf(c, con) BY <1>0, <2>2 DEF Held, Deaf
  <2>9. Silent(con) BY <2>2 DEF Silent
  <2> QED BY <2>2, <2>3, <2>7, <2>8, <2>9 DEF d
<1> QED BY <1>2, <1>3, <1>4

(* What handling message m may do to a channel that exists or is freed. *)
Handled(x, c, d, m) ==
  /\ Sane(x, d) /\ Held(d) /\ d.rcvd = c.rcvd /\ d.got = c.got
  /\ "close_rcvd" \in d.flags => "close_rcvd" \in c.flags \/ m.t = "CLOSE"
  /\ "eof_rcvd" \in d.flags => "eof_rcvd" \in c.flags \/ m.t = "EOF"
  /\ d.type = c.type \/ (c.type = "larval" /\ d.type = "open")
  /\ c.type = "freed" => d = c

LEMMA KeepsHandled ==
  ASSUME NEW x, NEW c, NEW d, NEW m, Keeps(x, c, d), Held(c), c.type # "freed"
  PROVE  Handled(x, c, d, m)
<1>1. Held(d) BY HoldsHeld DEF Keeps
<1> QED BY <1>1 DEF Handled, Keeps, Holds, Deaf

LEMMA HandleSane ==
  ASSUME NEW p \in Peer, NEW x, x.p = p, NEW c, Sane(x, c), Held(c), NEW m \in Msg,
         m.t \notin Setup, m.t \in Granting => m.n >= 0,
         c.granted - c.rcvd + Data(m) <= c.local_window,
         c.remote_window + Grant(m) <= c.got - c.sent,
         m.t = "EXT" => "eof_rcvd" \notin c.flags,
         \/ c.type \in {"larval", "open"}
         \/ c.type = "freed" /\ p = "client" /\ m.t = "keepalive",
         NEW ok \in BOOLEAN, NEW tty \in BOOLEAN
  PROVE  Handled(x, c, Handle(p, c, m, ok, tty), m)
<1> DEFINE d == Handle(p, c, m, ok, tty)
<1>0. m.t \in MsgType /\ m.n \in Int /\ (m.t \in Carrying => m.n >= 0) BY Zenon DEF Msg
<1>1. CASE c.type = "freed"
  <2>1. d = c BY <1>1 DEF Handle, Exists, Requests
  <2> QED BY <1>1, <2>1 DEF Handled
<1>2. CASE c.type \in {"larval", "open"}
  <2>0. Exists(c) /\ c.type # "freed" /\ c.type \notin Opening BY <1>2 DEF Exists, Opening
  <2>1. CASE m.t = "ADJUST"
    <3>1. d = channel_input_window_adjust(c, m.n) BY <2>0, <2>1 DEF Handle, Requests
    <3>2. Grant(m) = m.n /\ m.n \in Nat BY <1>0, <2>1 DEF Grant, Granting
    <3>3. Keeps(x, c, d) BY <3>1, <3>2, channel_input_window_adjustKeeps
    <3> QED BY <2>0, <3>3, KeepsHandled
  <2>2. CASE m.t = "DATA"
    <3>1. d = channel_input_data(c, m.n) BY <2>0, <2>2 DEF Handle, Requests
    <3>2. Data(m) = m.n /\ m.n \in Nat BY <1>0, <2>2 DEF Data, Carrying
    <3>3. Keeps(x, c, d) BY <3>1, <3>2, channel_input_dataKeeps
    <3> QED BY <2>0, <3>3, KeepsHandled
  <2>3. CASE m.t = "EXT"
    <3>1. d = channel_input_extended_data(c, m.n) BY <2>0, <2>3 DEF Handle, Requests
    <3>2. Data(m) = m.n /\ m.n \in Nat BY <1>0, <2>3 DEF Data, Carrying
    <3>3. Keeps(x, c, d) BY <2>3, <3>1, <3>2, channel_input_extended_dataKeeps
    <3> QED BY <2>0, <3>3, KeepsHandled
  <2>4. CASE m.t = "EOF"
    <3>1. d = chan_rcvd_ieof(c) BY <2>0, <2>4 DEF Handle, Requests
    <3> HIDE DEF d
    <3>2. Sane(x, d) /\ Holds(c, d) /\ ("close_rcvd" \in d.flags => "close_rcvd" \in c.flags)
      BY <2>0, <3>1, chan_rcvd_ieofSane
    <3>3. Held(d) BY <3>2, HoldsHeld
    <3> QED BY <2>0, <2>4, <3>2, <3>3 DEF Handled, Holds, d
  <2>5. CASE m.t = "CLOSE"
    <3>1. d = chan_rcvd_oclose(c) BY <2>0, <2>5 DEF Handle, Requests
    <3> HIDE DEF d
    <3>2. Sane(x, d) /\ Holds(c, d) /\ ("eof_rcvd" \in d.flags => "eof_rcvd" \in c.flags)
      BY <1>2, <3>1, chan_rcvd_ocloseSane
    <3>3. Held(d) BY <3>2, HoldsHeld
    <3> QED BY <2>0, <2>5, <3>2, <3>3 DEF Handled, Holds, d
  <2>6. CASE m.t \in {"SUCCESS", "FAILURE"}
    <3>1. d = channel_input_status_confirm(c, m.t) BY <2>0, <2>6 DEF Handle, Requests
    <3>2. Keeps(x, c, d) BY <1>2, <3>1, channel_input_status_confirmKeeps
    <3> QED BY <2>0, <3>2, KeepsHandled
  <2>7. CASE m.t \in Requests
    <3>1. CASE p = "client"
      <4>1. d = client_input_channel_req(c, m.t) BY <2>0, <2>7, <3>1 DEF Handle, Requests
      <4>2. Keeps(x, c, d) BY <1>2, <4>1, client_input_channel_reqKeeps
      <4> QED BY <2>0, <4>2, KeepsHandled
    <3>2. CASE p # "client"
      <4>1. d = server_input_channel_req(c, m.t, ok, tty)
        BY <2>0, <2>7, <3>2 DEF Handle, Requests
      <4> HIDE DEF d
      <4>2. /\ Sane(x, d) /\ Held(d) /\ d.rcvd = c.rcvd /\ d.got = c.got /\ Deaf(c, d)
            /\ d.type = c.type \/ (c.type = "larval" /\ d.type = "open")
        BY <1>2, <4>1, server_input_channel_reqSane
      <4> QED BY <2>0, <4>2 DEF Handled, Deaf, d
    <3> QED BY <3>1, <3>2
  <2>8. \/ m.t \in {"ADJUST", "DATA", "EXT", "EOF", "CLOSE", "SUCCESS", "FAILURE"}
        \/ m.t \in Requests
    BY <1>0 DEF MsgType, Setup, Requests
  <2> QED BY <2>1, <2>2, <2>3, <2>4, <2>5, <2>6, <2>7, <2>8
<1> QED BY <1>1, <1>2
-----------------------------------------------------------------------------
(* The two ends together. *)

(* An end of role p whose peer is o; h as in Sane. *)
Ctx(p, o, h) == [p |-> p, r |-> o.rcvd, o |-> o.got, f |-> o.flags, h |-> h]

(* The message about the opening that is on its way. *)
FromClient(cl, sv) == IF cl.type = "opening" /\ sv.type = "none" THEN "OPEN" ELSE "any"
FromServer(cl, sv) ==
  IF cl.type = "opening" /\ sv.type \in {"larval", "open"} THEN "CONFIRM"
  ELSE IF cl.type = "opening" /\ sv.type = "freed" THEN "OPENFAIL" ELSE "any"

(* The stages of the opening, and after it: an end is freed only when it   *)
(* has the other's CLOSE.                                                  *)
Phase(cl, sv) ==
  \/ cl.type = "none" /\ sv.type = "none" /\ Silent(cl) /\ Silent(sv)
  \/ cl.type = "opening" /\ sv.type = "none" /\ Len(cl.wire) = 1 /\ Silent(sv)
  \/ cl.type = "opening" /\ sv.type = "connecting" /\ Silent(cl) /\ Silent(sv)
  \/ cl.type = "opening" /\ sv.type \in {"larval", "open"} /\ Silent(cl)
  \/ cl.type = "opening" /\ sv.type = "freed" /\ Silent(cl) /\ Len(sv.wire) = 1
  \/ cl.type \in {"zombie", "freed"} /\ sv.type = "freed" /\ Silent(cl) /\ Silent(sv)
  \/ /\ cl.type \in {"open", "freed"} /\ sv.type \in {"larval", "open", "freed"}
     /\ cl.type = "freed" => "close_rcvd" \in cl.flags
     /\ sv.type = "freed" => "close_rcvd" \in sv.flags

ClientSane(cl, sv) == Sane(Ctx("client", sv, FromClient(cl, sv)), cl) /\ Held(cl)
ServerSane(cl, sv) == Sane(Ctx("server", cl, FromServer(cl, sv)), sv) /\ Held(sv)
Pair(cl, sv) == ClientSane(cl, sv) /\ ServerSane(cl, sv) /\ Phase(cl, sv)

LEMMA CtxFields ==
  ASSUME NEW p, NEW o, NEW h
  PROVE  LET x == Ctx(p, o, h)
         IN  x.p = p /\ x.r = o.rcvd /\ x.o = o.got /\ x.f = o.flags /\ x.h = h
BY DEF Ctx

(* The other end changes what does not matter here. *)
LEMMA OtherMoves ==
  ASSUME NEW p, NEW h, NEW o, NEW u, NEW c, Sane(Ctx(p, o, h), c),
         u.rcvd = o.rcvd, u.got = o.got, Deaf(o, u)
  PROVE  Sane(Ctx(p, u, h), c)
<1> DEFINE x == Ctx(p, o, h)  y == Ctx(p, u, h)
<1>1. /\ x.p = p /\ x.r = o.rcvd /\ x.o = o.got /\ x.f = o.flags /\ x.h = h
      /\ y.p = p /\ y.r = u.rcvd /\ y.o = u.got /\ y.f = u.flags /\ y.h = h
  BY CtxFields
<1>2. Sane(x, c) OBVIOUS
<1> HIDE DEF x, y
<1>3. /\ x.r \in Nat /\ x.o \in Int /\ c \in Chan /\ Windows(c) /\ Basic(x.p, c)
      /\ Totals(c.wire, c.sent, c.granted, x.r, x.o) /\ Order(x.p, c.wire, c.flags, x.f, x.h)
  BY <1>2 DEF Sane, Wire
<1>4. Order(y.p, c.wire, c.flags, y.f, y.h)
  <2> DEFINE w == c.wire  fl == c.flags  f == o.flags  g == u.flags
  <2>1. Order(p, w, fl, f, h) BY <1>1, <1>3
  <2>2. ("close_rcvd" \in g <=> "close_rcvd" \in f) /\ ("eof_rcvd" \in g <=> "eof_rcvd" \in f)
    BY DEF Deaf
  <2> HIDE DEF w, fl, f, g
  <2>3. Order(p, w, fl, g, h) BY <2>1, <2>2 DEF Order
  <2> QED BY <1>1, <2>3 DEF w, fl, g
<1>5. Sane(y, c) BY <1>1, <1>3, <1>4 DEF Sane, Wire
<1> QED BY <1>5 DEF y

(* A step of an end of an established channel. *)
LEMMA ClientMoves ==
  ASSUME NEW cl, NEW sv, Pair(cl, sv), cl.type = "open",
         NEW d, Sane(Ctx("client", sv, FromClient(cl, sv)), d), Held(d), Passes(cl, d)
  PROVE  Pair(d, sv)
<1>1. d.type \in {"open", "freed"} /\ (d.type = "freed" => "close_rcvd" \in d.flags)
  BY DEF Passes
<1>2. FromClient(d, sv) = FromClient(cl, sv) /\ FromServer(d, sv) = FromServer(cl, sv)
  BY <1>1 DEF FromClient, FromServer
<1>3. ClientSane(d, sv) BY <1>2 DEF ClientSane
<1>4. ServerSane(d, sv)
  <2>1. d.rcvd = cl.rcvd /\ d.got = cl.got /\ Deaf(cl, d) BY DEF Passes
  <2> QED BY <1>2, <2>1, OtherMoves DEF ServerSane, Pair
<1>5. Phase(d, sv)
  <2>1. /\ sv.type \in {"larval", "open", "freed"}
        /\ sv.type = "freed" => "close_rcvd" \in sv.flags
    BY DEF Pair, Phase
  <2> QED BY <1>1, <2>1 DEF Phase
<1> QED BY <1>3, <1>4, <1>5 DEF Pair

LEMMA ServerMoves ==
  ASSUME NEW cl, NEW sv, Pair(cl, sv), sv.type \in {"larval", "open"},
         NEW d, Sane(Ctx("server", cl, FromServer(cl, sv)), d), Held(d), Passes(sv, d)
  PROVE  Pair(cl, d)
<1>1. d.type \in {sv.type, "freed"} /\ (d.type = "freed" => "close_rcvd" \in d.flags)
  BY DEF Passes
<1>2. cl.type = "opening" => d.type = sv.type
  <2> SUFFICES ASSUME cl.type = "opening", d.type = "freed" PROVE FALSE
    BY <1>1
  <2> DEFINE x == Ctx("client", sv, FromClient(cl, sv))
  <2>1. "close_rcvd" \in sv.flags BY <1>1 DEF Passes, Deaf
  <2>2. Sane(x, cl) /\ x.f = sv.flags BY CtxFields DEF Pair, ClientSane
  <2> HIDE DEF x
  <2>3. "close_sent" \in cl.flags BY <2>1, <2>2 DEF Sane, Wire, Order
  <2>4. cl.flags = {} BY <2>2 DEF Sane, Basic, Opening
  <2> QED BY <2>3, <2>4
<1>3. FromClient(cl, d) = FromClient(cl, sv) /\ FromServer(cl, d) = FromServer(cl, sv)
  BY <1>1, <1>2 DEF FromClient, FromServer
<1>4. ServerSane(cl, d) BY <1>3 DEF ServerSane
<1>5. ClientSane(cl, d)
  <2>1. d.rcvd = sv.rcvd /\ d.got = sv.got /\ Deaf(sv, d) BY DEF Passes
  <2> QED BY <1>3, <2>1, OtherMoves DEF ClientSane, Pair
<1>6. Phase(cl, d)
  <2>1. \/ cl.type = "opening" /\ Silent(cl)
        \/ cl.type \in {"open", "freed"} /\ (cl.type = "freed" => "close_rcvd" \in cl.flags)
    BY DEF Pair, Phase
  <2> QED BY <1>1, <1>2, <2>1 DEF Phase
<1> QED BY <1>4, <1>5, <1>6 DEF Pair

LEMMA ClientKeeps ==
  ASSUME NEW cl, NEW sv, Pair(cl, sv), cl.type = "open",
         NEW d, Keeps(Ctx("client", sv, FromClient(cl, sv)), cl, d)
  PROVE  Pair(d, sv)
<1>1. Held(d) BY HoldsHeld DEF Keeps, Pair, ClientSane
<1> QED BY <1>1, ClientMoves, KeepsPasses DEF Keeps

LEMMA ServerKeeps ==
  ASSUME NEW cl, NEW sv, Pair(cl, sv), sv.type \in {"larval", "open"},
         NEW d, Keeps(Ctx("server", cl, FromServer(cl, sv)), sv, d)
  PROVE  Pair(cl, d)
<1>1. Held(d) BY HoldsHeld DEF Keeps, Pair, ServerSane
<1> QED BY <1>1, ServerMoves, KeepsPasses DEF Keeps

(* A pass of the client's loop, and of the server's. *)
LEMMA ClientLoops ==
  ASSUME NEW cl, NEW sv, Pair(cl, sv), Exists(cl), NEW poll \in BOOLEAN, NEW exits \in BOOLEAN,
         exits => LoopPre(cl, poll).child = "running",
         NEW io, io.rfd \in Int, io.wfd \in Int, io.efd \in Int
  PROVE  Pair(LoopPost(LoopPre(cl, poll), exits, io), sv)
<1> DEFINE x == Ctx("client", sv, FromClient(cl, sv))
           b == LoopPre(cl, poll)
           d == LoopPost(b, exits, io)
<1>0. Sane(x, cl) /\ Held(cl) /\ x.p = "client" BY CtxFields DEF Pair, ClientSane
<1>1. CASE cl.type = "zombie"
  <2> HIDE DEF x
  <2>2. /\ Sane(x, d) /\ Held(d) /\ d.type = "freed" /\ d.rcvd = cl.rcvd /\ d.got = cl.got
        /\ d.flags = cl.flags /\ d.wire = cl.wire
    BY <1>0, <1>1, LoopZombie
  <2> HIDE DEF d
  <2>3. sv.type = "freed" /\ Silent(cl) /\ Silent(sv) BY <1>1 DEF Pair, Phase
  <2>4. Phase(d, sv) BY <2>2, <2>3 DEF Phase, Silent
  <2>5. FromClient(d, sv) = FromClient(cl, sv) /\ FromServer(d, sv) = FromServer(cl, sv)
    BY <1>1, <2>2 DEF FromClient, FromServer
  <2>6. ClientSane(d, sv) BY <2>2, <2>5 DEF ClientSane, x
  <2>7. Deaf(cl, d) BY <2>2 DEF Deaf
  <2>8. ServerSane(d, sv) BY <2>2, <2>5, <2>7, OtherMoves DEF ServerSane, Pair
  <2> QED BY <2>4, <2>6, <2>8 DEF Pair, d
<1>2. CASE cl.type # "zombie"
  <2> HIDE DEF x
  <2>1. /\ Sane(x, b) /\ Held(b) /\ Passes(cl, b) /\ b.type # "zombie"
        /\ cl.type \in Opening => b = cl
    BY <1>0, <1>2, LoopPreSane
  <2> HIDE DEF b
  <2>2. /\ Sane(x, d) /\ Held(d) /\ Passes(b, d)
        /\ b.type \in Opening => d = b
    BY <2>1, LoopPostSane DEF b
  <2> HIDE DEF d
  <2>3. Passes(cl, d) BY <2>1, <2>2, PassesBoth
  <2>4. CASE cl.type = "opening"
    <3>1. d = cl BY <2>1, <2>2, <2>4 DEF Opening
    <3> QED BY <3>1 DEF d, b
  <2>5. CASE cl.type = "open"
    <3>1. Pair(d, sv) BY <2>2, <2>3, <2>5, ClientMoves DEF x
    <3> QED BY <3>1 DEF d, b
  <2>6. cl.type \in {"opening", "open"} BY <1>2 DEF Exists, Pair, Phase
  <2> QED BY <2>4, <2>5, <2>6
<1> QED BY <1>1, <1>2

LEMMA ServerLoops ==
  ASSUME NEW cl, NEW sv, Pair(cl, sv), Exists(sv), NEW poll \in BOOLEAN, NEW exits \in BOOLEAN,
         exits => LoopPre(sv, poll).child = "running",
         NEW io, io.rfd \in Int, io.wfd \in Int, io.efd \in Int
  PROVE  Pair(cl, LoopPost(LoopPre(sv, poll), exits, io))
<1> DEFINE x == Ctx("server", cl, FromServer(cl, sv))
           b == LoopPre(sv, poll)
           d == LoopPost(b, exits, io)
<1>0. Sane(x, sv) /\ Held(sv) BY DEF Pair, ServerSane
<1>1. sv.type \in {"connecting", "larval", "open"} BY DEF Exists, Pair, Phase
<1> HIDE DEF x
<1>2. /\ Sane(x, b) /\ Held(b) /\ Passes(sv, b) /\ b.type # "zombie"
      /\ sv.type \in Opening => b = sv
  BY <1>0, <1>1, LoopPreSane
<1> HIDE DEF b
<1>3. /\ Sane(x, d) /\ Held(d) /\ Passes(b, d)
      /\ b.type \in Opening => d = b
  BY <1>2, LoopPostSane DEF b
<1> HIDE DEF d
<1>4. Passes(sv, d) BY <1>2, <1>3, PassesBoth
<1>5. CASE sv.type = "connecting"
  <2>1. d = sv BY <1>2, <1>3, <1>5 DEF Opening
  <2> QED BY <2>1 DEF d, b
<1>6. CASE sv.type \in {"larval", "open"}
  <2>1. Pair(cl, d) BY <1>3, <1>4, <1>6, ServerMoves DEF x
  <2> QED BY <2>1 DEF d, b
<1> QED BY <1>1, <1>5, <1>6

(* The first message is taken off the wire. *)
LEMMA TailOfOne == ASSUME NEW v \in Seq(Msg), Len(v) = 1 PROVE Tail(v) = <<>>
<1>1. v # <<>> BY EmptySeq
<1>2. Tail(v) \in Seq(Msg) /\ Len(Tail(v)) = 0 BY <1>1
<1> QED BY <1>2, EmptySeq

Taken(c) == [c EXCEPT !.wire = Tail(c.wire)]

LEMMA TakenFields ==
  ASSUME NEW c \in Chan, ~Silent(c)
  PROVE  LET d == Taken(c)
         IN  /\ d \in Chan /\ d.wire = Tail(c.wire) /\ Holds(c, d) /\ Deaf(c, d)
             /\ d.flags = c.flags /\ d.sent = c.sent /\ d.granted = c.granted
             /\ Windows(c) => Windows(d)
             /\ \A p : Basic(p, c) => Basic(p, d)
<1> DEFINE d == Taken(c)
<1>1. d \in Chan
  <2>1. c.wire \in Seq(Msg) /\ c.wire # <<>> BY Fields DEF Silent
  <2>2. Tail(c.wire) \in Seq(Msg) BY <2>1
  <2> DEFINE w == Tail(c.wire)
  <2> HIDE DEF w
  <2>3. [c EXCEPT !.wire = w] \in Chan BY <2>2, Zenon DEF Chan, w
  <2> QED BY <2>3 DEF Taken, w
<1>2. /\ d.wire = Tail(c.wire) /\ Holds(c, d) /\ Deaf(c, d)
      /\ d.flags = c.flags /\ d.sent = c.sent /\ d.granted = c.granted
  BY DEF Taken, Chan, Holds, Deaf
<1>3. Windows(c) => Windows(d) BY DEF Taken, Chan, Windows
<1>4. \A p : Basic(p, c) => Basic(p, d) BY DEF Taken, Chan, Basic
<1> QED BY <1>1, <1>2, <1>3, <1>4

LEMMA HeadFacts ==
  ASSUME NEW p, NEW h, NEW o, NEW c, Sane(Ctx(p, o, h), c), ~Silent(c)
  PROVE  LET m == Head(c.wire)
         IN  /\ m \in Msg
             /\ m.t \in Granting => m.n >= 0
             /\ h # "any" => m.t = h
             /\ h = "any" => m.t \notin Setup
             /\ m.t = "keepalive" => p = "server"
             /\ "close_rcvd" \in o.flags => m.t = "keepalive"
             /\ "eof_rcvd" \in o.flags => m.t # "EXT"
<1> DEFINE x == Ctx(p, o, h)  w == c.wire
<1>1. x.p = p /\ x.f = o.flags /\ x.h = h BY CtxFields
<1>2. Sane(x, c) OBVIOUS
<1> HIDE DEF x
<1>3. /\ w \in Seq(Msg) /\ w # <<>> BY <1>2, Fields DEF Sane, Silent
<1>4. Totals(w, c.sent, c.granted, x.r, x.o) /\ Order(p, w, c.flags, o.flags, h)
  BY <1>1, <1>2 DEF Sane, Wire
<1> HIDE DEF w
<1>5. Head(w) = w[1] /\ 1 \in 1 .. Len(w) /\ w[1] \in Msg BY <1>3
<1>6. w[1].t \in Granting => w[1].n >= 0 BY <1>4, <1>5 DEF Totals
<1>7. /\ h # "any" => w[1].t = h
      /\ h = "any" => w[1].t \notin Setup
      /\ w[1].t = "keepalive" => p = "server"
      /\ "close_rcvd" \in o.flags => w[1].t = "keepalive"
      /\ "eof_rcvd" \in o.flags => w[1].t # "EXT"
  BY <1>4, <1>5 DEF Order
<1> QED BY <1>5, <1>6, <1>7 DEF w

LEMMA TakenSane ==
  ASSUME NEW p, NEW h, NEW o, NEW u, NEW c, Sane(Ctx(p, o, h), c), ~Silent(c),
         u.rcvd = o.rcvd + Data(Head(c.wire)), u.got = o.got + Grant(Head(c.wire)),
         "close_rcvd" \in u.flags => "close_rcvd" \in o.flags \/ Head(c.wire).t = "CLOSE",
         "eof_rcvd" \in u.flags => "eof_rcvd" \in o.flags \/ Head(c.wire).t = "EOF"
  PROVE  Sane(Ctx(p, u, "any"), Taken(c))
<1> DEFINE x == Ctx(p, o, h)  y == Ctx(p, u, "any")  d == Taken(c)  m == Head(c.wire)
<1>1. /\ x.p = p /\ x.r = o.rcvd /\ x.o = o.got /\ x.f = o.flags /\ x.h = h
      /\ y.p = p /\ y.r = u.rcvd /\ y.o = u.got /\ y.f = u.flags /\ y.h = "any"
  BY CtxFields
<1>2. Sane(x, c) OBVIOUS
<1>3. m \in Msg BY HeadFacts
<1> HIDE DEF x, y
<1>4. /\ x.r \in Nat /\ x.o \in Int /\ c \in Chan /\ Windows(c) /\ Basic(x.p, c)
      /\ Totals(c.wire, c.sent, c.granted, x.r, x.o) /\ Order(x.p, c.wire, c.flags, x.f, x.h)
  BY <1>2 DEF Sane, Wire
<1>5. /\ d \in Chan /\ d.wire = Tail(c.wire) /\ d.flags = c.flags /\ d.sent = c.sent
      /\ d.granted = c.granted /\ Windows(d) /\ Basic(y.p, d)
  BY <1>1, <1>4, TakenFields
<1>6. c.wire \in Seq(Msg) /\ c.wire # <<>> /\ c.sent \in Nat /\ c.granted \in Int
  BY <1>4, Fields DEF Silent
<1>7. Totals(Tail(c.wire), c.sent, c.granted, x.r + Data(m), x.o + Grant(m))
  BY <1>4, <1>6, TotalsTail
<1>8. Order(p, Tail(c.wire), c.flags, u.flags, "any") BY <1>1, <1>4, <1>6, OrderTail
<1>9. y.r \in Nat /\ y.o \in Int
  <2>1. Data(m) \in Nat /\ Grant(m) \in Int
    <3> HIDE DEF m
    <3> QED BY <1>3 DEF Data, Grant, Msg
  <2> HIDE DEF m
  <2>2. u.rcvd = o.rcvd + Data(m) /\ u.got = o.got + Grant(m) BY DEF m
  <2> QED BY <1>1, <1>4, <2>1, <2>2
<1>10. y.r = x.r + Data(m) /\ y.o = x.o + Grant(m) BY <1>1
<1> HIDE DEF d, m
<1>11. Totals(d.wire, d.sent, d.granted, y.r, y.o) BY <1>5, <1>7, <1>10
<1>12. Order(y.p, d.wire, d.flags, y.f, y.h) BY <1>1, <1>5, <1>8
<1>13. Sane(y, d) BY <1>5, <1>9, <1>11, <1>12 DEF Sane, Wire
<1> QED BY <1>13 DEF y, d

(* The client handles a packet. *)
LEMMA ClientDispatch ==
  ASSUME NEW cl, NEW sv, Pair(cl, sv), ~Silent(sv), NEW ok \in BOOLEAN, NEW tty \in BOOLEAN
  PROVE  LET m == Head(sv.wire)
         IN  Pair(Handle("client", Received(cl, m), m, ok, tty), Taken(sv))
<1> DEFINE m == Head(sv.wire)
           c == Received(cl, m)
           d == Handle("client", c, m, ok, tty)
           s == Taken(sv)
           x == Ctx("client", sv, FromClient(cl, sv))
<1>1. Sane(x, cl) /\ Held(cl) /\ Held(sv) /\ sv \in Chan /\ x.p = "client"
  BY CtxFields DEF Pair, ClientSane, ServerSane, Sane
<1>2. /\ m \in Msg
      /\ m.t \in Granting => m.n >= 0
      /\ FromServer(cl, sv) # "any" => m.t = FromServer(cl, sv)
      /\ FromServer(cl, sv) = "any" => m.t \notin Setup
      /\ "close_rcvd" \in cl.flags => m.t = "keepalive"
      /\ "eof_rcvd" \in cl.flags => m.t # "EXT"
  BY HeadFacts DEF Pair, ServerSane
<1>3. /\ s.type = sv.type /\ s.rcvd = sv.rcvd /\ s.got = sv.got /\ Deaf(sv, s) /\ Held(s)
      /\ s.flags = sv.flags /\ s.wire = Tail(sv.wire)
  BY <1>1, TakenFields, HoldsHeld DEF Holds
<1> HIDE DEF x
<1>4. /\ Sane(x, c) /\ c.type = cl.type /\ c.flags = cl.flags /\ c.wire = cl.wire
      /\ c.child = cl.child /\ c.detach_user = cl.detach_user
      /\ c.detach_close = cl.detach_close
      /\ c.rcvd = cl.rcvd + Data(m) /\ c.got = cl.got + Grant(m)
      /\ c.granted - c.rcvd + Data(m) <= c.local_window
      /\ c.remote_window + Grant(m) <= c.got - c.sent
  BY <1>1, <1>2, ReceivedSane
<1>5. Held(c) BY <1>1, <1>4 DEF Held
(* Once the client's end after the packet is known, the rest follows. *)
<1>6. ASSUME Sane(x, d), Held(d), d.rcvd = c.rcvd, d.got = c.got,
             "close_rcvd" \in d.flags => "close_rcvd" \in cl.flags \/ m.t = "CLOSE",
             "eof_rcvd" \in d.flags => "eof_rcvd" \in cl.flags \/ m.t = "EOF",
             FromClient(d, s) = FromClient(cl, sv), FromServer(d, s) = "any", Phase(d, s)
      PROVE  Pair(d, s)
  <2> HIDE DEF d, c
  <2>1. ClientSane(d, s)
    <3>1. Sane(Ctx("client", sv, FromClient(d, s)), d) BY <1>6 DEF x
    <3> QED BY <1>3, <1>6, <3>1, OtherMoves DEF ClientSane
  <2>2. ServerSane(d, s)
    <3>1. d.rcvd = cl.rcvd + Data(m) /\ d.got = cl.got + Grant(m) BY <1>4, <1>6
    <3>2. Sane(Ctx("server", d, "any"), s) BY <1>6, <3>1, TakenSane DEF Pair, ServerSane
    <3> QED BY <1>3, <1>6, <3>2 DEF ServerSane
  <2> QED BY <1>6, <2>1, <2>2 DEF Pair
<1> HIDE DEF c, s
<1>7. CASE cl.type = "opening" /\ sv.type \in {"larval", "open"}
  <2>1. m.t = "CONFIRM" BY <1>2, <1>7 DEF FromServer
  <2>2. d = channel_input_open_confirmation(c, m.n)
    BY <1>4, <1>7, <2>1 DEF Handle, Exists, Requests
  <2>3. m.n \in Nat /\ m.n <= c.got - c.sent
    <3> HIDE DEF m
    <3>1. m.n \in Int /\ m.n >= 0 BY <1>2, <2>1 DEF Msg, Granting
    <3>2. Grant(m) = m.n BY <2>1 DEF Grant, Granting
    <3>3. c \in Chan /\ 0 <= c.remote_window BY <1>4 DEF Sane, Windows
    <3>4. c.remote_window \in Int /\ c.got \in Int /\ c.sent \in Nat BY <3>3, Fields
    <3> QED BY <1>4, <3>1, <3>2, <3>3, <3>4
  <2> HIDE DEF d
  <2>4. /\ Sane(x, d) /\ Held(d) /\ d.type = "open" /\ d.rcvd = c.rcvd /\ d.got = c.got
        /\ Deaf(c, d)
    BY <1>1, <1>4, <1>7, <2>2, <2>3, channel_input_open_confirmationSane
  <2>5. FromClient(d, s) = FromClient(cl, sv) /\ FromServer(d, s) = "any"
    BY <1>7, <2>4 DEF FromClient, FromServer
  <2>6. Phase(d, s) BY <1>3, <1>7, <2>4 DEF Phase
  <2> QED BY <1>4, <1>6, <2>4, <2>5, <2>6 DEF Deaf, d, c, s
<1>8. CASE cl.type = "opening" /\ sv.type = "freed"
  <2>1. m.t = "OPENFAIL" BY <1>2, <1>8 DEF FromServer
  <2>2. d = channel_input_open_failure(c)
    BY <1>4, <1>8, <2>1 DEF Handle, Exists, Requests
  <2> HIDE DEF d
  <2>3. /\ Sane(x, d) /\ Held(d) /\ d.type = "zombie" /\ d.rcvd = c.rcvd /\ d.got = c.got
        /\ d.flags = c.flags /\ d.wire = c.wire
    BY <1>1, <1>4, <1>8, <2>2, channel_input_open_failureSane
  <2>4. FromClient(d, s) = FromClient(cl, sv) /\ FromServer(d, s) = "any"
    BY <1>8, <2>3 DEF FromClient, FromServer
  <2>5. Silent(cl) /\ Len(sv.wire) = 1 BY <1>8 DEF Pair, Phase
  <2>6. Silent(s)
    <3>1. sv.wire \in Seq(Msg) BY <1>1, Fields
    <3> QED BY <1>3, <2>5, <3>1, TailOfOne DEF Silent
  <2>7. Silent(d) BY <1>4, <2>3, <2>5 DEF Silent
  <2>8. Phase(d, s) BY <1>3, <1>8, <2>3, <2>6, <2>7 DEF Phase
  <2> QED BY <1>4, <1>6, <2>3, <2>4, <2>8 DEF d, c, s
<1>9. CASE cl.type # "opening"
  <2>1. /\ cl.type \in {"open", "freed"} /\ sv.type \in {"larval", "open", "freed"}
        /\ cl.type = "freed" => "close_rcvd" \in cl.flags
        /\ sv.type = "freed" => "close_rcvd" \in sv.flags
    BY <1>9 DEF Pair, Phase
  <2>2. FromServer(cl, sv) = "any" /\ FromClient(cl, sv) = "any"
    BY <1>9 DEF FromServer, FromClient
  <2>3. \/ c.type \in {"larval", "open"}
        \/ c.type = "freed" /\ "client" = "client" /\ m.t = "keepalive"
    BY <1>2, <1>4, <2>1
  <2>4. Handled(x, c, d, m)
    BY <1>1, <1>2, <1>4, <1>5, <2>2, <2>3, HandleSane DEF Peer
  <2> HIDE DEF d
  <2>5. d.type = cl.type BY <1>4, <2>1, <2>4 DEF Handled
  <2>6. FromClient(d, s) = FromClient(cl, sv) /\ FromServer(d, s) = "any"
    BY <1>9, <2>2, <2>5 DEF FromServer, FromClient
  <2>7. d.type = "freed" => "close_rcvd" \in d.flags BY <1>4, <2>1, <2>4, <2>5 DEF Handled
  <2>8. Phase(d, s) BY <1>3, <2>1, <2>5, <2>7 DEF Phase
  <2> QED BY <1>4, <1>6, <2>4, <2>6, <2>8 DEF Handled, d, c, s
<1>10. cl.type = "opening" => sv.type \in {"larval", "open", "freed"} BY DEF Pair, Phase
<1> QED BY <1>7, <1>8, <1>9, <1>10 DEF d, c, s

(* The server handles a packet. *)
LEMMA ServerDispatch ==
  ASSUME NEW cl, NEW sv, Pair(cl, sv), ~Silent(cl), NEW ok \in BOOLEAN, NEW tty \in BOOLEAN
  PROVE  LET m == Head(cl.wire)
         IN  Pair(Taken(cl), Handle("server", Received(sv, m), m, ok, tty))
<1> DEFINE m == Head(cl.wire)
           c == Received(sv, m)
           d == Handle("server", c, m, ok, tty)
           s == Taken(cl)
           x == Ctx("server", cl, FromServer(cl, sv))
<1>1. /\ Sane(x, sv) /\ Held(cl) /\ Held(sv) /\ cl \in Chan /\ x.p = "server" /\ x.f = cl.flags
      /\ cl.type \in Opening => cl.flags = {}
  BY CtxFields DEF Pair, ClientSane, ServerSane, Sane, Basic
<1>2. /\ m \in Msg
      /\ m.t \in Granting => m.n >= 0
      /\ FromClient(cl, sv) # "any" => m.t = FromClient(cl, sv)
      /\ FromClient(cl, sv) = "any" => m.t \notin Setup
      /\ m.t # "keepalive"
      /\ "close_rcvd" \in sv.flags => m.t = "keepalive"
      /\ "eof_rcvd" \in sv.flags => m.t # "EXT"
  BY HeadFacts DEF Pair, ClientSane
<1>3. /\ s.type = cl.type /\ s.rcvd = cl.rcvd /\ s.got = cl.got /\ Deaf(cl, s) /\ Held(s)
      /\ s.flags = cl.flags /\ s.wire = Tail(cl.wire)
  BY <1>1, TakenFields, HoldsHeld DEF Holds
<1> HIDE DEF x
<1>4. /\ Sane(x, c) /\ c.type = sv.type /\ c.flags = sv.flags /\ c.wire = sv.wire
      /\ c.child = sv.child /\ c.detach_user = sv.detach_user
      /\ c.detach_close = sv.detach_close
      /\ c.rcvd = sv.rcvd + Data(m) /\ c.got = sv.got + Grant(m)
      /\ c.granted - c.rcvd + Data(m) <= c.local_window
      /\ c.remote_window + Grant(m) <= c.got - c.sent
  BY <1>1, <1>2, ReceivedSane
<1>5. Held(c) BY <1>1, <1>4 DEF Held
<1>6. ASSUME Sane(Ctx("server", cl, FromServer(s, d)), d), Held(d),
             d.rcvd = c.rcvd, d.got = c.got,
             "close_rcvd" \in d.flags => "close_rcvd" \in sv.flags \/ m.t = "CLOSE",
             "eof_rcvd" \in d.flags => "eof_rcvd" \in sv.flags \/ m.t = "EOF",
             FromClient(s, d) = "any", Phase(s, d)
      PROVE  Pair(s, d)
  <2> HIDE DEF d, c
  <2>1. ServerSane(s, d) BY <1>3, <1>6, OtherMoves DEF ServerSane
  <2>2. ClientSane(s, d)
    <3>1. d.rcvd = sv.rcvd + Data(m) /\ d.got = sv.got + Grant(m) BY <1>4, <1>6
    <3>2. Sane(Ctx("client", d, "any"), s) BY <1>6, <3>1, TakenSane DEF Pair, ClientSane
    <3> QED BY <1>3, <1>6, <3>2 DEF ClientSane
  <2> QED BY <1>6, <2>1, <2>2 DEF Pair
<1> HIDE DEF c, s
<1>7. CASE sv.type = "none"
  <2>1. cl.type = "opening" /\ Len(cl.wire) = 1 /\ Silent(sv) BY <1>7 DEF Pair, Phase
  <2>2. m.t = "OPEN" BY <1>2, <1>7, <2>1 DEF FromClient
  <2>3. d = server_input_channel_open(c, m.n, ok) BY <2>2 DEF Handle, Requests
  <2>4. m.n \in Nat /\ m.n <= c.got - c.sent
    <3> HIDE DEF m
    <3>1. m.n \in Int /\ m.n >= 0 BY <1>2, <2>2 DEF Msg, Granting
    <3>2. Grant(m) = m.n BY <2>2 DEF Grant, Granting
    <3>3. c \in Chan /\ 0 <= c.remote_window BY <1>4 DEF Sane, Windows
    <3>4. c.remote_window \in Int /\ c.got \in Int /\ c.sent \in Nat BY <3>3, Fields
    <3> QED BY <1>4, <3>1, <3>2, <3>3, <3>4
  <2>5. Silent(c) BY <1>4, <2>1 DEF Silent
  <2>6. "close_rcvd" \notin x.f BY <1>1, <2>1 DEF Opening
  <2> HIDE DEF d, m
  <2>7. /\ Held(d) /\ d.rcvd = c.rcvd /\ d.got = c.got /\ Deaf(c, d)
        /\ \/ d.type = "larval" /\ Sane(Expecting(x, "CONFIRM"), d)
           \/ d.type = "freed" /\ Sane(Expecting(x, "OPENFAIL"), d) /\ Len(d.wire) = 1
           \/ d.type = "connecting" /\ Sane(x, d) /\ Silent(d)
    BY <1>1, <1>4, <1>5, <1>7, <2>3, <2>4, <2>5, <2>6, server_input_channel_openSane
  <2>8. \A h : Expecting(x, h) = Ctx("server", cl, h) BY CtxFields DEF Expecting, Ctx, x
  <2>9. x = Ctx("server", cl, "any") BY <1>7 DEF x, FromServer
  <2>10. Silent(s)
    <3>1. cl.wire \in Seq(Msg) BY <1>1, Fields
    <3> QED BY <1>3, <2>1, <3>1, TailOfOne DEF Silent
  <2>11. Sane(Ctx("server", cl, FromServer(s, d)), d) /\ FromClient(s, d) = "any"
    BY <1>3, <2>1, <2>7, <2>8, <2>9 DEF FromServer, FromClient
  <2>12. Phase(s, d) BY <1>3, <2>1, <2>7, <2>10 DEF Phase
  <2>13. /\ "close_rcvd" \in d.flags => "close_rcvd" \in sv.flags
         /\ "eof_rcvd" \in d.flags => "eof_rcvd" \in sv.flags
    BY <1>4, <2>7 DEF Deaf
  <2>14. Pair(s, d) BY <1>6, <2>7, <2>11, <2>12, <2>13
  <2> QED BY <2>14 DEF d, m, c, s
<1>8. CASE sv.type # "none"
  <2>1. /\ cl.type \in {"open", "freed"} /\ sv.type \in {"larval", "open", "freed"}
        /\ cl.type = "freed" => "close_rcvd" \in cl.flags
        /\ sv.type = "freed" => "close_rcvd" \in sv.flags
    BY <1>8 DEF Pair, Phase
  <2>2. FromClient(cl, sv) = "any" /\ FromServer(cl, sv) = "any"
    BY <1>8, <2>1 DEF FromServer, FromClient
  <2>3. c.type \in {"larval", "open"} BY <1>2, <1>4, <2>1
  <2>4. Handled(x, c, d, m)
    BY <1>1, <1>2, <1>4, <1>5, <2>2, <2>3, HandleSane DEF Peer
  <2> HIDE DEF d, m
  <2>5. d.type \in {"larval", "open"} BY <2>3, <2>4 DEF Handled
  <2>6. FromClient(s, d) = "any" /\ FromServer(s, d) = "any"
    BY <1>3, <2>1, <2>5 DEF FromServer, FromClient
  <2>7. Phase(s, d) BY <1>3, <2>1, <2>5 DEF Phase
  <2>8. Sane(Ctx("server", cl, FromServer(s, d)), d) BY <2>2, <2>4, <2>6 DEF Handled, x
  <2>9. /\ "close_rcvd" \in d.flags => "close_rcvd" \in sv.flags \/ m.t = "CLOSE"
        /\ "eof_rcvd" \in d.flags => "eof_rcvd" \in sv.flags \/ m.t = "EOF"
    BY <1>4, <2>4 DEF Handled
  <2>10. Held(d) /\ d.rcvd = c.rcvd /\ d.got = c.got BY <2>4 DEF Handled
  <2>11. Pair(s, d) BY <1>6, <2>6, <2>7, <2>8, <2>9, <2>10
  <2> QED BY <2>11 DEF d, m, c, s
<1> QED BY <1>7, <1>8 DEF d, c, s
-----------------------------------------------------------------------------
(* The actions preserve the relation between the two ends. *)
Ends == Pair(ch["client"], ch["server"])

LEMMA ClientSteps ==
  ASSUME TypeOK, NEW d, ch' = [ch EXCEPT !["client"] = d], Pair(d, ch["server"]) PROVE Ends'
BY DEF TypeOK, Peer, Ends

LEMMA ServerSteps ==
  ASSUME TypeOK, NEW d, ch' = [ch EXCEPT !["server"] = d], Pair(ch["client"], d) PROVE Ends'
BY DEF TypeOK, Peer, Ends

LEMMA channel_send_openEnds == TypeOK /\ Ends /\ channel_send_open => Ends'
<1> SUFFICES ASSUME TypeOK, Ends, channel_send_open PROVE Ends'
  OBVIOUS
<1> DEFINE a == ch["client"]
           sv == ch["server"]
           b == kind \in Sessions
           mux == kind = "mux"
           c == channel_new(a, "opening", Window, b)
           r == channel_register_cleanup(c, "client", mux)
           e == [r EXCEPT !.efd = TRUE, !.extended_usage = "write"]
           s == IF kind \in Sessions THEN e ELSE c
           d == sshpkt_send(s, "OPEN", Window)
           x == Ctx("client", sv, "any")
<1>1. /\ a.type = "none" /\ ch' = [ch EXCEPT !["client"] = d]
  BY Zenon DEF channel_send_open
<1>2. Pair(a, sv) BY DEF Ends
<1>3. a \in Chan /\ Window \in Nat /\ Window \in Int /\ b \in BOOLEAN /\ mux \in BOOLEAN
  BY ChannelAssumption DEF TypeOK, Peer
<1> HIDE DEF a, sv, b, mux
<1>4. c \in Chan BY <1>3, channel_newType DEF ChannelType
<1>5. /\ c.type = "opening" /\ c.local_window = Window
      /\ c.have_remote_id = a.have_remote_id /\ c.remote_window = a.remote_window
      /\ c.child = a.child /\ c.flags = a.flags /\ c.wire = a.wire /\ c.sent = a.sent
      /\ c.granted = a.granted /\ c.rcvd = a.rcvd /\ c.got = a.got
      /\ c.local_consumed = a.local_consumed /\ c.output = a.output /\ c.extended = a.extended
      /\ c.died = a.died /\ c.istate = a.istate /\ c.ostate = a.ostate
  BY <1>3 DEF channel_new, Chan
<1> HIDE DEF c
<1>6. r \in Chan BY <1>3, <1>4, CleanupType
<1>7. e \in Chan
  <2> HIDE DEF r
  <2> QED BY <1>6, Zenon DEF Chan, ExtUsage
<1>8. /\ e.type = c.type /\ e.local_window = c.local_window
      /\ e.have_remote_id = c.have_remote_id /\ e.remote_window = c.remote_window
      /\ e.child = c.child /\ e.flags = c.flags /\ e.wire = c.wire /\ e.sent = c.sent
      /\ e.granted = c.granted /\ e.rcvd = c.rcvd /\ e.got = c.got
      /\ e.local_consumed = c.local_consumed /\ e.output = c.output /\ e.extended = c.extended
      /\ e.died = c.died /\ e.istate = c.istate /\ e.ostate = c.ostate
  BY <1>4 DEF channel_register_cleanup, Chan
<1> HIDE DEF e
<1>9. /\ s \in Chan /\ s.type = "opening" /\ s.local_window = Window
      /\ s.have_remote_id = a.have_remote_id /\ s.remote_window = a.remote_window
      /\ s.child = a.child /\ s.flags = a.flags /\ s.wire = a.wire /\ s.sent = a.sent
      /\ s.granted = a.granted /\ s.rcvd = a.rcvd /\ s.got = a.got
      /\ s.local_consumed = a.local_consumed /\ s.output = a.output /\ s.extended = a.extended
      /\ s.died = a.died /\ s.istate = a.istate /\ s.ostate = a.ostate
  BY <1>4, <1>5, <1>7, <1>8
<1> HIDE DEF s
<1>10. /\ sv.type = "none" /\ Silent(a) /\ Silent(sv)
  BY <1>1, <1>2 DEF Pair, Phase
<1>11. Sane(x, a) /\ Held(a) /\ x.p = "client" /\ x.f = sv.flags
  <2>1. FromClient(a, sv) = "any" BY <1>1 DEF FromClient
  <2> QED BY <1>2, <2>1, CtxFields DEF Pair, ClientSane
<1>12. sv.flags = {} BY <1>2, <1>10 DEF Pair, ServerSane, Sane, Basic, Opening
<1> HIDE DEF x
<1>13. /\ a.granted = 0 /\ a.local_consumed = 0 /\ a.output = 0 /\ a.extended = 0
       /\ 0 <= a.remote_window /\ a.remote_window <= a.got - a.sent
       /\ a.istate = "open" /\ a.ostate = "open" /\ a.flags = {} /\ a.died = FALSE
       /\ a.child = "none"
  BY <1>1, <1>11 DEF Sane, Windows, Basic, Unopened, Opening
<1>14. Windows(s)
  <2>1. a.rcvd \in Nat BY <1>3, Fields
  <2>2. s.granted - s.rcvd <= s.local_window BY <1>3, <1>9, <1>13, <2>1
  <2>3. s.local_window + s.local_consumed + s.output +
          (IF s.extended_usage = "write" THEN s.extended ELSE 0) <= Window
    BY <1>3, <1>9, <1>13
  <2> QED BY <1>9, <1>13, <2>2, <2>3 DEF Windows, Unopened
<1>15. Basic(x.p, s) BY <1>9, <1>11, <1>13 DEF Basic
<1>16. Wire(x, s) BY <1>9, <1>11, WireSame DEF Sane
<1>17. Sane(x, s) BY <1>9, <1>11, <1>14, <1>15, <1>16, SaneFrom
<1>18. Sane(Expecting(x, "OPEN"), d) /\ Rest(s, d) /\ Len(d.wire) = 1
  <2>1. "OPEN" \in Setup /\ s.type \notin Unopened BY <1>9 DEF Setup, Unopened
  <2>2. Silent(s) BY <1>9, <1>10 DEF Silent
  <2>3. s.granted = 0 /\ Window <= s.local_window BY <1>3, <1>9, <1>13
  <2>4. "close_rcvd" \notin x.f BY <1>11, <1>12
  <2> QED BY <1>3, <1>17, <2>1, <2>2, <2>3, <2>4, FirstSane
<1> HIDE DEF d
<1>19. /\ d.type = "opening" /\ d.flags = a.flags /\ d.rcvd = a.rcvd /\ d.got = a.got
       /\ d.child = "none"
  BY <1>9, <1>13, <1>18 DEF Rest
<1>20. FromClient(d, sv) = "OPEN" /\ FromServer(d, sv) = "any" /\ FromServer(a, sv) = "any"
  BY <1>1, <1>10, <1>19 DEF FromClient, FromServer
<1>21. ClientSane(d, sv)
  <2>1. Expecting(x, "OPEN") = Ctx("client", sv, "OPEN") BY DEF Expecting, Ctx, x
  <2>2. Held(d) BY <1>19 DEF Held
  <2> QED BY <1>18, <1>20, <2>1, <2>2 DEF ClientSane
<1>22. ServerSane(d, sv)
  <2>1. Deaf(a, d) BY <1>19 DEF Deaf
  <2> QED BY <1>2, <1>19, <1>20, <2>1, OtherMoves DEF Pair, ServerSane
<1>23. Phase(d, sv) BY <1>10, <1>18, <1>19 DEF Phase
<1>24. Pair(d, sv) BY <1>21, <1>22, <1>23 DEF Pair
<1> QED BY <1>1, <1>24, ClientSteps DEF sv

LEMMA DispatchEnds == ASSUME NEW p \in Peer PROVE TypeOK /\ Ends /\ Dispatch(p) => Ends'
<1> SUFFICES ASSUME TypeOK, Ends, Dispatch(p) PROVE Ends'
  OBVIOUS
<1> DEFINE cl == ch["client"]
           sv == ch["server"]
<1>1. Pair(cl, sv) BY DEF Ends
<1>2. CASE p = "client"
  <2> DEFINE m == Head(sv.wire)
  <2>1. ~Silent(sv) BY <1>2 DEF Dispatch, Other, Silent
  <2>2. PICK ok \in BOOLEAN, tty \in BOOLEAN :
          ch' = [ch EXCEPT !["server"].wire = Tail(@),
                           !["client"] = Handle("client", Received(cl, m), m, ok, tty)]
    BY <1>2, Zenon DEF Dispatch, Other
  <2> DEFINE d == Handle("client", Received(cl, m), m, ok, tty)
  <2>3. Pair(d, Taken(sv)) BY <1>1, <2>1, ClientDispatch
  <2> HIDE DEF d
  <2>4. ch' = [ch EXCEPT !["server"] = Taken(sv), !["client"] = d] BY <2>2, Zenon DEF Taken, d
  <2> DEFINE s == Taken(sv)
  <2> HIDE DEF s
  <2>5. ch' = [ch EXCEPT !["server"] = s, !["client"] = d] BY <2>4 DEF s
  <2>6. ch'["client"] = d /\ ch'["server"] = s BY <2>5 DEF TypeOK, Peer
  <2> QED BY <2>3, <2>6 DEF Ends, s
<1>3. CASE p = "server"
  <2> DEFINE m == Head(cl.wire)
  <2>1. ~Silent(cl) BY <1>3 DEF Dispatch, Other, Silent
  <2>2. PICK ok \in BOOLEAN, tty \in BOOLEAN :
          ch' = [ch EXCEPT !["client"].wire = Tail(@),
                           !["server"] = Handle("server", Received(sv, m), m, ok, tty)]
    BY <1>3, Zenon DEF Dispatch, Other
  <2> DEFINE d == Handle("server", Received(sv, m), m, ok, tty)
  <2>3. Pair(Taken(cl), d) BY <1>1, <2>1, ServerDispatch
  <2> HIDE DEF d
  <2>4. ch' = [ch EXCEPT !["client"] = Taken(cl), !["server"] = d] BY <2>2, Zenon DEF Taken, d
  <2> DEFINE s == Taken(cl)
  <2> HIDE DEF s
  <2>5. ch' = [ch EXCEPT !["client"] = s, !["server"] = d] BY <2>4 DEF s
  <2>6. ch'["server"] = d /\ ch'["client"] = s BY <2>5 DEF TypeOK, Peer
  <2> QED BY <2>3, <2>6 DEF Ends, s
<1> QED BY <1>2, <1>3 DEF Peer

LEMMA LoopEnds == ASSUME NEW p \in Peer PROVE TypeOK /\ Ends /\ Loop(p) => Ends'
<1> SUFFICES ASSUME TypeOK, Ends, Loop(p) PROVE Ends'
  OBVIOUS
<1> DEFINE cl == ch["client"]
           sv == ch["server"]
<1>1. PICK poll \in BOOLEAN, exits \in BOOLEAN : LoopStep(p, poll, exits) BY DEF Loop
<1> DEFINE b == LoopPre(ch[p], poll)
           e == IF exits THEN session_close_by_pid(b) ELSE b
<1>2. b \in Chan BY LoopPreType DEF TypeOK
<1>3. e \in Chan
  <2> HIDE DEF b
  <2> QED BY <1>2, session_close_by_pidType
<1>4. PICK io \in Ready(e, b) : ch' = [ch EXCEPT ![p] = LoopPost(b, exits, io)]
  BY <1>1, Zenon DEF LoopStep
<1>5. Exists(ch[p]) /\ (exits => b.child = "running") BY <1>1, Zenon DEF LoopStep
<1>6. io.rfd \in Int /\ io.wfd \in Int /\ io.efd \in Int
  <2> HIDE DEF b, e
  <2> QED BY <1>2, <1>3, <1>4, ReadyType
<1>7. Pair(cl, sv) BY DEF Ends
<1> HIDE DEF e
<1>8. CASE p = "client"
  <2> DEFINE d == LoopPost(LoopPre(cl, poll), exits, io)
  <2>1. Exists(cl) /\ (exits => LoopPre(cl, poll).child = "running") BY <1>5, <1>8
  <2>2. Pair(d, sv) BY <1>6, <1>7, <2>1, ClientLoops
  <2>3. ch' = [ch EXCEPT !["client"] = d] BY <1>4, <1>8
  <2> HIDE DEF d
  <2> QED BY <2>2, <2>3, ClientSteps
<1>9. CASE p = "server"
  <2> DEFINE d == LoopPost(LoopPre(sv, poll), exits, io)
  <2>1. Exists(sv) /\ (exits => LoopPre(sv, poll).child = "running") BY <1>5, <1>9
  <2>2. Pair(cl, d) BY <1>6, <1>7, <2>1, ServerLoops
  <2>3. ch' = [ch EXCEPT !["server"] = d] BY <1>4, <1>9
  <2> HIDE DEF d
  <2> QED BY <2>2, <2>3, ServerSteps
<1> QED BY <1>8, <1>9 DEF Peer

LEMMA ConnectedEnds ==
  ASSUME NEW cl, NEW c, Pair(cl, c), c.type = "connecting"
  PROVE  LET o == [c EXCEPT !.type = "open"]
         IN  Pair(cl, channel_garbage_collect(send_to_remote(o, "CONFIRM", o.local_window)))
<1> DEFINE o == [c EXCEPT !.type = "open"]
           n == c.local_window
           d == sshpkt_send(o, "CONFIRM", n)
           x == Ctx("server", cl, "any")
<1>1. cl.type = "opening" /\ Silent(cl) /\ Silent(c) BY DEF Pair, Phase
<1>2. Sane(x, c) /\ Held(c) /\ x.p = "server" /\ x.f = cl.flags
  <2>1. FromServer(cl, c) = "any" BY DEF FromServer
  <2> QED BY <2>1, CtxFields DEF Pair, ServerSane
<1>3. cl.flags = {} BY <1>1 DEF Pair, ClientSane, Sane, Basic, Opening
<1>4. c \in Chan BY <1>2 DEF Sane
<1>5. n \in Nat /\ c.granted = 0
  <2>1. n \in Int BY <1>4, Fields
  <2>2. n >= 0 /\ c.granted = 0 BY <1>2 DEF Sane, Windows, Unopened
  <2> QED BY <2>1, <2>2
<1>6. o \in Chan BY <1>4, Zenon DEF Chan, ChannelType
<1>7. /\ o.type = "open" /\ o.local_window = n /\ o.extended_usage = c.extended_usage
      /\ o.have_remote_id = c.have_remote_id /\ o.remote_window = c.remote_window
      /\ o.child = c.child /\ o.flags = c.flags /\ o.wire = c.wire /\ o.sent = c.sent
      /\ o.granted = c.granted /\ o.rcvd = c.rcvd /\ o.got = c.got
      /\ o.local_consumed = c.local_consumed /\ o.output = c.output /\ o.extended = c.extended
      /\ o.died = c.died /\ o.istate = c.istate /\ o.ostate = c.ostate
  BY <1>4 DEF Chan
<1>8. c.have_remote_id = TRUE /\ c.istate = "open" /\ c.child # "running" /\ c.flags = {}
  BY <1>2 DEF Sane, Basic, Held, Opening
<1>9. send_to_remote(o, "CONFIRM", o.local_window) = d BY <1>7, <1>8 DEF send_to_remote
<1> HIDE DEF x, o, n
<1>10. Windows(o)
  <2>1. Windows(c) BY <1>2 DEF Sane
  <2> QED BY <1>7, <2>1 DEF Windows, Unopened, n
<1>11. Basic(x.p, o) BY <1>2, <1>7, <1>8 DEF Sane, Basic, Opening
<1>12. Wire(x, o) BY <1>2, <1>7, WireSame DEF Sane
<1>13. Sane(x, o) BY <1>2, <1>6, <1>10, <1>11, <1>12, SaneFrom
<1>14. Sane(Expecting(x, "CONFIRM"), d) /\ Rest(o, d)
  <2>1. "CONFIRM" \in Setup /\ o.type \notin Unopened BY <1>7 DEF Setup, Unopened
  <2>2. Silent(o) BY <1>1, <1>7 DEF Silent
  <2>3. o.granted = 0 /\ n <= o.local_window BY <1>5, <1>7
  <2>4. "close_rcvd" \notin x.f BY <1>2, <1>3
  <2> QED BY <1>5, <1>13, <2>1, <2>2, <2>3, <2>4, FirstSane
<1> HIDE DEF d
<1>15. /\ d.type = "open" /\ d.istate = "open" /\ d.flags = c.flags /\ d.rcvd = c.rcvd
       /\ d.got = c.got /\ d.child # "running"
  BY <1>7, <1>8, <1>14 DEF Rest
<1>16. channel_garbage_collect(d) = d BY <1>15, CollectIdle
<1>17. FromServer(cl, d) = "CONFIRM" /\ FromClient(cl, d) = FromClient(cl, c)
  BY <1>1, <1>15 DEF FromClient, FromServer
<1>18. ServerSane(cl, d)
  <2>1. Expecting(x, "CONFIRM") = Ctx("server", cl, "CONFIRM") BY DEF Expecting, Ctx, x
  <2>2. Held(d) BY <1>15 DEF Held
  <2> QED BY <1>14, <1>17, <2>1, <2>2 DEF ServerSane
<1>19. ClientSane(cl, d)
  <2>1. Deaf(c, d) BY <1>15 DEF Deaf
  <2> QED BY <1>15, <1>17, <2>1, OtherMoves DEF Pair, ClientSane
<1>20. Phase(cl, d) BY <1>1, <1>15 DEF Phase
<1>21. Pair(cl, d) BY <1>18, <1>19, <1>20 DEF Pair
<1> QED BY <1>9, <1>16, <1>21 DEF o

LEMMA RefusedEnds ==
  ASSUME NEW cl, NEW c, Pair(cl, c), c.type = "connecting"
  PROVE  Pair(cl, channel_garbage_collect(chan_mark_dead(send_to_remote(c, "OPENFAIL", 0))))
<1> DEFINE s == sshpkt_send(c, "OPENFAIL", 0)
           z == chan_mark_dead(s)
           k == channel_cancel_cleanup(z)
           d == channel_garbage_collect(z)
           x == Ctx("server", cl, "any")
           y == Expecting(x, "OPENFAIL")
<1>1. cl.type = "opening" /\ Silent(cl) /\ Silent(c) BY DEF Pair, Phase
<1>2. Sane(x, c) /\ Held(c) /\ x.p = "server" /\ x.f = cl.flags
  <2>1. FromServer(cl, c) = "any" BY DEF FromServer
  <2> QED BY <2>1, CtxFields DEF Pair, ServerSane
<1>3. cl.flags = {} BY <1>1 DEF Pair, ClientSane, Sane, Basic, Opening
<1>4. c.have_remote_id = TRUE /\ c.died = FALSE /\ c.child # "running" /\ c.flags = {}
  BY <1>2 DEF Sane, Basic, Held, Opening
<1>5. send_to_remote(c, "OPENFAIL", 0) = s BY <1>4 DEF send_to_remote
<1> HIDE DEF x
<1>6. Sane(y, s) /\ Rest(c, s) /\ Len(s.wire) = 1
  <2>1. "OPENFAIL" \in Setup /\ "OPENFAIL" \notin Granting BY DEF Setup, Granting
  <2>2. "close_rcvd" \notin x.f BY <1>2, <1>3
  <2> QED BY <1>1, <1>2, <2>1, <2>2, FirstSane
<1>7. y.p = "server" BY <1>2 DEF Expecting
<1>8. y = Ctx("server", cl, "OPENFAIL") BY DEF Expecting, Ctx, x
<1> HIDE DEF s, y
<1>9. s \in Chan /\ y.r \in Nat /\ y.o \in Int /\ Windows(s) /\ Wire(y, s) BY <1>6 DEF Sane
<1>10. s.died = FALSE /\ s.child # "running" /\ s.flags = {} /\ s.rcvd = c.rcvd /\ s.got = c.got
  BY <1>4, <1>6 DEF Rest
<1>11. z \in Chan BY <1>9, chan_mark_deadType
<1>12. /\ z.type = "zombie" /\ z.local_window = s.local_window
       /\ z.extended_usage = s.extended_usage /\ z.remote_window = s.remote_window
       /\ z.child = s.child /\ z.flags = s.flags /\ z.wire = s.wire /\ z.sent = s.sent
       /\ z.granted = s.granted /\ z.rcvd = s.rcvd /\ z.got = s.got
       /\ z.local_consumed = s.local_consumed /\ z.output = s.output /\ z.extended = s.extended
       /\ z.died = s.died
  BY <1>9 DEF Chan, chan_mark_dead
<1> HIDE DEF z
<1>13. Windows(z) BY <1>9, <1>12 DEF Windows, Unopened
<1>14. Wire(y, z) BY <1>9, <1>12, WireSame
<1>15. k \in Chan BY <1>11, CleanupType DEF channel_cancel_cleanup
<1>16. /\ k.type = z.type /\ k.local_window = z.local_window
       /\ k.extended_usage = z.extended_usage /\ k.remote_window = z.remote_window
       /\ k.child = z.child /\ k.flags = z.flags /\ k.wire = z.wire /\ k.sent = z.sent
       /\ k.granted = z.granted /\ k.rcvd = z.rcvd /\ k.got = z.got
       /\ k.local_consumed = z.local_consumed /\ k.output = z.output /\ k.extended = z.extended
       /\ k.died = z.died
  BY <1>11 DEF Chan, channel_cancel_cleanup, channel_register_cleanup
<1>17. d = channel_free(z) \/ d = channel_free(k) BY <1>10, <1>11, <1>12, CollectZombie
<1> HIDE DEF k
<1>18. Windows(k) BY <1>13, <1>16 DEF Windows
<1>19. Wire(y, k) BY <1>14, <1>16, WireSame
<1>20. \A u \in {z, k} :
         LET v == channel_free(u)
         IN  /\ Sane(y, v) /\ Held(v) /\ v.type = "freed" /\ v.rcvd = c.rcvd /\ v.got = c.got
             /\ v.flags = c.flags /\ v.wire = s.wire
  <2> SUFFICES ASSUME NEW u \in {z, k}
               PROVE  LET v == channel_free(u)
                      IN  /\ Sane(y, v) /\ Held(v) /\ v.type = "freed" /\ v.rcvd = c.rcvd
                          /\ v.got = c.got /\ v.flags = c.flags /\ v.wire = s.wire
    OBVIOUS
  <2>1. /\ u \in Chan /\ Windows(u) /\ Wire(y, u) /\ u.died = FALSE /\ u.child # "running"
        /\ u.flags = c.flags /\ u.flags = {} /\ u.wire = s.wire
        /\ u.rcvd = c.rcvd /\ u.got = c.got
    BY <1>4, <1>10, <1>11, <1>12, <1>13, <1>14, <1>15, <1>16, <1>18, <1>19
  <2>2. "close_sent" \notin u.flags BY <2>1
  <2> QED BY <1>7, <1>9, <2>1, <2>2, FreedSane
<1>21. /\ Sane(y, d) /\ Held(d) /\ d.type = "freed" /\ d.rcvd = c.rcvd /\ d.got = c.got
       /\ d.flags = c.flags /\ Len(d.wire) = 1
  BY <1>6, <1>17, <1>20
<1> HIDE DEF d
<1>22. FromServer(cl, d) = "OPENFAIL" /\ FromClient(cl, d) = FromClient(cl, c)
  BY <1>1, <1>21 DEF FromClient, FromServer
<1>23. ServerSane(cl, d) BY <1>8, <1>21, <1>22 DEF ServerSane
<1>24. ClientSane(cl, d)
  <2>1. Deaf(c, d) BY <1>21 DEF Deaf
  <2> QED BY <1>21, <1>22, <2>1, OtherMoves DEF Pair, ClientSane
<1>25. Phase(cl, d) BY <1>1, <1>21 DEF Phase
<1>26. Pair(cl, d) BY <1>23, <1>24, <1>25 DEF Pair
<1> QED BY <1>5, <1>26 DEF d, z

LEMMA channel_post_connectingEnds == TypeOK /\ Ends /\ channel_post_connecting => Ends'
<1> SUFFICES ASSUME TypeOK, Ends, channel_post_connecting PROVE Ends'
  OBVIOUS
<1> DEFINE c == ch["server"]
           o == [c EXCEPT !.type = "open"]
           d == channel_garbage_collect(send_to_remote(o, "CONFIRM", o.local_window))
           e == channel_garbage_collect(chan_mark_dead(send_to_remote(c, "OPENFAIL", 0)))
<1>1. c.type = "connecting" BY DEF channel_post_connecting
<1>2. ch' = [ch EXCEPT !["server"] = d] \/ ch' = [ch EXCEPT !["server"] = e]
  BY Zenon DEF channel_post_connecting
<1>3. Pair(ch["client"], d) BY <1>1, ConnectedEnds DEF Ends
<1>4. Pair(ch["client"], e) BY <1>1, RefusedEnds DEF Ends
<1> HIDE DEF d, e
<1> QED BY <1>2, <1>3, <1>4, ServerSteps

LEMMA mux_master_control_cleanup_cbEnds ==
  TypeOK /\ Ends /\ mux_master_control_cleanup_cb => Ends'
<1> SUFFICES ASSUME TypeOK, Ends, mux_master_control_cleanup_cb PROVE Ends'
  OBVIOUS
<1> DEFINE c == ch["client"]
           sv == ch["server"]
           r == chan_read_failed(c)
           w == IF r.ostate = "open" THEN chan_write_failed(r) ELSE r
           x == Ctx("client", sv, FromClient(c, sv))
<1>1. c.type = "open" BY DEF mux_master_control_cleanup_cb
<1>2. ch' = [ch EXCEPT !["client"] = w] BY Zenon DEF mux_master_control_cleanup_cb
<1>3. Pair(c, sv) /\ Sane(x, c) BY DEF Ends, Pair, ClientSane
<1> HIDE DEF x
<1>4. Keeps(x, c, r) BY <1>1, <1>3, chan_read_failedKeeps DEF Opening
<1> HIDE DEF r
<1>5. Sane(x, r) /\ r.type = "open" BY <1>1, <1>4 DEF Keeps, Holds
<1>6. Keeps(x, r, w) BY <1>5, chan_write_failedKeeps, KeepsSelf
<1> HIDE DEF w
<1>7. Keeps(x, c, w) BY <1>4, <1>6, KeepsBoth
<1>8. Pair(w, sv) BY <1>1, <1>3, <1>7, ClientKeeps DEF x
<1> QED BY <1>2, <1>8, ClientSteps

LEMMA channel_send_window_changesEnds ==
  TypeOK /\ Ends /\ channel_send_window_changes => Ends'
<1> SUFFICES ASSUME TypeOK, Ends, channel_send_window_changes PROVE Ends'
  OBVIOUS
<1> DEFINE c == ch["client"]
           sv == ch["server"]
           d == send_to_remote(c, "window-change", 0)
           x == Ctx("client", sv, FromClient(c, sv))
<1>1. c.type = "open" /\ c.istate = "open" BY DEF channel_send_window_changes
<1>2. ch' = [ch EXCEPT !["client"] = d] BY Zenon DEF channel_send_window_changes
<1>3. Pair(c, sv) /\ Sane(x, c) BY DEF Ends, Pair, ClientSane
<1> HIDE DEF x
<1>4. c.have_remote_id = TRUE /\ "close_sent" \notin c.flags BY <1>1, <1>3 DEF Sane, Basic
<1>5. "window-change" \in Plain /\ "window-change" # "keepalive"
  BY DEF Plain, MsgType, Setup, Carrying, Granting
<1>6. Keeps(x, c, d) BY <1>3, <1>4, <1>5, SendKeeps
<1> HIDE DEF d
<1>7. Pair(d, sv) BY <1>1, <1>3, <1>6, ClientKeeps DEF x
<1> QED BY <1>2, <1>7, ClientSteps

LEMMA client_alive_checkEnds == TypeOK /\ Ends /\ client_alive_check => Ends'
<1> SUFFICES ASSUME TypeOK, Ends, client_alive_check PROVE Ends'
  OBVIOUS
<1> DEFINE cl == ch["client"]
           c == ch["server"]
           d == send_to_remote(c, "keepalive", 0)
           x == Ctx("server", cl, FromServer(cl, c))
<1>1. c.type \in {"larval", "open"} BY DEF client_alive_check
<1>2. ch' = [ch EXCEPT !["server"] = d] BY Zenon DEF client_alive_check
<1>3. Pair(cl, c) /\ Sane(x, c) /\ x.p = "server" BY CtxFields DEF Ends, Pair, ServerSane
<1> HIDE DEF x
<1>4. c.have_remote_id = TRUE BY <1>1, <1>3 DEF Sane, Basic
<1>5. "keepalive" \in Plain BY DEF Plain, MsgType, Setup, Carrying, Granting
<1>6. Keeps(x, c, d) BY <1>3, <1>4, <1>5, SendKeeps
<1> HIDE DEF d
<1>7. Pair(cl, d) BY <1>1, <1>3, <1>6, ServerKeeps DEF x
<1> QED BY <1>2, <1>7, ServerSteps

LEMMA InitEnds == Init => Ends
<1> SUFFICES ASSUME Init PROVE Ends
  OBVIOUS
<1> DEFINE c == NoChan
<1>1. ch["client"] = c /\ ch["server"] = c BY DEF Init, Peer
<1>2. c \in Chan
  <2>1. TypeOK BY InitType
  <2> QED BY <1>1, <2>1 DEF TypeOK, Peer
<1>3. /\ c.type = "none" /\ c.istate = "open" /\ c.ostate = "open" /\ c.flags = {}
      /\ c.output = 0 /\ c.extended = 0 /\ c.local_window = 0 /\ c.local_consumed = 0
      /\ c.remote_window = 0 /\ c.child = "none" /\ c.died = FALSE /\ c.sent = 0
      /\ c.granted = 0 /\ c.rcvd = 0 /\ c.got = 0 /\ c.wire = <<>>
  BY DEF NoChan
<1> HIDE DEF c
<1>4. Windows(c) BY <1>3, ChannelAssumption DEF Windows
<1>5. \A p : Basic(p, c) BY <1>3 DEF Basic
<1>6. Totals(c.wire, c.sent, c.granted, 0, 0)
  <2> DEFINE w == c.wire
  <2>1. w = <<>> /\ Len(w) = 0 BY <1>3
  <2> HIDE DEF w
  <2>2. Totals(w, 0, 0, 0, 0) BY <2>1 DEF Totals
  <2> QED BY <1>3, <2>2 DEF w
<1>7. \A p : Order(p, c.wire, c.flags, c.flags, "any")
  <2> DEFINE w == c.wire  f == c.flags
  <2>1. Len(w) = 0 /\ f = {} BY <1>3
  <2> HIDE DEF w, f
  <2>2. \A p : Order(p, w, f, f, "any") BY <2>1 DEF Order
  <2> QED BY <2>2 DEF w, f
<1>8. Held(c) BY <1>3 DEF Held
<1>9. \A p : Sane(Ctx(p, c, "any"), c)
  <2> SUFFICES ASSUME NEW p PROVE Sane(Ctx(p, c, "any"), c)
    OBVIOUS
  <2> DEFINE x == Ctx(p, c, "any")
  <2>1. x.p = p /\ x.r = 0 /\ x.o = 0 /\ x.f = c.flags /\ x.h = "any" BY <1>3, CtxFields
  <2> HIDE DEF x
  <2>2. Sane(x, c) BY <1>2, <1>4, <1>5, <1>6, <1>7, <2>1 DEF Sane, Wire
  <2> QED BY <2>2 DEF x
<1>10. FromClient(c, c) = "any" /\ FromServer(c, c) = "any" BY <1>3 DEF FromClient, FromServer
<1>11. Phase(c, c) BY <1>3 DEF Phase, Silent
<1>12. Pair(c, c) BY <1>8, <1>9, <1>10, <1>11 DEF Pair, ClientSane, ServerSane
<1> QED BY <1>1, <1>12 DEF Ends

(* The two ends are related as Pair says in every state. *)
LEMMA EndsAlways == Spec => [](TypeOK /\ Ends)
<1>1. TypeOK /\ Ends /\ [Next]_vars => Ends'
  <2> SUFFICES ASSUME TypeOK, Ends, [Next]_vars PROVE Ends'
    OBVIOUS
  <2>1. CASE channel_send_open BY <2>1, channel_send_openEnds
  <2>2. CASE \E p \in Peer : Dispatch(p) BY <2>2, DispatchEnds
  <2>3. CASE \E p \in Peer : Loop(p) BY <2>3, LoopEnds
  <2>4. CASE channel_post_connecting BY <2>4, channel_post_connectingEnds
  <2>5. CASE mux_master_control_cleanup_cb BY <2>5, mux_master_control_cleanup_cbEnds
  <2>6. CASE channel_send_window_changes BY <2>6, channel_send_window_changesEnds
  <2>7. CASE client_alive_check BY <2>7, client_alive_checkEnds
  <2>8. CASE UNCHANGED vars BY <2>8 DEF vars, Ends
  <2> QED BY <2>1, <2>2, <2>3, <2>4, <2>5, <2>6, <2>7, <2>8 DEF Next
<1> QED BY InitEnds, TypeCorrect, <1>1, PTL DEF Spec

(* What the relation says of the windows in one direction: c sends, o receives. *)
LEMMA WindowsOf ==
  ASSUME NEW p, NEW q, NEW h, NEW g, NEW c, NEW o,
         Sane(Ctx(p, o, h), c), Sane(Ctx(q, c, g), o)
  PROVE  /\ c.remote_window \in 0 .. Window
         /\ \A i \in 1 .. Len(c.wire) : c.wire[i].t \in Carrying =>
              /\ c.wire[i].n <= MaxPacket
              /\ o.type \notin Unopened
              /\ c.wire[i].sent - o.rcvd <= o.local_window
<1> DEFINE x == Ctx(p, o, h)  y == Ctx(q, c, g)
<1>1. x.r = o.rcvd /\ x.o = o.got /\ y.r = c.rcvd /\ y.o = c.got BY CtxFields
<1>2. Sane(x, c) /\ Sane(y, o) OBVIOUS
<1> HIDE DEF x, y
<1>3. /\ c \in Chan /\ o \in Chan /\ Windows(c) /\ Windows(o)
      /\ Totals(c.wire, c.sent, c.granted, o.rcvd, o.got)
      /\ Totals(o.wire, o.sent, o.granted, c.rcvd, c.got)
  BY <1>1, <1>2 DEF Sane, Wire
<1>4. /\ c.sent \in Nat /\ c.got \in Int /\ c.remote_window \in Int /\ c.wire \in Seq(Msg)
      /\ o.rcvd \in Nat /\ o.granted \in Int /\ o.local_window \in Int
      /\ o.local_consumed \in Nat /\ o.output \in Nat /\ o.extended \in Nat
  BY <1>3, Fields
<1>5. /\ 0 <= c.remote_window /\ c.remote_window <= c.got - c.sent
      /\ o.granted - o.rcvd <= o.local_window
      /\ o.type \in Unopened => o.granted = 0
      /\ o.local_window + o.local_consumed + o.output +
           (IF o.extended_usage = "write" THEN o.extended ELSE 0) <= Window
  BY <1>3 DEF Windows
<1>6. c.got <= o.granted /\ o.rcvd <= c.sent BY <1>3 DEF Totals
<1>7. o.local_window <= Window
  <2> DEFINE e == IF o.extended_usage = "write" THEN o.extended ELSE 0
  <2>1. e \in Nat BY <1>4
  <2> HIDE DEF e
  <2>2. o.local_window + o.local_consumed + o.output + e <= Window BY <1>5 DEF e
  <2> QED BY <1>4, <2>1, <2>2, ChannelAssumption
<1>8. c.remote_window \in 0 .. Window
  <2>1. Window \in Int BY ChannelAssumption
  <2>2. c.remote_window <= o.granted - o.rcvd BY <1>4, <1>5, <1>6
  <2>3. c.remote_window <= Window BY <1>4, <1>5, <1>7, <2>1, <2>2
  <2> QED BY <1>4, <1>5, <2>1, <2>3
<1>9. ASSUME NEW i \in 1 .. Len(c.wire), c.wire[i].t \in Carrying
      PROVE  /\ c.wire[i].n <= MaxPacket
             /\ o.type \notin Unopened
             /\ c.wire[i].sent - o.rcvd <= o.local_window
  <2> DEFINE m == c.wire[i]
  <2>1. m.n \in Int /\ m.sent \in Nat BY <1>4, MsgFields
  <2>2. m.n \in 1 .. MaxPacket /\ m.sent <= c.sent /\ o.rcvd + Data(m) <= m.sent
    BY <1>3, <1>9 DEF Totals
  <2>3. Data(m) = m.n BY <1>9 DEF Data
  <2> HIDE DEF m
  <2>4. m.n <= MaxPacket /\ 1 <= m.n /\ MaxPacket \in Int BY <2>2, ChannelAssumption
  <2>5. 1 <= m.sent BY <1>4, <2>1, <2>2, <2>3, <2>4
  <2>6. m.sent <= o.granted BY <1>4, <1>5, <1>6, <2>1, <2>2
  <2>7. o.type \notin Unopened BY <1>4, <1>5, <2>1, <2>5, <2>6
  <2>8. m.sent - o.rcvd <= o.local_window BY <1>4, <1>5, <2>1, <2>6
  <2> QED BY <2>4, <2>7, <2>8 DEF m
<1> QED BY <1>8, <1>9

(* Flow control (channels.c): neither end ever believes it may send more   *)
(* than one window, no data is on its way that is longer than a packet, to *)
(* an end that has not opened its window yet, or beyond what the receiving *)
(* end can still take; for all window, packet and read sizes.              *)
THEOREM WindowsKept == Spec => []WindowRespected
<1>1. TypeOK /\ Ends => WindowRespected
  <2> SUFFICES ASSUME TypeOK, Ends PROVE WindowRespected
    OBVIOUS
  <2> DEFINE W(c, o) ==
        /\ c.remote_window \in 0 .. Window
        /\ \A i \in 1 .. Len(c.wire) : c.wire[i].t \in Carrying =>
             /\ c.wire[i].n <= MaxPacket
             /\ o.type \notin Unopened
             /\ c.wire[i].sent - o.rcvd <= o.local_window
  <2>1. W(ch["client"], ch["server"]) /\ W(ch["server"], ch["client"])
    BY WindowsOf DEF Ends, Pair, ClientSane, ServerSane
  <2>2. \A p \in Peer : ch[p].wire \in Seq(Msg) BY Fields DEF TypeOK
  <2>3. \A p \in Peer : DOMAIN ch[p].wire = 1 .. Len(ch[p].wire) BY <2>2
  <2>4. \A p \in Peer : W(ch[p], ch[Other(p)]) BY <2>1 DEF Peer, Other
  <2> SUFFICES ASSUME NEW p \in Peer
               PROVE  LET q == Other(p) IN
                 /\ ch[p].remote_window \in 0 .. Window
                 /\ \A m \in InFlight(p) : m.t \in Carrying =>
                      /\ m.n <= MaxPacket
                      /\ ch[q].type \notin {"none", "larval", "connecting"}
                      /\ ch[q].type \in {"opening", "open"} =>
                           m.sent - ch[q].rcvd <= ch[q].local_window
    BY DEF WindowRespected
  <2>5. W(ch[p], ch[Other(p)]) BY <2>4
  <2> QED BY <2>3, <2>5 DEF InFlight, Unopened
<1> QED BY EndsAlways, <1>1, PTL

(* The wire of end c, whose peer is o, as its order says. *)
Orderly(c, o) ==
  /\ c.died = FALSE
  /\ \A i, j \in 1 .. Len(c.wire) :
       i < j /\ c.wire[i].t = "CLOSE" => c.wire[j].t = "keepalive"
  /\ "close_rcvd" \in o.flags => \A i \in 1 .. Len(c.wire) : c.wire[i].t = "keepalive"

LEMMA OrderOf ==
  ASSUME NEW p, NEW h, NEW o, NEW c, Sane(Ctx(p, o, h), c) PROVE Orderly(c, o)
<1> DEFINE x == Ctx(p, o, h)
<1>1. x.f = o.flags BY CtxFields
<1>2. Sane(x, c) OBVIOUS
<1> HIDE DEF x
<1>3. c.died = FALSE BY <1>2 DEF Sane, Basic
<1>4. Order(x.p, c.wire, c.flags, o.flags, x.h) BY <1>1, <1>2 DEF Sane, Wire
<1> QED BY <1>3, <1>4 DEF Order, Orderly

(* The protocol is kept (channels.c, nchan.c): neither end ever treats     *)
(* what the other sends as an error and disconnects, nothing but a         *)
(* keepalive follows a CLOSE, and nothing but a keepalive is on its way to *)
(* a channel that has been freed; for all window, packet and read sizes.   *)
THEOREM ProtocolSafe == Spec => []ProtocolKept
<1>1. TypeOK /\ Ends => ProtocolKept
  <2> SUFFICES ASSUME TypeOK, Ends PROVE ProtocolKept
    OBVIOUS
  <2> DEFINE O(c, o) ==
        /\ c.died = FALSE
        /\ \A i, j \in 1 .. Len(c.wire) :
             i < j /\ c.wire[i].t = "CLOSE" => c.wire[j].t = "keepalive"
        /\ o.type = "freed" => \A i \in 1 .. Len(c.wire) : c.wire[i].t = "keepalive"
  <2>1. O(ch["client"], ch["server"]) /\ O(ch["server"], ch["client"])
    <3> DEFINE cl == ch["client"]  sv == ch["server"]
    <3>1. Pair(cl, sv) BY DEF Ends
    <3> HIDE DEF cl, sv
    <3>2. Orderly(cl, sv) BY <3>1, OrderOf DEF Pair, ClientSane
    <3>3. Orderly(sv, cl) BY <3>1, OrderOf DEF Pair, ServerSane
    <3>4. sv.type = "freed" => Len(cl.wire) = 0 \/ "close_rcvd" \in sv.flags
      BY <3>1 DEF Pair, Phase, Silent
    <3>5. cl.type = "freed" => Len(sv.wire) = 0 \/ "close_rcvd" \in cl.flags
      BY <3>1 DEF Pair, Phase, Silent
    <3>6. O(cl, sv) BY <3>2, <3>4 DEF Orderly
    <3>7. O(sv, cl) BY <3>3, <3>5 DEF Orderly
    <3> QED BY <3>6, <3>7 DEF cl, sv
  <2>2. \A p \in Peer : ch[p].wire \in Seq(Msg) BY Fields DEF TypeOK
  <2>3. \A p \in Peer : DOMAIN ch[p].wire = 1 .. Len(ch[p].wire) BY <2>2
  <2>4. \A p \in Peer : Other(p) \in Peer /\ O(ch[p], ch[Other(p)]) /\ O(ch[Other(p)], ch[p])
    BY <2>1 DEF Peer, Other
  <2> HIDE DEF O
  <2>5. NoProtocolError BY <2>4 DEF NoProtocolError, O
  <2>6. CloseIsLast
    <3> SUFFICES ASSUME NEW p \in Peer,
                        NEW i \in 1 .. Len(ch[p].wire), NEW j \in 1 .. Len(ch[p].wire),
                        i < j, ch[p].wire[i].t = "CLOSE"
                 PROVE  ch[p].wire[j].t = "keepalive"
      BY <2>3, Zenon DEF CloseIsLast
    <3> QED BY <2>4 DEF O
  <2>7. FreedIsQuiet BY <2>3, <2>4 DEF FreedIsQuiet, InFlight, O
  <2> QED BY <2>5, <2>6, <2>7 DEF ProtocolKept
<1> QED BY EndsAlways, <1>1, PTL
-----------------------------------------------------------------------------
(***************************************************************************)
(* Completeness.  An account of what end c has read from its descriptors,  *)
(* in the view y of its peer: everything is buffered, on the wire or has   *)
(* arrived, as long as the peer's output was not cut.                      *)
(***************************************************************************)

(* What c has to know of its peer o: whether its output was cut, the bytes *)
(* it has of c's input, its flags, what it has received, and whether it    *)
(* knows the exit status.                                                  *)
Seen(o) ==
  [cut |-> o.cut, base |-> o.nwritten + o.output, f |-> o.flags, r |-> o.rcvd,
   exit |-> o.exit_rcvd]

(* The bytes of stderr that are to be sent, and those that were read. *)
Stderr(c) == IF c.extended_usage = "read" THEN c.extended ELSE 0
StderrRead(c) == IF c.extended_usage = "read" THEN c.eread ELSE 0

(* All that was read was sent or is still to be sent; once the input side  *)
(* is closed nothing is, and a larval channel was closed by the peer.      *)
Balanced(c) == c.sent + c.input + Stderr(c) = c.nread + StderrRead(c)
Drained(c) ==
  c.istate = "closed" =>
    /\ c.input = 0
    /\ c.extended_usage = "read" => c.extended = 0 /\ c.efd = FALSE
    /\ c.type = "larval" => "close_rcvd" \in c.flags

(* What holds of the end itself.  Its output side was closed because the   *)
(* peer said so, or cut; nothing was read or is kept before the channel is *)
(* open; the EOF was sent when the input side was closed.                  *)
Local(y, c) ==
  /\ c.ostate # "open" /\ c.cut = FALSE => "eof_rcvd" \in c.flags \/ "close_rcvd" \in c.flags
  /\ c.ostate = "closed" => c.output = 0
  /\ c.type \notin {"open", "freed"} =>
       /\ c.input = 0 /\ c.output = 0 /\ c.extended = 0 /\ c.eread = 0
       /\ c.extended_usage # "read"
  /\ "eof_sent" \in c.flags => c.istate = "closed"
  /\ y.cut = FALSE => Balanced(c) /\ Drained(c)

(* The exit status is on wire w, and no CLOSE before it. *)
ExitAhead(w) ==
  \E i \in 1 .. Len(w) : w[i].t = "exit" /\ \A j \in 1 .. i : w[j].t # "CLOSE"

(* The bytes of DATA along wire w, from the base that has arrived to the   *)
(* total that was sent: at[i] are those up to the i-th message.  Nothing   *)
(* follows an EOF, and nothing is left if the EOF has arrived (over).      *)
Load(m) == IF m.t = "DATA" THEN m.n ELSE 0
Along(at, w, base, total, over) ==
  /\ at[0] = base /\ at[Len(w)] = total
  /\ \A i \in 1 .. Len(w) : at[i] = at[i - 1] + Load(w[i])
  /\ \A i \in 1 .. Len(w) : w[i].t = "EOF" => \A j \in i .. Len(w) : at[j] = total
  /\ over => \A j \in 0 .. Len(w) : at[j] = total
Flow(w, base, total, over) ==
  \E at \in [0 .. Len(w) -> Nat] : Along(at, w, base, total, over)

(* What holds of the wire.  An eow says that the output was cut, an EOF    *)
(* that all has been sent; the status of a reaped process is known or will *)
(* be before the CLOSE.                                                    *)
Wired(y, c) ==
  /\ \A i \in 1 .. Len(c.wire) :
       /\ c.wire[i].t = "eow" => c.cut = TRUE
       /\ c.wire[i].t = "EOF" => c.wire[i].sent = c.sent /\ "eof_sent" \in c.flags
  /\ "eof_rcvd" \in y.f => y.r = c.sent /\ "eof_sent" \in c.flags
  /\ c.child = "reaped" => y.exit = TRUE \/ ExitAhead(c.wire)
  /\ y.cut = FALSE => Flow(c.wire, y.base, c.nread - c.input, "eof_rcvd" \in y.f)

Account(y, c) == Local(y, c) /\ Wired(y, c)

LEMMA FlowAppend ==
  ASSUME NEW w \in Seq(Msg), NEW base, NEW total, NEW over, Flow(w, base, total, over),
         NEW m \in Msg, m.t = "DATA" => ~over /\ \A i \in 1 .. Len(w) : w[i].t # "EOF"
  PROVE  Flow(Append(w, m), base, total + Load(m), over)
<1> DEFINE v == Append(w, m)  L == Len(w)  n == Load(m)
<1>1. v \in Seq(Msg) /\ Len(v) = L + 1 /\ v[L + 1] = m /\ L \in Nat OBVIOUS
<1>2. \A i \in 1 .. L : v[i] = w[i] OBVIOUS
<1>3. n \in Nat /\ (m.t # "DATA" => n = 0) BY DEF Load, Msg, Carrying
<1>4. PICK at \in [0 .. L -> Nat] : Along(at, w, base, total, over) BY DEF Flow
<1>0. total \in Nat
  <2>1. L \in 0 .. L /\ at[L] = total BY <1>1, <1>4 DEF Along
  <2> QED BY <2>1
<1> HIDE DEF v, L, n
<1> DEFINE bt == [i \in 0 .. L + 1 |-> IF i = L + 1 THEN total + n ELSE at[i]]
<1>5. bt \in [0 .. L + 1 -> Nat] BY <1>0, <1>1, <1>3
<1>6. bt[L + 1] = total + n /\ \A i \in 0 .. L : bt[i] = at[i] BY <1>1
<1> HIDE DEF bt
<1>7. at[0] = base /\ at[L] = total BY <1>4 DEF Along, L
<1>8. bt[0] = base BY <1>1, <1>6, <1>7
<1>9. \A i \in 1 .. L + 1 : bt[i] = bt[i - 1] + Load(v[i])
  <2> SUFFICES ASSUME NEW i \in 1 .. L + 1 PROVE bt[i] = bt[i - 1] + Load(v[i]) OBVIOUS
  <2>1. CASE i = L + 1 BY <1>1, <1>6, <1>7, <2>1 DEF n
  <2>2. CASE i \in 1 .. L
    <3>1. at[i] = at[i - 1] + Load(w[i]) BY <1>4, <2>2 DEF Along, L
    <3>2. bt[i] = at[i] /\ bt[i - 1] = at[i - 1] BY <1>1, <1>6, <2>2
    <3> QED BY <1>2, <2>2, <3>1, <3>2
  <2> QED BY <1>1, <2>1, <2>2
<1>10. \A i \in 1 .. L + 1 : v[i].t = "EOF" => \A j \in i .. L + 1 : bt[j] = total + n
  <2> SUFFICES ASSUME NEW i \in 1 .. L + 1, v[i].t = "EOF", NEW j \in i .. L + 1 PROVE bt[j] = total + n
    OBVIOUS
  <2>1. CASE j = L + 1 BY <1>6, <2>1
  <2>2. CASE j # L + 1
    <3>1. i \in 1 .. L /\ j \in i .. L /\ j \in 0 .. L BY <1>1, <2>2
    <3>2. w[i].t = "EOF" BY <1>2, <3>1
    <3>3. at[j] = total BY <1>4, <3>1, <3>2 DEF Along, L
    <3>4. n = 0 BY <1>3, <3>1, <3>2 DEF L
    <3> QED BY <1>6, <3>1, <3>3, <3>4
  <2> QED BY <2>1, <2>2
<1>11. over => \A j \in 0 .. L + 1 : bt[j] = total + n
  <2> SUFFICES ASSUME over, NEW j \in 0 .. L + 1 PROVE bt[j] = total + n OBVIOUS
  <2>1. n = 0 BY <1>3
  <2>2. \A k \in 0 .. L : at[k] = total BY <1>4 DEF Along, L
  <2> QED BY <1>1, <1>6, <2>1, <2>2
<1>12. Along(bt, v, base, total + n, over)
  <2> DEFINE s == total + n
  <2> HIDE DEF s
  <2>1. bt[L + 1] = s BY <1>6 DEF s
  <2>2. \A i \in 1 .. L + 1 : v[i].t = "EOF" => \A j \in i .. L + 1 : bt[j] = s BY <1>10 DEF s
  <2>3. over => \A j \in 0 .. L + 1 : bt[j] = s BY <1>11 DEF s
  <2>4. Along(bt, v, base, s, over) BY <1>1, <1>8, <1>9, <2>1, <2>2, <2>3 DEF Along
  <2> QED BY <2>4 DEF s
<1>13. Flow(v, base, total + n, over) BY <1>1, <1>5, <1>12 DEF Flow
<1> QED BY <1>13 DEF v, n

LEMMA FlowTail ==
  ASSUME NEW w \in Seq(Msg), w # <<>>, NEW base, NEW total, NEW over, Flow(w, base, total, over)
  PROVE  Flow(Tail(w), base + Load(Head(w)), total, over \/ Head(w).t = "EOF")
<1> DEFINE v == Tail(w)  L == Len(v)
<1>1. v \in Seq(Msg) /\ Len(w) = L + 1 /\ L \in Nat /\ Head(w) = w[1] OBVIOUS
<1>2. \A i \in 1 .. L : v[i] = w[i + 1] /\ i + 1 \in 1 .. Len(w) OBVIOUS
<1>3. PICK at \in [0 .. Len(w) -> Nat] : Along(at, w, base, total, over) BY DEF Flow
<1> DEFINE bt == [i \in 0 .. L |-> at[i + 1]]
<1> HIDE DEF v
<1>4. bt \in [0 .. L -> Nat] BY <1>1
<1>5. \A i \in 0 .. L : bt[i] = at[i + 1] OBVIOUS
<1> HIDE DEF bt, L
<1>6. at[0] = base /\ at[L + 1] = total BY <1>1, <1>3 DEF Along
<1>7. at[1] = base + Load(w[1])
  <2>1. 1 \in 1 .. Len(w) BY <1>1
  <2>2. at[1] = at[1 - 1] + Load(w[1]) BY <1>3, <2>1 DEF Along
  <2> QED BY <1>6, <2>2
<1>8. bt[0] = base + Load(w[1]) /\ bt[L] = total BY <1>1, <1>5, <1>6, <1>7
<1>9. \A i \in 1 .. L : bt[i] = bt[i - 1] + Load(v[i])
  <2> SUFFICES ASSUME NEW i \in 1 .. L PROVE bt[i] = bt[i - 1] + Load(v[i]) OBVIOUS
  <2>1. i + 1 \in 1 .. Len(w) /\ v[i] = w[i + 1] BY <1>2
  <2>2. at[i + 1] = at[(i + 1) - 1] + Load(w[i + 1]) BY <1>3, <2>1 DEF Along
  <2>3. i \in 0 .. L /\ i - 1 \in 0 .. L /\ (i + 1) - 1 = i /\ (i - 1) + 1 = i BY <1>1
  <2>4. bt[i] = at[i + 1] /\ bt[i - 1] = at[i] BY <1>5, <2>3
  <2> QED BY <2>1, <2>2, <2>3, <2>4
<1>10. \A i \in 1 .. L : v[i].t = "EOF" => \A j \in i .. L : bt[j] = total
  <2> SUFFICES ASSUME NEW i \in 1 .. L, v[i].t = "EOF", NEW j \in i .. L PROVE bt[j] = total OBVIOUS
  <2>1. i + 1 \in 1 .. Len(w) /\ w[i + 1].t = "EOF" BY <1>2
  <2>2. j + 1 \in (i + 1) .. Len(w) /\ j \in 0 .. L BY <1>1
  <2>3. at[j + 1] = total BY <1>3, <2>1, <2>2 DEF Along
  <2> QED BY <1>5, <2>2, <2>3
<1>11. over \/ w[1].t = "EOF" => \A j \in 0 .. L : bt[j] = total
  <2> SUFFICES ASSUME over \/ w[1].t = "EOF", NEW j \in 0 .. L PROVE bt[j] = total OBVIOUS
  <2>1. j + 1 \in 1 .. Len(w) /\ j + 1 \in 0 .. Len(w) /\ 1 \in 1 .. Len(w) BY <1>1
  <2>2. at[j + 1] = total BY <1>3, <2>1 DEF Along
  <2> QED BY <1>5, <2>2
<1>12. Along(bt, v, base + Load(w[1]), total, over \/ w[1].t = "EOF")
  BY <1>1, <1>8, <1>9, <1>10, <1>11 DEF Along, L
<1>13. Flow(v, base + Load(w[1]), total, over \/ w[1].t = "EOF") BY <1>4, <1>12 DEF Flow, L
<1> QED BY <1>1, <1>13 DEF v

LEMMA FlowEnd ==
  ASSUME NEW w \in Seq(Msg), NEW base, NEW total, Flow(w, base, total, TRUE)
  PROVE  base = total
<1>1. PICK at \in [0 .. Len(w) -> Nat] : Along(at, w, base, total, TRUE) BY DEF Flow
<1>2. 0 \in 0 .. Len(w) OBVIOUS
<1> QED BY <1>1, <1>2 DEF Along

LEMMA FlowSame ==
  ASSUME NEW w, NEW base, NEW total, NEW over, Flow(w, base, total, over), NEW ov, ov => over
  PROVE  Flow(w, base, total, ov)
BY DEF Flow, Along

(* The fields that an account is about, in groups. *)
Mode(c, d) ==
  /\ d.type = c.type /\ d.istate = c.istate /\ d.ostate = c.ostate /\ d.flags = c.flags
  /\ d.cut = c.cut
Stock(c, d) ==
  /\ d.input = c.input /\ d.output = c.output /\ d.extended = c.extended
  /\ d.extended_usage = c.extended_usage /\ d.efd = c.efd
Book(c, d) ==
  /\ d.nread = c.nread /\ d.eread = c.eread /\ d.nwritten = c.nwritten
  /\ d.child = c.child /\ d.exit_rcvd = c.exit_rcvd /\ d.rcvd = c.rcvd
Line(c, d) == d.wire = c.wire /\ d.sent = c.sent

(* What the peer does not notice of a step from c to d. *)
Unseen(c, d) ==
  /\ d.rcvd = c.rcvd /\ d.exit_rcvd = c.exit_rcvd
  /\ "eof_rcvd" \in d.flags <=> "eof_rcvd" \in c.flags
  /\ d.cut = FALSE => c.cut = FALSE /\ d.nwritten + d.output = c.nwritten + c.output
Moves(y, c, d) == Account(y, d) /\ Unseen(c, d)

LEMMA MovesSelf == ASSUME NEW y, NEW c, Account(y, c) PROVE Moves(y, c, c)
BY DEF Moves, Unseen
LEMMA MovesBoth ==
  ASSUME NEW y, NEW c, NEW d, NEW e, Moves(y, c, d), Moves(y, d, e) PROVE Moves(y, c, e)
BY DEF Moves, Unseen

(* The wire stays as it is, ... *)
LEMMA WiredSame ==
  ASSUME NEW y, NEW c, NEW d, Wired(y, c), Line(c, d), c.cut = TRUE => d.cut = TRUE,
         "eof_sent" \in c.flags => "eof_sent" \in d.flags, d.child = c.child,
         y.cut = FALSE => d.nread - d.input = c.nread - c.input
  PROVE  Wired(y, d)
<1>1. y.cut = FALSE => Flow(d.wire, y.base, d.nread - d.input, "eof_rcvd" \in y.f)
  BY DEF Wired, Line
<1>2. d.child = "reaped" => y.exit = TRUE \/ ExitAhead(d.wire) BY DEF Wired, Line
<1> QED BY <1>1, <1>2 DEF Wired, Line

(* ... or gets one more message. *)
LEMMA ExitAppend ==
  ASSUME NEW w \in Seq(Msg), NEW m \in Msg,
         ExitAhead(w) \/ (m.t = "exit" /\ \A i \in 1 .. Len(w) : w[i].t # "CLOSE")
  PROVE  ExitAhead(Append(w, m))
<1> DEFINE v == Append(w, m)  L == Len(w)
<1>1. Len(v) = L + 1 /\ v[L + 1] = m /\ L \in Nat OBVIOUS
<1>2. \A i \in 1 .. L : v[i] = w[i] OBVIOUS
<1> HIDE DEF v, L
<1>3. CASE ExitAhead(w)
  <2>1. PICK i \in 1 .. L : w[i].t = "exit" /\ \A j \in 1 .. i : w[j].t # "CLOSE"
    BY <1>3 DEF ExitAhead, L
  <2>2. i \in 1 .. L + 1 /\ \A j \in 1 .. i : j \in 1 .. L BY <1>1
  <2>3. v[i].t = "exit" /\ \A j \in 1 .. i : v[j].t # "CLOSE" BY <1>2, <2>1, <2>2
  <2> QED BY <1>1, <2>2, <2>3 DEF ExitAhead, v
<1>4. CASE m.t = "exit" /\ \A i \in 1 .. L : w[i].t # "CLOSE"
  <2>1. L + 1 \in 1 .. Len(v) /\ v[L + 1].t = "exit" BY <1>1, <1>4
  <2>2. \A j \in 1 .. L + 1 : v[j].t # "CLOSE"
    <3> SUFFICES ASSUME NEW j \in 1 .. L + 1 PROVE v[j].t # "CLOSE" OBVIOUS
    <3>1. j \in 1 .. L \/ j = L + 1 BY <1>1
    <3> QED BY <1>1, <1>2, <1>4, <3>1
  <2> QED BY <2>1, <2>2 DEF ExitAhead, v
<1> QED BY <1>3, <1>4 DEF L

LEMMA WiredSend ==
  ASSUME NEW y, NEW c \in Chan, NEW d, Wired(y, c), NEW m \in Msg,
         d.wire = Append(c.wire, m), d.sent = m.sent, m.sent = c.sent + Data(m),
         c.cut = TRUE \/ m.t = "eow" => d.cut = TRUE,
         "eof_sent" \in c.flags \/ m.t = "EOF" => "eof_sent" \in d.flags,
         m.t \in Carrying => "eof_sent" \notin c.flags,
         d.child = c.child \/ (m.t = "exit" /\ \A i \in 1 .. Len(c.wire) : c.wire[i].t # "CLOSE"),
         y.cut = FALSE => d.nread - d.input = (c.nread - c.input) + Load(m)
  PROVE  Wired(y, d)
<1> DEFINE w == c.wire  v == d.wire  L == Len(w)
<1>1. w \in Seq(Msg) /\ v = Append(w, m) BY Fields
<1>2. c.sent \in Nat BY Fields
<1>3. m.t \notin Carrying => m.sent = c.sent BY <1>2 DEF Data
<1>4. /\ \A i \in 1 .. L : w[i].t = "eow" => c.cut = TRUE
      /\ \A i \in 1 .. L : w[i].t = "EOF" => w[i].sent = c.sent /\ "eof_sent" \in c.flags
  BY DEF Wired
<1>5. ASSUME NEW i \in 1 .. Len(v)
      PROVE  /\ v[i].t = "eow" => d.cut = TRUE
             /\ v[i].t = "EOF" => v[i].sent = d.sent /\ "eof_sent" \in d.flags
  <2> HIDE DEF w, v
  <2>1. Len(v) = L + 1 /\ v[L + 1] = m /\ L \in Nat BY <1>1
  <2>2. \A k \in 1 .. L : v[k] = w[k] BY <1>1
  <2> HIDE DEF L
  <2>3. CASE i = L + 1 BY <1>3, <2>1, <2>3 DEF Carrying
  <2>4. CASE i # L + 1
    <3>1. i \in 1 .. L BY <1>5, <2>1, <2>4
    <3>2. v[i] = w[i] BY <2>2, <3>1
    <3> QED BY <1>3, <1>4, <3>1, <3>2
  <2> QED BY <2>3, <2>4
<1>6. "eof_rcvd" \in y.f => y.r = d.sent /\ "eof_sent" \in d.flags BY <1>3 DEF Wired
<1>7. d.child = "reaped" => y.exit = TRUE \/ ExitAhead(v)
  BY <1>1, ExitAppend DEF Wired
<1>8. ASSUME y.cut = FALSE PROVE Flow(v, y.base, d.nread - d.input, "eof_rcvd" \in y.f)
  <2> DEFINE s == c.nread - c.input  over == "eof_rcvd" \in y.f
  <2>1. Flow(w, y.base, s, over) BY <1>8 DEF Wired
  <2>2. m.t = "DATA" => ~over /\ \A i \in 1 .. Len(w) : w[i].t # "EOF"
    BY <1>4 DEF Wired, Carrying
  <2>3. d.nread - d.input = s + Load(m) BY <1>8
  <2> HIDE DEF w, v, s, over
  <2>4. Flow(Append(w, m), y.base, s + Load(m), over) BY <1>1, <2>1, <2>2, FlowAppend
  <2> QED BY <1>1, <2>3, <2>4 DEF over
<1> QED BY <1>5, <1>6, <1>7, <1>8 DEF Wired

(* Nothing changes that the account is about. *)
LEMMA LikeAccount ==
  ASSUME NEW y, NEW c, NEW d, Account(y, c), Mode(c, d), Stock(c, d), Line(c, d),
         d.nread = c.nread, d.eread = c.eread, d.child = c.child
  PROVE  Account(y, d)
<1>1. Local(y, d)
  BY DEF Account, Local, Mode, Stock, Line, Balanced, Drained, Stderr, StderrRead
<1>2. Wired(y, d) BY WiredSame DEF Account, Mode, Stock
<1> QED BY <1>1, <1>2 DEF Account
-----------------------------------------------------------------------------
(* The account through the operators. *)

(* The fields a message does not change; see also Rest. *)
LEMMA SendLike ==
  ASSUME NEW c \in Chan, NEW t, NEW n
  PROVE  LET s == sshpkt_send(c, t, n) IN Mode(c, s) /\ Stock(c, s) /\ Book(c, s)
BY DEF sshpkt_send, Chan, Mode, Stock, Book

(* A message that carries no data. *)
LEMMA SendMoves ==
  ASSUME NEW y, NEW c \in Chan, Account(y, c), NEW t \in MsgType \ (Carrying \cup {"EOF", "eow"}),
         NEW n \in Int
  PROVE  LET s == sshpkt_send(c, t, n) IN Moves(y, c, s) /\ Mode(c, s) /\ Stock(c, s) /\ Book(c, s)
<1> DEFINE s == sshpkt_send(c, t, n)
           m == Message(c, t, n)
<1>1. Mode(c, s) /\ Stock(c, s) /\ Book(c, s) BY SendLike
<1>2. /\ m \in Msg /\ m.t = t /\ m.sent = c.sent + Data(m)
      /\ s.wire = Append(c.wire, m) /\ s.sent = m.sent
  BY Sent
<1> HIDE DEF s, m
<1>3. t \notin Carrying /\ t # "EOF" /\ t # "eow" OBVIOUS
<1>4. Load(m) = 0 /\ Data(m) = 0 BY <1>2, <1>3 DEF Load, Data, Carrying
<1>5. s.sent = c.sent BY <1>2, <1>4, Fields
<1>6. Wired(y, s)
  <2>1. s.nread - s.input = (c.nread - c.input) + Load(m) BY <1>1, <1>4, Fields DEF Stock, Book
  <2>2. s.child = c.child BY <1>1 DEF Book
  <2>3. s.cut = c.cut /\ s.flags = c.flags BY <1>1 DEF Mode
  <2> QED BY <1>2, <1>3, <2>1, <2>2, <2>3, WiredSend DEF Account
<1>7. Local(y, s)
  BY <1>1, <1>5 DEF Account, Local, Mode, Stock, Book, Balanced, Drained, Stderr, StderrRead
<1>8. Unseen(c, s) BY <1>1 DEF Unseen, Mode, Stock, Book
<1> QED BY <1>1, <1>6, <1>7, <1>8 DEF Moves, Account, s

LEMMA RemoteMoves ==
  ASSUME NEW y, NEW c \in Chan, c.have_remote_id = TRUE, Account(y, c),
         NEW t \in MsgType \ (Carrying \cup {"EOF", "eow"}), NEW n \in Int
  PROVE  LET s == send_to_remote(c, t, n)
         IN  Moves(y, c, s) /\ Mode(c, s) /\ Stock(c, s) /\ Book(c, s)
BY SendMoves DEF send_to_remote

LEMMA chan_read_failedMoves ==
  ASSUME NEW y, NEW c \in Chan, Account(y, c) PROVE Moves(y, c, chan_read_failed(c))
<1> DEFINE d == chan_read_failed(c)
<1>1. CASE c.istate # "open" BY <1>1, MovesSelf DEF chan_read_failed
<1>2. CASE c.istate = "open"
  <2>1. /\ d.type = c.type /\ d.istate = "drain" /\ d.ostate = c.ostate /\ d.flags = c.flags
        /\ d.cut = c.cut /\ Stock(c, d) /\ Book(c, d) /\ Line(c, d)
    BY <1>2 DEF chan_read_failed, Chan, Stock, Book, Line
  <2> HIDE DEF d
  <2>2. Local(y, d)
    BY <1>2, <2>1 DEF Account, Local, Stock, Book, Line, Balanced, Drained, Stderr, StderrRead
  <2>3. Wired(y, d) BY <2>1, WiredSame DEF Account, Stock, Book
  <2>4. Unseen(c, d) BY <2>1 DEF Unseen, Stock, Book
  <2> QED BY <2>2, <2>3, <2>4 DEF Moves, Account, d
<1> QED BY <1>1, <1>2

(* The message that is sent. *)
LEMMA Posted ==
  ASSUME NEW c \in Chan, NEW t \in MsgType \ Carrying, NEW n \in Int
  PROVE  \E m \in Msg : /\ m.t = t /\ Data(m) = 0 /\ Load(m) = 0 /\ m.sent = c.sent
                        /\ sshpkt_send(c, t, n).wire = Append(c.wire, m)
                        /\ sshpkt_send(c, t, n).sent = c.sent
<1> DEFINE s == sshpkt_send(c, t, n)
           m == Message(c, t, n)
<1>1. /\ m \in Msg /\ m.t = t /\ m.sent = c.sent + Data(m)
      /\ s.wire = Append(c.wire, m) /\ s.sent = m.sent
  BY Sent
<1> HIDE DEF s, m
<1>2. Load(m) = 0 /\ Data(m) = 0 BY <1>1 DEF Load, Data, Carrying
<1>3. m.sent = c.sent BY <1>1, <1>2, Fields
<1> QED BY <1>1, <1>2, <1>3 DEF s

(* The EOF, with the closing of the input side that comes with it. *)
LEMMA EofMoves ==
  ASSUME NEW y, NEW c \in Chan, c.have_remote_id = TRUE, Account(y, c),
         NEW s, s = send_to_remote(c, "EOF", 0), NEW d,
         d.type = c.type, d.istate = "closed", d.flags = c.flags \cup {"eof_sent"},
         d.ostate = c.ostate, d.cut = c.cut, Stock(c, d), Book(c, d), Line(s, d),
         y.cut = FALSE => Drained(d)
  PROVE  Moves(y, c, d)
<1> DEFINE r == sshpkt_send(c, "EOF", 0)
<1>1. "EOF" \in MsgType \ Carrying /\ 0 \in Int BY DEF MsgType, Carrying
<1>2. \E m \in Msg : /\ m.t = "EOF" /\ Data(m) = 0 /\ Load(m) = 0 /\ m.sent = c.sent
                     /\ r.wire = Append(c.wire, m) /\ r.sent = c.sent
  BY <1>1, Posted
<1>3. s = r BY DEF send_to_remote
<1> HIDE DEF r
<1>4. PICK m \in Msg : /\ m.t = "EOF" /\ Data(m) = 0 /\ Load(m) = 0 /\ m.sent = c.sent
                       /\ s.wire = Append(c.wire, m) /\ s.sent = c.sent
  BY <1>2, <1>3
<1>5. Wired(y, d)
  <2>1. d.nread - d.input = (c.nread - c.input) + Load(m) BY <1>4, Fields DEF Stock, Book
  <2>2. d.child = c.child BY DEF Book
  <2>3. m.sent = c.sent + Data(m) BY <1>4, Fields
  <2>4. d.wire = Append(c.wire, m) /\ d.sent = m.sent BY <1>4 DEF Line
  <2> QED BY <1>1, <1>4, <2>1, <2>2, <2>3, <2>4, WiredSend DEF Account
<1>6. Local(y, d)
  BY <1>4 DEF Account, Local, Stock, Book, Line, Balanced, Stderr, StderrRead
<1>7. Unseen(c, d) BY DEF Unseen, Stock, Book
<1> QED BY <1>5, <1>6, <1>7 DEF Moves, Account

LEMMA chan_ibuf_emptyMoves ==
  ASSUME NEW x, NEW y, NEW c, Sane(x, c), Account(y, c), c.type = "open", ~EFD_INPUT_ACTIVE(c)
  PROVE  Moves(y, c, chan_ibuf_empty(c))
<1> DEFINE d == chan_ibuf_empty(c)
           s == send_to_remote(c, "EOF", 0)
<1>0. c \in Chan /\ c.have_remote_id = TRUE /\ ("close_sent" \in c.flags => c.istate = "closed")
  BY DEF Sane, Basic
<1>1. CASE ~(c.input = 0 /\ c.istate = "drain") BY <1>1, MovesSelf DEF chan_ibuf_empty
<1>2. CASE c.input = 0 /\ c.istate = "drain"
  <2>1. s = sshpkt_send(c, "EOF", 0) /\ s \in Chan
    BY <1>0, sshpkt_sendType DEF send_to_remote, MsgType, Carrying
  <2>2. Mode(c, s) /\ Stock(c, s) /\ Book(c, s) BY <1>0, <2>1, SendLike
  <2> DEFINE e == [s EXCEPT !.flags = s.flags \cup {"eof_sent"}]
  <2>3. d = [e EXCEPT !.istate = "closed"]
    BY <1>0, <1>2 DEF chan_ibuf_empty, chan_send_eof2
  <2> HIDE DEF s
  <2>4. /\ d.type = s.type /\ d.istate = "closed" /\ d.flags = s.flags \cup {"eof_sent"}
        /\ d.ostate = s.ostate /\ d.cut = s.cut /\ Stock(s, d) /\ Book(s, d) /\ Line(s, d)
    BY <2>1, <2>3 DEF Chan, Stock, Book, Line
  <2> HIDE DEF d
  <2>5. /\ d.type = c.type /\ d.flags = c.flags \cup {"eof_sent"} /\ d.ostate = c.ostate
        /\ d.cut = c.cut /\ Stock(c, d) /\ Book(c, d)
    BY <2>2, <2>4 DEF Mode, Stock, Book
  <2>6. Drained(d)
    <3>1. c.extended \in Nat /\ c.efd \in BOOLEAN BY <1>0 DEF Chan
    <3>2. c.extended_usage = "read" => c.efd = FALSE /\ c.extended = 0
      BY <3>1 DEF EFD_INPUT_ACTIVE
    <3> QED BY <1>2, <2>5, <3>2 DEF Drained, Stock
  <2>7. Moves(y, c, d) BY <1>0, <2>4, <2>5, <2>6, EofMoves DEF s
  <2> QED BY <2>7 DEF d
<1> QED BY <1>1, <1>2

LEMMA chan_obuf_emptyMoves ==
  ASSUME NEW y, NEW c \in Chan, Account(y, c) PROVE Moves(y, c, chan_obuf_empty(c))
<1> DEFINE d == chan_obuf_empty(c)
<1>1. CASE ~(c.output = 0 /\ c.ostate = "drain") BY <1>1, MovesSelf DEF chan_obuf_empty
<1>2. CASE c.output = 0 /\ c.ostate = "drain"
  <2>1. /\ d.type = c.type /\ d.istate = c.istate /\ d.ostate = "closed" /\ d.flags = c.flags
        /\ d.cut = c.cut /\ Stock(c, d) /\ Book(c, d) /\ Line(c, d)
    BY <1>2 DEF chan_obuf_empty, chan_shutdown_write, Chan, Stock, Book, Line
  <2> HIDE DEF d
  <2>2. Local(y, d)
    BY <1>2, <2>1 DEF Account, Local, Stock, Book, Line, Balanced, Drained, Stderr, StderrRead
  <2>3. Wired(y, d) BY <2>1, WiredSame DEF Account, Stock, Book
  <2>4. Unseen(c, d) BY <2>1 DEF Unseen, Stock, Book
  <2> QED BY <2>2, <2>3, <2>4 DEF Moves, Account, d
<1> QED BY <1>1, <1>2

LEMMA chan_write_failedMoves ==
  ASSUME NEW y, NEW c \in Chan, c.have_remote_id = TRUE, Account(y, c)
  PROVE  LET d == chan_write_failed(c)
         IN  Moves(y, c, d) /\ d.child = c.child /\ d.type = c.type
<1> DEFINE d == chan_write_failed(c)
           o == chan_shutdown_write(c)
           t == "eow"
           n == 0
           s == sshpkt_send(o, t, n)
           m == Message(o, t, n)
<1>1. CASE c.ostate = "closed" BY <1>1, MovesSelf DEF chan_write_failed
<1>2. CASE c.ostate # "closed"
  <2>1. o \in Chan BY SetOutput DEF chan_shutdown_write
  <2>2. /\ Mode(c, o) /\ Book(c, o) /\ Line(c, o) /\ o.input = c.input /\ o.output = 0
        /\ o.extended = c.extended /\ o.extended_usage = c.extended_usage /\ o.efd = c.efd
        /\ o.have_remote_id = TRUE
    BY DEF chan_shutdown_write, Chan, Mode, Book, Line
  <2>3. t \in MsgType /\ t \notin Carrying /\ n \in Int BY DEF MsgType, Carrying
  <2>5. chan_send_eow2(o) = s BY <1>2, <2>2 DEF chan_send_eow2, send_to_remote, Mode
  <2> HIDE DEF t, n
  <2>4. /\ s \in Chan /\ Mode(o, s) /\ Stock(o, s) /\ Book(o, s) /\ m \in Msg /\ m.t = t
        /\ m.sent = o.sent + Data(m) /\ s.wire = Append(o.wire, m) /\ s.sent = m.sent
    BY <2>1, <2>3, Sent, SendLike
  <2> DEFINE e == IF c.session THEN s ELSE o
  <2>6. d = [e EXCEPT !.ostate = "closed", !.cut = TRUE]
    BY <1>2, <2>5, Zenon DEF chan_write_failed
  <2> HIDE DEF o, s, m
  <2>0. m.t = "eow" /\ m.t \notin Carrying BY <2>3, <2>4 DEF t
  <2>7. e \in Chan /\ Mode(c, e) /\ Book(c, e) /\ Stock(o, e)
    BY <2>1, <2>2, <2>4 DEF Mode, Book, Stock
  <2>8. Line(c, e) \/ (e.wire = Append(c.wire, m) /\ e.sent = m.sent)
    BY <2>2, <2>4 DEF Line
  <2>9. Load(m) = 0 /\ Data(m) = 0 BY <2>0 DEF Load, Data
  <2>10. m.sent = c.sent BY <2>2, <2>4, <2>9, Fields DEF Line
  <2> HIDE DEF e
  <2>11. /\ d.type = e.type /\ d.istate = e.istate /\ d.ostate = "closed" /\ d.flags = e.flags
         /\ d.cut = TRUE /\ Book(e, d) /\ Stock(e, d) /\ Line(e, d)
    BY <2>6, <2>7 DEF Chan, Book, Stock, Line
  <2> HIDE DEF d
  <2>12. /\ d.type = c.type /\ d.istate = c.istate /\ d.flags = c.flags /\ Book(c, d)
         /\ d.input = c.input /\ d.output = 0 /\ d.sent = c.sent
         /\ d.extended = c.extended /\ d.extended_usage = c.extended_usage /\ d.efd = c.efd
    BY <2>2, <2>7, <2>8, <2>10, <2>11 DEF Mode, Book, Stock, Line
  <2>13. Wired(y, d)
    <3>1. d.child = c.child /\ d.nread - d.input = c.nread - c.input BY <2>12 DEF Book
    <3>2. CASE Line(c, e)
      <4>1. Line(c, d) BY <2>11, <3>2 DEF Line
      <4> QED BY <2>11, <2>12, <3>1, <4>1, WiredSame DEF Account
    <3>3. CASE e.wire = Append(c.wire, m) /\ e.sent = m.sent
      <4>1. d.wire = Append(c.wire, m) /\ d.sent = m.sent BY <2>11, <3>3 DEF Line
      <4>2. d.nread - d.input = (c.nread - c.input) + Load(m) BY <2>9, <3>1, Fields
      <4>3. m.sent = c.sent + Data(m) BY <2>9, <2>10, Fields
      <4> QED BY <2>0, <2>4, <2>11, <2>12, <3>1, <4>1, <4>2, <4>3, WiredSend DEF Account
    <3> QED BY <2>8, <3>2, <3>3
  <2>14. Local(y, d)
    BY <2>11, <2>12 DEF Account, Local, Book, Balanced, Drained, Stderr, StderrRead
  <2>15. Unseen(c, d) BY <2>11, <2>12 DEF Unseen, Book
  <2>16. d.child = c.child /\ d.type = c.type BY <2>12 DEF Book
  <2> QED BY <2>13, <2>14, <2>15, <2>16 DEF Moves, Account, d
<1> QED BY <1>1, <1>2

LEMMA chan_send_close2Moves ==
  ASSUME NEW y, NEW c \in Chan, c.have_remote_id = TRUE, Account(y, c)
  PROVE  LET d == chan_send_close2(c)
         IN  /\ Moves(y, c, d) /\ d \in Chan /\ d.type = c.type
             /\ d.istate = c.istate /\ d.ostate = c.ostate
<1> DEFINE d == chan_send_close2(c)
           s == send_to_remote(c, "CLOSE", 0)
<1>1. CASE ~(c.ostate = "closed" /\ c.istate = "closed" /\ "close_sent" \notin c.flags)
  BY <1>1, MovesSelf DEF chan_send_close2
<1>2. CASE c.ostate = "closed" /\ c.istate = "closed" /\ "close_sent" \notin c.flags
  <2>0. "CLOSE" \in MsgType \ (Carrying \cup {"EOF", "eow"}) BY DEF MsgType, Carrying
  <2>1. Moves(y, c, s) /\ Mode(c, s)
    <3>1. 0 \in Int OBVIOUS
    <3> QED BY <2>0, <3>1, RemoteMoves, Zenon
  <2>2. s \in Chan BY <2>0, send_to_remoteType
  <2>3. d = [s EXCEPT !.flags = s.flags \cup {"close_sent"}] BY <1>2 DEF chan_send_close2
  <2> HIDE DEF s
  <2>4. /\ d.type = s.type /\ d.istate = s.istate /\ d.ostate = s.ostate /\ d.cut = s.cut
        /\ d.flags = s.flags \cup {"close_sent"} /\ Stock(s, d) /\ Book(s, d) /\ Line(s, d)
    BY <2>2, <2>3 DEF Chan, Stock, Book, Line
  <2> HIDE DEF d
  <2>5. Account(y, s) BY <2>1 DEF Moves
  <2>6. Local(y, d)
    BY <2>4, <2>5 DEF Account, Local, Stock, Book, Line, Balanced, Drained, Stderr, StderrRead
  <2>7. Wired(y, d) BY <2>4, <2>5, WiredSame DEF Account, Stock, Book
  <2>8. Moves(y, s, d) BY <2>4, <2>6, <2>7 DEF Moves, Account, Unseen, Stock, Book
  <2>9. Moves(y, c, d) BY <2>1, <2>8, MovesBoth
  <2>10. d.type = c.type /\ d.istate = c.istate /\ d.ostate = c.ostate BY <2>1, <2>4 DEF Mode
  <2>11. d \in Chan BY chan_send_close2Type DEF d
  <2> QED BY <2>9, <2>10, <2>11 DEF d
<1> QED BY <1>1, <1>2

(* The packets of channel_output_poll(). *)
LEMMA DataMoves ==
  ASSUME NEW y, NEW c \in Chan, Account(y, c), "eof_sent" \notin c.flags, c.type = "open",
         y.cut = FALSE => c.istate # "closed", NEW t \in Carrying, NEW len \in Nat,
         NEW s, s = sshpkt_send(c, t, len), NEW d, Mode(s, d), Book(s, d), Line(s, d),
         d.output = s.output, d.extended_usage = s.extended_usage, d.efd = s.efd,
         t = "DATA" => d.input = s.input - len /\ d.extended = s.extended,
         t = "EXT" => d.input = s.input /\ d.extended = s.extended - len /\ s.extended_usage = "read"
  PROVE  Moves(y, c, d)
<1> DEFINE m == Message(c, t, len)
<1>1. t \in MsgType /\ t # "EOF" /\ t # "eow" /\ t # "exit" BY DEF Carrying, MsgType
<1>2. /\ Mode(c, s) /\ Stock(c, s) /\ Book(c, s) BY SendLike
<1>3. /\ m \in Msg /\ m.t = t /\ m.n = len /\ m.sent = c.sent + Data(m)
      /\ s.wire = Append(c.wire, m) /\ s.sent = m.sent
  <2>1. len \in Int /\ (t \in Carrying => len >= 0) OBVIOUS
  <2> QED BY <1>1, <2>1, Sent, Zenon
<1> HIDE DEF m
<1>4. Data(m) = len /\ (t = "DATA" => Load(m) = len) /\ (t = "EXT" => Load(m) = 0)
  BY <1>3 DEF Data, Load
<1>5. /\ Mode(c, d) /\ Book(c, d) /\ d.output = c.output /\ d.extended_usage = c.extended_usage
      /\ d.efd = c.efd /\ d.wire = Append(c.wire, m) /\ d.sent = m.sent
      /\ t = "DATA" => d.input = c.input - len /\ d.extended = c.extended
      /\ t = "EXT" => d.input = c.input /\ d.extended = c.extended - len
                      /\ c.extended_usage = "read"
  BY <1>2, <1>3 DEF Mode, Book, Stock, Line
<1>6. /\ c.input \in Nat /\ c.extended \in Nat /\ c.nread \in Nat /\ c.eread \in Nat
      /\ c.sent \in Nat
  BY Fields
<1>7. t = "DATA" \/ t = "EXT" BY DEF Carrying
<1>8. Wired(y, d)
  <2>1. d.nread - d.input = (c.nread - c.input) + Load(m) BY <1>4, <1>5, <1>6, <1>7 DEF Book
  <2>2. d.child = c.child /\ d.cut = c.cut /\ d.flags = c.flags BY <1>5 DEF Mode, Book
  <2> QED BY <1>1, <1>3, <1>5, <2>1, <2>2, WiredSend DEF Account
<1>9. Local(y, d)
  <2>1. ASSUME Balanced(c) PROVE Balanced(d)
    <3>1. d.sent = c.sent + len BY <1>3, <1>4, <1>5
    <3> QED BY <1>5, <1>6, <1>7, <2>1, <3>1 DEF Balanced, Stderr, StderrRead, Book
  <2>2. y.cut = FALSE => Drained(d) BY <1>5 DEF Drained, Mode
  <2> QED BY <1>5, <2>1, <2>2 DEF Account, Local, Mode
<1>10. Unseen(c, d) BY <1>5 DEF Unseen, Mode, Book
<1> QED BY <1>8, <1>9, <1>10 DEF Moves, Account

LEMMA channel_output_poll_input_openMoves ==
  ASSUME NEW x, NEW y, NEW c, Sane(x, c), Account(y, c), c.type = "open", c.istate # "closed"
  PROVE  Moves(y, c, channel_output_poll_input_open(c))
<1> DEFINE len == Least(Least(c.input, c.remote_window), MaxPacket)
           s == sshpkt_send(c, "DATA", len)
           d == [s EXCEPT !.input = @ - len, !.remote_window = @ - len]
<1>0. c \in Chan /\ c.have_remote_id = TRUE /\ "eof_sent" \notin c.flags
  BY DEF Sane, Basic, Account, Local
<1>1. len \in Int /\ len <= c.input
  <2>1. c.input \in Int /\ c.remote_window \in Int BY <1>0, Fields
  <2> QED BY <2>1, LeastType, Zenon
<1> HIDE DEF len
<1>2. CASE c.input = 0 /\ c.istate = "drain" /\ ~EFD_INPUT_ACTIVE(c)
  <2>1. channel_output_poll_input_open(c) = chan_ibuf_empty(c)
    <3>1. ~(len > 0) BY <1>1, <1>2
    <3> QED BY <1>2, <3>1 DEF channel_output_poll_input_open, len
  <2> QED BY <1>2, <2>1, chan_ibuf_emptyMoves
<1>3. CASE ~(c.input = 0 /\ c.istate = "drain" /\ ~EFD_INPUT_ACTIVE(c)) /\ len > 0
  <2>1. channel_output_poll_input_open(c) = d
    BY <1>0, <1>3 DEF channel_output_poll_input_open, len, send_to_remote
  <2>2. "DATA" \in Carrying /\ "DATA" \in MsgType BY DEF Carrying, MsgType
  <2>3. s \in Chan BY <1>0, <1>1, <1>3, <2>2, sshpkt_sendType
  <2> HIDE DEF s
  <2>4. /\ Mode(s, d) /\ Book(s, d) /\ Line(s, d) /\ d.output = s.output
        /\ d.extended_usage = s.extended_usage /\ d.efd = s.efd
        /\ d.input = s.input - len /\ d.extended = s.extended
    BY <2>3 DEF Chan, Mode, Book, Line
  <2> HIDE DEF d
  <2>5. len \in Nat BY <1>1, <1>3
  <2>6. Moves(y, c, d) BY <1>0, <2>2, <2>4, <2>5, DataMoves DEF s
  <2> QED BY <2>1, <2>6
<1>4. CASE ~(c.input = 0 /\ c.istate = "drain" /\ ~EFD_INPUT_ACTIVE(c)) /\ ~(len > 0)
  BY <1>4, MovesSelf DEF channel_output_poll_input_open, len
<1> QED BY <1>2, <1>3, <1>4

LEMMA channel_output_poll_extended_readMoves ==
  ASSUME NEW x, NEW y, NEW c, Sane(x, c), Account(y, c), c.type = "open",
         "eof_sent" \notin c.flags, c.extended_usage = "read"
  PROVE  Moves(y, c, channel_output_poll_extended_read(c))
<1> DEFINE len == Least(Least(c.extended, c.remote_window), MaxPacket)
           s == sshpkt_send(c, "EXT", len)
           d == [s EXCEPT !.extended = @ - len, !.remote_window = @ - len]
<1>0. c \in Chan /\ c.have_remote_id = TRUE BY DEF Sane, Basic
<1>1. len \in Int /\ len <= c.extended /\ c.extended \in Nat
  <2>1. c.extended \in Nat /\ c.extended \in Int /\ c.remote_window \in Int BY <1>0, Fields
  <2> QED BY <2>1, LeastType, Zenon
<1> HIDE DEF len
<1>2. CASE len > 0
  <2>1. channel_output_poll_extended_read(c) = d
    BY <1>0, <1>2 DEF channel_output_poll_extended_read, len, send_to_remote
  <2>2. "EXT" \in Carrying /\ "EXT" \in MsgType BY DEF Carrying, MsgType
  <2>3. s \in Chan /\ Stock(c, s) BY <1>0, <1>1, <1>2, <2>2, sshpkt_sendType, SendLike
  <2> HIDE DEF s
  <2>4. /\ Mode(s, d) /\ Book(s, d) /\ Line(s, d) /\ d.output = s.output
        /\ d.extended_usage = s.extended_usage /\ d.efd = s.efd
        /\ d.input = s.input /\ d.extended = s.extended - len
    BY <2>3 DEF Chan, Mode, Book, Line
  <2> HIDE DEF d
  <2>5. len \in Nat /\ s.extended_usage = "read" BY <1>1, <1>2, <2>3 DEF Stock
  <2>8. y.cut = FALSE => c.istate # "closed" BY <1>1, <1>2 DEF Account, Local, Drained
  <2>7. Moves(y, c, d) BY <1>0, <2>2, <2>4, <2>5, <2>8, DataMoves DEF s
  <2> QED BY <2>1, <2>7
<1>3. CASE ~(len > 0)
  BY <1>3, MovesSelf DEF channel_output_poll_extended_read, len
<1> QED BY <1>2, <1>3

LEMMA channel_output_pollMoves ==
  ASSUME NEW x, NEW y, NEW c, Sane(x, c), Account(y, c) PROVE Moves(y, c, channel_output_poll(c))
<1> DEFINE a == IF c.istate # "closed" THEN channel_output_poll_input_open(c) ELSE c
           b == IF "eof_sent" \notin a.flags /\ a.extended_usage = "read"
                THEN channel_output_poll_extended_read(a) ELSE a
<1>1. CASE c.type = "open" /\ c.flags \cap CloseFlags = {}
  <2>1. "close_sent" \notin c.flags BY <1>1 DEF CloseFlags
  <2>2. Keeps(x, c, a) BY <1>1, <2>1, channel_output_poll_input_openKeeps, KeepsSelf
  <2>3. Moves(y, c, a) BY <1>1, channel_output_poll_input_openMoves, MovesSelf
  <2>4. channel_output_poll(c) = b BY <1>1 DEF channel_output_poll
  <2> HIDE DEF a
  <2>5. Sane(x, a) /\ a.type = "open" /\ Account(y, a)
    BY <1>1, <2>2, <2>3 DEF Keeps, Holds, Moves
  <2>6. Moves(y, a, b) BY <2>5, channel_output_poll_extended_readMoves, MovesSelf
  <2> HIDE DEF b
  <2> QED BY <2>3, <2>4, <2>6, MovesBoth
<1>2. CASE ~(c.type = "open" /\ c.flags \cap CloseFlags = {})
  <2>1. channel_output_poll(c) = c BY <1>2 DEF channel_output_poll
  <2> QED BY <2>1, MovesSelf
<1> QED BY <1>1, <1>2

LEMMA channel_pre_openMoves ==
  ASSUME NEW y, NEW c \in Chan, Account(y, c) PROVE Moves(y, c, channel_pre_open(c))
BY chan_obuf_emptyMoves, MovesSelf DEF channel_pre_open

LEMMA channel_handle_rfdMoves ==
  ASSUME NEW y, NEW c \in Chan, Account(y, c), c.type = "open", NEW at, NEW io, io.rfd \in Int
  PROVE  Moves(y, c, channel_handle_rfd(c, at, io))
<1> DEFINE n == io.rfd
           d == [c EXCEPT !.input = c.input + n, !.nread = c.nread + n]
<1>1. \/ channel_handle_rfd(c, at, io) \in {c, chan_read_failed(c)}
      \/ channel_handle_rfd(c, at, io) = d /\ c.istate = "open"
  BY DEF channel_handle_rfd
<1>2. ASSUME c.istate = "open" PROVE Moves(y, c, d)
  <2>1. /\ Mode(c, d) /\ Line(c, d) /\ d.input = c.input + n /\ d.nread = c.nread + n
        /\ d.output = c.output /\ d.extended = c.extended
        /\ d.extended_usage = c.extended_usage /\ d.efd = c.efd /\ d.eread = c.eread
        /\ d.nwritten = c.nwritten /\ d.child = c.child /\ d.exit_rcvd = c.exit_rcvd
        /\ d.rcvd = c.rcvd
    BY DEF Chan, Mode, Line
  <2>2. c.input \in Nat /\ c.nread \in Nat /\ c.sent \in Nat /\ c.extended \in Nat
        /\ c.eread \in Nat
    BY Fields
  <2> HIDE DEF d, n
  <2>3. n \in Int BY DEF n
  <2>4. ASSUME Balanced(c) PROVE Balanced(d)
    BY <2>1, <2>2, <2>3, <2>4 DEF Balanced, Stderr, StderrRead, Line
  <2>5. Drained(d) BY <1>2, <2>1 DEF Drained, Mode
  <2>6. Local(y, d) BY <2>1, <2>4, <2>5 DEF Account, Local, Mode
  <2>7. d.nread - d.input = c.nread - c.input BY <2>1, <2>2, <2>3
  <2>8. Wired(y, d) BY <2>1, <2>7, WiredSame DEF Account, Mode
  <2>9. Unseen(c, d) BY <2>1 DEF Unseen, Mode
  <2> QED BY <2>6, <2>8, <2>9 DEF Moves, Account
<1> QED BY <1>1, <1>2, chan_read_failedMoves, MovesSelf

LEMMA channel_handle_wfdMoves ==
  ASSUME NEW y, NEW c \in Chan, Account(y, c), c.type = "open", c.have_remote_id = TRUE,
         NEW at, NEW io, io.wfd \in Int
  PROVE  Moves(y, c, channel_handle_wfd(c, at, io))
<1> DEFINE len == Least(io.wfd, c.output)
           d == [c EXCEPT !.output = c.output - len, !.local_consumed = c.local_consumed + len,
                          !.nwritten = c.nwritten + len]
<1>0. c.output \in Nat /\ c.nwritten \in Nat BY Fields
<1>1. len \in Int BY <1>0 DEF Least
<1>2. \/ channel_handle_wfd(c, at, io) \in {c, chan_write_failed(c)}
      \/ channel_handle_wfd(c, at, io) = d /\ c.output > 0
  BY DEF channel_handle_wfd
<1>3. ASSUME c.output > 0 PROVE Moves(y, c, d)
  <2> HIDE DEF len
  <2>1. /\ Mode(c, d) /\ Line(c, d) /\ d.input = c.input /\ d.nread = c.nread
        /\ d.output = c.output - len /\ d.nwritten = c.nwritten + len /\ d.extended = c.extended
        /\ d.extended_usage = c.extended_usage /\ d.efd = c.efd /\ d.eread = c.eread
        /\ d.child = c.child /\ d.exit_rcvd = c.exit_rcvd /\ d.rcvd = c.rcvd
    BY DEF Chan, Mode, Line
  <2> HIDE DEF d
  <2>2. d.nwritten + d.output = c.nwritten + c.output BY <1>0, <1>1, <2>1
  <2>3. c.ostate # "closed" BY <1>3 DEF Account, Local
  <2>4. Local(y, d)
    BY <2>1, <2>3 DEF Account, Local, Mode, Line, Balanced, Drained, Stderr, StderrRead
  <2>5. Wired(y, d) BY <2>1, WiredSame DEF Account, Mode
  <2>6. Unseen(c, d) BY <2>1, <2>2 DEF Unseen, Mode
  <2> QED BY <2>4, <2>5, <2>6 DEF Moves, Account
<1> HIDE DEF d
<1> QED BY <1>2, <1>3, chan_write_failedMoves, MovesSelf

(* Only the extended buffer and its descriptor change. *)
LEMMA ExtendedMoves ==
  ASSUME NEW y, NEW c \in Chan, Account(y, c), c.type = "open", NEW d, Mode(c, d), Line(c, d),
         d.input = c.input, d.nread = c.nread, d.output = c.output, d.nwritten = c.nwritten,
         d.extended_usage = c.extended_usage, d.child = c.child, d.exit_rcvd = c.exit_rcvd,
         d.rcvd = c.rcvd, y.cut = FALSE /\ Balanced(c) => Balanced(d),
         y.cut = FALSE /\ Drained(c) => Drained(d)
  PROVE  Moves(y, c, d)
<1>1. Local(y, d) BY DEF Account, Local, Mode
<1>2. Wired(y, d) BY WiredSame DEF Account, Mode
<1>3. Unseen(c, d) BY DEF Unseen, Mode
<1> QED BY <1>1, <1>2, <1>3 DEF Moves, Account

LEMMA channel_handle_efdMoves ==
  ASSUME NEW y, NEW c \in Chan, Account(y, c), c.type = "open", NEW at, NEW io, io.efd \in Int
  PROVE  Moves(y, c, channel_handle_efd(c, at, io))
<1> DEFINE g == channel_handle_efd(c, at, io)
           n == io.efd
           len == Least(n, c.extended)
           f == [c EXCEPT !.efd = FALSE]
           w == [c EXCEPT !.extended = c.extended - len,
                          !.local_consumed = c.local_consumed + len]
           k == IF c.extended_usage = "read" THEN c.extended + n ELSE c.extended
           r == [c EXCEPT !.extended = k, !.eread = c.eread + n]
<1>0. c.efd \in BOOLEAN BY DEF Chan
<1>1. \/ g \in {c, f}
      \/ g = w /\ c.extended_usage = "write"
      \/ g = r /\ c.extended_usage # "write" /\ c.efd = TRUE
  BY <1>0 DEF channel_handle_efd, channel_handle_efd_write, channel_handle_efd_read
<1>2. /\ c.input \in Nat /\ c.nread \in Nat /\ c.sent \in Nat /\ c.extended \in Nat
      /\ c.eread \in Nat /\ n \in Int
  BY Fields
<1>3. Moves(y, c, f)
  <2>1. /\ Mode(c, f) /\ Line(c, f) /\ f.input = c.input /\ f.nread = c.nread
        /\ f.output = c.output /\ f.nwritten = c.nwritten /\ f.extended_usage = c.extended_usage
        /\ f.child = c.child /\ f.exit_rcvd = c.exit_rcvd /\ f.rcvd = c.rcvd
        /\ f.extended = c.extended /\ f.eread = c.eread /\ f.efd = FALSE
    BY DEF Chan, Mode, Line
  <2> HIDE DEF f
  <2>2. Balanced(c) => Balanced(f) BY <2>1 DEF Balanced, Stderr, StderrRead, Line
  <2>3. Drained(c) => Drained(f) BY <2>1 DEF Drained, Mode
  <2> QED BY <2>1, <2>2, <2>3, ExtendedMoves
<1>4. ASSUME c.extended_usage = "write" PROVE Moves(y, c, w)
  <2> HIDE DEF len
  <2>1. /\ Mode(c, w) /\ Line(c, w) /\ w.input = c.input /\ w.nread = c.nread
        /\ w.output = c.output /\ w.nwritten = c.nwritten /\ w.extended_usage = c.extended_usage
        /\ w.child = c.child /\ w.exit_rcvd = c.exit_rcvd /\ w.rcvd = c.rcvd
    BY DEF Chan, Mode, Line
  <2> HIDE DEF w
  <2>2. Balanced(c) => Balanced(w) BY <1>4, <2>1 DEF Balanced, Stderr, StderrRead, Line
  <2>3. Drained(c) => Drained(w) BY <1>4, <2>1 DEF Drained, Mode
  <2> QED BY <2>1, <2>2, <2>3, ExtendedMoves
<1>5. ASSUME c.extended_usage # "write", c.efd = TRUE PROVE Moves(y, c, r)
  <2>0. k = IF c.extended_usage = "read" THEN c.extended + n ELSE c.extended OBVIOUS
  <2> HIDE DEF n, k
  <2>1. /\ Mode(c, r) /\ Line(c, r) /\ r.input = c.input /\ r.nread = c.nread
        /\ r.output = c.output /\ r.nwritten = c.nwritten /\ r.extended_usage = c.extended_usage
        /\ r.child = c.child /\ r.exit_rcvd = c.exit_rcvd /\ r.rcvd = c.rcvd
        /\ r.extended = k /\ r.eread = c.eread + n /\ r.efd = c.efd
    BY DEF Chan, Mode, Line
  <2> HIDE DEF r
  <2>2. Balanced(c) => Balanced(r)
    BY <1>2, <2>0, <2>1 DEF Balanced, Stderr, StderrRead, Line
  <2>3. Drained(c) => Drained(r) BY <1>5, <2>1 DEF Drained, Mode
  <2> QED BY <2>1, <2>2, <2>3, ExtendedMoves
<1> HIDE DEF g, f, w, r
<1>6. Moves(y, c, g) BY <1>1, <1>3, <1>4, <1>5, MovesSelf
<1> QED BY <1>6 DEF g

LEMMA channel_check_windowMoves ==
  ASSUME NEW y, NEW c \in Chan, Account(y, c), c.have_remote_id = TRUE
  PROVE  Moves(y, c, channel_check_window(c))
<1> DEFINE k == c.local_consumed
           s == send_to_remote(c, "ADJUST", k)
           d == [s EXCEPT !.local_window = s.local_window + k, !.local_consumed = 0]
<1>1. channel_check_window(c) \in {c, d} BY DEF channel_check_window
<1>2. "ADJUST" \in MsgType \ (Carrying \cup {"EOF", "eow"}) /\ k \in Int
  BY Fields DEF MsgType, Carrying
<1>3. s \in Chan BY <1>2, send_to_remoteType, Zenon
<1>4. Moves(y, c, s) BY <1>2, RemoteMoves, Zenon
<1> HIDE DEF s, k
<1>5. Mode(s, d) /\ Stock(s, d) /\ Line(s, d) /\ Book(s, d)
  BY <1>3 DEF Chan, Mode, Stock, Line, Book
<1> HIDE DEF d
<1>6. Account(y, d) BY <1>4, <1>5, LikeAccount DEF Moves, Book
<1>7. Moves(y, c, d) BY <1>4, <1>5, <1>6 DEF Moves, Unseen, Mode, Stock, Book
<1> QED BY <1>1, <1>7, MovesSelf

LEMMA channel_post_openMoves ==
  ASSUME NEW x, NEW y, NEW c, Sane(x, c), Account(y, c), NEW at, NEW io,
         io.rfd \in Int, io.wfd \in Int, io.efd \in Int
  PROVE  Moves(y, c, channel_post_open(c, at, io))
<1> DEFINE r == channel_handle_rfd(c, at, io)
           w == channel_handle_wfd(r, at, io)
           e == channel_handle_efd(w, at, io)
<1>1. CASE c.type = "open"
  <2>0. channel_post_open(c, at, io) = channel_check_window(e) BY <1>1 DEF channel_post_open
  <2>1. Keeps(x, c, r) BY <1>1, channel_handle_rfdKeeps
  <2>2. Moves(y, c, r) BY <1>1, channel_handle_rfdMoves DEF Sane
  <2> HIDE DEF r
  <2>3. Sane(x, r) /\ r.type = "open" /\ Account(y, r) BY <1>1, <2>1, <2>2 DEF Keeps, Holds, Moves
  <2>4. r \in Chan /\ r.have_remote_id = TRUE BY <2>3 DEF Sane, Basic
  <2>5. Keeps(x, r, w) BY <2>3, channel_handle_wfdKeeps
  <2>6. Moves(y, r, w) BY <2>3, <2>4, channel_handle_wfdMoves
  <2> HIDE DEF w
  <2>7. Sane(x, w) /\ w.type = "open" /\ Account(y, w) BY <2>3, <2>5, <2>6 DEF Keeps, Holds, Moves
  <2>8. Keeps(x, w, e) BY <2>7, channel_handle_efdKeeps
  <2>9. Moves(y, w, e) BY <2>7, channel_handle_efdMoves DEF Sane
  <2> HIDE DEF e
  <2>10. Sane(x, e) /\ e.type = "open" /\ Account(y, e)
    BY <2>7, <2>8, <2>9 DEF Keeps, Holds, Moves
  <2>11. e \in Chan /\ e.have_remote_id = TRUE BY <2>10 DEF Sane, Basic
  <2>12. Moves(y, e, channel_check_window(e)) BY <2>10, <2>11, channel_check_windowMoves
  <2>13. Moves(y, c, e) BY <2>2, <2>6, <2>9, MovesBoth
  <2> QED BY <2>0, <2>12, <2>13, MovesBoth
<1>2. CASE c.type # "open" BY <1>2, MovesSelf DEF channel_post_open
<1> QED BY <1>1, <1>2

(* A channel is freed before it was open, or when both sides are closed. *)
LEMMA channel_freeMoves ==
  ASSUME NEW y, NEW c \in Chan, Account(y, c),
         c.type \notin {"open", "freed"} \/ (c.istate = "closed" /\ c.ostate = "closed")
  PROVE  Moves(y, c, channel_free(c))
<1> DEFINE d == channel_free(c)
<1>1. /\ d.type = "freed" /\ d.istate = c.istate /\ d.ostate = c.ostate /\ d.flags = c.flags
      /\ d.cut = c.cut /\ d.input = 0 /\ d.output = 0 /\ d.extended = 0 /\ d.efd = FALSE
      /\ d.extended_usage = c.extended_usage /\ Book(c, d) /\ Line(c, d)
  BY DEF channel_free, Chan, Book, Line
<1> HIDE DEF d
<1>2. c.output = 0 BY DEF Account, Local
<1>3. y.cut = FALSE => c.input = 0 /\ Stderr(c) = 0 BY DEF Account, Local, Drained, Stderr
<1>4. y.cut = FALSE => Balanced(d)
  <2> SUFFICES ASSUME y.cut = FALSE PROVE Balanced(d) OBVIOUS
  <2>1. c.sent + 0 + 0 = c.nread + StderrRead(c) BY <1>3 DEF Account, Local, Balanced
  <2>2. Stderr(d) = 0 /\ StderrRead(d) = StderrRead(c) /\ d.sent = c.sent /\ d.nread = c.nread
    BY <1>1 DEF Stderr, StderrRead, Book, Line
  <2> QED BY <1>1, <2>1, <2>2 DEF Balanced
<1>5. Drained(d) BY <1>1 DEF Drained
<1>6. Local(y, d) BY <1>1, <1>4, <1>5 DEF Account, Local
<1>7. Wired(y, d)
  <2>1. y.cut = FALSE => d.nread - d.input = c.nread - c.input BY <1>1, <1>3 DEF Book
  <2> QED BY <1>1, <2>1, WiredSame DEF Account, Book
<1>8. Unseen(c, d) BY <1>1, <1>2 DEF Unseen, Book
<1> QED BY <1>6, <1>7, <1>8 DEF Moves, Account, d

LEMMA CleanupMoves ==
  ASSUME NEW y, NEW c \in Chan, Account(y, c),
         NEW u \in {"none", "client", "session"}, NEW b \in BOOLEAN
  PROVE  LET d == channel_register_cleanup(c, u, b)
         IN  /\ Moves(y, c, d) /\ d \in Chan /\ d.type = c.type /\ d.wire = c.wire
             /\ d.child = c.child /\ d.have_remote_id = c.have_remote_id
<1> DEFINE d == channel_register_cleanup(c, u, b)
<1>1. Mode(c, d) /\ Stock(c, d) /\ Line(c, d) /\ Book(c, d) /\ d.have_remote_id = c.have_remote_id
  BY DEF channel_register_cleanup, Chan, Mode, Stock, Line, Book
<1> HIDE DEF d
<1>2. Account(y, d) BY <1>1, LikeAccount DEF Book
<1>3. Unseen(c, d) BY <1>1 DEF Unseen, Mode, Stock, Book
<1>4. d \in Chan BY CleanupType DEF d
<1> QED BY <1>1, <1>2, <1>3, <1>4 DEF Moves, Mode, Book, Line, d

LEMMA CancelMoves ==
  ASSUME NEW y, NEW c \in Chan, Account(y, c)
  PROVE  LET d == channel_cancel_cleanup(c)
         IN  /\ Moves(y, c, d) /\ d \in Chan /\ d.type = c.type
             /\ d.child = c.child /\ d.have_remote_id = c.have_remote_id
<1>1. "none" \in {"none", "client", "session"} /\ FALSE \in BOOLEAN OBVIOUS
<1> QED BY <1>1, CleanupMoves, Zenon DEF channel_cancel_cleanup

LEMMA channel_collectMoves ==
  ASSUME NEW y, NEW c \in Chan, Account(y, c), c.type # "zombie" => c.have_remote_id = TRUE
  PROVE  Moves(y, c, channel_collect(c))
<1>1. CASE c.type = "zombie"
  <2>1. channel_collect(c) = channel_free(c)
    BY <1>1 DEF channel_collect, is_dead_send, chan_is_dead
  <2> QED BY <1>1, <2>1, channel_freeMoves
<1>2. CASE c.type # "zombie"
  <2> DEFINE s == chan_send_close2(c)
  <2>1. Moves(y, c, s) /\ s \in Chan /\ s.istate = c.istate /\ s.ostate = c.ostate
    BY <1>2, chan_send_close2Moves
  <2>2. is_dead_send(c, TRUE) = s BY <1>2 DEF is_dead_send
  <2>3. chan_is_dead(c, TRUE) => c.istate = "closed" /\ c.ostate = "closed"
    BY <1>2 DEF chan_is_dead
  <2>4. channel_collect(c) = IF chan_is_dead(c, TRUE) THEN channel_free(s) ELSE s
    BY <2>2 DEF channel_collect
  <2> HIDE DEF s
  <2>5. CASE chan_is_dead(c, TRUE)
    <3>1. Moves(y, s, channel_free(s)) BY <2>1, <2>3, <2>5, channel_freeMoves DEF Moves
    <3>2. channel_collect(c) = channel_free(s) BY <2>4, <2>5
    <3> QED BY <2>1, <3>1, <3>2, MovesBoth
  <2>6. CASE ~chan_is_dead(c, TRUE)
    <3>1. channel_collect(c) = s BY <2>4, <2>6
    <3> QED BY <2>1, <3>1
  <2> QED BY <2>5, <2>6
<1> QED BY <1>1, <1>2

LEMMA channel_garbage_collectMoves ==
  ASSUME NEW x, NEW y, NEW c, Sane(x, c), Held(c), c.type # "zombie", Account(y, c)
  PROVE  Moves(y, c, channel_garbage_collect(c))
<1> DEFINE g == channel_garbage_collect(c)
           a == is_dead_send(c, c.detach_close)
           b == channel_cancel_cleanup(a)
<1>0. c \in Chan /\ c.type \in ChannelType BY Fields DEF Sane
<1>1. CASE g = c BY <1>1, MovesSelf
<1>2. CASE ~Exists(c)
  <2>1. g = c BY <1>2 DEF channel_garbage_collect
  <2> QED BY <1>1, <2>1
<1>3. CASE c.type \in Opening
  <2>1. c.istate # "closed" BY <1>3 DEF Sane, Basic, Opening
  <2>2. g = c BY <2>1, CollectIdle
  <2> QED BY <1>1, <2>2
<1>4. CASE c.child = "running"
  <2>1. g = c BY <1>4, CollectHeld
  <2> QED BY <1>1, <2>1
<1>5. CASE c.type \in {"larval", "open"} /\ c.child # "running"
  <2>0. Exists(c) /\ c.have_remote_id = TRUE /\ c.type \notin Opening
    BY <1>5 DEF Exists, Sane, Basic, Opening
  <2>1. Moves(y, c, a) /\ a \in Chan /\ a.child = c.child /\ a.type = c.type
        /\ a.have_remote_id = c.have_remote_id
    <3>1. a = c \/ a = chan_send_close2(c) BY DEF is_dead_send
    <3>2. LET s == chan_send_close2(c)
          IN  s.child = c.child /\ s.type = c.type /\ s.have_remote_id = c.have_remote_id
      BY <2>0, chan_send_close2Sane DEF Same
    <3> QED BY <1>0, <2>0, <3>1, <3>2, chan_send_close2Moves, MovesSelf
  <2>2. CASE c.detach_user = "none"
    <3>1. g = channel_collect(c) BY <2>0, <2>2 DEF channel_garbage_collect
    <3> QED BY <1>0, <2>0, <3>1, channel_collectMoves
  <2>3. CASE c.detach_user # "none" /\ ~chan_is_dead(c, c.detach_close)
    <3>1. g = a BY <2>0, <2>3 DEF channel_garbage_collect
    <3> QED BY <2>1, <3>1
  <2>4. CASE c.detach_user # "none" /\ chan_is_dead(c, c.detach_close)
    <3>1. notify_user(a) = b BY <1>5, <2>1 DEF notify_user
    <3>2. g = IF b.detach_user # "none" THEN b ELSE channel_collect(b)
      BY <2>0, <2>4, <3>1 DEF channel_garbage_collect
    <3> HIDE DEF a, g
    <3>3. Account(y, a) BY <2>1 DEF Moves
    <3>4. /\ Moves(y, a, b) /\ b.type = a.type /\ b.have_remote_id = a.have_remote_id
          /\ b \in Chan
      BY <2>1, <3>3, CancelMoves
    <3> HIDE DEF b
    <3>6. Moves(y, b, channel_collect(b))
      BY <2>0, <2>1, <3>4, channel_collectMoves DEF Moves
    <3>7. Moves(y, c, b) /\ Moves(y, c, channel_collect(b)) BY <2>1, <3>4, <3>6, MovesBoth
    <3>8. Moves(y, c, g) BY <3>2, <3>7
    <3> QED BY <3>8 DEF g
  <2> QED BY <2>2, <2>3, <2>4
<1> HIDE DEF g
<1>6. c.type \in {"none", "freed", "opening", "connecting", "larval", "open"}
  BY <1>0 DEF ChannelType
<1>7. \/ ~Exists(c) \/ c.type \in Opening \/ c.type \in {"larval", "open"}
  BY <1>6 DEF Exists, Opening
<1> QED BY <1>2, <1>3, <1>4, <1>5, <1>7 DEF g

(* A failed write puts at most one message on the wire. *)
LEMMA WriteWire ==
  ASSUME NEW c \in Chan, c.have_remote_id = TRUE
  PROVE  LET d == chan_write_failed(c)
         IN  d.wire = c.wire \/ \E m \in Msg : d.wire = Append(c.wire, m)
<1> DEFINE d == chan_write_failed(c)
           o == chan_shutdown_write(c)
           s == sshpkt_send(o, "eow", 0)
<1>1. CASE c.ostate = "closed" BY <1>1 DEF chan_write_failed
<1>2. CASE c.ostate # "closed"
  <2>1. o \in Chan BY SetOutput DEF chan_shutdown_write
  <2>2. o.wire = c.wire /\ o.have_remote_id = TRUE /\ o.ostate = c.ostate
    BY DEF chan_shutdown_write, Chan
  <2> HIDE DEF o
  <2>3. chan_send_eow2(o) = s BY <1>2, <2>2 DEF chan_send_eow2, send_to_remote
  <2>4. "eow" \in MsgType \ Carrying /\ "eow" \in MsgType /\ 0 \in Int BY DEF MsgType, Carrying
  <2>5. s \in Chan /\ \E m \in Msg : s.wire = Append(o.wire, m)
    BY <2>1, <2>4, Posted, sshpkt_sendType
  <2> DEFINE e == IF c.session THEN s ELSE o
  <2>6. d = [e EXCEPT !.ostate = "closed", !.cut = TRUE]
    BY <1>2, <2>3, Zenon DEF chan_write_failed, o
  <2> HIDE DEF s
  <2>7. e \in Chan /\ (e.wire = c.wire \/ \E m \in Msg : e.wire = Append(c.wire, m))
    BY <2>1, <2>2, <2>5
  <2> HIDE DEF e
  <2>8. d.wire = e.wire BY <2>6, <2>7 DEF Chan
  <2> HIDE DEF d
  <2> QED BY <2>7, <2>8 DEF d
<1> QED BY <1>1, <1>2

(* The exit status is sent while no CLOSE has been, and so ahead of it. *)
LEMMA session_close_by_pidMoves ==
  ASSUME NEW x, NEW y, NEW c, Sane(x, c), Held(c), c.child = "running", Account(y, c)
  PROVE  Moves(y, c, session_close_by_pid(c))
<1> DEFINE s == send_to_remote(c, "exit", 0)
           r == channel_register_cleanup(s, "session", TRUE)
           w == chan_write_failed(r)
           d == [w EXCEPT !.child = "reaped"]
<1>0. /\ c \in Chan /\ c.type = "open" /\ c.have_remote_id = TRUE /\ "close_sent" \notin c.flags
  BY DEF Held, Sane, Basic
<1>1. d = session_close_by_pid(c) BY DEF session_close_by_pid
<1> HIDE DEF d
<1>2. "exit" \in MsgType \ Carrying /\ "exit" \in MsgType \ (Carrying \cup {"EOF", "eow"}) /\ 0 \in Int
  BY DEF MsgType, Carrying
<1>3. Moves(y, c, s) BY <1>0, <1>2, RemoteMoves, Zenon
<1>4. s \in Chan /\ s.have_remote_id = TRUE /\ s.child = c.child
  <2>1. s \in Chan BY <1>0, <1>2, send_to_remoteType
  <2> QED BY <1>0, <2>1 DEF send_to_remote, sshpkt_send, Chan
<1>5. ExitAhead(s.wire)
  <2>0. s = sshpkt_send(c, "exit", 0) BY <1>0 DEF send_to_remote
  <2>1. PICK m \in Msg : m.t = "exit" /\ s.wire = Append(c.wire, m)
    BY <1>0, <1>2, <2>0, Posted
  <2>2. \A i \in 1 .. Len(c.wire) : c.wire[i].t # "CLOSE" BY <1>0 DEF Sane, Wire, Order
  <2>3. c.wire \in Seq(Msg) BY <1>0, Fields
  <2> HIDE DEF s
  <2> QED BY <2>1, <2>2, <2>3, ExitAppend
<1> HIDE DEF s
<1>6. /\ Moves(y, s, r) /\ r \in Chan /\ r.have_remote_id = TRUE /\ r.wire = s.wire
      /\ r.child = s.child
  <2>1. Account(y, s) BY <1>3 DEF Moves
  <2>2. "session" \in {"none", "client", "session"} /\ TRUE \in BOOLEAN OBVIOUS
  <2> QED BY <1>4, <2>1, <2>2, CleanupMoves, Zenon
<1> HIDE DEF r
<1>7. Moves(y, r, w) /\ w \in Chan BY <1>6, chan_write_failedMoves, chan_write_failedType DEF Moves
<1>8. ExitAhead(w.wire)
  <2>1. w.wire = r.wire \/ \E m \in Msg : w.wire = Append(r.wire, m) BY <1>6, WriteWire
  <2>2. r.wire \in Seq(Msg) BY <1>6, Fields
  <2> QED BY <1>5, <1>6, <2>1, <2>2, ExitAppend
<1> HIDE DEF w
<1>9. Moves(y, w, d)
  <2>1. /\ Mode(w, d) /\ Stock(w, d) /\ Line(w, d) /\ d.child = "reaped"
        /\ d.nread = w.nread /\ d.eread = w.eread /\ d.nwritten = w.nwritten
        /\ d.rcvd = w.rcvd /\ d.exit_rcvd = w.exit_rcvd
    BY <1>7 DEF Chan, Mode, Stock, Line, d
  <2>2. Account(y, w) BY <1>7 DEF Moves
  <2>3. Local(y, d)
    BY <2>1, <2>2 DEF Account, Local, Mode, Stock, Line, Balanced, Drained, Stderr, StderrRead
  <2>4. Wired(y, d)
    <3>1. ExitAhead(d.wire) BY <1>8, <2>1 DEF Line
    <3>2. y.cut = FALSE => Flow(d.wire, y.base, d.nread - d.input, "eof_rcvd" \in y.f)
      BY <2>1, <2>2 DEF Account, Wired, Line, Stock
    <3> QED BY <2>1, <2>2, <3>1, <3>2 DEF Account, Wired, Line, Mode
  <2>5. Unseen(w, d) BY <2>1 DEF Unseen, Mode, Stock
  <2> QED BY <2>3, <2>4, <2>5 DEF Moves, Account
<1>10. Moves(y, c, d) BY <1>3, <1>6, <1>7, <1>9, MovesBoth
<1> QED BY <1>1, <1>10

LEMMA LoopPreMoves ==
  ASSUME NEW x, NEW y, NEW c, Sane(x, c), Held(c), c.type # "zombie", Account(y, c),
         NEW poll \in BOOLEAN
  PROVE  Moves(y, c, LoopPre(c, poll))
<1> DEFINE a == IF poll THEN channel_output_poll(c) ELSE c
           b == channel_pre_open(a)
           d == channel_garbage_collect(b)
<1>0. d = LoopPre(c, poll) BY DEF LoopPre
<1>1. Keeps(x, c, a) BY channel_output_pollKeeps, KeepsSelf
<1>2. Moves(y, c, a) BY channel_output_pollMoves, MovesSelf
<1> HIDE DEF a
<1>3. Sane(x, a) /\ Account(y, a) BY <1>1, <1>2 DEF Keeps, Moves
<1>4. Keeps(x, a, b) BY <1>3, channel_pre_openKeeps
<1>5. Moves(y, a, b) BY <1>3, channel_pre_openMoves DEF Sane
<1> HIDE DEF b
<1>6. Keeps(x, c, b) BY <1>1, <1>4, KeepsBoth
<1>7. Sane(x, b) /\ Held(b) /\ b.type # "zombie" BY <1>6, HoldsHeld DEF Keeps, Holds
<1>8. Moves(y, b, d) BY <1>5, <1>7, channel_garbage_collectMoves DEF Moves
<1> HIDE DEF d
<1> QED BY <1>0, <1>2, <1>5, <1>8, MovesBoth

LEMMA LoopPostMoves ==
  ASSUME NEW x, NEW y, NEW b, Sane(x, b), Held(b), b.type # "zombie", Account(y, b),
         NEW exits \in BOOLEAN, exits => b.child = "running",
         NEW io, io.rfd \in Int, io.wfd \in Int, io.efd \in Int
  PROVE  Moves(y, b, LoopPost(b, exits, io))
<1> DEFINE e == IF exits THEN session_close_by_pid(b) ELSE b
           o == channel_post_open(e, b, io)
           d == channel_garbage_collect(o)
<1>0. d = LoopPost(b, exits, io) BY DEF LoopPost
<1>1. Sane(x, e) /\ Held(e) /\ e.type = b.type BY session_close_by_pidSane
<1>2. Moves(y, b, e) BY session_close_by_pidMoves, MovesSelf
<1> HIDE DEF e
<1>3. Account(y, e) BY <1>2 DEF Moves
<1>4. Keeps(x, e, o) BY <1>1, channel_post_openKeeps
<1>5. Moves(y, e, o) BY <1>1, <1>3, channel_post_openMoves
<1> HIDE DEF o
<1>6. Sane(x, o) /\ Held(o) /\ o.type # "zombie" BY <1>1, <1>4, HoldsHeld DEF Keeps, Holds
<1>7. Moves(y, o, d) BY <1>5, <1>6, channel_garbage_collectMoves DEF Moves
<1> HIDE DEF d
<1> QED BY <1>0, <1>2, <1>5, <1>7, MovesBoth

LEMMA LoopZombieMoves ==
  ASSUME NEW x, NEW y, NEW c, Sane(x, c), c.type = "zombie", x.p = "client", Account(y, c),
         NEW poll \in BOOLEAN, NEW exits \in BOOLEAN,
         exits => LoopPre(c, poll).child = "running", NEW io
  PROVE  Moves(y, c, LoopPost(LoopPre(c, poll), exits, io))
<1> DEFINE b == LoopPre(c, poll)
           k == channel_cancel_cleanup(c)
<1>0. c \in Chan /\ c.child = "none" /\ c.child # "running" BY DEF Sane, Basic
<1>1. b = channel_garbage_collect(c)
  <2>1. channel_output_poll(c) = c BY DEF channel_output_poll
  <2>2. channel_pre_open(c) = c BY DEF channel_pre_open
  <2> QED BY <2>1, <2>2 DEF LoopPre
<1>2. b = channel_free(c) \/ b = channel_free(k) BY <1>0, <1>1, CollectZombie
<1>3. Moves(y, c, k) /\ k \in Chan /\ k.type = "zombie" /\ k.child = c.child
  BY <1>0, CancelMoves
<1> HIDE DEF k
<1>4. Moves(y, c, channel_free(c)) BY <1>0, channel_freeMoves
<1>5. Moves(y, k, channel_free(k)) BY <1>3, channel_freeMoves DEF Moves
<1>6. Moves(y, c, b) BY <1>2, <1>3, <1>4, <1>5, MovesBoth
<1>7. b.type = "freed" /\ b.child = "none"
  BY <1>0, <1>2, <1>3 DEF channel_free, Chan
<1>8. ~exits BY <1>7
<1> HIDE DEF b
<1>9. LoopPost(b, exits, io) = b
  <2>1. channel_post_open(b, b, io) = b BY <1>7 DEF channel_post_open
  <2>2. channel_garbage_collect(b) = b BY <1>7 DEF channel_garbage_collect, Exists
  <2> QED BY <1>8, <2>1, <2>2 DEF LoopPost
<1>10. Moves(y, c, LoopPost(b, exits, io)) BY <1>6, <1>9
<1> QED BY <1>10 DEF b
-----------------------------------------------------------------------------
(* The account through the packet handlers. *)

(* What the peer notices when end p, which has counted message m, handles it. *)
Takes(p, c, d, m) ==
  /\ d.rcvd = c.rcvd
  /\ "eof_rcvd" \in d.flags <=> "eof_rcvd" \in c.flags \/ m.t = "EOF"
  /\ d.cut = FALSE =>
       c.cut = FALSE /\ d.nwritten + d.output = c.nwritten + c.output + Load(m)
  /\ c.exit_rcvd = TRUE \/ (p = "client" /\ m.t = "exit") => d.exit_rcvd = TRUE
Takings(y, p, c, d, m) == Account(y, d) /\ Takes(p, c, d, m)

LEMMA MovesTakings ==
  ASSUME NEW y, NEW p, NEW c \in Chan, NEW d, Moves(y, c, d), NEW m,
         m.t \notin {"DATA", "EOF"}, p # "client" \/ m.t # "exit"
  PROVE  Takings(y, p, c, d, m)
<1>1. c.nwritten + c.output \in Int BY Fields
<1>2. Load(m) = 0 BY DEF Load
<1>3. c.nwritten + c.output + Load(m) = c.nwritten + c.output BY <1>1, <1>2
<1> QED BY <1>3 DEF Takings, Takes, Moves, Unseen

LEMMA TakingsMoves ==
  ASSUME NEW y, NEW p, NEW c, NEW d, NEW e, NEW m, Takings(y, p, c, d, m), Moves(y, d, e)
  PROVE  Takings(y, p, c, e, m)
BY DEF Takings, Takes, Moves, Unseen

(* Only windows and callbacks change. *)
LEMMA LikeMoves ==
  ASSUME NEW y, NEW c, NEW d, Account(y, c), Mode(c, d), Stock(c, d), Book(c, d), Line(c, d)
  PROVE  Moves(y, c, d)
<1>1. Account(y, d) BY LikeAccount DEF Book
<1>2. Unseen(c, d) BY DEF Unseen, Mode, Stock, Book
<1> QED BY <1>1, <1>2 DEF Moves

LEMMA channel_input_window_adjustMoves ==
  ASSUME NEW y, NEW c \in Chan, Account(y, c), NEW n
  PROVE  Moves(y, c, channel_input_window_adjust(c, n))
<1> DEFINE d == channel_input_window_adjust(c, n)
<1>1. Mode(c, d) /\ Stock(c, d) /\ Book(c, d) /\ Line(c, d)
  BY DEF channel_input_window_adjust, Chan, Mode, Stock, Book, Line
<1> HIDE DEF d
<1>2. Moves(y, c, d) BY <1>1, LikeMoves
<1> QED BY <1>2 DEF d

LEMMA channel_input_dataTakes ==
  ASSUME NEW y, NEW p, NEW c \in Chan, Account(y, c), NEW m \in Msg, m.t = "DATA",
         c.type = "open", c.ostate # "open" => c.cut = TRUE,
         m.n <= MaxPacket, m.n <= c.local_window
  PROVE  Takings(y, p, c, channel_input_data(c, m.n), m)
<1> DEFINE n == m.n
           d == channel_input_data(c, n)
<1>1. n \in Int /\ n <= MaxPacket /\ n <= c.local_window /\ Load(m) = n BY DEF Msg, Load
<1> HIDE DEF n
<1>2. /\ Mode(c, d) /\ Book(c, d) /\ Line(c, d) /\ d.input = c.input /\ d.extended = c.extended
      /\ d.extended_usage = c.extended_usage /\ d.efd = c.efd
      /\ d.output = IF c.ostate = "open" THEN c.output + n ELSE c.output
  BY <1>1 DEF channel_input_data, Chan, Mode, Book, Line
<1> HIDE DEF d
<1>3. Local(y, d)
  BY <1>2 DEF Account, Local, Mode, Book, Line, Balanced, Drained, Stderr, StderrRead
<1>4. Wired(y, d) BY <1>2, WiredSame DEF Account, Mode, Book
<1>5. Takes(p, c, d, m)
  <2>1. c.nwritten \in Nat /\ c.output \in Nat BY Fields
  <2>2. d.cut = FALSE => d.nwritten + d.output = c.nwritten + c.output + Load(m)
    BY <1>1, <1>2, <2>1 DEF Mode, Book
  <2> QED BY <1>2, <2>2 DEF Takes, Mode, Book
<1>6. Takings(y, p, c, d, m) BY <1>3, <1>4, <1>5 DEF Takings, Account
<1> QED BY <1>6 DEF d, n

LEMMA channel_input_extended_dataMoves ==
  ASSUME NEW y, NEW c \in Chan, Account(y, c), NEW n, c.type = "open", "eof_rcvd" \notin c.flags
  PROVE  Moves(y, c, channel_input_extended_data(c, n))
<1> DEFINE d == channel_input_extended_data(c, n)
<1>1. CASE d = c BY <1>1, MovesSelf
<1>2. CASE d # c
  <2>1. c.extended_usage = "write"
        /\ d = [c EXCEPT !.local_window = @ - n, !.extended = @ + n]
    BY <1>2 DEF channel_input_extended_data
  <2>2. /\ Mode(c, d) /\ Line(c, d) /\ Book(c, d) /\ d.input = c.input /\ d.output = c.output
        /\ d.extended_usage = c.extended_usage /\ d.efd = c.efd
    BY <2>1 DEF Chan, Mode, Book, Line
  <2> HIDE DEF d
  <2>3. Balanced(c) => Balanced(d)
    BY <2>1, <2>2 DEF Balanced, Stderr, StderrRead, Book, Line
  <2>4. Drained(c) => Drained(d) BY <2>1, <2>2 DEF Drained, Mode
  <2>5. Moves(y, c, d) BY <2>2, <2>3, <2>4, ExtendedMoves DEF Book
  <2> QED BY <2>5 DEF d
<1> QED BY <1>1, <1>2

LEMMA chan_rcvd_ieofTakes ==
  ASSUME NEW y, NEW p, NEW c \in Chan, Account(y, c), NEW m, m.t = "EOF"
  PROVE  Takings(y, p, c, chan_rcvd_ieof(c), m)
<1> DEFINE f == c.flags \cup {"eof_rcvd"}
           o == IF c.ostate = "open" THEN "drain" ELSE c.ostate
           a == [c EXCEPT !.flags = f, !.ostate = o]
           d == chan_rcvd_ieof(c)
<1>1. f \in SUBSET Flag BY Fields DEF Flag
<1>2. o \in HalfState BY Fields DEF HalfState
<1>3. a \in Chan
  <2> HIDE DEF f, o
  <2> QED BY <1>1, <1>2, Zenon DEF Chan
<1>4. d = chan_obuf_empty(a) \/ d = a BY DEF chan_rcvd_ieof
<1>5. /\ a.type = c.type /\ a.istate = c.istate /\ a.cut = c.cut /\ a.flags = f /\ a.ostate = o
      /\ Stock(c, a) /\ Book(c, a) /\ Line(c, a)
  BY DEF Chan, Stock, Book, Line
<1> HIDE DEF a, d
<1>6. Local(y, a)
  BY <1>5 DEF Account, Local, Stock, Book, Line, Balanced, Drained, Stderr, StderrRead
<1>7. Wired(y, a) BY <1>5, WiredSame DEF Account, Stock, Book
<1>8. Takes(p, c, a, m)
  <2>1. c.nwritten + c.output \in Int BY Fields
  <2>2. c.nwritten + c.output + Load(m) = c.nwritten + c.output BY <2>1 DEF Load
  <2> QED BY <1>5, <2>2 DEF Takes, Stock, Book
<1>9. Takings(y, p, c, a, m) /\ Account(y, a) BY <1>6, <1>7, <1>8 DEF Takings, Account
<1>10. Moves(y, a, d) BY <1>3, <1>4, <1>9, chan_obuf_emptyMoves, MovesSelf
<1>11. Takings(y, p, c, d, m) BY <1>9, <1>10, TakingsMoves
<1> QED BY <1>11 DEF d

LEMMA chan_rcvd_eowMoves ==
  ASSUME NEW y, NEW c \in Chan, Account(y, c), y.cut # FALSE
  PROVE  Moves(y, c, chan_rcvd_eow(c))
<1> DEFINE d == chan_rcvd_eow(c)
<1>1. CASE c.istate # "open" BY <1>1, MovesSelf DEF chan_rcvd_eow
<1>2. CASE c.istate = "open"
  <2>1. /\ d.type = c.type /\ d.istate = "closed" /\ d.ostate = c.ostate /\ d.flags = c.flags
        /\ d.cut = c.cut /\ Stock(c, d) /\ Book(c, d) /\ Line(c, d)
    BY <1>2 DEF chan_rcvd_eow, Chan, Stock, Book, Line
  <2> HIDE DEF d
  <2>2. Local(y, d) BY <1>2, <2>1 DEF Account, Local, Stock, Book
  <2>3. Wired(y, d) BY <2>1, WiredSame DEF Account, Stock, Book
  <2>4. Unseen(c, d) BY <2>1 DEF Unseen, Stock, Book
  <2> QED BY <2>2, <2>3, <2>4 DEF Moves, Account, d
<1> QED BY <1>1, <1>2

(* The CLOSE: what is left to be sent is lost, unless the peer's output    *)
(* was cut or there is nothing left.                                       *)
LEMMA chan_rcvd_ocloseMoves ==
  ASSUME NEW y, NEW c \in Chan, Account(y, c), c.have_remote_id = TRUE,
         c.type \in {"larval", "open"},
         y.cut = FALSE => c.istate = "closed" \/ c.type = "larval"
  PROVE  Moves(y, c, chan_rcvd_oclose(c))
<1> DEFINE f == c.flags \cup {"close_rcvd"}
           a == [c EXCEPT !.flags = f]
           w == IF a.ostate = "open" THEN "drain" ELSE a.ostate
           b == [a EXCEPT !.ostate = w]
           s == sshpkt_send(b, "EOF", 0)
           g == s.flags \cup {"eof_sent"}
           e == [s EXCEPT !.flags = g]
           u == [e EXCEPT !.istate = "closed"]
           d == chan_rcvd_oclose(c)
<1>1. f \in SUBSET Flag BY Fields DEF Flag
<1>2. a \in Chan BY <1>1, SetFlags
<1>3. /\ a.type = c.type /\ a.istate = c.istate /\ a.ostate = c.ostate /\ a.flags = f
      /\ a.cut = c.cut /\ Stock(c, a) /\ Book(c, a) /\ Line(c, a)
      /\ a.have_remote_id = c.have_remote_id
  BY DEF Chan, Stock, Book, Line
<1>4. d = IF c.type = "larval" THEN [a EXCEPT !.ostate = "closed", !.istate = "closed"]
          ELSE LET h == IF b.istate = "drain" THEN chan_send_eof2(b) ELSE b
                   x == IF b.istate = "closed" THEN h ELSE chan_shutdown_extended_read(h)
               IN  [x EXCEPT !.istate = "closed"]
  BY DEF chan_rcvd_oclose
<1> HIDE DEF d, a
<1>5. CASE c.type = "larval"
  <2>1. d = [a EXCEPT !.ostate = "closed", !.istate = "closed"] BY <1>4, <1>5
  <2>2. /\ d.type = a.type /\ d.istate = "closed" /\ d.ostate = "closed" /\ d.flags = a.flags
        /\ d.cut = a.cut /\ Stock(a, d) /\ Book(a, d) /\ Line(a, d)
    BY <1>2, <2>1 DEF Chan, Stock, Book, Line
  <2>3. /\ d.type = "larval" /\ d.flags = f /\ d.cut = c.cut /\ Stock(c, d) /\ Book(c, d)
        /\ Line(c, d)
    BY <1>3, <1>5, <2>2 DEF Stock, Book, Line
  <2>4. Local(y, d)
    BY <1>5, <2>2, <2>3
       DEF Account, Local, Stock, Book, Line, Balanced, Drained, Stderr, StderrRead
  <2>5. Wired(y, d) BY <2>3, WiredSame DEF Account, Stock, Book
  <2>6. Unseen(c, d) BY <2>3 DEF Unseen, Stock, Book
  <2>7. Moves(y, c, d) BY <2>4, <2>5, <2>6 DEF Moves, Account
  <2> QED BY <2>7 DEF d
<1>6. CASE c.type = "open"
  <2>0. w \in HalfState BY <1>2, Fields DEF HalfState
  <2>1. b \in Chan
    <3> HIDE DEF w
    <3> QED BY <1>2, <2>0, SetOstate
  <2>2. /\ b.type = a.type /\ b.istate = a.istate /\ b.ostate = w /\ b.flags = a.flags
        /\ b.cut = a.cut /\ Stock(a, b) /\ Book(a, b) /\ Line(a, b)
        /\ b.have_remote_id = a.have_remote_id
    BY <1>2 DEF Chan, Stock, Book, Line
  <2>3. /\ b.type = "open" /\ b.istate = c.istate /\ b.flags = f /\ b.cut = c.cut
        /\ Stock(c, b) /\ Book(c, b) /\ Line(c, b) /\ b.have_remote_id = TRUE
        /\ b.ostate = IF c.ostate = "open" THEN "drain" ELSE c.ostate
    BY <1>3, <1>6, <2>2 DEF Stock, Book, Line
  <2> HIDE DEF b
  <2>4. Moves(y, c, b)
    <3>1. Local(y, b)
      BY <1>6, <2>3 DEF Account, Local, Stock, Book, Line, Balanced, Drained, Stderr, StderrRead
    <3>2. Wired(y, b) BY <2>3, WiredSame DEF Account, Stock, Book
    <3>3. Unseen(c, b) BY <2>3 DEF Unseen, Stock, Book
    <3> QED BY <3>1, <3>2, <3>3 DEF Moves, Account
  <2>5. Account(y, b) BY <2>4 DEF Moves
  <2>6. Moves(y, b, d)
    <3>1. CASE b.istate = "closed"
      <4>1. d = [b EXCEPT !.istate = "closed"] BY <1>4, <1>6, <3>1
      <4>2. Mode(b, d) /\ Stock(b, d) /\ Book(b, d) /\ Line(b, d)
        BY <2>1, <3>1, <4>1 DEF Chan, Mode, Stock, Book, Line
      <4> QED BY <2>5, <4>2, LikeMoves
    <3>2. CASE b.istate = "open"
      <4>1. d = [chan_shutdown_extended_read(b) EXCEPT !.istate = "closed"]
        BY <1>4, <1>6, <3>2
      <4>2. /\ d.type = b.type /\ d.istate = "closed" /\ d.ostate = b.ostate /\ d.flags = b.flags
            /\ d.cut = b.cut /\ d.input = b.input /\ d.output = b.output
            /\ d.extended = b.extended /\ d.extended_usage = b.extended_usage
            /\ Book(b, d) /\ Line(b, d)
        BY <2>1, <4>1 DEF chan_shutdown_extended_read, Chan, Book, Line
      <4>3. y.cut # FALSE BY <1>6, <2>3, <3>2
      <4>4. Local(y, d) BY <2>3, <2>5, <4>2, <4>3 DEF Account, Local, Book
      <4>5. Wired(y, d) BY <2>5, <4>2, WiredSame DEF Account, Book
      <4>6. Unseen(b, d) BY <4>2 DEF Unseen, Book
      <4> QED BY <4>4, <4>5, <4>6 DEF Moves, Account
    <3>3. CASE b.istate = "drain"
      <4>0. y.cut # FALSE BY <1>6, <2>3, <3>3
      <4>1. s \in Chan /\ s = send_to_remote(b, "EOF", 0)
        BY <2>1, <2>3, sshpkt_sendType DEF send_to_remote, MsgType, Carrying
      <4>2. Mode(b, s) /\ Stock(b, s) /\ Book(b, s) BY <2>1, SendLike
      <4>3. chan_send_eof2(b) = e BY <3>3, <4>1 DEF chan_send_eof2
      <4> HIDE DEF s
      <4>4. g \in SUBSET Flag BY <4>1, Fields DEF Flag
      <4>5. e \in Chan
        <5> HIDE DEF g
        <5> QED BY <4>1, <4>4, SetFlags
      <4>6. /\ u.type = s.type /\ u.istate = "closed" /\ u.ostate = s.ostate /\ u.flags = g
            /\ u.cut = s.cut /\ Stock(s, u) /\ Book(s, u) /\ Line(s, u)
        BY <4>1 DEF Chan, Stock, Book, Line
      <4>7. d = [chan_shutdown_extended_read(e) EXCEPT !.istate = "closed"]
        BY <1>4, <1>6, <3>3, <4>3
      <4> HIDE DEF e
      <4>8. u \in Chan BY <4>5, SetIstate DEF HalfState
      <4>9. /\ Mode(u, d) /\ Line(u, d) /\ Book(u, d) /\ d.input = u.input /\ d.output = u.output
            /\ d.extended = u.extended /\ d.extended_usage = u.extended_usage
        BY <4>5, <4>7 DEF chan_shutdown_extended_read, Chan, Mode, Line, Book
      <4> HIDE DEF u
      <4>10. /\ u.type = b.type /\ u.flags = b.flags \cup {"eof_sent"} /\ u.ostate = b.ostate
             /\ u.cut = b.cut /\ Stock(b, u) /\ Book(b, u)
        BY <4>2, <4>6 DEF Mode, Stock, Book
      <4>11. Moves(y, b, u) BY <2>1, <2>3, <2>5, <4>0, <4>1, <4>6, <4>10, EofMoves
      <4>12. Moves(y, u, d)
        BY <2>3, <4>0, <4>8, <4>9, <4>10, <4>11, ExtendedMoves DEF Moves, Book
      <4> QED BY <4>11, <4>12, MovesBoth
    <3> QED BY <2>1, <3>1, <3>2, <3>3, Fields DEF HalfState
  <2>7. Moves(y, c, d) BY <2>4, <2>6, MovesBoth
  <2> QED BY <2>7 DEF d
<1> QED BY <1>5, <1>6

LEMMA channel_input_status_confirmMoves ==
  ASSUME NEW y, NEW c \in Chan, Account(y, c), c.have_remote_id = TRUE, NEW t
  PROVE  Moves(y, c, channel_input_status_confirm(c, t))
<1> DEFINE d == [c EXCEPT !.confirm = FALSE]
           r == chan_read_failed(d)
           w == chan_write_failed(r)
<1>1. channel_input_status_confirm(c, t) = IF c.confirm /\ t = "FAILURE" THEN w ELSE d
  BY DEF channel_input_status_confirm
<1>2. /\ Mode(c, d) /\ Stock(c, d) /\ Book(c, d) /\ Line(c, d)
      /\ d.have_remote_id = c.have_remote_id
  BY DEF Chan, Mode, Stock, Book, Line
<1>3. d \in Chan BY Zenon DEF Chan
<1> HIDE DEF d
<1>4. Moves(y, c, d) BY <1>2, LikeMoves
<1>5. Account(y, d) BY <1>4 DEF Moves
<1>6. Moves(y, d, r) BY <1>3, <1>5, chan_read_failedMoves
<1>7. r \in Chan /\ r.have_remote_id = TRUE
  BY <1>2, <1>3, chan_read_failedType DEF chan_read_failed, Chan
<1> HIDE DEF r
<1>8. Account(y, r) BY <1>6 DEF Moves
<1>9. Moves(y, r, w) BY <1>7, <1>8, chan_write_failedMoves
<1> HIDE DEF w
<1>10. Moves(y, c, w) BY <1>4, <1>6, <1>9, MovesBoth
<1> QED BY <1>1, <1>4, <1>10

LEMMA client_input_channel_reqTakes ==
  ASSUME NEW y, NEW c \in Chan, Account(y, c), c.have_remote_id = TRUE,
         NEW m, m.t \in Requests, m.t = "eow" => y.cut # FALSE
  PROVE  Takings(y, "client", c, client_input_channel_req(c, m.t), m)
<1> DEFINE d == client_input_channel_req(c, m.t)
           s == send_to_remote(c, "FAILURE", 0)
<1>0. m.t \notin {"DATA", "EOF"} BY DEF Requests
<1>1. CASE m.t = "exit"
  <2>1. d = [c EXCEPT !.exit_rcvd = TRUE] BY <1>1 DEF client_input_channel_req
  <2>2. /\ Mode(c, d) /\ Stock(c, d) /\ Line(c, d) /\ d.nread = c.nread /\ d.eread = c.eread
        /\ d.child = c.child /\ d.nwritten = c.nwritten /\ d.rcvd = c.rcvd /\ d.exit_rcvd = TRUE
    BY <2>1 DEF Chan, Mode, Stock, Line
  <2> HIDE DEF d
  <2>3. Account(y, d) BY <2>2, LikeAccount
  <2>4. c.nwritten + c.output + Load(m) = c.nwritten + c.output BY <1>0, Fields DEF Load
  <2>5. Takes("client", c, d, m) BY <1>0, <2>2, <2>4 DEF Takes, Mode, Stock
  <2> QED BY <2>3, <2>5 DEF Takings, d
<1>2. CASE m.t # "exit"
  <2>1. "FAILURE" \in MsgType \ (Carrying \cup {"EOF", "eow"}) /\ 0 \in Int
    BY DEF MsgType, Carrying
  <2>2. Moves(y, c, s) BY <2>1, RemoteMoves, Zenon
  <2>3. m.t = "eow" => Moves(y, c, chan_rcvd_eow(c)) BY chan_rcvd_eowMoves
  <2>4. d = s \/ d = c \/ (m.t = "eow" /\ d = chan_rcvd_eow(c))
    BY <1>2 DEF client_input_channel_req
  <2> HIDE DEF d, s
  <2>5. Moves(y, c, d) BY <2>2, <2>3, <2>4, MovesSelf
  <2>6. Takings(y, "client", c, d, m) BY <1>0, <1>2, <2>5, MovesTakings
  <2> QED BY <2>6 DEF d
<1> QED BY <1>1, <1>2

LEMMA channel_set_fdsMoves ==
  ASSUME NEW y, NEW c \in Chan, Account(y, c), c.have_remote_id = TRUE, c.type = "larval",
         "close_rcvd" \notin c.flags, NEW tty \in BOOLEAN
  PROVE  LET d == channel_set_fds(c, tty)
         IN  Moves(y, c, d) /\ d \in Chan /\ d.have_remote_id = TRUE
<1> DEFINE u == IF tty THEN "ignore" ELSE "read"
           e == ~tty
           o == [c EXCEPT !.type = "open", !.local_window = Window, !.child = "running",
                          !.isatty = tty, !.efd = e, !.extended_usage = u]
           s == send_to_remote(o, "ADJUST", Window)
<1>1. u \in ExtUsage /\ e \in BOOLEAN /\ Window \in Nat /\ Window \in Int
  BY ChannelAssumption DEF ExtUsage
<1>2. channel_set_fds(c, tty) = s BY DEF channel_set_fds
<1> HIDE DEF u, e
<1>3. o \in Chan BY <1>1, Zenon DEF Chan, ChannelType
<1>4. /\ o.type = "open" /\ o.istate = c.istate /\ o.ostate = c.ostate /\ o.flags = c.flags
      /\ o.cut = c.cut /\ o.input = c.input /\ o.output = c.output /\ o.extended = c.extended
      /\ o.extended_usage = u /\ o.nread = c.nread /\ o.eread = c.eread
      /\ o.nwritten = c.nwritten /\ o.child = "running" /\ o.exit_rcvd = c.exit_rcvd
      /\ o.rcvd = c.rcvd /\ Line(c, o) /\ o.have_remote_id = TRUE
  BY DEF Chan, Line
<1> HIDE DEF o
<1>5. /\ c.input = 0 /\ c.output = 0 /\ c.extended = 0 /\ c.eread = 0 /\ c.extended_usage # "read"
  BY DEF Account, Local
<1>6. y.cut = FALSE => Balanced(c) /\ c.istate # "closed" BY DEF Account, Local, Drained
<1>7. Local(y, o)
  <2>1. Stderr(o) = 0 /\ StderrRead(o) = 0 /\ Stderr(c) = 0 /\ StderrRead(c) = 0
    BY <1>4, <1>5 DEF Stderr, StderrRead
  <2>2. Balanced(c) => Balanced(o) BY <1>4, <2>1 DEF Balanced, Line
  <2>3. y.cut = FALSE => Drained(o) BY <1>4, <1>6 DEF Drained
  <2> QED BY <1>4, <1>6, <2>2, <2>3 DEF Account, Local
<1>8. Wired(y, o)
  <2>1. y.cut = FALSE => Flow(o.wire, y.base, o.nread - o.input, "eof_rcvd" \in y.f)
    BY <1>4 DEF Account, Wired, Line
  <2> QED BY <1>4, <2>1 DEF Account, Wired, Line
<1>9. Moves(y, c, o) BY <1>4, <1>7, <1>8 DEF Moves, Account, Unseen
<1>10. "ADJUST" \in MsgType \ (Carrying \cup {"EOF", "eow"}) BY DEF MsgType, Carrying
<1>11. Account(y, o) BY <1>9 DEF Moves
<1>12. Moves(y, o, s) BY <1>1, <1>3, <1>4, <1>10, <1>11, RemoteMoves, Zenon
<1>13. s \in Chan BY <1>1, <1>3, <1>10, send_to_remoteType
<1>14. s.have_remote_id = TRUE BY <1>3, <1>4, <1>13 DEF send_to_remote, sshpkt_send, Chan
<1> HIDE DEF s
<1>15. Moves(y, c, s) BY <1>9, <1>12, MovesBoth
<1> QED BY <1>2, <1>13, <1>14, <1>15

LEMMA server_input_channel_reqMoves ==
  ASSUME NEW y, NEW c \in Chan, Account(y, c), c.have_remote_id = TRUE, NEW t,
         t = "eow" => y.cut # FALSE, "close_rcvd" \notin c.flags,
         NEW ok \in BOOLEAN, NEW tty \in BOOLEAN
  PROVE  Moves(y, c, server_input_channel_req(c, t, ok, tty))
<1> DEFINE go == t = "exec" /\ c.type = "larval" /\ ok
           s  == IF go THEN channel_set_fds(c, tty) ELSE c
           r  == IF go THEN "SUCCESS" ELSE "FAILURE"
           e  == send_to_remote(s, r, 0)
           d  == server_input_channel_req(c, t, ok, tty)
<1>1. d = s \/ d = e \/ (t = "eow" /\ d = chan_rcvd_eow(c)) BY DEF server_input_channel_req
<1>2. Moves(y, c, s) /\ s \in Chan /\ s.have_remote_id = TRUE
  BY channel_set_fdsMoves, MovesSelf
<1>3. r \in MsgType \ (Carrying \cup {"EOF", "eow"}) /\ 0 \in Int BY DEF MsgType, Carrying
<1> HIDE DEF s, r, d
<1>4. Account(y, s) BY <1>2 DEF Moves
<1>5. Moves(y, s, e) BY <1>2, <1>3, <1>4, RemoteMoves, Zenon
<1> HIDE DEF e
<1>6. Moves(y, c, e) BY <1>2, <1>5, MovesBoth
<1>7. t = "eow" => Moves(y, c, chan_rcvd_eow(c)) BY chan_rcvd_eowMoves
<1>8. Moves(y, c, d) BY <1>1, <1>2, <1>6, <1>7
<1> QED BY <1>8 DEF d

LEMMA HandleTakes ==
  ASSUME NEW p \in Peer, NEW y, NEW c \in Chan, Account(y, c), NEW m \in Msg, m.t \notin Setup,
         c.type \in {"larval", "open"} => c.have_remote_id = TRUE,
         m.t = "DATA" => /\ c.type = "open" /\ (c.ostate # "open" => c.cut = TRUE)
                         /\ m.n <= MaxPacket /\ m.n <= c.local_window,
         m.t = "EXT" => c.type = "open" /\ "eof_rcvd" \notin c.flags,
         m.t = "CLOSE" => (y.cut = FALSE => c.istate = "closed" \/ c.type = "larval"),
         m.t = "eow" => y.cut # FALSE,
         p = "server" => "close_rcvd" \notin c.flags,
         \/ c.type \in {"larval", "open"}
         \/ c.type = "freed" /\ p = "client" /\ m.t = "keepalive",
         NEW ok \in BOOLEAN, NEW tty \in BOOLEAN
  PROVE  Takings(y, p, c, Handle(p, c, m, ok, tty), m)
<1> DEFINE d == Handle(p, c, m, ok, tty)
<1>0. m.t \in MsgType BY Zenon DEF Msg
<1>1. CASE c.type = "freed"
  <2>1. d = c BY <1>1 DEF Handle, Exists, Requests
  <2> HIDE DEF d
  <2>2. Moves(y, c, d) BY <2>1, MovesSelf
  <2>3. Takings(y, p, c, d, m) BY <1>1, <2>2, MovesTakings
  <2> QED BY <2>3 DEF d
<1>2. CASE c.type \in {"larval", "open"}
  <2>0. Exists(c) BY <1>2 DEF Exists
  <2>1. ASSUME Moves(y, c, d), m.t \notin {"DATA", "EOF"}, p # "client" \/ m.t # "exit"
        PROVE  Takings(y, p, c, d, m)
    <3> HIDE DEF d
    <3> QED BY <2>1, MovesTakings
  <2>2. CASE m.t = "ADJUST"
    <3>1. d = channel_input_window_adjust(c, m.n) BY <2>0, <2>2 DEF Handle, Requests
    <3>2. Moves(y, c, d) BY <3>1, channel_input_window_adjustMoves
    <3> QED BY <2>1, <2>2, <3>2
  <2>3. CASE m.t = "DATA"
    <3>1. d = channel_input_data(c, m.n) BY <2>0, <2>3 DEF Handle, Requests
    <3>2. /\ c.type = "open" /\ (c.ostate # "open" => c.cut = TRUE)
          /\ m.n <= MaxPacket /\ m.n <= c.local_window
      BY <2>3
    <3>3. Takings(y, p, c, channel_input_data(c, m.n), m)
      BY <2>3, <3>2, channel_input_dataTakes, Zenon
    <3> QED BY <3>1, <3>3, Zenon
  <2>4. CASE m.t = "EXT"
    <3>1. d = channel_input_extended_data(c, m.n) BY <2>0, <2>4 DEF Handle, Requests
    <3>2. Moves(y, c, d) BY <2>4, <3>1, channel_input_extended_dataMoves
    <3> QED BY <2>1, <2>4, <3>2
  <2>5. CASE m.t = "EOF"
    <3>1. d = chan_rcvd_ieof(c) BY <2>0, <2>5 DEF Handle, Requests
    <3> QED BY <2>5, <3>1, chan_rcvd_ieofTakes
  <2>6. CASE m.t = "CLOSE"
    <3>1. d = chan_rcvd_oclose(c) BY <2>0, <2>6 DEF Handle, Requests
    <3>2. Moves(y, c, d) BY <1>2, <2>6, <3>1, chan_rcvd_ocloseMoves
    <3> QED BY <2>1, <2>6, <3>2
  <2>7. CASE m.t \in {"SUCCESS", "FAILURE"}
    <3>1. d = channel_input_status_confirm(c, m.t) BY <2>0, <2>7 DEF Handle, Requests
    <3>2. c.have_remote_id = TRUE BY <1>2
    <3>3. Moves(y, c, channel_input_status_confirm(c, m.t))
      BY <3>2, channel_input_status_confirmMoves, Zenon
    <3> QED BY <2>1, <2>7, <3>1, <3>3
  <2>8. CASE m.t \in Requests
    <3>1. CASE p = "client"
      <4>1. d = client_input_channel_req(c, m.t) BY <2>0, <2>8, <3>1 DEF Handle, Requests
      <4>2. c.have_remote_id = TRUE BY <1>2
      <4>3. Takings(y, "client", c, client_input_channel_req(c, m.t), m)
        BY <2>8, <4>2, client_input_channel_reqTakes, Zenon
      <4> QED BY <3>1, <4>1, <4>3
    <3>2. CASE p = "server"
      <4>1. d = server_input_channel_req(c, m.t, ok, tty)
        BY <2>0, <2>8, <3>2 DEF Handle, Requests
      <4>0. c.have_remote_id = TRUE /\ "close_rcvd" \notin c.flags BY <1>2, <3>2
      <4>2. Moves(y, c, server_input_channel_req(c, m.t, ok, tty))
        BY <4>0, server_input_channel_reqMoves, Zenon
      <4>3. m.t \notin {"DATA", "EOF"} BY <2>8 DEF Requests
      <4> QED BY <2>1, <3>2, <4>1, <4>2, <4>3
    <3> QED BY <3>1, <3>2 DEF Peer
  <2>9. \/ m.t \in {"ADJUST", "DATA", "EXT", "EOF", "CLOSE", "SUCCESS", "FAILURE"}
        \/ m.t \in Requests
    BY <1>0 DEF MsgType, Setup, Requests
  <2> QED BY <2>2, <2>3, <2>4, <2>5, <2>6, <2>7, <2>8, <2>9
<1> QED BY <1>1, <1>2

(* A channel that was not open yet gets another type. *)
LEMMA RetypeMoves ==
  ASSUME NEW y, NEW c, Account(y, c), c.type \notin {"open", "freed"}, NEW d,
         d.type # "larval" \/ c.istate # "closed", d.istate = c.istate, d.ostate = c.ostate,
         d.flags = c.flags, d.cut = c.cut, d.input = c.input, d.output = c.output,
         d.extended = c.extended, d.extended_usage # "read", Book(c, d), Line(c, d)
  PROVE  Moves(y, c, d)
<1>1. /\ c.input = 0 /\ c.output = 0 /\ c.extended = 0 /\ c.eread = 0 /\ c.extended_usage # "read"
  BY DEF Account, Local
<1>2. Balanced(c) => Balanced(d) BY <1>1 DEF Balanced, Stderr, StderrRead, Book, Line
<1>3. Drained(c) => Drained(d) BY DEF Drained
<1>4. Local(y, d) BY <1>1, <1>2, <1>3 DEF Account, Local, Book
<1>5. Wired(y, d) BY WiredSame DEF Account, Book
<1>6. Unseen(c, d) BY DEF Unseen, Book
<1> QED BY <1>4, <1>5, <1>6 DEF Moves, Account

LEMMA channel_input_open_confirmationMoves ==
  ASSUME NEW y, NEW c \in Chan, Account(y, c), c.type = "opening", NEW n \in Int
  PROVE  Moves(y, c, channel_input_open_confirmation(c, n))
<1> DEFINE o == [c EXCEPT !.have_remote_id = TRUE, !.remote_window = n, !.type = "open"]
           s == send_to_remote(o, "exec", 0)
           f == [s EXCEPT !.confirm = TRUE]
<1>1. channel_input_open_confirmation(c, n) = IF c.session THEN f ELSE o
  BY DEF channel_input_open_confirmation
<1>2. o \in Chan BY Zenon DEF Chan, ChannelType
<1>3. /\ o.type = "open" /\ o.istate = c.istate /\ o.ostate = c.ostate /\ o.flags = c.flags
      /\ o.cut = c.cut /\ Stock(c, o) /\ Book(c, o) /\ Line(c, o) /\ o.have_remote_id = TRUE
  BY DEF Chan, Stock, Book, Line
<1> HIDE DEF o
<1>4. c.extended_usage # "read" BY DEF Account, Local
<1>5. Moves(y, c, o) BY <1>3, <1>4, RetypeMoves DEF Stock
<1>6. Account(y, o) BY <1>5 DEF Moves
<1>7. "exec" \in MsgType \ (Carrying \cup {"EOF", "eow"}) /\ 0 \in Int BY DEF MsgType, Carrying
<1>8. Moves(y, o, s) BY <1>2, <1>3, <1>6, <1>7, RemoteMoves, Zenon
<1>9. s \in Chan BY <1>2, <1>7, send_to_remoteType
<1> HIDE DEF s
<1>10. Mode(s, f) /\ Stock(s, f) /\ Book(s, f) /\ Line(s, f)
  BY <1>9 DEF Chan, Mode, Stock, Book, Line
<1> HIDE DEF f
<1>11. Moves(y, s, f) BY <1>8, <1>10, LikeMoves DEF Moves
<1>12. Moves(y, c, f) BY <1>5, <1>8, <1>11, MovesBoth
<1> QED BY <1>1, <1>5, <1>12

LEMMA chan_mark_deadMoves ==
  ASSUME NEW y, NEW c \in Chan, Account(y, c), c.type \notin {"open", "freed"}
  PROVE  Moves(y, c, chan_mark_dead(c))
<1> DEFINE d == chan_mark_dead(c)
<1>1. /\ d.type = "zombie" /\ d.istate = c.istate /\ d.ostate = c.ostate /\ d.flags = c.flags
      /\ d.cut = c.cut /\ Stock(c, d) /\ Book(c, d) /\ Line(c, d)
  BY DEF chan_mark_dead, Chan, Stock, Book, Line
<1> HIDE DEF d
<1>2. c.extended_usage # "read" BY DEF Account, Local
<1>3. Moves(y, c, d) BY <1>1, <1>2, RetypeMoves DEF Stock
<1> QED BY <1>3 DEF d

LEMMA server_input_channel_openMoves ==
  ASSUME NEW y, NEW c \in Chan, Account(y, c), c.type = "none", c.istate = "open",
         NEW n \in Int, NEW ok \in BOOLEAN
  PROVE  Moves(y, c, server_input_channel_open(c, n, ok))
<1> DEFINE d == server_input_channel_open(c, n, ok)
           f == channel_free(c)
           lar == [c EXCEPT !.type = "larval", !.local_window = 0, !.session = TRUE,
                            !.detach_user = "session", !.detach_close = FALSE,
                            !.have_remote_id = TRUE, !.remote_window = n]
           con == [c EXCEPT !.type = "connecting", !.local_window = Window, !.session = FALSE,
                            !.have_remote_id = TRUE, !.remote_window = n]
           s == sshpkt_send(f, "OPENFAIL", 0)
           r == send_to_remote(lar, "CONFIRM", 0)
<1>0. Window \in Int /\ 0 \in Int BY ChannelAssumption
<1>1. d = IF ~ok THEN s
          ELSE IF kind \in Sessions THEN send_to_remote(lar, "CONFIRM", lar.local_window)
          ELSE con
  BY DEF server_input_channel_open, channel_new, channel_register_cleanup, Chan
<1>2. lar \in Chan BY <1>0, Zenon DEF Chan, ChannelType
<1>3. /\ lar.type = "larval" /\ lar.istate = c.istate /\ lar.ostate = c.ostate
      /\ lar.flags = c.flags /\ lar.cut = c.cut /\ Stock(c, lar) /\ Book(c, lar) /\ Line(c, lar)
      /\ lar.have_remote_id = TRUE /\ lar.local_window = 0
  BY DEF Chan, Stock, Book, Line
<1>4. /\ con.type = "connecting" /\ con.istate = c.istate /\ con.ostate = c.ostate
      /\ con.flags = c.flags /\ con.cut = c.cut /\ Stock(c, con) /\ Book(c, con) /\ Line(c, con)
  BY DEF Chan, Stock, Book, Line
<1>5. d = s \/ d = r \/ d = con BY <1>1, <1>3
<1> HIDE DEF lar, con, d
<1>6. c.extended_usage # "read" BY DEF Account, Local
<1>7. Moves(y, c, con) BY <1>4, <1>6, RetypeMoves DEF Stock
<1>8. Moves(y, c, lar) BY <1>3, <1>6, RetypeMoves DEF Stock
<1>9. Moves(y, c, f) /\ f \in Chan BY channel_freeMoves, channel_freeType
<1> HIDE DEF f
<1>10. /\ "OPENFAIL" \in MsgType \ (Carrying \cup {"EOF", "eow"})
       /\ "CONFIRM" \in MsgType \ (Carrying \cup {"EOF", "eow"})
  BY DEF MsgType, Carrying
<1>11. Account(y, f) /\ Account(y, lar) BY <1>8, <1>9 DEF Moves
<1>12. Moves(y, f, s) BY <1>0, <1>9, <1>10, <1>11, SendMoves, Zenon
<1>13. Moves(y, lar, r) BY <1>0, <1>2, <1>3, <1>10, <1>11, RemoteMoves, Zenon
<1> HIDE DEF s, r
<1>14. Moves(y, c, s) /\ Moves(y, c, r) BY <1>8, <1>9, <1>12, <1>13, MovesBoth
<1>15. Moves(y, c, d) BY <1>5, <1>7, <1>14
<1> QED BY <1>15 DEF d
-----------------------------------------------------------------------------
(* The account of the sender when its peer moves, or takes a message. *)

LEMMA SeenFields ==
  ASSUME NEW o
  PROVE  LET y == Seen(o)
         IN  /\ y.cut = o.cut /\ y.base = o.nwritten + o.output /\ y.f = o.flags
             /\ y.r = o.rcvd /\ y.exit = o.exit_rcvd
BY DEF Seen

LEMMA OtherAccount ==
  ASSUME NEW o, NEW c, NEW d, Account(Seen(c), o), Unseen(c, d) PROVE Account(Seen(d), o)
<1> DEFINE y == Seen(c)  z == Seen(d)
<1>1. /\ y.cut = c.cut /\ y.base = c.nwritten + c.output /\ y.f = c.flags
      /\ y.r = c.rcvd /\ y.exit = c.exit_rcvd
      /\ z.cut = d.cut /\ z.base = d.nwritten + d.output /\ z.f = d.flags
      /\ z.r = d.rcvd /\ z.exit = d.exit_rcvd
  BY SeenFields
<1>2. Account(y, o) OBVIOUS
<1> HIDE DEF y, z
<1>3. Local(z, o) BY <1>1, <1>2 DEF Account, Local, Unseen
<1>4. Wired(z, o)
  <2>1. ASSUME z.cut = FALSE
        PROVE  Flow(o.wire, z.base, o.nread - o.input, "eof_rcvd" \in z.f)
    <3>1. y.cut = FALSE /\ y.base = z.base BY <1>1, <2>1 DEF Unseen
    <3>2. Flow(o.wire, y.base, o.nread - o.input, "eof_rcvd" \in y.f)
      BY <1>2, <3>1 DEF Account, Wired
    <3>3. "eof_rcvd" \in z.f => "eof_rcvd" \in y.f BY <1>1 DEF Unseen
    <3> DEFINE w == o.wire  s == o.nread - o.input  ov == "eof_rcvd" \in z.f
               over == "eof_rcvd" \in y.f
    <3>4. Flow(w, z.base, s, over) /\ (ov => over) BY <3>1, <3>2, <3>3
    <3> HIDE DEF w, s, ov, over
    <3>5. Flow(w, z.base, s, ov) BY <3>4, FlowSame
    <3> QED BY <3>5 DEF w, s, ov
  <2>2. "eof_rcvd" \in z.f => z.r = o.sent /\ "eof_sent" \in o.flags
    BY <1>1, <1>2 DEF Account, Wired, Unseen
  <2>3. o.child = "reaped" => z.exit = TRUE \/ ExitAhead(o.wire)
    BY <1>1, <1>2 DEF Account, Wired, Unseen
  <2> QED BY <1>2, <2>1, <2>2, <2>3 DEF Account, Wired
<1>5. Account(z, o) BY <1>3, <1>4 DEF Account
<1> QED BY <1>5 DEF z

LEMMA ExitTail ==
  ASSUME NEW w \in Seq(Msg), w # <<>>, ExitAhead(w), w[1].t # "exit" PROVE ExitAhead(Tail(w))
<1> DEFINE v == Tail(w)  L == Len(v)
<1>1. v \in Seq(Msg) /\ Len(w) = L + 1 /\ L \in Nat OBVIOUS
<1>2. \A i \in 1 .. L : v[i] = w[i + 1] OBVIOUS
<1>3. PICK i \in 1 .. Len(w) : w[i].t = "exit" /\ \A j \in 1 .. i : w[j].t # "CLOSE"
  BY DEF ExitAhead
<1> HIDE DEF v, L
<1>4. i # 1 BY <1>3
<1>5. i - 1 \in 1 .. L /\ (i - 1) + 1 = i BY <1>1, <1>3, <1>4
<1>6. v[i - 1].t = "exit" BY <1>2, <1>3, <1>5
<1>7. \A j \in 1 .. i - 1 : v[j].t # "CLOSE"
  <2> SUFFICES ASSUME NEW j \in 1 .. i - 1 PROVE v[j].t # "CLOSE" OBVIOUS
  <2>1. j \in 1 .. L /\ j + 1 \in 1 .. i BY <1>1, <1>5
  <2> QED BY <1>2, <1>3, <2>1
<1>8. Len(v) = L BY DEF L
<1>9. ExitAhead(v) BY <1>5, <1>6, <1>7, <1>8 DEF ExitAhead
<1> QED BY <1>9 DEF v

(* The first message, in the totals. *)
LEMMA HeadTotals ==
  ASSUME NEW x, NEW o, Sane(x, o), ~Silent(o)
  PROVE  LET m == Head(o.wire)
         IN  /\ m = o.wire[1] /\ 1 \in 1 .. Len(o.wire) /\ m \in Msg /\ Data(m) \in Nat
             /\ m.t \in Carrying => m.n \in 1 .. MaxPacket
             /\ m.sent = x.r + Data(m) /\ m.sent <= o.sent
<1> DEFINE w == o.wire
<1>1. w \in Seq(Msg) /\ w # <<>> /\ o.sent \in Nat BY Fields DEF Sane, Silent
<1>2. Totals(w, o.sent, o.granted, x.r, x.o) BY DEF Sane, Wire
<1> HIDE DEF w
<1>3. Head(w) = w[1] /\ 1 \in 1 .. Len(w) /\ w[1] \in Msg BY <1>1
<1>4. /\ w[1].t \in Carrying => w[1].n \in 1 .. MaxPacket
      /\ w[1].sent = x.r + Data(w[1]) /\ w[1].sent <= o.sent
  BY <1>2, <1>3 DEF Totals
<1>5. Data(w[1]) \in Nat BY <1>3 DEF Data, Msg
<1> QED BY <1>3, <1>4, <1>5 DEF w

LEMMA TakenAccount ==
  ASSUME NEW p, NEW q, NEW h, NEW c \in Chan, NEW o, Sane(Ctx(q, c, h), o), ~Silent(o),
         Account(Seen(c), o), q = "client" \/ p = "client",
         NEW d, Takes(p, Received(c, Head(o.wire)), d, Head(o.wire))
  PROVE  Account(Seen(d), Taken(o))
<1> DEFINE y == Seen(c)  z == Seen(d)  m == Head(o.wire)  r == Received(c, m)  t == Taken(o)
           x == Ctx(q, c, h)
<1>1. /\ y.cut = c.cut /\ y.base = c.nwritten + c.output /\ y.f = c.flags
      /\ y.r = c.rcvd /\ y.exit = c.exit_rcvd
      /\ z.cut = d.cut /\ z.base = d.nwritten + d.output /\ z.f = d.flags
      /\ z.r = d.rcvd /\ z.exit = d.exit_rcvd
  BY SeenFields
<1>2. Sane(x, o) /\ x.r = c.rcvd /\ x.p = q BY CtxFields
<1>3. Account(y, o) /\ Takes(p, r, d, m) OBVIOUS
<1> HIDE DEF x, y, z
<1>4. /\ m = o.wire[1] /\ 1 \in 1 .. Len(o.wire) /\ m \in Msg /\ Data(m) \in Nat
      /\ m.sent = c.rcvd + Data(m) /\ m.sent <= o.sent
  BY <1>2, HeadTotals
<1>5. o \in Chan /\ o.wire \in Seq(Msg) /\ o.wire # <<>> /\ o.sent \in Nat /\ c.rcvd \in Nat
  BY <1>2, Fields DEF Sane, Silent
<1> HIDE DEF m
<1>6. /\ r.flags = c.flags /\ r.cut = c.cut /\ r.nwritten = c.nwritten /\ r.output = c.output
      /\ r.exit_rcvd = c.exit_rcvd /\ r.rcvd = c.rcvd + Data(m)
  <2>1. /\ r.flags = c.flags /\ r.cut = c.cut /\ r.nwritten = c.nwritten /\ r.output = c.output
        /\ r.exit_rcvd = c.exit_rcvd
        /\ r.rcvd = IF m.t \in Carrying THEN c.rcvd + m.n ELSE c.rcvd
    BY DEF Received, Chan
  <2> HIDE DEF r
  <2> QED BY <1>5, <2>1 DEF Data
<1> HIDE DEF r
<1>7. /\ t.wire = Tail(o.wire) /\ Mode(o, t) /\ Stock(o, t) /\ Book(o, t) /\ t.sent = o.sent
  BY <1>5 DEF Taken, Chan, Mode, Stock, Book
<1> HIDE DEF t
<1>8. /\ d.rcvd = c.rcvd + Data(m)
      /\ "eof_rcvd" \in d.flags <=> "eof_rcvd" \in c.flags \/ m.t = "EOF"
      /\ d.cut = FALSE =>
           c.cut = FALSE /\ d.nwritten + d.output = c.nwritten + c.output + Load(m)
      /\ c.exit_rcvd = TRUE \/ (p = "client" /\ m.t = "exit") => d.exit_rcvd = TRUE
  BY <1>3, <1>6 DEF Takes
<1>9. Local(z, t)
  <2>1. z.cut = FALSE => y.cut = FALSE BY <1>1, <1>8
  <2> QED BY <1>3, <1>7, <2>1
          DEF Account, Local, Mode, Stock, Book, Balanced, Drained, Stderr, StderrRead
<1>10. Wired(z, t)
  <2>1. ASSUME NEW i \in 1 .. Len(t.wire)
        PROVE  /\ t.wire[i].t = "eow" => t.cut = TRUE
               /\ t.wire[i].t = "EOF" => t.wire[i].sent = t.sent /\ "eof_sent" \in t.flags
    <3>1. t.wire[i] = o.wire[i + 1] /\ i + 1 \in 1 .. Len(o.wire) BY <1>5, <1>7
    <3> QED BY <1>3, <1>7, <3>1 DEF Account, Wired, Mode
  <2>2. "eof_rcvd" \in z.f => z.r = t.sent /\ "eof_sent" \in t.flags
    <3> SUFFICES ASSUME "eof_rcvd" \in d.flags PROVE d.rcvd = o.sent /\ "eof_sent" \in o.flags
      BY <1>1, <1>7 DEF Mode
    <3>1. CASE "eof_rcvd" \in c.flags
      <4>1. c.rcvd = o.sent /\ "eof_sent" \in o.flags BY <1>1, <1>3, <3>1 DEF Account, Wired
      <4>2. d.rcvd = m.sent /\ d.rcvd \in Int BY <1>4, <1>5, <1>8
      <4> QED BY <1>4, <1>5, <1>8, <4>1, <4>2
    <3>2. CASE m.t = "EOF"
      <4>1. m.sent = o.sent /\ "eof_sent" \in o.flags BY <1>3, <1>4, <3>2 DEF Account, Wired
      <4> QED BY <1>4, <1>8, <4>1
    <3> QED BY <1>8, <3>1, <3>2
  <2>3. t.child = "reaped" => z.exit = TRUE \/ ExitAhead(t.wire)
    <3> SUFFICES ASSUME o.child = "reaped", d.exit_rcvd # TRUE PROVE ExitAhead(Tail(o.wire))
      BY <1>1, <1>7 DEF Book
    <3>1. p = "client" BY <1>2 DEF Sane, Basic
    <3>2. m.t # "exit" /\ c.exit_rcvd # TRUE BY <1>8, <3>1
    <3>3. ExitAhead(o.wire) BY <1>1, <1>3, <3>2 DEF Account, Wired
    <3> QED BY <1>4, <1>5, <3>2, <3>3, ExitTail
  <2>4. ASSUME z.cut = FALSE
        PROVE  Flow(t.wire, z.base, t.nread - t.input, "eof_rcvd" \in z.f)
    <3> DEFINE w == o.wire  b == y.base  s == o.nread - o.input  over == "eof_rcvd" \in y.f
               ov == "eof_rcvd" \in z.f
    <3>1. y.cut = FALSE /\ z.base = b + Load(m) BY <1>1, <1>8, <2>4
    <3>2. Flow(w, b, s, over) BY <1>3, <3>1 DEF Account, Wired
    <3>3. w \in Seq(Msg) /\ w # <<>> /\ Head(w) = m BY <1>5 DEF m
    <3>4. ov => over \/ m.t = "EOF" BY <1>1, <1>8
    <3> HIDE DEF w, b, s, over, ov
    <3>5. Flow(Tail(w), b + Load(m), s, over \/ m.t = "EOF") BY <3>2, <3>3, FlowTail
    <3>6. Flow(Tail(w), b + Load(m), s, ov) BY <3>4, <3>5, FlowSame
    <3>7. t.wire = Tail(w) /\ t.nread - t.input = s BY <1>7 DEF Stock, Book, w, s
    <3> QED BY <3>1, <3>6, <3>7 DEF ov
  <2> QED BY <2>1, <2>2, <2>3, <2>4 DEF Wired
<1>11. Account(z, t) BY <1>9, <1>10 DEF Account
<1> QED BY <1>11 DEF z, t
-----------------------------------------------------------------------------
(* Both accounts, as the two ends take their messages. *)
Books(c, o) == Account(Seen(o), c) /\ Account(Seen(c), o)

(* What the first message of o's wire finds at its receiver c. *)
LEMMA HeadAccount ==
  ASSUME NEW p, NEW q, NEW g, NEW h, NEW c, NEW o, Sane(Ctx(p, o, g), c), Sane(Ctx(q, c, h), o),
         ~Silent(o), Books(c, o)
  PROVE  LET m == Head(o.wire)
         IN  /\ m.t \in Carrying =>
                  c.type \notin Unopened /\ m.n <= MaxPacket /\ m.n <= c.local_window
             /\ m.t = "DATA" => (c.ostate # "open" => c.cut = TRUE)
             /\ m.t = "CLOSE" => (o.cut = FALSE => c.istate = "closed")
             /\ m.t = "eow" => o.cut = TRUE
<1> DEFINE m == Head(o.wire)  x == Ctx(q, c, h)  z == Ctx(p, o, g)  y == Seen(c)  u == Seen(o)
<1>1. x.r = c.rcvd /\ x.p = q /\ x.f = c.flags /\ z.p = p /\ z.f = o.flags BY CtxFields
<1>2. y.f = c.flags /\ y.r = c.rcvd BY SeenFields
<1>3. Sane(x, o) /\ Sane(z, c) OBVIOUS
<1>4. Account(y, o) /\ Account(u, c) BY DEF Books
<1>5. "close_rcvd" \in c.flags => m.t = "keepalive" BY HeadFacts
<1>6. \A i \in 1 .. Len(o.wire) : o.wire[i].t \in Carrying =>
        /\ o.wire[i].n <= MaxPacket /\ c.type \notin Unopened
        /\ o.wire[i].sent - c.rcvd <= c.local_window
  BY WindowsOf
<1> HIDE DEF x, y, z, u
<1>7. /\ m = o.wire[1] /\ 1 \in 1 .. Len(o.wire) /\ m \in Msg /\ Data(m) \in Nat
      /\ m.t \in Carrying => m.n \in 1 .. MaxPacket
      /\ m.sent = c.rcvd + Data(m) /\ m.sent <= o.sent
  BY <1>1, <1>3, HeadTotals
<1>8. c \in Chan /\ o \in Chan /\ c.rcvd \in Nat /\ o.sent \in Nat /\ c.cut \in BOOLEAN
      /\ c.local_window \in Int
  BY <1>3, Fields DEF Sane, Chan
<1> HIDE DEF m
<1>9. ASSUME m.t \in Carrying
      PROVE  c.type \notin Unopened /\ m.n <= MaxPacket /\ m.n <= c.local_window
             /\ 1 <= Data(m)
  <2>1. c.type \notin Unopened /\ m.n <= MaxPacket /\ m.sent - c.rcvd <= c.local_window
    BY <1>6, <1>7, <1>9
  <2>2. Data(m) = m.n BY <1>9 DEF Data
  <2>3. m.n \in 1 .. MaxPacket /\ MaxPacket \in Int BY <1>7, <1>9, ChannelAssumption
  <2> QED BY <1>7, <1>8, <2>1, <2>2, <2>3
<1>10. ASSUME m.t = "DATA", c.ostate # "open" PROVE c.cut = TRUE
  <2> SUFFICES ASSUME c.cut = FALSE PROVE FALSE BY <1>8
  <2>1. "eof_rcvd" \in c.flags \/ "close_rcvd" \in c.flags BY <1>4, <1>10 DEF Account, Local
  <2>2. "eof_rcvd" \in c.flags BY <1>5, <1>10, <2>1
  <2>3. c.rcvd = o.sent BY <1>2, <1>4, <2>2 DEF Account, Wired
  <2>4. 1 <= Data(m) BY <1>9, <1>10 DEF Carrying
  <2> QED BY <1>7, <1>8, <2>3, <2>4
<1>11. ASSUME m.t = "CLOSE", o.cut = FALSE PROVE c.istate = "closed"
  <2>1. Order(x.p, o.wire, o.flags, x.f, x.h) /\ Order(z.p, c.wire, c.flags, z.f, z.h)
    BY <1>3 DEF Sane, Wire
  <2>2. "close_sent" \in o.flags BY <1>7, <1>11, <2>1 DEF Order
  <2>3. o.ostate = "closed" BY <1>3, <2>2 DEF Sane, Basic
  <2>4. "eof_rcvd" \in o.flags \/ "close_rcvd" \in o.flags BY <1>4, <1>11, <2>3 DEF Account, Local
  <2>5. "eof_sent" \in c.flags \/ "close_sent" \in c.flags BY <1>1, <2>1, <2>4 DEF Order
  <2> QED BY <1>3, <1>4, <2>5 DEF Account, Local, Sane, Basic
<1>12. m.t = "eow" => o.cut = TRUE BY <1>4, <1>7 DEF Account, Wired
<1> QED BY <1>9, <1>10, <1>11, <1>12 DEF m

LEMMA ReceivedAccount ==
  ASSUME NEW y, NEW c \in Chan, Account(y, c), NEW m
  PROVE  LET d == Received(c, m)
         IN  /\ Account(y, d) /\ Mode(c, d) /\ d.local_window = c.local_window
             /\ d.have_remote_id = c.have_remote_id
<1> DEFINE d == Received(c, m)
<1>1. /\ Mode(c, d) /\ Stock(c, d) /\ Line(c, d) /\ d.nread = c.nread /\ d.eread = c.eread
      /\ d.child = c.child /\ d.local_window = c.local_window
      /\ d.have_remote_id = c.have_remote_id
  BY DEF Received, Chan, Mode, Stock, Line
<1> HIDE DEF d
<1>2. Account(y, d) BY <1>1, LikeAccount
<1> QED BY <1>1, <1>2 DEF d

LEMMA SeenTaken == ASSUME NEW o \in Chan PROVE Seen(Taken(o)) = Seen(o)
BY DEF Seen, Taken, Chan

LEMMA BooksTaken ==
  ASSUME NEW p, NEW q, NEW h, NEW c \in Chan, NEW o, Sane(Ctx(q, c, h), o), ~Silent(o),
         Books(c, o), q = "client" \/ p = "client", NEW d,
         Takings(Seen(o), p, Received(c, Head(o.wire)), d, Head(o.wire))
  PROVE  Books(d, Taken(o))
<1>1. o \in Chan BY DEF Sane
<1>2. Account(Seen(Taken(o)), d) BY <1>1, SeenTaken DEF Takings
<1>3. Account(Seen(c), o) BY DEF Books
<1>4. Takes(p, Received(c, Head(o.wire)), d, Head(o.wire)) BY DEF Takings
<1>5. Account(Seen(d), Taken(o)) BY <1>3, <1>4, TakenAccount, Zenon
<1> QED BY <1>2, <1>5 DEF Books

LEMMA BooksHandled ==
  ASSUME NEW p \in Peer, NEW q, NEW g, NEW h, NEW c, NEW o, Sane(Ctx(p, o, g), c),
         Sane(Ctx(q, c, h), o), ~Silent(o), Books(c, o), q = "client" \/ p = "client",
         Head(o.wire).t \notin Setup, p = "server" => "close_rcvd" \notin c.flags,
         \/ c.type \in {"larval", "open"}
         \/ c.type = "freed" /\ p = "client" /\ Head(o.wire).t = "keepalive",
         NEW ok \in BOOLEAN, NEW tty \in BOOLEAN
  PROVE  LET m == Head(o.wire)
         IN  Books(Handle(p, Received(c, m), m, ok, tty), Taken(o))
<1> DEFINE m == Head(o.wire)  r == Received(c, m)  y == Seen(o)  d == Handle(p, r, m, ok, tty)
<1>1. c \in Chan /\ o \in Chan BY DEF Sane
<1>2. m \in Msg /\ ("eof_rcvd" \in c.flags => m.t # "EXT") BY HeadFacts
<1>3. /\ m.t \in Carrying =>
           c.type \notin Unopened /\ m.n <= MaxPacket /\ m.n <= c.local_window
      /\ m.t = "DATA" => (c.ostate # "open" => c.cut = TRUE)
      /\ m.t = "CLOSE" => (o.cut = FALSE => c.istate = "closed")
      /\ m.t = "eow" => o.cut = TRUE
  BY HeadAccount
<1>4. y.cut = o.cut BY SeenFields
<1>5. Account(y, c) BY DEF Books
<1>0. /\ m.t \notin Setup
      /\ \/ c.type \in {"larval", "open"}
         \/ c.type = "freed" /\ p = "client" /\ m.t = "keepalive"
  OBVIOUS
<1> HIDE DEF m, y
<1>6. Account(y, r) /\ Mode(c, r) /\ r.local_window = c.local_window
      /\ r.have_remote_id = c.have_remote_id
  BY <1>1, <1>5, ReceivedAccount
<1>7. r \in Chan BY <1>1, <1>2, ReceivedType
<1>8. c.type \in {"larval", "open"} => c.have_remote_id = TRUE BY DEF Sane, Basic
<1> HIDE DEF r
<1>9. /\ r.type = c.type /\ r.istate = c.istate /\ r.ostate = c.ostate /\ r.flags = c.flags
      /\ r.cut = c.cut
  BY <1>6 DEF Mode
<1>10. r.type \in {"larval", "open"} => r.have_remote_id = TRUE BY <1>6, <1>8, <1>9
<1>11. m.t = "DATA" => /\ r.type = "open" /\ (r.ostate # "open" => r.cut = TRUE)
                       /\ m.n <= MaxPacket /\ m.n <= r.local_window
  BY <1>0, <1>3, <1>6, <1>9 DEF Carrying, Unopened
<1>12. m.t = "EXT" => r.type = "open" /\ "eof_rcvd" \notin r.flags
  BY <1>0, <1>2, <1>3, <1>9 DEF Carrying, Unopened
<1>13. m.t = "CLOSE" => (y.cut = FALSE => r.istate = "closed" \/ r.type = "larval")
  BY <1>3, <1>4, <1>9
<1>14. m.t = "eow" => y.cut # FALSE BY <1>3, <1>4
<1>15. p = "server" => "close_rcvd" \notin r.flags BY <1>9
<1>16. \/ r.type \in {"larval", "open"}
       \/ r.type = "freed" /\ p = "client" /\ m.t = "keepalive"
  BY <1>0, <1>9
<1>17. Takings(y, p, r, d, m)
  BY <1>0, <1>2, <1>6, <1>7, <1>10, <1>11, <1>12, <1>13, <1>14, <1>15, <1>16, HandleTakes
<1> HIDE DEF d
<1>18. Takings(Seen(o), p, Received(c, Head(o.wire)), d, Head(o.wire)) BY <1>17 DEF y, r, m
<1>19. Books(d, Taken(o)) BY <1>1, <1>18, BooksTaken, Zenon
<1> QED BY <1>19 DEF d, r, m

LEMMA BooksSetup ==
  ASSUME NEW p, NEW q, NEW h, NEW c \in Chan, NEW o, Sane(Ctx(q, c, h), o), ~Silent(o),
         Books(c, o), q = "client" \/ p = "client", Head(o.wire).t \in Setup, NEW d,
         Moves(Seen(o), Received(c, Head(o.wire)), d)
  PROVE  Books(d, Taken(o))
<1> DEFINE m == Head(o.wire)
<1>1. m \in Msg BY HeadFacts
<1> DEFINE r == Received(c, m)  y == Seen(o)
<1>2. r \in Chan
  <2> HIDE DEF m
  <2> QED BY <1>1, ReceivedType
<1>3. m.t \notin {"DATA", "EOF"} /\ m.t # "exit" BY DEF Setup
<1>4. Moves(y, r, d) OBVIOUS
<1> HIDE DEF m, r, y
<1>5. Takings(y, p, r, d, m) BY <1>2, <1>3, <1>4, MovesTakings
<1>6. Takings(Seen(o), p, Received(c, Head(o.wire)), d, Head(o.wire)) BY <1>5 DEF y, r, m
<1> QED BY <1>6, BooksTaken, Zenon

LEMMA ClientBooks ==
  ASSUME NEW cl, NEW sv, Pair(cl, sv), Books(cl, sv), ~Silent(sv),
         NEW ok \in BOOLEAN, NEW tty \in BOOLEAN
  PROVE  LET m == Head(sv.wire)
         IN  Books(Handle("client", Received(cl, m), m, ok, tty), Taken(sv))
<1> DEFINE m == Head(sv.wire)
           r == Received(cl, m)
           d == Handle("client", r, m, ok, tty)
           g == FromClient(cl, sv)
           h == FromServer(cl, sv)
           y == Seen(sv)
<1>1. Sane(Ctx("client", sv, g), cl) /\ Sane(Ctx("server", cl, h), sv)
  BY DEF Pair, ClientSane, ServerSane
<1>2. /\ m \in Msg
      /\ h # "any" => m.t = h
      /\ h = "any" => m.t \notin Setup
      /\ "close_rcvd" \in cl.flags => m.t = "keepalive"
  BY <1>1, HeadFacts
<1>3. cl \in Chan /\ sv \in Chan BY <1>1 DEF Sane
<1>4. Account(y, cl) BY DEF Books
<1>5. Account(y, r) /\ Mode(cl, r)
  <2> HIDE DEF y, m
  <2> QED BY <1>3, <1>4, ReceivedAccount
<1>6. r \in Chan
  <2> HIDE DEF m
  <2> QED BY <1>2, <1>3, ReceivedType
<1>7. r.type = cl.type BY <1>5 DEF Mode
<1>8. ASSUME m.t \in Setup, Moves(y, r, d) PROVE Books(d, Taken(sv))
  <2> HIDE DEF d
  <2>1. Head(sv.wire).t \in Setup /\ Moves(Seen(sv), Received(cl, Head(sv.wire)), d) BY <1>8
  <2> QED BY <1>1, <1>3, <2>1, BooksSetup, Zenon
<1> HIDE DEF r, y
<1>9. CASE cl.type = "opening" /\ sv.type \in {"larval", "open"}
  <2>1. m.t = "CONFIRM" /\ m.t \in Setup BY <1>2, <1>9 DEF FromServer, Setup
  <2>2. d = channel_input_open_confirmation(r, m.n)
    BY <1>7, <1>9, <2>1 DEF Handle, Exists, Requests
  <2>3. m.n \in Int /\ r.type = "opening" BY <1>2, <1>7, <1>9 DEF Msg
  <2>4. Moves(y, r, channel_input_open_confirmation(r, m.n))
    BY <1>5, <1>6, <2>3, channel_input_open_confirmationMoves, Zenon
  <2>5. Moves(y, r, d) BY <2>2, <2>4
  <2> QED BY <1>8, <2>1, <2>5 DEF r, y
<1>10. CASE cl.type = "opening" /\ sv.type = "freed"
  <2>1. m.t = "OPENFAIL" /\ m.t \in Setup BY <1>2, <1>10 DEF FromServer, Setup
  <2>2. d = chan_mark_dead(r)
    BY <1>7, <1>10, <2>1 DEF Handle, Exists, Requests, channel_input_open_failure
  <2>3. r.type \notin {"open", "freed"} BY <1>7, <1>10
  <2>4. Moves(y, r, d) BY <1>5, <1>6, <2>2, <2>3, chan_mark_deadMoves
  <2> QED BY <1>8, <2>1, <2>4 DEF r, y
<1>11. CASE cl.type # "opening"
  <2>1. /\ cl.type \in {"open", "freed"}
        /\ cl.type = "freed" => "close_rcvd" \in cl.flags
    BY <1>11 DEF Pair, Phase
  <2>2. m.t \notin Setup BY <1>2, <1>11 DEF FromServer
  <2>3. \/ cl.type \in {"larval", "open"}
        \/ cl.type = "freed" /\ "client" = "client" /\ m.t = "keepalive"
    BY <1>2, <2>1
  <2>4. Head(sv.wire).t \notin Setup
        /\ (\/ cl.type \in {"larval", "open"}
            \/ cl.type = "freed" /\ "client" = "client" /\ Head(sv.wire).t = "keepalive")
    BY <2>2, <2>3
  <2>5. "client" \in Peer /\ "client" # "server" BY DEF Peer
  <2>6. Books(Handle("client", Received(cl, Head(sv.wire)), Head(sv.wire), ok, tty), Taken(sv))
    BY <1>1, <2>4, <2>5, BooksHandled, Zenon
  <2> QED BY <2>6
<1>12. cl.type = "opening" => sv.type \in {"larval", "open", "freed"} BY DEF Pair, Phase
<1> QED BY <1>9, <1>10, <1>11, <1>12 DEF r

LEMMA ServerBooks ==
  ASSUME NEW cl, NEW sv, Pair(cl, sv), Books(sv, cl), ~Silent(cl),
         NEW ok \in BOOLEAN, NEW tty \in BOOLEAN
  PROVE  LET m == Head(cl.wire)
         IN  Books(Handle("server", Received(sv, m), m, ok, tty), Taken(cl))
<1> DEFINE m == Head(cl.wire)
           r == Received(sv, m)
           d == Handle("server", r, m, ok, tty)
           g == FromServer(cl, sv)
           h == FromClient(cl, sv)
           y == Seen(cl)
<1>1. Sane(Ctx("server", cl, g), sv) /\ Sane(Ctx("client", sv, h), cl)
  BY DEF Pair, ClientSane, ServerSane
<1>2. /\ m \in Msg
      /\ h # "any" => m.t = h
      /\ h = "any" => m.t \notin Setup
      /\ m.t # "keepalive"
      /\ "close_rcvd" \in sv.flags => m.t = "keepalive"
  BY <1>1, HeadFacts
<1>3. cl \in Chan /\ sv \in Chan BY <1>1 DEF Sane
<1>4. Account(y, sv) BY DEF Books
<1>5. Account(y, r) /\ Mode(sv, r)
  <2> HIDE DEF y, m
  <2> QED BY <1>3, <1>4, ReceivedAccount
<1>6. r \in Chan
  <2> HIDE DEF m
  <2> QED BY <1>2, <1>3, ReceivedType
<1>7. r.type = sv.type /\ r.istate = sv.istate BY <1>5 DEF Mode
<1>8. CASE sv.type = "none"
  <2>1. cl.type = "opening" BY <1>8 DEF Pair, Phase
  <2>2. ~Silent(cl) /\ m.t = "OPEN" /\ m.t \in Setup BY <1>2, <1>8, <2>1 DEF FromClient, Setup
  <2>3. sv.istate = "open" BY <1>1, <1>8 DEF Sane, Basic, Opening
  <2> HIDE DEF r, y
  <2>4. d = server_input_channel_open(r, m.n, ok) BY <2>2 DEF Handle, Requests
  <2>5. m.n \in Int /\ r.type = "none" /\ r.istate = "open" BY <1>2, <1>7, <1>8, <2>3 DEF Msg
  <2>6. Moves(y, r, server_input_channel_open(r, m.n, ok))
    BY <1>5, <1>6, <2>5, server_input_channel_openMoves, Zenon
  <2>7. Moves(y, r, d) BY <2>4, <2>6
  <2> HIDE DEF d
  <2>8. Head(cl.wire).t \in Setup /\ Moves(Seen(cl), Received(sv, Head(cl.wire)), d)
    BY <2>2, <2>7 DEF r, y
  <2>9. Books(d, Taken(cl)) BY <1>1, <1>3, <2>8, BooksSetup, Zenon
  <2> QED BY <2>9 DEF d, r
<1>9. CASE sv.type # "none"
  <2>1. /\ sv.type \in {"larval", "open", "freed"}
        /\ sv.type = "freed" => "close_rcvd" \in sv.flags
    BY <1>9 DEF Pair, Phase
  <2>2. m.t \notin Setup BY <1>2, <1>9 DEF FromClient
  <2>3. "close_rcvd" \notin sv.flags /\ sv.type \in {"larval", "open"} BY <1>2, <2>1
  <2>4. /\ Head(cl.wire).t \notin Setup
        /\ \/ sv.type \in {"larval", "open"}
           \/ sv.type = "freed" /\ "server" = "client" /\ Head(cl.wire).t = "keepalive"
        /\ "server" = "server" => "close_rcvd" \notin sv.flags
    BY <2>2, <2>3
  <2>5. "server" \in Peer BY DEF Peer
  <2>6. Books(Handle("server", Received(sv, Head(cl.wire)), Head(cl.wire), ok, tty), Taken(cl))
    BY <1>1, <2>4, <2>5, BooksHandled, Zenon
  <2> QED BY <2>6
<1> QED BY <1>8, <1>9
-----------------------------------------------------------------------------
(* The actions keep the accounts of the two ends. *)
Accounts == Books(ch["client"], ch["server"])

LEMMA BooksMove ==
  ASSUME NEW c, NEW o, Books(c, o), NEW d, Moves(Seen(o), c, d) PROVE Books(d, o) /\ Books(o, d)
<1>1. Account(Seen(o), d) /\ Unseen(c, d) BY DEF Moves
<1>2. Account(Seen(c), o) BY DEF Books
<1>3. Account(Seen(d), o) BY <1>1, <1>2, OtherAccount
<1> QED BY <1>1, <1>3 DEF Books

LEMMA BooksSwap == ASSUME NEW c, NEW o, Books(c, o) PROVE Books(o, c)
BY DEF Books

LEMMA ClientAccounts ==
  ASSUME TypeOK, Accounts, NEW d, ch' = [ch EXCEPT !["client"] = d],
         Moves(Seen(ch["server"]), ch["client"], d)
  PROVE  Accounts'
<1>1. Books(d, ch["server"]) BY BooksMove DEF Accounts
<1>2. ch'["client"] = d /\ ch'["server"] = ch["server"] BY DEF TypeOK, Peer
<1> QED BY <1>1, <1>2 DEF Accounts

LEMMA ServerAccounts ==
  ASSUME TypeOK, Accounts, NEW d, ch' = [ch EXCEPT !["server"] = d],
         Moves(Seen(ch["client"]), ch["server"], d)
  PROVE  Accounts'
<1>1. Books(ch["server"], ch["client"]) BY BooksSwap DEF Accounts
<1>2. Books(ch["client"], d) BY <1>1, BooksMove
<1>3. ch'["server"] = d /\ ch'["client"] = ch["client"] BY DEF TypeOK, Peer
<1> QED BY <1>2, <1>3 DEF Accounts

LEMMA channel_send_openAccounts ==
  TypeOK /\ Ends /\ Accounts /\ channel_send_open => Accounts'
<1> SUFFICES ASSUME TypeOK, Ends, Accounts, channel_send_open PROVE Accounts'
  OBVIOUS
<1> DEFINE a == ch["client"]
           b == kind \in Sessions
           mux == kind = "mux"
           c == channel_new(a, "opening", Window, b)
           r == channel_register_cleanup(c, "client", mux)
           e == [r EXCEPT !.efd = TRUE, !.extended_usage = "write"]
           s == IF kind \in Sessions THEN e ELSE c
           d == sshpkt_send(s, "OPEN", Window)
           y == Seen(ch["server"])
<1>1. /\ a.type = "none" /\ ch' = [ch EXCEPT !["client"] = d]
  BY Zenon DEF channel_send_open
<1>2. Account(y, a) BY DEF Accounts, Books
<1>3. a \in Chan /\ Window \in Int /\ b \in BOOLEAN /\ mux \in BOOLEAN
  BY ChannelAssumption DEF TypeOK, Peer
<1> HIDE DEF a, b, mux, y
<1>4. c \in Chan BY <1>3, channel_newType DEF ChannelType
<1>5. /\ c.type = "opening" /\ c.istate = a.istate /\ c.ostate = a.ostate /\ c.flags = a.flags
      /\ c.cut = a.cut /\ Stock(a, c) /\ Book(a, c) /\ Line(a, c)
  BY <1>3 DEF channel_new, Chan, Stock, Book, Line
<1> HIDE DEF c
<1>6. r \in Chan BY <1>3, <1>4, CleanupType
<1>7. e \in Chan
  <2> HIDE DEF r
  <2> QED BY <1>6, Zenon DEF Chan, ExtUsage
<1>8. /\ Mode(c, e) /\ e.input = c.input /\ e.output = c.output /\ e.extended = c.extended
      /\ e.extended_usage = "write" /\ Book(c, e) /\ Line(c, e)
  BY <1>4 DEF channel_register_cleanup, Chan, Mode, Book, Line
<1> HIDE DEF e
<1>9. a.extended_usage # "read" BY <1>1, <1>2 DEF Account, Local
<1>10. /\ s.type = "opening" /\ s.istate = a.istate /\ s.ostate = a.ostate /\ s.flags = a.flags
       /\ s.cut = a.cut /\ s.input = a.input /\ s.output = a.output /\ s.extended = a.extended
       /\ s.extended_usage # "read" /\ Book(a, s) /\ Line(a, s) /\ s \in Chan
  BY <1>4, <1>5, <1>7, <1>8, <1>9 DEF Mode, Stock, Book, Line
<1> HIDE DEF s
<1>11. Moves(y, a, s) BY <1>1, <1>2, <1>10, RetypeMoves
<1>12. Account(y, s) BY <1>11 DEF Moves
<1>13. "OPEN" \in MsgType \ (Carrying \cup {"EOF", "eow"}) BY DEF MsgType, Carrying
<1>14. Moves(y, s, d) BY <1>3, <1>10, <1>12, <1>13, SendMoves, Zenon
<1> HIDE DEF d
<1>15. Moves(y, a, d) BY <1>11, <1>14, MovesBoth
<1> QED BY <1>1, <1>15, ClientAccounts DEF y, a

LEMMA DispatchAccounts ==
  ASSUME NEW p \in Peer PROVE TypeOK /\ Ends /\ Accounts /\ Dispatch(p) => Accounts'
<1> SUFFICES ASSUME TypeOK, Ends, Accounts, Dispatch(p) PROVE Accounts'
  OBVIOUS
<1> DEFINE cl == ch["client"]
           sv == ch["server"]
<1>1. Pair(cl, sv) /\ Books(cl, sv) /\ Books(sv, cl) BY BooksSwap DEF Ends, Accounts
<1>2. CASE p = "client"
  <2> DEFINE m == Head(sv.wire)
  <2>1. ~Silent(sv) BY <1>2 DEF Dispatch, Other, Silent
  <2>2. PICK ok \in BOOLEAN, tty \in BOOLEAN :
          ch' = [ch EXCEPT !["server"].wire = Tail(@),
                           !["client"] = Handle("client", Received(cl, m), m, ok, tty)]
    BY <1>2, Zenon DEF Dispatch, Other
  <2> DEFINE d == Handle("client", Received(cl, m), m, ok, tty)
  <2>3. Books(d, Taken(sv)) BY <1>1, <2>1, ClientBooks
  <2> HIDE DEF d
  <2>4. ch' = [ch EXCEPT !["server"] = Taken(sv), !["client"] = d] BY <2>2, Zenon DEF Taken, d
  <2> DEFINE s == Taken(sv)
  <2> HIDE DEF s
  <2>5. ch' = [ch EXCEPT !["server"] = s, !["client"] = d] BY <2>4 DEF s
  <2>6. ch'["client"] = d /\ ch'["server"] = s BY <2>5 DEF TypeOK, Peer
  <2> QED BY <2>3, <2>6 DEF Accounts, s
<1>3. CASE p = "server"
  <2> DEFINE m == Head(cl.wire)
  <2>1. ~Silent(cl) BY <1>3 DEF Dispatch, Other, Silent
  <2>2. PICK ok \in BOOLEAN, tty \in BOOLEAN :
          ch' = [ch EXCEPT !["client"].wire = Tail(@),
                           !["server"] = Handle("server", Received(sv, m), m, ok, tty)]
    BY <1>3, Zenon DEF Dispatch, Other
  <2> DEFINE d == Handle("server", Received(sv, m), m, ok, tty)
  <2>3. Books(d, Taken(cl)) BY <1>1, <2>1, ServerBooks
  <2> HIDE DEF d
  <2>4. ch' = [ch EXCEPT !["client"] = Taken(cl), !["server"] = d] BY <2>2, Zenon DEF Taken, d
  <2> DEFINE s == Taken(cl)
  <2> HIDE DEF s
  <2>5. ch' = [ch EXCEPT !["client"] = s, !["server"] = d] BY <2>4 DEF s
  <2>6. ch'["server"] = d /\ ch'["client"] = s BY <2>5 DEF TypeOK, Peer
  <2>7. Books(s, d) BY <2>3, BooksSwap DEF s
  <2> QED BY <2>6, <2>7 DEF Accounts
<1> QED BY <1>2, <1>3 DEF Peer

(* A pass of a loop over an end. *)
LEMMA PassMoves ==
  ASSUME NEW x, NEW y, NEW c, Sane(x, c), Held(c), x.p = "client" \/ c.type # "zombie",
         Account(y, c), NEW poll \in BOOLEAN, NEW exits \in BOOLEAN,
         exits => LoopPre(c, poll).child = "running",
         NEW io, io.rfd \in Int, io.wfd \in Int, io.efd \in Int
  PROVE  Moves(y, c, LoopPost(LoopPre(c, poll), exits, io))
<1>1. CASE c.type = "zombie" BY <1>1, LoopZombieMoves
<1>2. CASE c.type # "zombie"
  <2> DEFINE b == LoopPre(c, poll)  d == LoopPost(b, exits, io)
  <2>1. Sane(x, b) /\ Held(b) /\ b.type # "zombie" BY <1>2, LoopPreSane
  <2>2. Moves(y, c, b) BY <1>2, LoopPreMoves
  <2>3. exits => b.child = "running" OBVIOUS
  <2> HIDE DEF b
  <2>4. Account(y, b) BY <2>2 DEF Moves
  <2>5. Moves(y, b, d) BY <2>1, <2>3, <2>4, LoopPostMoves
  <2> HIDE DEF d
  <2>6. Moves(y, c, d) BY <2>2, <2>5, MovesBoth
  <2> QED BY <2>6 DEF d, b
<1> QED BY <1>1, <1>2

LEMMA LoopAccounts ==
  ASSUME NEW p \in Peer PROVE TypeOK /\ Ends /\ Accounts /\ Loop(p) => Accounts'
<1> SUFFICES ASSUME TypeOK, Ends, Accounts, Loop(p) PROVE Accounts'
  OBVIOUS
<1> DEFINE cl == ch["client"]
           sv == ch["server"]
<1>1. PICK poll \in BOOLEAN, exits \in BOOLEAN : LoopStep(p, poll, exits) BY DEF Loop
<1> DEFINE b == LoopPre(ch[p], poll)
           e == IF exits THEN session_close_by_pid(b) ELSE b
<1>2. b \in Chan BY LoopPreType DEF TypeOK
<1>3. e \in Chan
  <2> HIDE DEF b
  <2> QED BY <1>2, session_close_by_pidType
<1>4. PICK io \in Ready(e, b) : ch' = [ch EXCEPT ![p] = LoopPost(b, exits, io)]
  BY <1>1, Zenon DEF LoopStep
<1>5. exits => b.child = "running" BY <1>1, Zenon DEF LoopStep
<1>6. io.rfd \in Int /\ io.wfd \in Int /\ io.efd \in Int
  <2> HIDE DEF b, e
  <2> QED BY <1>2, <1>3, <1>4, ReadyType
<1>7. Pair(cl, sv) /\ Books(cl, sv) BY DEF Ends, Accounts
<1> HIDE DEF e
<1>8. CASE p = "client"
  <2> DEFINE d == LoopPost(LoopPre(cl, poll), exits, io)
             x == Ctx("client", sv, FromClient(cl, sv))
             y == Seen(sv)
  <2>1. exits => LoopPre(cl, poll).child = "running" BY <1>5, <1>8
  <2>2. Sane(x, cl) /\ Held(cl) /\ x.p = "client" BY <1>7, CtxFields DEF Pair, ClientSane
  <2>3. Account(y, cl) BY <1>7 DEF Books
  <2>4. ch' = [ch EXCEPT !["client"] = d] BY <1>4, <1>8
  <2> HIDE DEF x, y, cl, sv
  <2>5. Moves(y, cl, d) BY <1>6, <2>1, <2>2, <2>3, PassMoves
  <2> HIDE DEF d
  <2> QED BY <2>4, <2>5, ClientAccounts DEF y, cl, sv
<1>9. CASE p = "server"
  <2> DEFINE d == LoopPost(LoopPre(sv, poll), exits, io)
             x == Ctx("server", cl, FromServer(cl, sv))
             y == Seen(cl)
  <2>1. exits => LoopPre(sv, poll).child = "running" BY <1>5, <1>9
  <2>2. Sane(x, sv) /\ Held(sv) /\ sv.type # "zombie"
    BY <1>7, CtxFields DEF Pair, ServerSane, Phase
  <2>3. Account(y, sv) BY <1>7 DEF Books
  <2>4. ch' = [ch EXCEPT !["server"] = d] BY <1>4, <1>9
  <2> HIDE DEF x, y, cl, sv
  <2>5. Moves(y, sv, d) BY <1>6, <2>1, <2>2, <2>3, PassMoves
  <2> HIDE DEF d
  <2> QED BY <2>4, <2>5, ServerAccounts DEF y, cl, sv
<1> QED BY <1>8, <1>9 DEF Peer

LEMMA ConnectedMoves ==
  ASSUME NEW y, NEW c \in Chan, Account(y, c), c.type = "connecting", c.have_remote_id = TRUE,
         c.istate = "open"
  PROVE  LET o == [c EXCEPT !.type = "open"]
         IN  Moves(y, c, channel_garbage_collect(send_to_remote(o, "CONFIRM", o.local_window)))
<1> DEFINE o == [c EXCEPT !.type = "open"]
           n == o.local_window
           s == send_to_remote(o, "CONFIRM", n)
<1>1. o \in Chan BY Zenon DEF Chan, ChannelType
<1>2. /\ o.type = "open" /\ o.istate = c.istate /\ o.ostate = c.ostate /\ o.flags = c.flags
      /\ o.cut = c.cut /\ Stock(c, o) /\ Book(c, o) /\ Line(c, o) /\ o.have_remote_id = TRUE
  BY DEF Chan, Stock, Book, Line
<1> HIDE DEF o
<1>3. c.extended_usage # "read" BY DEF Account, Local
<1>4. Moves(y, c, o) BY <1>2, <1>3, RetypeMoves DEF Stock
<1>5. Account(y, o) BY <1>4 DEF Moves
<1>6. "CONFIRM" \in MsgType \ (Carrying \cup {"EOF", "eow"}) BY DEF MsgType, Carrying
<1>7. n \in Int BY <1>1, Fields
<1> HIDE DEF n
<1>8. Moves(y, o, s) /\ Mode(o, s) BY <1>1, <1>2, <1>5, <1>6, <1>7, RemoteMoves, Zenon
<1> HIDE DEF s
<1>9. s.type = "open" /\ s.istate = "open" BY <1>2, <1>8 DEF Mode
<1>10. channel_garbage_collect(s) = s BY <1>9, CollectIdle
<1>11. Moves(y, c, s) BY <1>4, <1>8, MovesBoth
<1>12. Moves(y, c, channel_garbage_collect(s)) BY <1>10, <1>11
<1> QED BY <1>12 DEF s, n, o

LEMMA RefusedMoves ==
  ASSUME NEW y, NEW c \in Chan, Account(y, c), c.type = "connecting", c.have_remote_id = TRUE,
         c.child # "running"
  PROVE  Moves(y, c, channel_garbage_collect(chan_mark_dead(send_to_remote(c, "OPENFAIL", 0))))
<1> DEFINE s == send_to_remote(c, "OPENFAIL", 0)
           z == chan_mark_dead(s)
           k == channel_cancel_cleanup(z)
           d == channel_garbage_collect(z)
<1>1. "OPENFAIL" \in MsgType \ (Carrying \cup {"EOF", "eow"}) /\ 0 \in Int BY DEF MsgType, Carrying
<1>2. Moves(y, c, s) /\ Mode(c, s) /\ Book(c, s) BY <1>1, RemoteMoves, Zenon
<1>3. s \in Chan BY <1>1, send_to_remoteType
<1> HIDE DEF s
<1>4. s.type = "connecting" /\ s.child # "running" BY <1>2 DEF Mode, Book
<1>5. Account(y, s) BY <1>2 DEF Moves
<1>6. Moves(y, s, z) BY <1>3, <1>4, <1>5, chan_mark_deadMoves
<1>7. z \in Chan BY <1>3, chan_mark_deadType
<1>8. z.type = "zombie" /\ z.child # "running" BY <1>3, <1>4 DEF chan_mark_dead, Chan
<1> HIDE DEF z
<1>9. Account(y, z) BY <1>6 DEF Moves
<1>10. Moves(y, z, k) /\ k \in Chan /\ k.type = "zombie" BY <1>7, <1>8, <1>9, CancelMoves
<1>11. d = channel_free(z) \/ d = channel_free(k) BY <1>7, <1>8, CollectZombie
<1> HIDE DEF k, d
<1>12. Account(y, k) BY <1>10 DEF Moves
<1>13. Moves(y, z, channel_free(z)) BY <1>7, <1>8, <1>9, channel_freeMoves
<1>14. Moves(y, k, channel_free(k)) BY <1>10, <1>12, channel_freeMoves
<1>15. Moves(y, z, channel_free(k)) BY <1>10, <1>14, MovesBoth
<1>16. Moves(y, z, d) BY <1>11, <1>13, <1>15
<1>17. Moves(y, s, d) BY <1>6, <1>16, MovesBoth
<1>18. Moves(y, c, d) BY <1>2, <1>17, MovesBoth
<1> QED BY <1>18 DEF d, z, s

LEMMA channel_post_connectingAccounts ==
  TypeOK /\ Ends /\ Accounts /\ channel_post_connecting => Accounts'
<1> SUFFICES ASSUME TypeOK, Ends, Accounts, channel_post_connecting PROVE Accounts'
  OBVIOUS
<1> DEFINE c == ch["server"]
           o == [c EXCEPT !.type = "open"]
           d == channel_garbage_collect(send_to_remote(o, "CONFIRM", o.local_window))
           e == channel_garbage_collect(chan_mark_dead(send_to_remote(c, "OPENFAIL", 0)))
           y == Seen(ch["client"])
<1>1. c.type = "connecting" BY DEF channel_post_connecting
<1>2. ch' = [ch EXCEPT !["server"] = d] \/ ch' = [ch EXCEPT !["server"] = e]
  BY Zenon DEF channel_post_connecting
<1>3. c \in Chan /\ c.have_remote_id = TRUE /\ c.istate = "open" /\ c.child # "running"
  BY <1>1 DEF Ends, Pair, ServerSane, Sane, Basic, Held, Opening
<1>4. Account(y, c) BY DEF Accounts, Books
<1> HIDE DEF c, y
<1>5. Moves(y, c, d) BY <1>1, <1>3, <1>4, ConnectedMoves
<1>6. Moves(y, c, e) BY <1>1, <1>3, <1>4, RefusedMoves
<1> HIDE DEF d, e
<1> QED BY <1>2, <1>5, <1>6, ServerAccounts DEF c, y

LEMMA mux_master_control_cleanup_cbAccounts ==
  TypeOK /\ Ends /\ Accounts /\ mux_master_control_cleanup_cb => Accounts'
<1> SUFFICES ASSUME TypeOK, Ends, Accounts, mux_master_control_cleanup_cb PROVE Accounts'
  OBVIOUS
<1> DEFINE c == ch["client"]
           r == chan_read_failed(c)
           w == IF r.ostate = "open" THEN chan_write_failed(r) ELSE r
           y == Seen(ch["server"])
<1>1. c.type = "open" BY DEF mux_master_control_cleanup_cb
<1>2. ch' = [ch EXCEPT !["client"] = w] BY Zenon DEF mux_master_control_cleanup_cb
<1>3. c \in Chan /\ c.have_remote_id = TRUE BY <1>1 DEF Ends, Pair, ClientSane, Sane, Basic
<1>4. Account(y, c) BY DEF Accounts, Books
<1> HIDE DEF c, y
<1>5. Moves(y, c, r) BY <1>3, <1>4, chan_read_failedMoves
<1>6. r \in Chan BY <1>3, chan_read_failedType
<1>7. r.have_remote_id = TRUE BY <1>3 DEF chan_read_failed, Chan
<1> HIDE DEF r
<1>8. Account(y, r) BY <1>5 DEF Moves
<1>9. Moves(y, r, w) BY <1>6, <1>7, <1>8, chan_write_failedMoves, MovesSelf
<1> HIDE DEF w
<1>10. Moves(y, c, w) BY <1>5, <1>9, MovesBoth
<1> QED BY <1>2, <1>10, ClientAccounts DEF c, y

LEMMA channel_send_window_changesAccounts ==
  TypeOK /\ Ends /\ Accounts /\ channel_send_window_changes => Accounts'
<1> SUFFICES ASSUME TypeOK, Ends, Accounts, channel_send_window_changes PROVE Accounts'
  OBVIOUS
<1> DEFINE c == ch["client"]
           d == send_to_remote(c, "window-change", 0)
           y == Seen(ch["server"])
<1>1. c.type = "open" BY DEF channel_send_window_changes
<1>2. ch' = [ch EXCEPT !["client"] = d] BY Zenon DEF channel_send_window_changes
<1>3. c \in Chan /\ c.have_remote_id = TRUE BY <1>1 DEF Ends, Pair, ClientSane, Sane, Basic
<1>4. Account(y, c) BY DEF Accounts, Books
<1>5. "window-change" \in MsgType \ (Carrying \cup {"EOF", "eow"}) /\ 0 \in Int
  BY DEF MsgType, Carrying
<1> HIDE DEF c, y
<1>6. Moves(y, c, d) BY <1>3, <1>4, <1>5, RemoteMoves, Zenon
<1> HIDE DEF d
<1> QED BY <1>2, <1>6, ClientAccounts DEF c, y

LEMMA client_alive_checkAccounts ==
  TypeOK /\ Ends /\ Accounts /\ client_alive_check => Accounts'
<1> SUFFICES ASSUME TypeOK, Ends, Accounts, client_alive_check PROVE Accounts'
  OBVIOUS
<1> DEFINE c == ch["server"]
           d == send_to_remote(c, "keepalive", 0)
           y == Seen(ch["client"])
<1>1. c.type \in {"larval", "open"} BY DEF client_alive_check
<1>2. ch' = [ch EXCEPT !["server"] = d] BY Zenon DEF client_alive_check
<1>3. c \in Chan /\ c.have_remote_id = TRUE BY <1>1 DEF Ends, Pair, ServerSane, Sane, Basic
<1>4. Account(y, c) BY DEF Accounts, Books
<1>5. "keepalive" \in MsgType \ (Carrying \cup {"EOF", "eow"}) /\ 0 \in Int
  BY DEF MsgType, Carrying
<1> HIDE DEF c, y
<1>6. Moves(y, c, d) BY <1>3, <1>4, <1>5, RemoteMoves, Zenon
<1> HIDE DEF d
<1> QED BY <1>2, <1>6, ServerAccounts DEF c, y

LEMMA InitAccounts == Init => Accounts
<1> SUFFICES ASSUME Init PROVE Accounts
  OBVIOUS
<1> DEFINE c == NoChan
           y == Seen(c)
<1>1. ch["client"] = c /\ ch["server"] = c BY DEF Init, Peer
<1>2. /\ c.type = "none" /\ c.istate = "open" /\ c.ostate = "open" /\ c.flags = {}
      /\ c.input = 0 /\ c.output = 0 /\ c.extended = 0 /\ c.extended_usage = "ignore"
      /\ c.child = "none" /\ c.nread = 0 /\ c.eread = 0 /\ c.nwritten = 0
      /\ c.sent = 0 /\ c.rcvd = 0 /\ c.wire = <<>>
  BY DEF NoChan
<1> HIDE DEF c
<1>3. y.base = 0 /\ y.f = {} BY <1>2, SeenFields
<1> HIDE DEF y
<1>4. Local(y, c) BY <1>2 DEF Local, Balanced, Drained, Stderr, StderrRead
<1>5. Flow(c.wire, y.base, c.nread - c.input, "eof_rcvd" \in y.f)
  <2> DEFINE w == c.wire  at == [i \in {0} |-> 0]
  <2>1. Len(w) = 0 BY <1>2
  <2> HIDE DEF w
  <2>2. at \in [0 .. Len(w) -> Nat] BY <2>1
  <2>3. at[0] = 0 OBVIOUS
  <2> HIDE DEF at
  <2>4. Along(at, w, 0, 0, FALSE) BY <2>1, <2>3 DEF Along
  <2>5. Flow(w, 0, 0, FALSE) BY <2>2, <2>4 DEF Flow
  <2>6. c.nread - c.input = 0 /\ "eof_rcvd" \notin y.f BY <1>2, <1>3
  <2> DEFINE ov == "eof_rcvd" \in y.f
  <2>7. ov => FALSE BY <2>6
  <2> HIDE DEF ov
  <2>8. Flow(w, 0, 0, ov) BY <2>5, <2>7, FlowSame
  <2> QED BY <1>3, <2>6, <2>8 DEF w, ov
<1>6. Len(c.wire) = 0 BY <1>2
<1>7. Wired(y, c) BY <1>2, <1>3, <1>5, <1>6 DEF Wired
<1> QED BY <1>1, <1>4, <1>7 DEF Accounts, Books, Account, y

LEMMA AccountsAlways == Spec => [](TypeOK /\ Ends /\ Accounts)
<1>1. TypeOK /\ Ends /\ Accounts /\ [Next]_vars => Accounts'
  <2> SUFFICES ASSUME TypeOK, Ends, Accounts, [Next]_vars PROVE Accounts'
    OBVIOUS
  <2>1. CASE channel_send_open BY <2>1, channel_send_openAccounts
  <2>2. CASE \E p \in Peer : Dispatch(p) BY <2>2, DispatchAccounts
  <2>3. CASE \E p \in Peer : Loop(p) BY <2>3, LoopAccounts
  <2>4. CASE channel_post_connecting BY <2>4, channel_post_connectingAccounts
  <2>5. CASE mux_master_control_cleanup_cb BY <2>5, mux_master_control_cleanup_cbAccounts
  <2>6. CASE channel_send_window_changes BY <2>6, channel_send_window_changesAccounts
  <2>7. CASE client_alive_check BY <2>7, client_alive_checkAccounts
  <2>8. CASE UNCHANGED vars BY <2>8 DEF vars, Accounts
  <2> QED BY <2>1, <2>2, <2>3, <2>4, <2>5, <2>6, <2>7, <2>8 DEF Next
<1> QED BY InitAccounts, EndsAlways, <1>1, PTL DEF Spec

(* What the account says of end c once its peer o has the EOF. *)
LEMMA EofOf ==
  ASSUME NEW x, NEW c, NEW o, Sane(x, c), o \in Chan, Books(c, o), "eof_rcvd" \in o.flags,
         o.cut = FALSE
  PROVE  /\ o.rcvd = c.nread + StderrRead(c)
         /\ o.ostate = "closed" => o.nwritten = c.nread
<1> DEFINE y == Seen(o)  z == Seen(c)  w == c.wire
<1>1. y.cut = o.cut /\ y.base = o.nwritten + o.output /\ y.f = o.flags /\ y.r = o.rcvd
  BY SeenFields
<1>2. Account(y, c) /\ Account(z, o) BY DEF Books
<1> HIDE DEF y, z
<1>3. c \in Chan /\ w \in Seq(Msg) /\ c.sent \in Nat /\ c.nread \in Nat /\ c.eread \in Nat
  BY Fields DEF Sane, Chan
<1>4. o.nwritten \in Nat BY DEF Chan
<1>5. o.rcvd = c.sent /\ "eof_sent" \in c.flags BY <1>1, <1>2 DEF Account, Wired
<1>6. c.istate = "closed" BY <1>2, <1>5 DEF Account, Local
<1>7. Balanced(c) /\ Drained(c) BY <1>1, <1>2 DEF Account, Local
<1>8. c.input = 0 /\ Stderr(c) = 0 BY <1>6, <1>7 DEF Drained, Stderr
<1>9. StderrRead(c) \in Nat BY <1>3 DEF StderrRead
<1>10. c.sent = c.nread + StderrRead(c) BY <1>3, <1>7, <1>8, <1>9 DEF Balanced
<1>11. ASSUME o.ostate = "closed" PROVE o.nwritten = c.nread
  <2>1. o.output = 0 BY <1>2, <1>11 DEF Account, Local
  <2>2. y.base = o.nwritten BY <1>1, <1>4, <2>1
  <2>3. c.nread - c.input = c.nread BY <1>3, <1>8
  <2> DEFINE b == y.base  s == c.nread - c.input  over == "eof_rcvd" \in y.f
  <2>4. Flow(w, b, s, over) BY <1>1, <1>2 DEF Account, Wired
  <2>5. TRUE => over BY <1>1
  <2> HIDE DEF w, b, s, over
  <2>6. Flow(w, b, s, TRUE) BY <2>4, <2>5, FlowSame
  <2>7. b = s BY <1>3, <2>6, FlowEnd
  <2> QED BY <2>2, <2>3, <2>7 DEF b, s
<1> QED BY <1>5, <1>10, <1>11

(* The client that has the server's CLOSE has the exit status. *)
LEMMA ExitOf ==
  ASSUME NEW h, NEW cl, NEW sv, Sane(Ctx("server", cl, h), sv), Held(sv), Books(cl, sv),
         sv.child # "none", "close_rcvd" \in cl.flags
  PROVE  cl.exit_rcvd = TRUE
<1> DEFINE y == Seen(cl)  x == Ctx("server", cl, h)  w == sv.wire
<1>1. y.exit = cl.exit_rcvd BY SeenFields
<1>2. Account(y, sv) BY DEF Books
<1>3. x.f = cl.flags BY CtxFields
<1>4. Sane(x, sv) OBVIOUS
<1> HIDE DEF x, y
<1>5. Order(x.p, w, sv.flags, cl.flags, x.h) BY <1>3, <1>4 DEF Sane, Wire
<1>6. "close_sent" \in sv.flags /\ \A i \in 1 .. Len(w) : w[i].t = "keepalive" BY <1>5 DEF Order
<1>7. sv.child = "reaped"
  <2>1. sv.child \in {"none", "running", "reaped"} BY <1>4 DEF Sane, Chan
  <2> QED BY <1>6, <2>1 DEF Held
<1>8. y.exit = TRUE \/ ExitAhead(w) BY <1>2, <1>7 DEF Account, Wired
<1>9. ~ExitAhead(w) BY <1>6 DEF ExitAhead
<1> QED BY <1>1, <1>8, <1>9

(* What the reader is told is true (channels.c, nchan.c, session.c): when  *)
(* an end has the EOF and its own output did not fail, all that the peer   *)
(* read from its descriptors has arrived, and all of it is written before  *)
(* the descriptor is shut down; and the client has the exit status of a    *)
(* command before it has the CLOSE; for all window, packet and read sizes. *)
THEOREM ReaderToldTruth == Spec => []DataComplete
<1>1. TypeOK /\ Ends /\ Accounts => DataComplete
  <2> SUFFICES ASSUME TypeOK, Ends, Accounts PROVE DataComplete
    OBVIOUS
  <2> DEFINE cl == ch["client"]
             sv == ch["server"]
             T(c, o) == "eof_rcvd" \in o.flags /\ o.cut = FALSE =>
                          /\ o.rcvd = c.nread + StderrRead(c)
                          /\ o.ostate = "closed" => o.nwritten = c.nread
  <2>1. Pair(cl, sv) /\ Books(cl, sv) /\ Books(sv, cl) BY BooksSwap DEF Ends, Accounts
  <2>2. cl \in Chan /\ sv \in Chan BY DEF TypeOK, Peer
  <2>3. /\ Sane(Ctx("client", sv, FromClient(cl, sv)), cl)
        /\ Sane(Ctx("server", cl, FromServer(cl, sv)), sv) /\ Held(sv)
    BY <2>1 DEF Pair, ClientSane, ServerSane
  <2>4. T(cl, sv)
    <3> HIDE DEF cl, sv
    <3> DEFINE x == Ctx("client", sv, FromClient(cl, sv))
    <3>1. Sane(x, cl) BY <2>3
    <3> HIDE DEF x
    <3> QED BY <2>1, <2>2, <3>1, EofOf
  <2>5. T(sv, cl)
    <3> HIDE DEF cl, sv
    <3> DEFINE x == Ctx("server", cl, FromServer(cl, sv))
    <3>1. Sane(x, sv) BY <2>3
    <3> HIDE DEF x
    <3> QED BY <2>1, <2>2, <3>1, EofOf
  <2>6. EofComplete
    <3>1. \A p \in Peer : T(ch[p], ch[Other(p)]) BY <2>4, <2>5 DEF Peer, Other
    <3>2. \A p \in Peer : Other(p) \in Peer BY DEF Peer, Other
    <3> SUFFICES ASSUME NEW p \in Peer, "eof_rcvd" \in ch[Other(p)].flags, ~ch[Other(p)].cut
                 PROVE  /\ ch[Other(p)].rcvd =
                             ch[p].nread + IF ch[p].extended_usage = "read" THEN ch[p].eread ELSE 0
                        /\ ch[Other(p)].ostate = "closed" => ch[Other(p)].nwritten = ch[p].nread
      BY DEF EofComplete
    <3>3. ch[Other(p)] \in Chan BY <3>2 DEF TypeOK
    <3>4. ch[Other(p)].cut = FALSE BY <3>3 DEF Chan
    <3>5. T(ch[p], ch[Other(p)]) BY <3>1
    <3> QED BY <3>4, <3>5 DEF StderrRead
  <2>7. ExitStatusFirst
    <3> SUFFICES ASSUME sv.child # "none", "close_rcvd" \in cl.flags PROVE cl.exit_rcvd
      BY DEF ExitStatusFirst
    <3>1. cl.exit_rcvd = TRUE BY <2>1, <2>3, ExitOf
    <3> QED BY <3>1
  <2> QED BY <2>6, <2>7 DEF DataComplete
<1> QED BY AccountsAlways, <1>1, PTL
=============================================================================
