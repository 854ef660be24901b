----------------------------- MODULE Transport -----------------------------
(***************************************************************************)
(* The packet layer and the key exchange of one connection (packet.c,      *)
(* kex.c, kexgen.c), from the first KEXINIT through authentication and     *)
(* the hand-over of the server's state to its post-authentication process  *)
(* to any number of key re-exchanges under load.                           *)
(*                                                                         *)
(* An end is a record; a C function is an operator from a record to a      *)
(* record.  e.wire is the ordered stream this end writes to its peer; each *)
(* packet carries the key it was encrypted with.  A key is the pair of     *)
(* KEXINIT messages it was derived from: the exchange hash covers both.    *)
(* Every packet of the model is one cipher block long.                     *)
(***************************************************************************)
EXTENDS Integers, Sequences

CONSTANTS
  BlockSize,   \* enc.block_size, the length of a packet in bytes
  MaxBlocks,   \* max_blocks_out and max_blocks_in: RekeyLimit / block_size
  MaxSend,     \* bound: packets of the upper layers per end
  MaxDue,      \* bound: expiries of RekeyInterval per end
  MaxManual    \* bound: rekeys asked for by the user (~R)

ASSUME TransportAssumption ==
  /\ BlockSize \in Nat \ {0} /\ MaxBlocks \in Nat \ {0}
  /\ MaxSend \in Nat /\ MaxDue \in Nat /\ MaxManual \in Nat

VARIABLES
  end,     \* the two ends
  dues,    \* expiries of the rekey interval so far, per end
  manual   \* rekeys the user has asked for

vars == <<end, dues, manual>>

Peer == {"client", "server"}
Other(p) == IF p = "client" THEN "server" ELSE "client"

(* Message types: those of the key exchange, and of the layers above.      *)
KexType == {"KEXINIT", "KEX_INIT", "KEX_REPLY", "NEWKEYS"}
UpperType == {"EXT_INFO", "SUCCESS", "DATA"}

Key == [c : Nat, s : Nat]
NoKey == [c |-> 0, s |-> 0]
Packet == [t : KexType \cup UpperType, n : Nat, key : Key]

(* Where a process is: not started, in the first key exchange, in user     *)
(* authentication, past it, in the post-authentication process, in its     *)
(* main loop.                                                              *)
Phase == {"start", "kex", "auth", "success", "postauth", "loop"}

(* One end:                                                                *)
(*   rekeying, after_authentication, outgoing     of struct session_state  *)
(*   done, init_sent, initial, my, peer, newkeys  of struct kex; my and    *)
(*     peer are the numbers of the KEXINITs (peer is 0 when empty and -1   *)
(*     when one was appended to another), newkeys the derived keys         *)
(*   keys           state->newkeys, the keys in use                        *)
(*   sblocks, rblocks  p_send and p_read: blocks, and packets, since the   *)
(*     keys were set                                                       *)
(*   accept         the message types whose handler is set                 *)
(*   due            RekeyInterval has passed since rekey_time              *)
(* History: sent / rcvd, upper-layer packets given to sshpkt_send and      *)
(* taken from the wire; failed, the connection broke.                      *)
End == [server : BOOLEAN, phase : Phase,
        rekeying : BOOLEAN, after_authentication : BOOLEAN, outgoing : Seq(Packet),
        done : BOOLEAN, init_sent : BOOLEAN, initial : BOOLEAN,
        my : Nat, peer : Int, newkeys : [in : Key, out : Key], keys : [in : Key, out : Key],
        sblocks : Nat, rblocks : Nat,
        accept : SUBSET (KexType \cup {"EXT_INFO"}), due : BOOLEAN,
        sent : Nat, rcvd : Nat, failed : BOOLEAN, wire : Seq(Packet)]

TypeOK ==
  /\ end \in [Peer -> End]
  /\ dues \in [Peer -> 0 .. MaxDue]
  /\ manual \in 0 .. MaxManual
-----------------------------------------------------------------------------
(* sshpkt_fatal(), ssh_packet_disconnect(): the connection is over. *)
failure(e) == [e EXCEPT !.failed = TRUE]

ssh_packet_is_rekeying(e) == e.rekeying \/ ~e.done

(* Mutant: a rekey may start during authentication. *)
need_rekeying_preauth(e, len) ==
  /\ ~ssh_packet_is_rekeying(e)
  /\ e.sblocks # 0 \/ e.rblocks # 0
  /\ e.due \/ e.sblocks + len > MaxBlocks \/ e.rblocks > MaxBlocks

ssh_packet_need_rekeying(e, len) ==
  /\ e.after_authentication
  /\ ~ssh_packet_is_rekeying(e)
  /\ e.sblocks # 0 \/ e.rblocks # 0
  /\ \/ e.due
     \/ e.sblocks + len > MaxBlocks
     \/ e.rblocks > MaxBlocks

(* ssh_set_newkeys(): move the derived keys to the packet state. *)
ssh_set_newkeys_out(e) ==
  IF e.newkeys.out = NoKey THEN failure(e)
  ELSE [e EXCEPT !.keys.out = e.newkeys.out, !.newkeys.out = NoKey, !.sblocks = 0]
ssh_set_newkeys_in(e) ==
  IF e.newkeys.in = NoKey THEN failure(e)
  ELSE [e EXCEPT !.keys.in = e.newkeys.in, !.newkeys.in = NoKey, !.rblocks = 0]

(* Encrypt a packet and append it to the output. *)
ssh_packet_send2_wrapped(e, t, n) ==
  LET w == [e EXCEPT !.wire = Append(@, [t |-> t, n |-> n, key |-> e.keys.out]),
                     !.sblocks = @ + 1]
  IN  CASE t = "NEWKEYS" -> ssh_set_newkeys_out(w)
        [] t = "SUCCESS" /\ e.server -> [w EXCEPT !.after_authentication = TRUE]
        [] OTHER -> w

ssh_packet_type_is_kex(t) == t \in KexType

(* Mutant: the cookie is that of the last exchange. *)
kexinit_same_cookie(e) ==
  LET k == [e EXCEPT !.done = FALSE, !.my = IF @ = 0 THEN 1 ELSE @, !.rekeying = TRUE]
      s == ssh_packet_send2_wrapped(k, "KEXINIT", k.my)
  IN  IF e.init_sent THEN e ELSE [s EXCEPT !.init_sent = TRUE]

(* sshpkt_send() of the KEXINIT: rekeying starts with it. *)
kex_send_kexinit(e) ==
  LET k == [e EXCEPT !.done = FALSE, !.my = @ + 1, !.rekeying = TRUE]
      s == ssh_packet_send2_wrapped(k, "KEXINIT", k.my)
  IN  IF e.init_sent THEN e ELSE [s EXCEPT !.init_sent = TRUE]

kex_start_rekex(e) ==
  IF ~e.done THEN failure(e) ELSE kex_send_kexinit([e EXCEPT !.done = FALSE])

(* Mutant: the queue is bypassed. *)
send2_does_not_queue(e, t, n) == ssh_packet_send2_wrapped(e, t, n)

(* ssh_packet_send2() for a message of the upper layers: queued while keys *)
(* are exchanged, and when it is the one that makes a rekey due.           *)
ssh_packet_send2(e, t, n) ==
  LET need == ssh_packet_need_rekeying(e, BlockSize)
      q == [e EXCEPT !.outgoing = Append(@, [t |-> t, n |-> n, key |-> NoKey])]
  IN  CASE need -> kex_start_rekex(q)
        [] ~need /\ e.rekeying -> q
        [] OTHER -> ssh_packet_send2_wrapped(e, t, n)

(* The end after the first k packets of its queue were encrypted.          *)
QueueSent(e, k) ==
  [e EXCEPT !.wire = @ \o [i \in 1 .. k |-> [e.outgoing[i] EXCEPT !.key = e.keys.out]],
            !.outgoing = SubSeq(@, k + 1, Len(@)),
            !.sblocks = @ + k,
            !.after_authentication =
               @ \/ (e.server /\ \E i \in 1 .. k : e.outgoing[i].t = "SUCCESS")]

(* The loop that sends the queue after NEWKEYS.  It ends with the queue, or *)
(* at the first packet that makes a rekey due: that one stays in the queue *)
(* with those behind it.                                                   *)
SendQueue(e) ==
  LET Ends(k) == \/ k = Len(e.outgoing)
                 \/ ssh_packet_need_rekeying(QueueSent(e, k), BlockSize)
      n == CHOOSE k \in 0 .. Len(e.outgoing) :
             Ends(k) /\ \A i \in 0 .. k - 1 : ~Ends(i)
      s == QueueSent(e, n)
  IN  IF n = Len(e.outgoing) THEN s ELSE kex_start_rekex(s)

(* Mutant: the queue is not flushed. *)
newkeys_keeps_queue(e) ==
  LET s == ssh_packet_send2_wrapped(e, "NEWKEYS", 0)
  IN  [s EXCEPT !.rekeying = FALSE, !.due = FALSE]

(* ssh_packet_send2() of NEWKEYS. *)
SendNewkeys(e) ==
  LET s == ssh_packet_send2_wrapped(e, "NEWKEYS", 0)
      r == [s EXCEPT !.rekeying = FALSE, !.due = FALSE]
  IN  IF s.failed THEN s ELSE SendQueue(r)

(* The server's extension message is numbered with the upper layers'.      *)
kex_send_newkeys(e) ==
  LET s == SendNewkeys([e EXCEPT !.accept = {}])
      a == [s EXCEPT !.accept = {"NEWKEYS"}]
  IN  IF e.server /\ e.initial
      THEN [ssh_packet_send2(a, "EXT_INFO", a.sent + 1) EXCEPT !.sent = @ + 1] ELSE a

(* kex_derive_keys(): both directions' keys from the exchange hash. *)
kex_derive_keys(e) ==
  LET k == IF e.server THEN [c |-> e.peer, s |-> e.my] ELSE [c |-> e.my, s |-> e.peer]
  IN  [e EXCEPT !.newkeys = [in |-> k, out |-> k]]
-----------------------------------------------------------------------------
(* The handlers of the key exchange. *)

(* kex_input_kexinit(), then kex_gen_client() or kex_gen_server(). *)
kex_input_kexinit(e, n) ==
  LET a == [e EXCEPT !.accept = @ \ {"KEXINIT"}, !.peer = IF @ = 0 THEN n ELSE -1]
      b == kex_send_kexinit(a)
      c == ssh_packet_send2_wrapped(b, "KEX_INIT", 0)
  IN  IF e.server THEN [b EXCEPT !.accept = @ \cup {"KEX_INIT"}]
      ELSE [c EXCEPT !.accept = @ \cup {"KEX_REPLY"}]

input_kex_gen_init(e) ==
  kex_send_newkeys(kex_derive_keys(ssh_packet_send2_wrapped(e, "KEX_REPLY", 0)))

input_kex_gen_reply(e) == kex_send_newkeys(kex_derive_keys(e))

(* Mutant: the peer's KEXINIT is kept. *)
newkeys_keeps_peer(e) ==
  LET s == ssh_set_newkeys_in([e EXCEPT !.accept = (@ \ {"NEWKEYS"}) \cup {"KEXINIT"}])
  IN  IF s.failed THEN s
      ELSE [s EXCEPT !.done = TRUE, !.initial = FALSE, !.init_sent = FALSE]
(* Mutant: the next KEXINIT will not be sent. *)
newkeys_keeps_init_sent(e) ==
  LET s == ssh_set_newkeys_in([e EXCEPT !.accept = (@ \ {"NEWKEYS"}) \cup {"KEXINIT"}])
  IN  IF s.failed THEN s
      ELSE [s EXCEPT !.done = TRUE, !.initial = FALSE, !.peer = 0]

kex_input_newkeys(e) ==
  LET s == ssh_set_newkeys_in([e EXCEPT !.accept = (@ \ {"NEWKEYS"}) \cup {"KEXINIT"}])
  IN  IF s.failed THEN s
      ELSE [s EXCEPT !.done = TRUE, !.initial = FALSE, !.peer = 0, !.init_sent = FALSE]

(* ssh_packet_read_poll2(): decrypt the packet; the wrong key shows as a   *)
(* corrupted MAC.  Reading may make a rekey due.                           *)
ssh_packet_read_poll2(e, m) ==
  LET r == [e EXCEPT !.rblocks = @ + 1,
                     !.after_authentication = @ \/ (m.t = "SUCCESS" /\ ~e.server)]
  IN  CASE m.key # e.keys.in -> failure(e)
        [] m.key = e.keys.in /\ ssh_packet_need_rekeying(r, 0) -> kex_start_rekex(r)
        [] OTHER -> r

(* Run the handler of the packet.  A message of the key exchange without a *)
(* handler is answered with UNIMPLEMENTED, a disconnect or, during         *)
(* authentication, fatal(): the exchange can not go on.                    *)
Handle(e, m) ==
  CASE m.t \in KexType \cup {"EXT_INFO"} /\ m.t \notin e.accept -> failure(e)
    [] m.t = "KEXINIT" /\ m.t \in e.accept -> kex_input_kexinit(e, m.n)
    [] m.t = "KEX_INIT" /\ m.t \in e.accept -> input_kex_gen_init(e)
    [] m.t = "KEX_REPLY" /\ m.t \in e.accept -> input_kex_gen_reply(e)
    [] m.t = "NEWKEYS" /\ m.t \in e.accept -> kex_input_newkeys(e)
    [] m.t = "EXT_INFO" /\ m.t \in e.accept ->
         [e EXCEPT !.accept = @ \ {"EXT_INFO"}, !.rcvd = @ + 1]
    [] m.t = "SUCCESS" -> [e EXCEPT !.phase = "success", !.rcvd = @ + 1]
    [] m.t = "DATA" -> [e EXCEPT !.rcvd = @ + 1]
-----------------------------------------------------------------------------
(* Actions. *)

Alive == \A p \in Peer : ~end[p].failed

Init ==
  /\ end = [p \in Peer |->
       [server |-> p = "server", phase |-> "start",
        rekeying |-> FALSE, after_authentication |-> FALSE, outgoing |-> <<>>,
        done |-> FALSE, init_sent |-> FALSE, initial |-> TRUE,
        my |-> 0, peer |-> 0, newkeys |-> [in |-> NoKey, out |-> NoKey],
        keys |-> [in |-> NoKey, out |-> NoKey], sblocks |-> 0, rblocks |-> 0,
        accept |-> {}, due |-> FALSE, sent |-> 0, rcvd |-> 0, failed |-> FALSE,
        wire |-> <<>>]]
  /\ dues = [p \in Peer |-> 0]
  /\ manual = 0

(* kex_setup(): both ends start by sending their KEXINIT. *)
kex_setup(p) ==
  /\ end[p].phase = "start"
  /\ end' = [end EXCEPT ![p] = kex_send_kexinit(
               [end[p] EXCEPT !.phase = "kex", !.accept = {"KEXINIT"}])]
  /\ UNCHANGED <<dues, manual>>

(* The first exchange is done: ssh_userauth2() and do_authentication2()    *)
(* replace all handlers.  Only the client expects EXT_INFO.                *)
start_userauth(p) ==
  /\ Alive /\ end[p].phase = "kex" /\ end[p].done
  /\ end' = [end EXCEPT ![p].phase = "auth",
                        ![p].accept = IF p = "client" THEN {"EXT_INFO"} ELSE {}]
  /\ UNCHANGED <<dues, manual>>

(* The server accepts the user. *)
send_userauth_success ==
  LET e == end["server"] IN
  /\ Alive /\ e.phase = "auth"
  /\ end' = [end EXCEPT !["server"] =
               [ssh_packet_send2(e, "SUCCESS", e.sent + 1) EXCEPT
                  !.sent = @ + 1, !.phase = "success"]]
  /\ UNCHANGED <<dues, manual>>

(* mm_send_keystate() and monitor_apply_keystate(): what the state blob    *)
(* does not hold, the queue included, starts afresh in the new process,    *)
(* and setting the keys again resets the counters.                         *)
monitor_apply_keystate ==
  /\ Alive /\ end["server"].phase = "success"
  /\ end' = [end EXCEPT !["server"] =
               [end["server"] EXCEPT
                  !.phase = "postauth", !.done = TRUE, !.rekeying = FALSE,
                  !.outgoing = <<>>, !.newkeys = [in |-> NoKey, out |-> NoKey],
                  !.sblocks = 0, !.rblocks = 0, !.due = FALSE, !.accept = {},
                  !.after_authentication = TRUE]]
  /\ UNCHANGED <<dues, manual>>

(* Without privilege separation the same process goes on as it is. *)
no_privsep ==
  /\ Alive /\ end["server"].phase = "success"
  /\ end' = [end EXCEPT !["server"].phase = "postauth"]
  /\ UNCHANGED <<dues, manual>>

(* client_init_dispatch() and server_init_dispatch(), on the way into the  *)
(* main loop.                                                              *)
init_dispatch(p) ==
  /\ Alive /\ end[p].phase = IF p = "server" THEN "postauth" ELSE "success"
  /\ end' = [end EXCEPT ![p].phase = "loop", ![p].accept = {"KEXINIT"}]
  /\ UNCHANGED <<dues, manual>>

(* A packet of authentication or of the connection protocol. *)
send_data(p) ==
  LET e == end[p] IN
  /\ Alive /\ e.sent < MaxSend
  /\ e.phase \in {"auth", "postauth", "loop"} \/ (p = "client" /\ e.phase = "success")
  /\ end' = [end EXCEPT ![p] =
               [ssh_packet_send2(e, "DATA", e.sent + 1) EXCEPT !.sent = @ + 1]]
  /\ UNCHANGED <<dues, manual>>

(* ssh_dispatch_run() with ssh_packet_read_poll2(): the next packet.  The  *)
(* loops of the first exchange and of authentication end with success.     *)
Receive(p) ==
  LET e == end[p] IN
  /\ Alive /\ end[Other(p)].wire # <<>>
  /\ e.phase \in {"auth", "loop"} \/ (e.phase = "kex" /\ ~e.done)
  /\ LET m == Head(end[Other(p)].wire)
         r == ssh_packet_read_poll2(e, m)
     IN  end' = [end EXCEPT ![Other(p)].wire = Tail(@),
                            ![p] = IF r.failed THEN r ELSE Handle(r, m)]
  /\ UNCHANGED <<dues, manual>>

(* RekeyInterval passes; nothing happens until the next packet. *)
interval_passes(p) ==
  /\ Alive /\ ~end[p].due /\ dues[p] < MaxDue
  /\ end' = [end EXCEPT ![p].due = TRUE]
  /\ dues' = [dues EXCEPT ![p] = @ + 1]
  /\ UNCHANGED manual

(* The client's loop acts on need_rekeying, the user's ~R. *)
manual_rekey ==
  LET e == end["client"] IN
  /\ Alive /\ e.phase = "loop" /\ ~ssh_packet_is_rekeying(e) /\ manual < MaxManual
  /\ end' = [end EXCEPT !["client"] = kex_start_rekex(e)]
  /\ manual' = manual + 1
  /\ UNCHANGED dues

Next ==
  \/ \E p \in Peer : kex_setup(p) \/ start_userauth(p) \/ init_dispatch(p)
                     \/ send_data(p) \/ Receive(p) \/ interval_passes(p)
  \/ send_userauth_success
  \/ monitor_apply_keystate
  \/ no_privsep
  \/ manual_rekey

Spec == Init /\ [][Next]_vars

(* What a process does next, whatever arrives. *)
Proceed(p) ==
  \/ kex_setup(p) \/ start_userauth(p) \/ init_dispatch(p) \/ Receive(p)
  \/ p = "server" /\ (monitor_apply_keystate \/ no_privsep)

(* Each process goes on: it reads what arrives and takes the next step of  *)
(* its main program.  That the user is accepted is assumed, too.           *)
FairSpec ==
  /\ Spec
  /\ \A p \in Peer : WF_vars(Proceed(p))
  /\ WF_vars(send_userauth_success)
-----------------------------------------------------------------------------
(* Properties. *)

(* The connection never breaks: every packet is decrypted with the key it  *)
(* was encrypted with, no message of the key exchange arrives when its     *)
(* handler is not set (during authentication neither end could cope with   *)
(* one), no rekey is requested twice and no key is missing at NEWKEYS.     *)
NoTransportError == Alive

(* Between the KEXINIT and the NEWKEYS of an end nothing but messages of   *)
(* the key exchange is on the wire, whoever started it and whatever the    *)
(* loops, replies and timers send.                                         *)
OnlyKexWhileRekeying ==
  \A p \in Peer : LET w == end[p].wire IN
    \A i \in DOMAIN w : w[i].t \in UpperType =>
      \A j \in 1 .. i : w[j].t = "KEXINIT" => \E k \in j .. i : w[k].t = "NEWKEYS"

(* Nothing is lost, doubled or overtaken in the queue, across rekeys and   *)
(* across the hand-over to the post-authentication process: of the packets *)
(* given to sshpkt_send, numbered 1, 2, ..., those the peer has not taken  *)
(* are on the wire, each once and in order, and behind them in the queue.  *)
NothingLost ==
  \A p \in Peer :
    LET w == end[p].wire
        q == end[p].outgoing
        first == end[Other(p)].rcvd
        last == end[p].sent - Len(q)
        Upper == {i \in DOMAIN w : w[i].t \in UpperType}
    IN  /\ first <= last
        /\ \A i \in Upper : w[i].n \in first + 1 .. last
        /\ \A i, j \in Upper : i < j => w[i].n < w[j].n
        /\ \A n \in first + 1 .. last : \E i \in Upper : w[i].n = n
        /\ \A i \in DOMAIN q : q[i].n = last + i

Newer(k, old) == k.c > old.c /\ k.s > old.s

(* An end that leaves rekeying writes with a key both ends contributed to  *)
(* afresh, and so does an end whose exchange is done read: no exchange     *)
(* ends with a KEXINIT of an earlier one in its hash.                      *)
FreshKeys ==
  [][\A p \in Peer :
       /\ end[p].rekeying /\ ~end'[p].rekeying =>
            Newer(end'[p].keys.out, end[p].keys.out)
       /\ ~end[p].done /\ end'[p].done =>
            Newer(end'[p].keys.in, end[p].keys.in)]_vars

(* A key exchange, once begun, comes to its end on both sides, also when   *)
(* both begin at once.                                                     *)
RekeyCompletes ==
  \A p \in Peer : ssh_packet_is_rekeying(end[p]) ~> ~ssh_packet_is_rekeying(end[p])

(* Everything that is sent arrives, however small the rekey limit: a rekey *)
(* per packet must not keep the packets back.                              *)
Delivered ==
  \A p \in Peer : \A n \in 1 .. MaxSend :
    end[p].sent >= n ~> end[Other(p)].rcvd >= n

(* What the comment on the loop that sends the queue says: "If this packet *)
(* triggers a rekex, then skip the remaining packets in the queue for      *)
(* now."  So the queue alone never takes a new key over its limit.         *)
QueueHeedsLimit ==
  [][\A p \in Peer :
       end[p].after_authentication /\ end[p].rekeying /\ ~end'[p].rekeying =>
         end'[p].sblocks <= MaxBlocks]_vars

(* The connection never breaks on account of a rekey, nothing but messages of the exchange
   is sent meanwhile, and nothing of the layers above is lost, doubled or overtaken. *)
TransportSound == NoTransportError /\ OnlyKexWhileRekeying /\ NothingLost

(* Rekeys bring fresh keys, come to an end, and do not keep packets back for ever. *)
RekeysSound == FreshKeys /\ RekeyCompletes /\ Delivered
=============================================================================
