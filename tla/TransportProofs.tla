-------------------------- MODULE TransportProofs --------------------------
(***************************************************************************)
(* The packet layer and the key exchange (module Transport) keep           *)
(* TransportSound, for every rekey limit and any number of packets, expiries *)
(* and manual rekeys.                                                      *)
(*                                                                         *)
(* The argument.  The messages of the key exchange that an end sends form  *)
(* one sequence: number 3 * (x - 1) + 1 is the KEXINIT of exchange x,      *)
(* 3 * (x - 1) + 2 its KEX_INIT or KEX_REPLY and 3 * x its NEWKEYS.  How   *)
(* many of them an end has sent (KexSent) and taken (KexTaken) follows     *)
(* from its own state.  What lies on a wire is then exactly the numbers    *)
(* between what its reader has taken and what its writer has sent          *)
(* (Stream), so that the next one is always the one its reader waits for,  *)
(* and what is encrypted with a key lies between the NEWKEYS before and    *)
(* the one after.                                                          *)
(***************************************************************************)
EXTENDS Transport, SequenceTheorems, TLAPS

(* The number of a packet in the sequence of the key exchange; a packet of *)
(* the upper layers has that of the NEWKEYS before it.                     *)
Step == [t \in KexType \cup UpperType |->
           CASE t = "KEXINIT" -> 1 [] t \in {"KEX_INIT", "KEX_REPLY"} -> 2
             [] t = "NEWKEYS" -> 3 [] OTHER -> 0]
Number(m) == 3 * m.key.c + Step[m.t]

(* The messages of the key exchange that an end has sent, and taken. *)
KexSent(e) ==
  3 * e.keys.out.c + (IF ~e.rekeying THEN 0 ELSE IF ~e.server /\ e.peer # 0 THEN 2 ELSE 1)
KexTaken(e) ==
  3 * e.keys.in.c + (IF e.peer = 0 THEN 0 ELSE IF e.rekeying THEN 1 ELSE 2)

(* A packet that a server, or a client, sends. *)
Sendable(m, server) ==
  /\ m \in Packet /\ m.key.s = m.key.c
  /\ m.t = "KEXINIT" => m.n = m.key.c + 1
  /\ m.t = "KEX_INIT" => ~server
  /\ m.t = "KEX_REPLY" => server
  /\ m.t \in UpperType => m.key.c >= 1 /\ m.n >= 1 /\ (m.t = "EXT_INFO" <=> server /\ m.n = 1)
  /\ m.t = "SUCCESS" => server /\ m.key.c = 1

(* The packets w on a wire, when the reader has taken a messages of the    *)
(* key exchange and first packets of the upper layers, and the writer has  *)
(* sent b and last.                                                        *)
Stream(w, server, a, b, first, last) ==
  /\ w \in Seq(Packet)
  /\ a <= b /\ first <= last
  /\ \A i \in 1 .. Len(w) : Sendable(w[i], server) /\ Number(w[i]) <= b
  /\ \A i \in 1 .. Len(w) : w[i].t \in KexType => a < Number(w[i])
  /\ \A i, j \in 1 .. Len(w) : i < j => Number(w[i]) <= Number(w[j])
  /\ \A i, j \in 1 .. Len(w) : i < j /\ w[j].t \in KexType => Number(w[i]) < Number(w[j])
  /\ \A k \in Int : a < k /\ k <= b =>
       \E i \in 1 .. Len(w) : w[i].t \in KexType /\ Number(w[i]) = k
  /\ \A i \in 1 .. Len(w) : w[i].t \in UpperType =>
       a <= Number(w[i]) + 2 /\ first < w[i].n /\ w[i].n <= last
  /\ \A i, j \in 1 .. Len(w) :
       i < j /\ w[i].t \in UpperType /\ w[j].t \in UpperType => w[i].n < w[j].n
  /\ \A k \in Int : first < k /\ k <= last =>
       \E i \in 1 .. Len(w) : w[i].t \in UpperType /\ w[i].n = k

(* The queue: data, numbered up to the last packet given to sshpkt_send. *)
QueueOK(e) ==
  /\ Len(e.outgoing) <= e.sent
  /\ \A i \in 1 .. Len(e.outgoing) :
       e.outgoing[i].t = "DATA" /\ e.outgoing[i].n = e.sent - Len(e.outgoing) + i
  /\ ~e.rekeying => e.outgoing = <<>>

Pair(j) == [c |-> j, s |-> j]

(* Where an end may be in an exchange: none is going on; KEXINIT sent;     *)
(* the peer's KEXINIT taken; NEWKEYS sent.                                 *)
Idle(e) ==
  /\ e.done /\ ~e.rekeying /\ ~e.init_sent /\ e.peer = 0 /\ e.my >= 1
  /\ e.keys = [in |-> Pair(e.my), out |-> Pair(e.my)]
  /\ e.newkeys = [in |-> NoKey, out |-> NoKey] /\ ~e.initial
Begun(e) ==
  /\ ~e.done /\ e.rekeying /\ e.init_sent /\ e.peer = 0 /\ e.my >= 1
  /\ e.keys = [in |-> Pair(e.my - 1), out |-> Pair(e.my - 1)]
  /\ e.newkeys = [in |-> NoKey, out |-> NoKey] /\ e.initial = (e.my = 1)
Met(e) ==
  /\ ~e.done /\ e.rekeying /\ e.init_sent /\ e.peer = e.my /\ e.my >= 1
  /\ e.keys = [in |-> Pair(e.my - 1), out |-> Pair(e.my - 1)]
  /\ e.newkeys = [in |-> NoKey, out |-> NoKey] /\ e.initial = (e.my = 1)
Sealed(e) ==
  /\ ~e.done /\ ~e.rekeying /\ e.init_sent /\ e.peer = e.my /\ e.my >= 1
  /\ e.keys = [in |-> Pair(e.my - 1), out |-> Pair(e.my)]
  /\ e.newkeys = [in |-> Pair(e.my), out |-> NoKey] /\ e.initial = (e.my = 1)

Unstarted(e) ==
  /\ ~e.done /\ ~e.rekeying /\ ~e.init_sent /\ e.peer = 0 /\ e.my = 0 /\ e.initial
  /\ e.keys = [in |-> NoKey, out |-> NoKey] /\ e.newkeys = [in |-> NoKey, out |-> NoKey]

(* The handlers that are set while an exchange may go on. *)
Handlers(e) ==
  /\ Idle(e) \/ Begun(e) => e.accept = {"KEXINIT"}
  /\ Met(e) => e.accept = {IF e.server THEN "KEX_INIT" ELSE "KEX_REPLY"}
  /\ Sealed(e) => e.accept = {"NEWKEYS"}

Early == {"start", "kex", "auth"}
Late == {"success", "postauth", "loop"}

(* What holds of one end. *)
EndOK(e) ==
  /\ ~e.failed /\ QueueOK(e)
  /\ e.after_authentication <=> e.phase \in Late
  /\ e.phase = "start" => Unstarted(e)
  /\ e.phase = "kex" => (Idle(e) \/ Begun(e) \/ Met(e) \/ Sealed(e)) /\ e.my = 1 /\ Handlers(e)
  /\ e.phase = "auth" => Idle(e) /\ e.my = 1
  /\ e.phase = "success" => (Idle(e) /\ e.my = 1) \/ (~e.server /\ Begun(e) /\ e.my = 2)
  /\ e.phase = "postauth" => (Idle(e) /\ e.my = 1) \/ (Begun(e) /\ e.my = 2)
  /\ e.phase = "loop" =>
       (Idle(e) \/ Begun(e) \/ Met(e) \/ Sealed(e)) /\ Handlers(e) /\ (~Idle(e) => e.my >= 2)
  /\ e.phase = "postauth" => e.server
  /\ e.keys.out.c = 0 => e.sent = 0
  /\ e.server /\ e.keys.out.c >= 1 => e.sent - Len(e.outgoing) >= 1
  /\ ~e.server /\ e.phase = "auth" /\ e.rcvd = 0 => "EXT_INFO" \in e.accept
  /\ e.phase \in {"start", "kex"} => e.rcvd = 0
  /\ ~e.server /\ e.phase \in Late => e.rcvd >= 1

(* SUCCESS tells the client what the server knows: it is on the wire, once, *)
(* as long as the two differ.                                              *)
Successes(w) == {i \in 1 .. Len(w) : w[i].t = "SUCCESS"}
Coupled(c, s) ==
  /\ \A i, j \in Successes(s.wire) : i = j
  /\ c.phase \in Late => s.phase \in Late
  /\ Successes(s.wire) # {} <=> c.phase \in Early /\ s.phase \in Late

(* The wire of e, read by f. *)
Between(e, f) ==
  Stream(e.wire, e.server, KexTaken(f), KexSent(e), f.rcvd, e.sent - Len(e.outgoing))

(* The inductive invariant. *)
Inv ==
  /\ TypeOK
  /\ \A p \in Peer : end[p].server = (p = "server")
  /\ \A p \in Peer : EndOK(end[p])
  /\ Between(end["client"], end["server"])
  /\ Between(end["server"], end["client"])
  /\ Coupled(end["client"], end["server"])
-----------------------------------------------------------------------------
(* Packets and streams. *)

LEMMA StepValue ==
  /\ Step["KEXINIT"] = 1 /\ Step["KEX_INIT"] = 2 /\ Step["KEX_REPLY"] = 2 /\ Step["NEWKEYS"] = 3
  /\ \A t \in UpperType : Step[t] = 0
  /\ \A t \in KexType : Step[t] \in 1 .. 3
BY DEF Step, KexType, UpperType

LEMMA NumberType ==
  ASSUME NEW m \in Packet
  PROVE  /\ m.t \in KexType \cup UpperType /\ m.n \in Nat /\ m.key \in Key
         /\ m.key.c \in Nat /\ m.key.s \in Nat
         /\ Number(m) \in Nat
         /\ m.t \in UpperType => Number(m) = 3 * m.key.c
         /\ m.t \in KexType => m.t \notin UpperType /\ Number(m) \in 3 * m.key.c + 1 .. 3 * m.key.c + 3
<1>1. m.t \in KexType \cup UpperType /\ m.n \in Nat /\ m.key \in Key BY DEF Packet
<1>2. m.key.c \in Nat /\ m.key.s \in Nat BY <1>1 DEF Key
<1>3. KexType \cap UpperType = {} BY DEF KexType, UpperType
<1> QED BY <1>1, <1>2, <1>3, StepValue DEF Number

(* A message of the key exchange is appended. *)
LEMMA AppendKex ==
  ASSUME NEW w, NEW server \in BOOLEAN, NEW a \in Int, NEW b \in Int,
         NEW first \in Int, NEW last \in Int, NEW m,
         Stream(w, server, a, b, first, last), Sendable(m, server),
         m.t \in KexType, Number(m) = b + 1
  PROVE  Stream(Append(w, m), server, a, b + 1, first, last)
<1> DEFINE v == Append(w, m)
<1>1. m \in Packet /\ w \in Seq(Packet) BY DEF Sendable, Stream
<1>2. /\ v \in Seq(Packet) /\ Len(v) = Len(w) + 1 /\ Len(w) \in Nat
      /\ v[Len(v)] = m /\ \A i \in 1 .. Len(w) : v[i] = w[i]
  BY <1>1
<1>3. \A i \in 1 .. Len(w) : w[i] \in Packet /\ Number(w[i]) \in Nat /\ w[i].n \in Nat
  BY <1>1, NumberType
<1>4. m.t \notin UpperType BY <1>1, NumberType
<1> HIDE DEF v
<1>5. \A i \in 1 .. Len(v) : i \in 1 .. Len(w) \/ i = Len(v) BY <1>2
<1>6. \A i \in 1 .. Len(v) : Sendable(v[i], server) /\ Number(v[i]) <= b + 1
  BY <1>2, <1>3, <1>5 DEF Stream
<1>7. \A i \in 1 .. Len(v) : v[i].t \in KexType => a < Number(v[i])
  <2>1. a < Number(m) BY DEF Stream
  <2>2. \A i \in 1 .. Len(w) : w[i].t \in KexType => a < Number(w[i]) BY DEF Stream
  <2> QED BY <2>1, <2>2, <1>2, <1>5
<1>8. \A i, j \in 1 .. Len(v) : i < j => Number(v[i]) <= Number(v[j])
  BY <1>2, <1>3, <1>5 DEF Stream
<1>9. \A i, j \in 1 .. Len(v) : i < j /\ v[j].t \in KexType => Number(v[i]) < Number(v[j])
  BY <1>2, <1>3, <1>5 DEF Stream
<1>10. \A k \in Int : a < k /\ k <= b + 1 =>
         \E i \in 1 .. Len(v) : v[i].t \in KexType /\ Number(v[i]) = k
  <2> SUFFICES ASSUME NEW k \in Int, a < k, k <= b + 1
               PROVE  \E i \in 1 .. Len(v) : v[i].t \in KexType /\ Number(v[i]) = k
    OBVIOUS
  <2>1. CASE k = b + 1 BY <2>1, <1>2
  <2>2. CASE k <= b
    <3>1. PICK i \in 1 .. Len(w) : w[i].t \in KexType /\ Number(w[i]) = k BY <2>2 DEF Stream
    <3> QED BY <3>1, <1>2
  <2> QED BY <2>1, <2>2
<1>11. \A i \in 1 .. Len(v) : v[i].t \in UpperType =>
         a <= Number(v[i]) + 2 /\ first < v[i].n /\ v[i].n <= last
  BY <1>2, <1>4, <1>5 DEF Stream
<1>12. \A i, j \in 1 .. Len(v) :
         i < j /\ v[i].t \in UpperType /\ v[j].t \in UpperType => v[i].n < v[j].n
  BY <1>2, <1>4, <1>5 DEF Stream
<1>13. \A k \in Int : first < k /\ k <= last =>
         \E i \in 1 .. Len(v) : v[i].t \in UpperType /\ v[i].n = k
  <2> SUFFICES ASSUME NEW k \in Int, first < k, k <= last
               PROVE  \E i \in 1 .. Len(v) : v[i].t \in UpperType /\ v[i].n = k
    OBVIOUS
  <2>1. PICK i \in 1 .. Len(w) : w[i].t \in UpperType /\ w[i].n = k BY DEF Stream
  <2> QED BY <2>1, <1>2
<1>14. a <= b + 1 /\ first <= last BY DEF Stream
<1> QED BY <1>2, <1>6, <1>7, <1>8, <1>9, <1>10, <1>11, <1>12, <1>13, <1>14 DEF Stream, v

(* Packets of the upper layers are appended. *)
LEMMA Extend ==
  ASSUME NEW w, NEW server \in BOOLEAN, NEW a \in Int, NEW b \in Int,
         NEW first \in Int, NEW last \in Int, NEW k \in Nat, NEW v \in Seq(Packet),
         Stream(w, server, a, b, first, last),
         Len(v) = Len(w) + k, \A i \in 1 .. Len(w) : v[i] = w[i],
         \A i \in Len(w) + 1 .. Len(v) :
            /\ Sendable(v[i], server) /\ v[i].t \in UpperType
            /\ Number(v[i]) = b /\ v[i].n = last + (i - Len(w))
  PROVE  Stream(v, server, a, b, first, last + k)
<1>1. w \in Seq(Packet) /\ Len(w) \in Nat /\ Len(v) \in Nat BY DEF Stream
<1>2. \A i \in 1 .. Len(w) : w[i] \in Packet /\ Number(w[i]) \in Nat /\ w[i].n \in Nat
  BY <1>1, NumberType
<1>3. \A i \in 1 .. Len(v) : i \in 1 .. Len(w) \/ i \in Len(w) + 1 .. Len(v) BY <1>1
<1>4. \A i \in Len(w) + 1 .. Len(v) : v[i] \in Packet BY DEF Sendable
<1>5. \A i \in Len(w) + 1 .. Len(v) : v[i].t \notin KexType BY <1>4, NumberType
<1>6. \A i \in 1 .. Len(v) : Sendable(v[i], server) /\ Number(v[i]) <= b
  <2>1. \A i \in 1 .. Len(w) : Sendable(v[i], server) /\ Number(v[i]) <= b BY DEF Stream
  <2>2. \A i \in Len(w) + 1 .. Len(v) : Sendable(v[i], server) /\ Number(v[i]) <= b OBVIOUS
  <2> QED BY <2>1, <2>2, <1>3
<1>7. \A i \in 1 .. Len(v) : v[i].t \in KexType => a < Number(v[i])
  BY <1>3, <1>5 DEF Stream
<1>8. \A i, j \in 1 .. Len(v) : i < j => Number(v[i]) <= Number(v[j])
  <2> SUFFICES ASSUME NEW i \in 1 .. Len(v), NEW j \in 1 .. Len(v), i < j
               PROVE  Number(v[i]) <= Number(v[j])
    OBVIOUS
  <2>1. CASE j \in 1 .. Len(w) BY <2>1, <1>1 DEF Stream
  <2>2. CASE j \in Len(w) + 1 .. Len(v) BY <2>2, <1>6
  <2> QED BY <2>1, <2>2, <1>3
<1>9. \A i, j \in 1 .. Len(v) : i < j /\ v[j].t \in KexType => Number(v[i]) < Number(v[j])
  <2> SUFFICES ASSUME NEW i \in 1 .. Len(v), NEW j \in 1 .. Len(v), i < j, v[j].t \in KexType
               PROVE  Number(v[i]) < Number(v[j])
    OBVIOUS
  <2>1. j \in 1 .. Len(w) /\ i \in 1 .. Len(w) BY <1>1, <1>3, <1>5
  <2> QED BY <2>1 DEF Stream
<1>10. \A x \in Int : a < x /\ x <= b =>
         \E i \in 1 .. Len(v) : v[i].t \in KexType /\ Number(v[i]) = x
  <2> SUFFICES ASSUME NEW x \in Int, a < x, x <= b
               PROVE  \E i \in 1 .. Len(v) : v[i].t \in KexType /\ Number(v[i]) = x
    OBVIOUS
  <2>1. PICK i \in 1 .. Len(w) : w[i].t \in KexType /\ Number(w[i]) = x BY DEF Stream
  <2> QED BY <2>1, <1>1
<1>11. \A i \in 1 .. Len(v) : v[i].t \in UpperType =>
         a <= Number(v[i]) + 2 /\ first < v[i].n /\ v[i].n <= last + k
  <2>1. \A i \in 1 .. Len(w) : w[i].t \in UpperType =>
         a <= Number(w[i]) + 2 /\ first < w[i].n /\ w[i].n <= last
    BY DEF Stream
  <2>2. \A i \in 1 .. Len(w) : v[i].t \in UpperType =>
         a <= Number(v[i]) + 2 /\ first < v[i].n /\ v[i].n <= last + k
    <3> SUFFICES ASSUME NEW i \in 1 .. Len(w), v[i].t \in UpperType
                 PROVE  a <= Number(v[i]) + 2 /\ first < v[i].n /\ v[i].n <= last + k
      OBVIOUS
    <3>1. v[i] = w[i] /\ w[i].n \in Nat BY <1>2
    <3>2. a <= Number(w[i]) + 2 /\ first < w[i].n /\ w[i].n <= last BY <2>1, <3>1
    <3>3. w[i].n <= last + k BY <3>1, <3>2
    <3> QED BY <3>1, <3>2, <3>3
  <2>3. a <= b /\ first <= last BY DEF Stream
  <2>4. \A i \in Len(w) + 1 .. Len(v) :
         a <= Number(v[i]) + 2 /\ first < v[i].n /\ v[i].n <= last + k
    <3> SUFFICES ASSUME NEW i \in Len(w) + 1 .. Len(v)
                 PROVE  a <= Number(v[i]) + 2 /\ first < v[i].n /\ v[i].n <= last + k
      OBVIOUS
    <3>1. Number(v[i]) = b /\ v[i].n = last + (i - Len(w)) OBVIOUS
    <3>2. i - Len(w) \in Int /\ i - Len(w) >= 1 /\ i - Len(w) <= k BY <1>1
    <3> QED BY <3>1, <3>2, <2>3
  <2> QED BY <2>2, <2>4, <1>3
<1>12. \A i, j \in 1 .. Len(v) :
         i < j /\ v[i].t \in UpperType /\ v[j].t \in UpperType => v[i].n < v[j].n
  <2> SUFFICES ASSUME NEW i \in 1 .. Len(v), NEW j \in 1 .. Len(v), i < j,
                      v[i].t \in UpperType, v[j].t \in UpperType
               PROVE  v[i].n < v[j].n
    OBVIOUS
  <2>1. CASE j \in 1 .. Len(w) BY <2>1, <1>1 DEF Stream
  <2>2. CASE j \in Len(w) + 1 .. Len(v) /\ i \in 1 .. Len(w)
    <3>1. v[i].n <= last /\ v[i].n \in Nat BY <2>2, <1>2 DEF Stream
    <3> QED BY <3>1, <2>2, <1>1
  <2>3. CASE j \in Len(w) + 1 .. Len(v) /\ i \in Len(w) + 1 .. Len(v) BY <2>3, <1>1
  <2> QED BY <2>1, <2>2, <2>3, <1>3
<1>13. \A x \in Int : first < x /\ x <= last + k =>
         \E i \in 1 .. Len(v) : v[i].t \in UpperType /\ v[i].n = x
  <2> SUFFICES ASSUME NEW x \in Int, first < x, x <= last + k
               PROVE  \E i \in 1 .. Len(v) : v[i].t \in UpperType /\ v[i].n = x
    OBVIOUS
  <2>1. CASE x <= last
    <3>1. PICK i \in 1 .. Len(w) : w[i].t \in UpperType /\ w[i].n = x BY <2>1 DEF Stream
    <3> QED BY <3>1, <1>1
  <2>2. CASE x > last
    <3>1. PICK i \in Len(w) + 1 .. Len(v) : i - Len(w) = x - last
      <4>1. /\ Len(w) + (x - last) \in Len(w) + 1 .. Len(v)
            /\ (Len(w) + (x - last)) - Len(w) = x - last
        BY <2>2, <1>1
      <4> QED BY <4>1
    <3>2. v[i].t \in UpperType /\ v[i].n = last + (i - Len(w)) OBVIOUS
    <3>3. v[i].n = x /\ i \in 1 .. Len(v) BY <3>1, <3>2, <1>1
    <3> QED BY <3>2, <3>3
  <2> QED BY <2>1, <2>2
<1>14. a <= b /\ first <= last + k BY DEF Stream
<1> QED BY <1>6, <1>7, <1>8, <1>9, <1>10, <1>11, <1>12, <1>13, <1>14 DEF Stream

(* One packet of the upper layers is appended. *)
LEMMA AppendUpper ==
  ASSUME NEW w, NEW server \in BOOLEAN, NEW a \in Int, NEW b \in Int,
         NEW first \in Int, NEW last \in Int, NEW m,
         Stream(w, server, a, b, first, last), Sendable(m, server),
         m.t \in UpperType, Number(m) = b, m.n = last + 1
  PROVE  Stream(Append(w, m), server, a, b, first, last + 1)
<1> DEFINE v == Append(w, m)
<1>1. m \in Packet /\ w \in Seq(Packet) BY DEF Sendable, Stream
<1>2. /\ v \in Seq(Packet) /\ Len(v) = Len(w) + 1 /\ Len(w) \in Nat
      /\ v[Len(v)] = m /\ \A i \in 1 .. Len(w) : v[i] = w[i]
  BY <1>1
<1> HIDE DEF v
<1>3. \A i \in Len(w) + 1 .. Len(v) :
            /\ Sendable(v[i], server) /\ v[i].t \in UpperType
            /\ Number(v[i]) = b /\ v[i].n = last + (i - Len(w))
  <2> SUFFICES ASSUME NEW i \in Len(w) + 1 .. Len(v) 
               PROVE  /\ Sendable(v[i], server) /\ v[i].t \in UpperType
                      /\ Number(v[i]) = b /\ v[i].n = last + (i - Len(w))
    OBVIOUS
  <2>1. i = Len(v) /\ i - Len(w) = 1 BY <1>2
  <2> QED BY <2>1, <1>2
<1>4. Stream(v, server, a, b, first, last + 1) BY <1>2, <1>3, Extend
<1> QED BY <1>4 DEF v

(* The first packet of the upper layers on a wire is the next one. *)
LEMMA NextUpper ==
  ASSUME NEW w, NEW server \in BOOLEAN, NEW a \in Int, NEW b \in Int,
         NEW first \in Int, NEW last \in Int,
         Stream(w, server, a, b, first, last), w # <<>>, Head(w).t \in UpperType
  PROVE  Head(w).n = first + 1
<1>1. w \in Seq(Packet) BY DEF Stream
<1>2. Len(w) \in Nat /\ 1 \in 1 .. Len(w) /\ Head(w) = w[1] BY <1>1
<1>3. \A i \in 1 .. Len(w) : w[i].n \in Nat BY <1>1, NumberType
<1>4. first < w[1].n /\ w[1].n <= last BY <1>2 DEF Stream
<1>5. PICK i \in 1 .. Len(w) : w[i].t \in UpperType /\ w[i].n = first + 1
  <2>1. \A k \in Int : first < k /\ k <= last =>
          \E i \in 1 .. Len(w) : w[i].t \in UpperType /\ w[i].n = k
    BY DEF Stream
  <2>2. first + 1 \in Int /\ first < first + 1 /\ first + 1 <= last BY <1>2, <1>3, <1>4
  <2> QED BY <2>1, <2>2
<1>6. CASE i = 1 BY <1>2, <1>5, <1>6
<1>7. CASE i # 1
  <2>1. w[1].n < w[i].n BY <1>2, <1>5, <1>7 DEF Stream
  <2> QED BY <1>2, <1>3, <1>4, <1>5, <2>1
<1> QED BY <1>6, <1>7

(* The reader takes a packet: of the key exchange, the next one; of the    *)
(* upper layers, the next one, encrypted with the reader's key.            *)
LEMMA Take ==
  ASSUME NEW w, NEW server \in BOOLEAN, NEW a \in Int, NEW b \in Int,
         NEW first \in Int, NEW last \in Int,
         Stream(w, server, a, b, first, last), w # <<>>
  PROVE  LET m == Head(w) IN
         /\ Sendable(m, server) /\ Tail(w) \in Seq(Packet)
         /\ m.t \in KexType =>
              Number(m) = a + 1 /\ Stream(Tail(w), server, a + 1, b, first, last)
         /\ m.t \in UpperType =>
              /\ Number(m) <= a /\ a <= Number(m) + 2 /\ m.n = first + 1
              /\ Stream(Tail(w), server, a, b, first + 1, last)
<1> DEFINE m == Head(w)
           v == Tail(w)
<1>1. w \in Seq(Packet) BY DEF Stream
<1>2. /\ v \in Seq(Packet) /\ Len(w) \in Nat /\ Len(w) >= 1 /\ Len(v) = Len(w) - 1
      /\ m = w[1] /\ \A i \in 1 .. Len(v) : v[i] = w[i + 1]
  BY <1>1
<1> HIDE DEF m, v
<1>3. \A i \in 1 .. Len(w) : w[i] \in Packet /\ Number(w[i]) \in Nat /\ w[i].n \in Nat
  BY <1>1, NumberType
<1>4. Sendable(m, server) /\ m \in Packet /\ Number(m) \in Nat /\ m.n \in Nat
  BY <1>2, <1>3 DEF Stream
<1>5. \A i \in 1 .. Len(w) : i = 1 \/ (i - 1 \in 1 .. Len(v) /\ w[i] = v[i - 1]) BY <1>2
<1>6. \A i \in 1 .. Len(v) : i + 1 \in 1 .. Len(w) /\ i + 1 > 1 /\ v[i] = w[i + 1] BY <1>2
<1>7. 1 \in 1 .. Len(w) BY <1>2
<1>8. \A i \in 1 .. Len(v) : Sendable(v[i], server) /\ Number(v[i]) <= b
  BY <1>6 DEF Stream
<1>9. \A i, j \in 1 .. Len(v) : i < j => Number(v[i]) <= Number(v[j])
  <2> SUFFICES ASSUME NEW i \in 1 .. Len(v), NEW j \in 1 .. Len(v), i < j
               PROVE  Number(v[i]) <= Number(v[j])
    OBVIOUS
  <2>1. i + 1 < j + 1 BY <1>2
  <2> QED BY <2>1, <1>6 DEF Stream
<1>10. \A i, j \in 1 .. Len(v) : i < j /\ v[j].t \in KexType => Number(v[i]) < Number(v[j])
  <2> SUFFICES ASSUME NEW i \in 1 .. Len(v), NEW j \in 1 .. Len(v), i < j, v[j].t \in KexType
               PROVE  Number(v[i]) < Number(v[j])
    OBVIOUS
  <2>1. i + 1 < j + 1 BY <1>2
  <2> QED BY <2>1, <1>6 DEF Stream
<1>11. \A i, j \in 1 .. Len(v) :
         i < j /\ v[i].t \in UpperType /\ v[j].t \in UpperType => v[i].n < v[j].n
  <2> SUFFICES ASSUME NEW i \in 1 .. Len(v), NEW j \in 1 .. Len(v), i < j,
                      v[i].t \in UpperType, v[j].t \in UpperType
               PROVE  v[i].n < v[j].n
    OBVIOUS
  <2>1. i + 1 < j + 1 BY <1>2
  <2> QED BY <2>1, <1>6 DEF Stream
<1>12. CASE m.t \in KexType
  <2>1. Number(m) = a + 1
    <3>1. a < Number(m) /\ Number(m) <= b BY <1>2, <1>7, <1>12 DEF Stream
    <3>2. PICK i \in 1 .. Len(w) : w[i].t \in KexType /\ Number(w[i]) = a + 1
      BY <3>1, <1>4 DEF Stream
    <3>3. CASE i = 1 BY <3>2, <3>3, <1>2
    <3>4. CASE i # 1
      <4>1. 1 < i BY <3>4
      <4>2. Number(m) < a + 1 BY <4>1, <3>2, <1>2, <1>7 DEF Stream
      <4> QED BY <4>2, <3>1, <1>4
    <3> QED BY <3>3, <3>4
  <2>2. \A i \in 1 .. Len(v) : v[i].t \in KexType => a + 1 < Number(v[i])
    <3> SUFFICES ASSUME NEW i \in 1 .. Len(v), v[i].t \in KexType PROVE a + 1 < Number(v[i])
      OBVIOUS
    <3>1. Number(w[1]) < Number(w[i + 1]) BY <1>6, <1>7 DEF Stream
    <3> QED BY <3>1, <2>1, <1>2, <1>6
  <2>3. \A k \in Int : a + 1 < k /\ k <= b =>
          \E i \in 1 .. Len(v) : v[i].t \in KexType /\ Number(v[i]) = k
    <3> SUFFICES ASSUME NEW k \in Int, a + 1 < k, k <= b
                 PROVE  \E i \in 1 .. Len(v) : v[i].t \in KexType /\ Number(v[i]) = k
      OBVIOUS
    <3>1. PICK i \in 1 .. Len(w) : w[i].t \in KexType /\ Number(w[i]) = k BY DEF Stream
    <3>2. i # 1 BY <3>1, <2>1, <1>2
    <3> QED BY <3>1, <3>2, <1>5
  <2>4. \A i \in 1 .. Len(v) : v[i].t \in UpperType =>
         a + 1 <= Number(v[i]) + 2 /\ first < v[i].n /\ v[i].n <= last
    <3> SUFFICES ASSUME NEW i \in 1 .. Len(v), v[i].t \in UpperType
                 PROVE  a + 1 <= Number(v[i]) + 2 /\ first < v[i].n /\ v[i].n <= last
      OBVIOUS
    <3>1. Number(w[1]) <= Number(w[i + 1]) BY <1>6, <1>7 DEF Stream
    <3>2. first < w[i + 1].n /\ w[i + 1].n <= last BY <1>6 DEF Stream
    <3> QED BY <3>1, <3>2, <2>1, <1>2, <1>3, <1>6
  <2>5. \A k \in Int : first < k /\ k <= last =>
          \E i \in 1 .. Len(v) : v[i].t \in UpperType /\ v[i].n = k
    <3> SUFFICES ASSUME NEW k \in Int, first < k, k <= last
                 PROVE  \E i \in 1 .. Len(v) : v[i].t \in UpperType /\ v[i].n = k
      OBVIOUS
    <3>1. PICK i \in 1 .. Len(w) : w[i].t \in UpperType /\ w[i].n = k BY DEF Stream
    <3>2. i # 1 BY <3>1, <1>2, <1>4, <1>12, NumberType
    <3> QED BY <3>1, <3>2, <1>5
  <2>6. a + 1 <= b /\ first <= last BY <2>1, <1>2, <1>7 DEF Stream
  <2>7. Stream(v, server, a + 1, b, first, last)
    BY <1>2, <1>8, <1>9, <1>10, <1>11, <2>2, <2>3, <2>4, <2>5, <2>6 DEF Stream
  <2> QED BY <1>2, <1>4, <1>12, <2>1, <2>7, NumberType DEF m, v
<1>13. CASE m.t \in UpperType
  <2>1. /\ a <= Number(m) + 2 /\ Number(m) <= b /\ first < m.n /\ m.n <= last
    BY <1>2, <1>7, <1>13 DEF Stream
  <2>2. Number(m) <= a
    <3> SUFFICES ASSUME a < Number(m) PROVE FALSE BY <1>4
    <3>1. PICK i \in 1 .. Len(w) : w[i].t \in KexType /\ Number(w[i]) = Number(m)
      BY <2>1, <1>4 DEF Stream
    <3>2. i # 1 BY <3>1, <1>2, <1>4, <1>13, NumberType
    <3>3. 1 < i BY <3>2
    <3>4. Number(w[1]) < Number(w[i]) BY <3>1, <3>3, <1>7 DEF Stream
    <3> QED BY <3>1, <3>4, <1>2, <1>4
  <2>3. m.n = first + 1 BY <1>13, NextUpper DEF m
  <2>4. \A i \in 1 .. Len(v) : v[i].t \in KexType => a < Number(v[i]) BY <1>6 DEF Stream
  <2>5. \A k \in Int : a < k /\ k <= b =>
          \E i \in 1 .. Len(v) : v[i].t \in KexType /\ Number(v[i]) = k
    <3> SUFFICES ASSUME NEW k \in Int, a < k, k <= b
                 PROVE  \E i \in 1 .. Len(v) : v[i].t \in KexType /\ Number(v[i]) = k
      OBVIOUS
    <3>1. PICK i \in 1 .. Len(w) : w[i].t \in KexType /\ Number(w[i]) = k BY DEF Stream
    <3>2. i # 1 BY <3>1, <1>2, <1>4, <1>13, NumberType
    <3> QED BY <3>1, <3>2, <1>5
  <2>6. \A i \in 1 .. Len(v) : v[i].t \in UpperType =>
         a <= Number(v[i]) + 2 /\ first + 1 < v[i].n /\ v[i].n <= last
    <3> SUFFICES ASSUME NEW i \in 1 .. Len(v), v[i].t \in UpperType
                 PROVE  a <= Number(v[i]) + 2 /\ first + 1 < v[i].n /\ v[i].n <= last
      OBVIOUS
    <3>1. a <= Number(w[i + 1]) + 2 /\ w[i + 1].n <= last BY <1>6 DEF Stream
    <3>2. w[1].n < w[i + 1].n BY <1>2, <1>6, <1>7, <1>13 DEF Stream
    <3> QED BY <3>1, <3>2, <2>3, <1>2, <1>6
  <2>7. \A k \in Int : first + 1 < k /\ k <= last =>
          \E i \in 1 .. Len(v) : v[i].t \in UpperType /\ v[i].n = k
    <3> SUFFICES ASSUME NEW k \in Int, first + 1 < k, k <= last
                 PROVE  \E i \in 1 .. Len(v) : v[i].t \in UpperType /\ v[i].n = k
      OBVIOUS
    <3>1. PICK i \in 1 .. Len(w) : w[i].t \in UpperType /\ w[i].n = k BY DEF Stream
    <3>2. i # 1 BY <3>1, <2>3, <1>2
    <3> QED BY <3>1, <3>2, <1>5
  <2>8. a <= b /\ first + 1 <= last BY <2>1, <2>3 DEF Stream
  <2>9. Stream(v, server, a, b, first + 1, last)
    BY <1>2, <1>8, <1>9, <1>10, <1>11, <2>4, <2>5, <2>6, <2>7, <2>8 DEF Stream
  <2>10. m.t \notin KexType BY <1>4, <1>13, NumberType
  <2> QED BY <1>2, <1>4, <1>13, <2>1, <2>2, <2>3, <2>9, <2>10 DEF m, v
<1> QED BY <1>4, <1>12, <1>13, NumberType
-----------------------------------------------------------------------------
(* The functions of the packet layer, one end at a time. *)

LEMMA Fields ==
  ASSUME NEW e \in End
  PROVE  /\ e.server \in BOOLEAN /\ e.phase \in Phase /\ e.rekeying \in BOOLEAN
         /\ e.after_authentication \in BOOLEAN /\ e.outgoing \in Seq(Packet)
         /\ e.done \in BOOLEAN /\ e.init_sent \in BOOLEAN /\ e.initial \in BOOLEAN
         /\ e.my \in Nat /\ e.peer \in Int /\ e.newkeys \in [in : Key, out : Key]
         /\ e.keys \in [in : Key, out : Key] /\ e.keys.out \in Key /\ e.keys.in \in Key
         /\ e.keys.out.c \in Nat /\ e.keys.in.c \in Nat
         /\ e.sblocks \in Nat /\ e.rblocks \in Nat
         /\ e.accept \in SUBSET (KexType \cup {"EXT_INFO"}) /\ e.due \in BOOLEAN
         /\ e.sent \in Nat /\ e.rcvd \in Nat /\ e.failed \in BOOLEAN /\ e.wire \in Seq(Packet)
         /\ Len(e.outgoing) \in Nat /\ Len(e.wire) \in Nat
         /\ KexSent(e) \in Nat /\ KexTaken(e) \in Nat
<1>1. /\ e.server \in BOOLEAN /\ e.phase \in Phase /\ e.rekeying \in BOOLEAN
      /\ e.after_authentication \in BOOLEAN /\ e.outgoing \in Seq(Packet)
      /\ e.done \in BOOLEAN /\ e.init_sent \in BOOLEAN /\ e.initial \in BOOLEAN
      /\ e.my \in Nat /\ e.peer \in Int /\ e.newkeys \in [in : Key, out : Key]
      /\ e.keys \in [in : Key, out : Key]
      /\ e.sblocks \in Nat /\ e.rblocks \in Nat
      /\ e.accept \in SUBSET (KexType \cup {"EXT_INFO"}) /\ e.due \in BOOLEAN
      /\ e.sent \in Nat /\ e.rcvd \in Nat /\ e.failed \in BOOLEAN /\ e.wire \in Seq(Packet)
  BY DEF End
<1>2. e.keys.out \in Key /\ e.keys.in \in Key BY <1>1
<1>3. e.keys.out.c \in Nat /\ e.keys.in.c \in Nat BY <1>2 DEF Key
<1>4. KexSent(e) \in Nat /\ KexTaken(e) \in Nat BY <1>3 DEF KexSent, KexTaken
<1> QED BY <1>1, <1>2, <1>3, <1>4

LEMMA PairType == \A j \in Nat : Pair(j) \in Key /\ Pair(j).c = j /\ Pair(j).s = j
BY DEF Pair, Key

(* What a step of an end keeps for the one that reads its wire. *)
Wrote(e, r) ==
  /\ r.server = e.server /\ Successes(r.wire) = Successes(e.wire)
  /\ \A a, first, last \in Int :
       Stream(e.wire, e.server, a, KexSent(e), first, last) =>
       Stream(r.wire, r.server, a, KexSent(r), first, last)

LEMMA WroteOn ==
  ASSUME NEW e, NEW r, NEW s, Wrote(e, r), Wrote(r, s) PROVE Wrote(e, s)
BY DEF Wrote

LEMMA WroteNothing ==
  ASSUME NEW e, NEW r, r.server = e.server, r.wire = e.wire, KexSent(r) = KexSent(e)
  PROVE  Wrote(e, r)
BY DEF Wrote

LEMMA SuccessesAppend ==
  ASSUME NEW w \in Seq(Packet), NEW m \in Packet
  PROVE  Successes(Append(w, m)) =
           IF m.t = "SUCCESS" THEN Successes(w) \cup {Len(w) + 1} ELSE Successes(w)
<1>1. /\ Len(Append(w, m)) = Len(w) + 1 /\ Len(w) \in Nat
      /\ Append(w, m)[Len(w) + 1] = m /\ \A i \in 1 .. Len(w) : Append(w, m)[i] = w[i]
  OBVIOUS
<1>2. \A i \in 1 .. Len(w) + 1 : i \in 1 .. Len(w) \/ i = Len(w) + 1 BY <1>1
<1> QED BY <1>1, <1>2 DEF Successes

(* What the functions of the key exchange leave alone. *)
Same(e, r) ==
  /\ r.server = e.server /\ r.phase = e.phase /\ r.rcvd = e.rcvd /\ r.failed = e.failed
  /\ r.after_authentication = e.after_authentication
Stays(e, r) ==
  /\ r.done = e.done /\ r.rekeying = e.rekeying /\ r.init_sent = e.init_sent
  /\ r.initial = e.initial /\ r.my = e.my /\ r.peer = e.peer
  /\ r.keys = e.keys /\ r.newkeys = e.newkeys

(* A message of the key exchange other than NEWKEYS. *)
LEMMA SendKex ==
  ASSUME NEW e \in End, NEW t \in {"KEXINIT", "KEX_INIT", "KEX_REPLY"}, NEW n \in Nat
  PROVE  LET r == ssh_packet_send2_wrapped(e, t, n)
             m == [t |-> t, n |-> n, key |-> e.keys.out]
         IN  /\ r \in End /\ Same(e, r) /\ Stays(e, r)
             /\ r.accept = e.accept /\ r.sent = e.sent /\ r.outgoing = e.outgoing
             /\ m \in Packet /\ r.wire = Append(e.wire, m)
<1> DEFINE m == [t |-> t, n |-> n, key |-> e.keys.out]
           w == Append(e.wire, m)
           r == [e EXCEPT !.wire = w, !.sblocks = e.sblocks + 1]
<1>1. ssh_packet_send2_wrapped(e, t, n) = r BY DEF ssh_packet_send2_wrapped
<1>2. m \in Packet BY Fields DEF Packet, KexType
<1>3. w \in Seq(Packet) BY <1>2, Fields
<1>4. e.sblocks + 1 \in Nat BY Fields
<1> HIDE DEF m, w
<1>5. r \in End BY <1>3, <1>4, Zenon DEF End
<1>6. /\ Same(e, r) /\ Stays(e, r)
      /\ r.accept = e.accept /\ r.sent = e.sent /\ r.outgoing = e.outgoing /\ r.wire = w
  BY DEF End, Same, Stays
<1> QED BY <1>1, <1>2, <1>5, <1>6 DEF m, w

NoKeys == [in |-> NoKey, out |-> NoKey]

(* KEXINIT, sent by an end that has none in flight. *)
LEMMA KexinitFields ==
  ASSUME NEW e \in End, ~e.init_sent
  PROVE  LET r == kex_send_kexinit(e)
             m == [t |-> "KEXINIT", n |-> e.my + 1, key |-> e.keys.out]
         IN  /\ r \in End /\ Same(e, r)
             /\ r.accept = e.accept /\ r.sent = e.sent /\ r.outgoing = e.outgoing
             /\ m \in Packet /\ r.wire = Append(e.wire, m)
             /\ r.my = e.my + 1 /\ r.peer = e.peer /\ r.keys = e.keys
             /\ r.rekeying /\ ~r.done /\ r.init_sent
             /\ r.newkeys = e.newkeys /\ r.initial = e.initial
<1> DEFINE k == [e EXCEPT !.done = FALSE, !.my = e.my + 1, !.rekeying = TRUE]
           s == ssh_packet_send2_wrapped(k, "KEXINIT", e.my + 1)
           r == [s EXCEPT !.init_sent = TRUE]
           m == [t |-> "KEXINIT", n |-> e.my + 1, key |-> e.keys.out]
<1>1. k \in End
  <2>1. e.my + 1 \in Nat BY Fields
  <2> QED BY <2>1, Zenon DEF End
<1>2. /\ Same(e, k) /\ k.done = FALSE /\ k.rekeying = TRUE /\ k.my = e.my + 1 /\ k.init_sent = e.init_sent
      /\ k.initial = e.initial /\ k.peer = e.peer /\ k.keys = e.keys /\ k.newkeys = e.newkeys
      /\ k.accept = e.accept /\ k.sent = e.sent /\ k.outgoing = e.outgoing /\ k.wire = e.wire
  BY DEF End, Same
<1>3. kex_send_kexinit(e) = r BY <1>2 DEF kex_send_kexinit
<1> HIDE DEF k
<1>4. /\ s \in End /\ Same(k, s) /\ Stays(k, s)
      /\ s.accept = k.accept /\ s.sent = k.sent /\ s.outgoing = k.outgoing
      /\ m \in Packet /\ s.wire = Append(k.wire, m)
  <2>1. e.my + 1 \in Nat /\ k.keys.out = e.keys.out BY <1>2, Fields
  <2>2. "KEXINIT" \in {"KEXINIT", "KEX_INIT", "KEX_REPLY"} OBVIOUS
  <2> DEFINE x == [t |-> "KEXINIT", n |-> e.my + 1, key |-> k.keys.out]
  <2>3. /\ s \in End /\ Same(k, s) /\ Stays(k, s)
        /\ s.accept = k.accept /\ s.sent = k.sent /\ s.outgoing = k.outgoing
        /\ x \in Packet /\ s.wire = Append(k.wire, x)
    BY <1>1, <2>1, <2>2, SendKex, Zenon
  <2> QED BY <2>1, <2>3
<1> HIDE DEF s
<1>5. r \in End BY <1>4, Zenon DEF End
<1>6. /\ Same(s, r) /\ r.init_sent /\ r.done = s.done /\ r.my = s.my /\ r.rekeying = s.rekeying
      /\ r.initial = s.initial /\ r.peer = s.peer /\ r.keys = s.keys /\ r.newkeys = s.newkeys
      /\ r.accept = s.accept /\ r.sent = s.sent /\ r.outgoing = s.outgoing /\ r.wire = s.wire
  BY <1>4 DEF End, Same
<1> HIDE DEF r
<1> QED BY <1>2, <1>3, <1>4, <1>5, <1>6 DEF Same, Stays

(* What the stream becomes with it, and with the client's answer. *)
LEMMA StreamKex ==
  ASSUME NEW w, NEW server \in BOOLEAN, NEW a \in Int, NEW j \in Nat, NEW first \in Int,
         NEW last \in Int, NEW t \in {"KEXINIT", "KEX_INIT", "KEX_REPLY", "NEWKEYS"}, NEW n \in Nat,
         t = "KEXINIT" => n = j + 1, t = "KEX_INIT" => ~server, t = "KEX_REPLY" => server,
         Stream(w, server, a, 3 * j + Step[t] - 1, first, last)
  PROVE  /\ Stream(Append(w, [t |-> t, n |-> n, key |-> Pair(j)]), server, a, 3 * j + Step[t],
                   first, last)
         /\ Successes(Append(w, [t |-> t, n |-> n, key |-> Pair(j)])) = Successes(w)
<1> DEFINE m == [t |-> t, n |-> n, key |-> Pair(j)]
           b == 3 * j + Step[t] - 1
<1>1. m \in Packet /\ m.t = t /\ m.n = n /\ m.key = Pair(j) BY PairType DEF Packet, KexType
<1>2. t \in KexType /\ t \notin UpperType BY DEF KexType, UpperType
<1> HIDE DEF m
<1>3. Step[t] \in 1 .. 3 BY <1>2, StepValue
<1>4. b \in Int /\ b + 1 = 3 * j + Step[t] BY <1>3
<1>5. Number(m) = 3 * j + Step[t] BY <1>1, PairType DEF Number
<1>6. Sendable(m, server) BY <1>1, <1>2, PairType DEF Sendable, UpperType
<1>7. Stream(w, server, a, b, first, last) OBVIOUS
<1> HIDE DEF b
<1>8. Stream(Append(w, m), server, a, b + 1, first, last)
  BY <1>1, <1>2, <1>4, <1>5, <1>6, <1>7, AppendKex
<1>9. w \in Seq(Packet) BY <1>7 DEF Stream
<1>10. Successes(Append(w, m)) = Successes(w) BY <1>1, <1>9, SuccessesAppend
<1> QED BY <1>4, <1>8, <1>10 DEF m

LEMMA Kexinit ==
  ASSUME NEW e \in End, ~e.init_sent, e.peer = 0, ~e.rekeying, e.newkeys = NoKeys,
         e.keys = [in |-> Pair(e.my), out |-> Pair(e.my)], e.initial = (e.my = 0)
  PROVE  LET r == kex_send_kexinit(e)
         IN  /\ r \in End /\ Begun(r) /\ r.my = e.my + 1 /\ Same(e, r)
             /\ r.accept = e.accept /\ r.sent = e.sent /\ r.outgoing = e.outgoing
             /\ Wrote(e, r) /\ KexTaken(r) = KexTaken(e)
<1> DEFINE r == kex_send_kexinit(e)
           m == [t |-> "KEXINIT", n |-> e.my + 1, key |-> Pair(e.my)]
<1>1. /\ r \in End /\ Same(e, r)
      /\ r.accept = e.accept /\ r.sent = e.sent /\ r.outgoing = e.outgoing
      /\ r.wire = Append(e.wire, m) /\ r.my = e.my + 1 /\ r.peer = 0
      /\ r.keys = [in |-> Pair(e.my), out |-> Pair(e.my)]
      /\ r.rekeying /\ ~r.done /\ r.init_sent /\ r.newkeys = NoKeys /\ r.initial = (e.my = 0)
  <2>1. e.keys.out = Pair(e.my) OBVIOUS
  <2> QED BY <2>1, KexinitFields
<1> HIDE DEF r
<1>2. Begun(r)
  <2>1. e.my \in Nat /\ r.my = e.my + 1 BY <1>1, Fields
  <2>2. r.my - 1 = e.my /\ r.my >= 1 /\ (e.my = 0 <=> r.my = 1) BY <2>1
  <2> QED BY <1>1, <2>2 DEF Begun, NoKeys
<1>3. KexSent(e) = 3 * e.my /\ KexSent(r) = 3 * e.my + 1 /\ KexTaken(r) = KexTaken(e)
  BY <1>1, PairType, Fields DEF KexSent, KexTaken
<1>4. Wrote(e, r)
  <2>1. Step["KEXINIT"] = 1 /\ 3 * e.my + 1 - 1 = 3 * e.my BY StepValue, Fields
  <2>2. ASSUME NEW a \in Int, NEW first \in Int, NEW last \in Int,
               Stream(e.wire, e.server, a, KexSent(e), first, last)
        PROVE  Stream(r.wire, r.server, a, KexSent(r), first, last)
    <3>1. e.my + 1 \in Nat BY Fields
    <3>2. Stream(e.wire, e.server, a, 3 * e.my + Step["KEXINIT"] - 1, first, last)
      BY <1>3, <2>1, <2>2
    <3>3. e.my \in Nat /\ e.server \in BOOLEAN BY Fields
    <3>4. Stream(Append(e.wire, m), e.server, a, 3 * e.my + Step["KEXINIT"], first, last)
      BY <3>1, <3>2, <3>3, StreamKex
    <3> QED BY <3>4, <1>1, <1>3, <2>1 DEF Same
  <2>3. Successes(r.wire) = Successes(e.wire)
    <3>1. m \in Packet /\ m.t # "SUCCESS" BY PairType, Fields DEF Packet, KexType
    <3> QED BY <3>1, <1>1, SuccessesAppend, Fields
  <2> QED BY <1>1, <2>2, <2>3 DEF Wrote, Same
<1> QED BY <1>1, <1>2, <1>3, <1>4 DEF r

LEMMA IdleFacts ==
  ASSUME NEW e \in End, Idle(e)
  PROVE  /\ ~e.init_sent /\ e.peer = 0 /\ ~e.rekeying /\ e.newkeys = NoKeys
         /\ e.keys = [in |-> Pair(e.my), out |-> Pair(e.my)] /\ e.initial = (e.my = 0)
         /\ e.done /\ e.my >= 1
BY Fields DEF Idle, NoKeys

(* A rekey starts only when no exchange is going on. *)
LEMMA Rekex ==
  ASSUME NEW e \in End, Idle(e)
  PROVE  LET r == kex_start_rekex(e)
         IN  /\ r \in End /\ Begun(r) /\ r.my = e.my + 1 /\ Same(e, r)
             /\ r.accept = e.accept /\ r.sent = e.sent /\ r.outgoing = e.outgoing
             /\ Wrote(e, r) /\ KexTaken(r) = KexTaken(e)
<1> DEFINE d == [e EXCEPT !.done = FALSE]
           r == kex_send_kexinit(d)
<1>1. kex_start_rekex(e) = r BY IdleFacts DEF kex_start_rekex
<1>2. d \in End BY Zenon DEF End
<1>3. /\ Same(e, d) /\ d.init_sent = e.init_sent /\ d.my = e.my /\ d.rekeying = e.rekeying
      /\ d.initial = e.initial /\ d.peer = e.peer /\ d.keys = e.keys /\ d.newkeys = e.newkeys
      /\ d.accept = e.accept /\ d.sent = e.sent /\ d.outgoing = e.outgoing /\ d.wire = e.wire
  BY DEF End, Same
<1> HIDE DEF d
<1>4. /\ r \in End /\ Begun(r) /\ r.my = d.my + 1 /\ Same(d, r)
      /\ r.accept = d.accept /\ r.sent = d.sent /\ r.outgoing = d.outgoing
      /\ Wrote(d, r) /\ KexTaken(r) = KexTaken(d)
  BY <1>2, <1>3, IdleFacts, Kexinit
<1>5. KexSent(d) = KexSent(e) /\ KexTaken(d) = KexTaken(e)
  BY <1>3 DEF KexSent, KexTaken, Same
<1>6. Wrote(e, d) BY <1>3, <1>5, WroteNothing DEF Same
<1> HIDE DEF r
<1> QED BY <1>1, <1>3, <1>4, <1>5, <1>6, WroteOn DEF Same

LEMMA NeedIdle ==
  ASSUME NEW e \in End, NEW len, ssh_packet_need_rekeying(e, len),
         Idle(e) \/ Begun(e) \/ Met(e) \/ Sealed(e)
  PROVE  Idle(e) /\ e.after_authentication
BY DEF ssh_packet_need_rekeying, ssh_packet_is_rekeying, Begun, Met, Sealed

LEMMA StaysStage ==
  ASSUME NEW e, NEW r, Stays(e, r)
  PROVE  /\ Idle(r) <=> Idle(e)
         /\ Begun(r) <=> Begun(e)
         /\ Met(r) <=> Met(e)
         /\ Sealed(r) <=> Sealed(e)
         /\ r.my = e.my
         /\ r.server = e.server => KexSent(r) = KexSent(e) /\ KexTaken(r) = KexTaken(e)
BY DEF Stays, Idle, Begun, Met, Sealed, KexSent, KexTaken

Staged(e) == Idle(e) \/ Begun(e) \/ Met(e) \/ Sealed(e)

(* A packet is decrypted; that may start a rekey. *)
LEMMA Read ==
  ASSUME NEW e \in End, NEW m \in Packet, m.key = e.keys.in, Staged(e)
  PROVE  LET r == ssh_packet_read_poll2(e, m)
         IN  /\ r \in End /\ r.server = e.server /\ r.phase = e.phase /\ r.rcvd = e.rcvd
             /\ r.failed = e.failed
             /\ r.after_authentication =
                  (e.after_authentication \/ (m.t = "SUCCESS" /\ ~e.server))
             /\ r.accept = e.accept /\ r.sent = e.sent /\ r.outgoing = e.outgoing
             /\ Wrote(e, r) /\ KexTaken(r) = KexTaken(e)
             /\ \/ Stays(e, r)
                \/ Idle(e) /\ Begun(r) /\ r.my = e.my + 1 /\ r.after_authentication
<1> DEFINE aa == e.after_authentication \/ (m.t = "SUCCESS" /\ ~e.server)
           d == [e EXCEPT !.rblocks = e.rblocks + 1, !.after_authentication = aa]
           r == ssh_packet_read_poll2(e, m)
<1>1. aa \in BOOLEAN /\ e.rblocks + 1 \in Nat BY Fields
<1>2. r = IF ssh_packet_need_rekeying(d, 0) THEN kex_start_rekex(d) ELSE d
  BY DEF ssh_packet_read_poll2
<1> HIDE DEF aa, r
<1>3. d \in End BY <1>1, Zenon DEF End
<1>4. /\ d.server = e.server /\ d.phase = e.phase /\ d.rcvd = e.rcvd /\ d.failed = e.failed
      /\ d.after_authentication = aa /\ Stays(e, d) /\ d.wire = e.wire
      /\ d.accept = e.accept /\ d.sent = e.sent /\ d.outgoing = e.outgoing
  BY DEF End, Stays
<1> HIDE DEF d
<1>5. Wrote(e, d) /\ KexTaken(d) = KexTaken(e) BY <1>4, StaysStage, WroteNothing
<1>6. CASE ~ssh_packet_need_rekeying(d, 0)
  <2>1. r = d BY <1>2, <1>6
  <2> QED BY <1>3, <1>4, <1>5, <2>1 DEF aa, r
<1>7. CASE ssh_packet_need_rekeying(d, 0)
  <2>1. Staged(d) BY <1>4, StaysStage DEF Staged
  <2>2. Idle(d) /\ d.after_authentication BY <1>3, <1>7, <2>1, NeedIdle DEF Staged
  <2>3. Idle(e) /\ d.my = e.my BY <1>4, <2>2, StaysStage
  <2>4. r = kex_start_rekex(d) BY <1>2, <1>7
  <2>5. /\ r \in End /\ Begun(r) /\ r.my = d.my + 1 /\ Same(d, r)
        /\ r.accept = d.accept /\ r.sent = d.sent /\ r.outgoing = d.outgoing
        /\ Wrote(d, r) /\ KexTaken(r) = KexTaken(d)
    BY <1>3, <2>2, <2>4, Rekex
  <2>6. Wrote(e, r) BY <1>5, <2>5, WroteOn
  <2> QED BY <1>4, <1>5, <2>2, <2>3, <2>5, <2>6 DEF aa, r, Same
<1> QED BY <1>6, <1>7

(* Wrote, in the form in which it is shown. *)
LEMMA WroteBy ==
  ASSUME NEW e \in End, NEW r \in End, r.server = e.server,
         Successes(r.wire) = Successes(e.wire),
         ASSUME NEW a \in Int, NEW first \in Int, NEW last \in Int,
                Stream(e.wire, e.server, a, KexSent(e), first, last)
         PROVE  Stream(r.wire, e.server, a, KexSent(r), first, last)
  PROVE  Wrote(e, r)
BY DEF Wrote

(* A message of the key exchange other than NEWKEYS, in the stream. *)
LEMMA WireKex ==
  ASSUME NEW e \in End, NEW t \in {"KEXINIT", "KEX_INIT", "KEX_REPLY"}, NEW n \in Nat,
         NEW j \in Nat, e.keys.out = Pair(j),
         t = "KEXINIT" => n = j + 1, t = "KEX_INIT" => ~e.server, t = "KEX_REPLY" => e.server,
         NEW a \in Int, NEW first \in Int, NEW last \in Int,
         Stream(e.wire, e.server, a, 3 * j + Step[t] - 1, first, last)
  PROVE  Stream(Append(e.wire, [t |-> t, n |-> n, key |-> e.keys.out]), e.server, a,
                3 * j + Step[t], first, last)
<1>1. t \in {"KEXINIT", "KEX_INIT", "KEX_REPLY", "NEWKEYS"} OBVIOUS
<1>2. e.server \in BOOLEAN BY Fields
<1>3. Stream(Append(e.wire, [t |-> t, n |-> n, key |-> Pair(j)]), e.server, a,
                3 * j + Step[t], first, last)
  BY <1>1, <1>2, StreamKex
<1> QED BY <1>3

(* KEXINIT is taken. *)
LEMMA Meet ==
  ASSUME NEW e \in End, NEW n \in Nat, e.accept = {"KEXINIT"},
         \/ Idle(e) /\ n = e.my + 1
         \/ Begun(e) /\ n = e.my
  PROVE  LET r == kex_input_kexinit(e, n)
         IN  /\ r \in End /\ Met(r) /\ r.my = n /\ Same(e, r)
             /\ r.accept = {IF e.server THEN "KEX_INIT" ELSE "KEX_REPLY"}
             /\ r.sent = e.sent /\ r.outgoing = e.outgoing
             /\ Wrote(e, r) /\ KexTaken(r) = KexTaken(e) + 1
<1> DEFINE a == [e EXCEPT !.accept = {}, !.peer = n]
           b == kex_send_kexinit(a)
           c == ssh_packet_send2_wrapped(b, "KEX_INIT", 0)
           s == [b EXCEPT !.accept = b.accept \cup {"KEX_INIT"}]
           t == [c EXCEPT !.accept = c.accept \cup {"KEX_REPLY"}]
           r == kex_input_kexinit(e, n)
<1>1. e.peer = 0 /\ e.accept \ {"KEXINIT"} = {} BY DEF Idle, Begun
<1>2. r = IF e.server THEN s ELSE t BY <1>1 DEF kex_input_kexinit
<1>3. e.my \in Nat /\ e.my >= 1 /\ n >= 1 /\ n - 1 \in Nat BY Fields DEF Idle, Begun
<1> HIDE DEF r
<1>4. a \in End
  <2>1. {} \in SUBSET (KexType \cup {"EXT_INFO"}) /\ n \in Int OBVIOUS
  <2> QED BY <2>1, Zenon DEF End
<1>5. /\ Same(e, a) /\ a.accept = {} /\ a.sent = e.sent /\ a.outgoing = e.outgoing
      /\ a.wire = e.wire /\ a.my = e.my /\ a.peer = n /\ a.keys = e.keys
      /\ a.rekeying = e.rekeying /\ a.done = e.done /\ a.init_sent = e.init_sent
      /\ a.newkeys = e.newkeys /\ a.initial = e.initial
  BY DEF End, Same
<1> HIDE DEF a
<1>6. /\ b \in End /\ Same(e, b) /\ b.accept = {} /\ b.sent = e.sent /\ b.outgoing = e.outgoing
      /\ b.my = n /\ b.peer = n /\ b.keys = [in |-> Pair(n - 1), out |-> Pair(n - 1)]
      /\ b.rekeying /\ ~b.done /\ b.init_sent /\ b.newkeys = NoKeys /\ b.initial = (n = 1)
      /\ Successes(b.wire) = Successes(e.wire)
      /\ \A x, first, last \in Int : Stream(e.wire, e.server, x, KexSent(e), first, last) =>
                                     Stream(b.wire, e.server, x, 3 * (n - 1) + 1, first, last)
  <2>1. CASE Begun(e) /\ n = e.my
    <3>1. b = a BY <1>5, <2>1 DEF kex_send_kexinit, Begun
    <3>2. KexSent(e) = 3 * (n - 1) + 1 BY <2>1, <1>3, PairType DEF Begun, KexSent
    <3> HIDE DEF b
    <3> QED BY <1>4, <1>5, <2>1, <3>1, <3>2 DEF Same, Begun, NoKeys
  <2>2. CASE Idle(e) /\ n = e.my + 1
    <3> DEFINE m == [t |-> "KEXINIT", n |-> n, key |-> a.keys.out]
    <3>1. /\ b \in End /\ Same(a, b)
          /\ b.accept = a.accept /\ b.sent = a.sent /\ b.outgoing = a.outgoing
          /\ m \in Packet /\ b.wire = Append(a.wire, m)
          /\ b.my = n /\ b.peer = a.peer /\ b.keys = a.keys
          /\ b.rekeying /\ ~b.done /\ b.init_sent
          /\ b.newkeys = a.newkeys /\ b.initial = a.initial
      <4>1. ~a.init_sent /\ n = a.my + 1 BY <1>5, <2>2 DEF Idle
      <4> QED BY <1>4, <4>1, KexinitFields
    <3> HIDE DEF b
    <3>2. n - 1 = e.my /\ n # 1 BY <2>2, <1>3
    <3>3. /\ e.keys = [in |-> Pair(n - 1), out |-> Pair(n - 1)] /\ e.newkeys = NoKeys
          /\ ~e.initial /\ e.keys.out = Pair(n - 1) /\ ~e.rekeying
      BY <2>2, <3>2 DEF Idle, NoKeys
    <3>4. KexSent(e) = 3 * (n - 1) BY <3>3, <1>3, PairType DEF KexSent
    <3>5. Step["KEXINIT"] = 1 /\ 3 * (n - 1) + 1 - 1 = 3 * (n - 1) /\ n = (n - 1) + 1
      BY StepValue
    <3>6. ASSUME NEW x \in Int, NEW first \in Int, NEW last \in Int,
                 Stream(e.wire, e.server, x, KexSent(e), first, last)
          PROVE  Stream(b.wire, e.server, x, 3 * (n - 1) + 1, first, last)
      <4>1. Stream(e.wire, e.server, x, 3 * (n - 1) + Step["KEXINIT"] - 1, first, last)
        BY <3>4, <3>5, <3>6
      <4>2. Stream(Append(e.wire, [t |-> "KEXINIT", n |-> n, key |-> e.keys.out]), e.server, x,
                   3 * (n - 1) + Step["KEXINIT"], first, last)
        BY <4>1, <3>3, <3>5, <1>3, WireKex
      <4> QED BY <4>2, <3>1, <3>5, <1>5
    <3>7. Successes(b.wire) = Successes(e.wire)
      BY <1>5, <3>1, SuccessesAppend, Fields
    <3>8. b.initial = (n = 1) BY <3>1, <3>2, <3>3, <1>5, Fields
    <3> QED BY <1>5, <3>1, <3>3, <3>6, <3>7, <3>8 DEF Same
  <2> QED BY <2>1, <2>2
<1> HIDE DEF b
<1>7. KexTaken(e) = 3 * (n - 1)
  BY <1>1, <1>3, PairType DEF KexTaken, Idle, Begun
<1>8. CASE e.server
  <2>1. s \in End
    <3>1. b.accept \cup {"KEX_INIT"} \in SUBSET (KexType \cup {"EXT_INFO"})
      BY <1>6 DEF KexType
    <3> QED BY <3>1, <1>6, Zenon DEF End
  <2>2. /\ Same(b, s) /\ s.accept = {"KEX_INIT"} /\ s.sent = b.sent /\ s.outgoing = b.outgoing
        /\ s.wire = b.wire /\ Stays(b, s)
    BY <1>6 DEF End, Same, Stays
  <2> HIDE DEF s
  <2>3. KexSent(s) = 3 * (n - 1) + 1 /\ KexTaken(s) = 3 * (n - 1) + 1
    <3>1. /\ s.keys = [in |-> Pair(n - 1), out |-> Pair(n - 1)] /\ s.peer = n /\ s.rekeying
          /\ s.server
      BY <1>6, <1>8, <2>2 DEF Same, Stays
    <3>2. s.keys.out.c = n - 1 /\ s.keys.in.c = n - 1 BY <3>1, <1>3, PairType
    <3> QED BY <3>1, <3>2, <1>3 DEF KexSent, KexTaken
  <2>4. Wrote(e, s)
    <3>1. ASSUME NEW x \in Int, NEW first \in Int, NEW last \in Int,
                 Stream(e.wire, e.server, x, KexSent(e), first, last)
          PROVE  Stream(s.wire, e.server, x, KexSent(s), first, last)
      BY <1>6, <2>2, <2>3, <3>1
    <3> QED BY <1>6, <2>1, <2>2, <3>1, WroteBy DEF Same
  <2>5. Met(s) BY <1>3, <1>6, <2>2 DEF Met, Stays, NoKeys
  <2> QED BY <1>2, <1>6, <1>7, <1>8, <2>1, <2>2, <2>3, <2>4, <2>5 DEF Same, Stays, r
<1>9. CASE ~e.server
  <2> DEFINE m == [t |-> "KEX_INIT", n |-> 0, key |-> b.keys.out]
  <2>1. /\ c \in End /\ Same(b, c) /\ Stays(b, c)
        /\ c.accept = b.accept /\ c.sent = b.sent /\ c.outgoing = b.outgoing
        /\ m \in Packet /\ c.wire = Append(b.wire, m)
    <3>1. "KEX_INIT" \in {"KEXINIT", "KEX_INIT", "KEX_REPLY"} /\ 0 \in Nat OBVIOUS
    <3> QED BY <1>6, <3>1, SendKex, Zenon
  <2> HIDE DEF c
  <2>2. t \in End
    <3>1. c.accept \cup {"KEX_REPLY"} \in SUBSET (KexType \cup {"EXT_INFO"})
      BY <1>6, <2>1 DEF KexType
    <3> QED BY <3>1, <2>1, Zenon DEF End
  <2>3. /\ Same(c, t) /\ t.accept = {"KEX_REPLY"} /\ t.sent = c.sent /\ t.outgoing = c.outgoing
        /\ t.wire = c.wire /\ Stays(c, t)
    BY <1>6, <2>1 DEF End, Same, Stays
  <2> HIDE DEF t
  <2>4. KexSent(t) = 3 * (n - 1) + 2 /\ KexTaken(t) = 3 * (n - 1) + 1
    <3>1. /\ t.keys = [in |-> Pair(n - 1), out |-> Pair(n - 1)] /\ t.peer = n /\ t.rekeying
          /\ ~t.server
      BY <1>6, <1>9, <2>1, <2>3 DEF Same, Stays
    <3>2. t.keys.out.c = n - 1 /\ t.keys.in.c = n - 1 BY <3>1, <1>3, PairType
    <3> QED BY <3>1, <3>2, <1>3 DEF KexSent, KexTaken
  <2>5. Step["KEX_INIT"] = 2 /\ 3 * (n - 1) + 2 - 1 = 3 * (n - 1) + 1 BY StepValue
  <2>6. ASSUME NEW x \in Int, NEW first \in Int, NEW last \in Int,
               Stream(e.wire, e.server, x, KexSent(e), first, last)
        PROVE  Stream(t.wire, e.server, x, KexSent(t), first, last)
    <3>1. Stream(b.wire, b.server, x, 3 * (n - 1) + Step["KEX_INIT"] - 1, first, last)
      BY <1>6, <2>5, <2>6 DEF Same
    <3>2. b.keys.out = Pair(n - 1) /\ ~b.server BY <1>6, <1>9 DEF Same
    <3> HIDE DEF m
    <3>3. Stream(Append(b.wire, m), b.server, x, 3 * (n - 1) + Step["KEX_INIT"], first, last)
      BY <1>3, <1>6, <3>1, <3>2, WireKex DEF m
    <3> QED BY <3>3, <1>6, <2>1, <2>3, <2>4, <2>5 DEF Same
  <2>7. Successes(t.wire) = Successes(e.wire) BY <1>6, <2>1, <2>3, SuccessesAppend, Fields
  <2>8. Wrote(e, t)
    <3>1. t.server = e.server BY <1>6, <2>1, <2>3 DEF Same
    <3> QED BY <2>2, <2>6, <2>7, <3>1, WroteBy
  <2>9. Met(t) BY <1>3, <1>6, <2>1, <2>3 DEF Met, Stays, NoKeys
  <2> QED BY <1>2, <1>6, <1>7, <1>9, <2>1, <2>2, <2>3, <2>4, <2>8, <2>9 DEF Same, Stays, r
<1> QED BY <1>8, <1>9

(* The queue of an end grows by one packet of data. *)
LEMMA Enqueue ==
  ASSUME NEW e \in End, QueueOK(e), NEW r \in End, r.sent = e.sent + 1, r.rekeying,
         r.outgoing = Append(e.outgoing, [t |-> "DATA", n |-> e.sent + 1, key |-> NoKey])
  PROVE  /\ QueueOK(r) /\ Len(r.outgoing) = Len(e.outgoing) + 1
         /\ r.sent - Len(r.outgoing) = e.sent - Len(e.outgoing)
<1> DEFINE m == [t |-> "DATA", n |-> e.sent + 1, key |-> NoKey]
           q == e.outgoing
<1>1. m \in Packet /\ m.t = "DATA" /\ m.n = e.sent + 1
  BY Fields DEF Packet, NoKey, Key, UpperType
<1> HIDE DEF m
<1>2. r.outgoing = Append(q, m) BY DEF m
<1>3. q \in Seq(Packet) /\ Len(q) \in Nat /\ e.sent \in Nat BY Fields
<1> HIDE DEF q
<1>4. /\ Len(r.outgoing) = Len(q) + 1 /\ r.outgoing[Len(q) + 1] = m
      /\ \A i \in 1 .. Len(q) : r.outgoing[i] = q[i]
  BY <1>1, <1>2, <1>3
<1>5. Len(q) <= e.sent /\ \A i \in 1 .. Len(q) : q[i].t = "DATA" /\ q[i].n = e.sent - Len(q) + i
  BY DEF QueueOK, q
<1>6. \A i \in 1 .. Len(r.outgoing) :
        r.outgoing[i].t = "DATA" /\ r.outgoing[i].n = r.sent - Len(r.outgoing) + i
  <2> SUFFICES ASSUME NEW i \in 1 .. Len(r.outgoing)
               PROVE  /\ r.outgoing[i].t = "DATA"
                      /\ r.outgoing[i].n = r.sent - Len(r.outgoing) + i
    OBVIOUS
  <2>1. r.sent - Len(r.outgoing) = e.sent - Len(q) BY <1>3, <1>4
  <2>2. CASE i = Len(q) + 1
    <3>1. r.outgoing[i].t = "DATA" /\ r.outgoing[i].n = e.sent + 1 BY <2>2, <1>1, <1>4
    <3>2. e.sent + 1 = e.sent - Len(q) + i BY <2>2, <1>3
    <3> QED BY <3>1, <3>2, <2>1
  <2>3. CASE i \in 1 .. Len(q)
    <3>1. r.outgoing[i].t = "DATA" /\ r.outgoing[i].n = e.sent - Len(q) + i BY <2>3, <1>4, <1>5
    <3> QED BY <3>1, <2>1
  <2> QED BY <2>2, <2>3, <1>3, <1>4
<1>7. Len(r.outgoing) <= r.sent BY <1>3, <1>4, <1>5
<1> QED BY <1>3, <1>4, <1>6, <1>7 DEF QueueOK, q

(* sshpkt_send() of a message of the upper layers, numbered by the caller. *)
Numbered(e, t) == [ssh_packet_send2(e, t, e.sent + 1) EXCEPT !.sent = @ + 1]

(* It is sent at once. *)
LEMMA SendNow ==
  ASSUME NEW e \in End, NEW t \in UpperType, QueueOK(e), ~e.rekeying,
         ~ssh_packet_need_rekeying(e, BlockSize),
         e.my >= 1, e.keys.out = Pair(e.my),
         t = "EXT_INFO" <=> (e.server /\ e.sent = 0),
         t = "SUCCESS" => e.server /\ e.my = 1
  PROVE  LET r == Numbered(e, t)
         IN  /\ r \in End /\ r.server = e.server /\ r.phase = e.phase /\ r.rcvd = e.rcvd
             /\ r.failed = e.failed /\ r.accept = e.accept /\ Stays(e, r)
             /\ r.after_authentication = (e.after_authentication \/ t = "SUCCESS")
             /\ r.sent = e.sent + 1 /\ r.outgoing = <<>>
             /\ t # "SUCCESS" => Successes(r.wire) = Successes(e.wire)
             /\ t = "SUCCESS" => Successes(r.wire) = Successes(e.wire) \cup {Len(e.wire) + 1}
             /\ \A a, first \in Int :
                  Stream(e.wire, e.server, a, KexSent(e), first, e.sent) =>
                  Stream(r.wire, e.server, a, KexSent(r), first, e.sent + 1)
<1> DEFINE m == [t |-> t, n |-> e.sent + 1, key |-> e.keys.out]
           aa == e.after_authentication \/ t = "SUCCESS"
           w == Append(e.wire, m)
           r == [e EXCEPT !.wire = w, !.sblocks = e.sblocks + 1,
                          !.after_authentication = aa, !.sent = e.sent + 1]
           x == ssh_packet_send2_wrapped(e, t, e.sent + 1)
           j == e.my
<1> j \in Nat \ {0} BY Fields
<1> HIDE DEF j
<1>1. t # "NEWKEYS" BY DEF UpperType
<1>2. /\ e.sent + 1 \in Nat /\ e.sblocks + 1 \in Nat /\ aa \in BOOLEAN /\ e.outgoing = <<>>
  BY Fields DEF QueueOK
<1>3. m \in Packet BY <1>2, Fields DEF Packet
<1>4. w \in Seq(Packet) BY <1>3, Fields
<1>5. Numbered(e, t) = r
  <2>1. ssh_packet_send2(e, t, e.sent + 1) = x BY DEF ssh_packet_send2
  <2>2. x = [e EXCEPT !.wire = w, !.sblocks = e.sblocks + 1, !.after_authentication = aa]
    <3>1. CASE t = "SUCCESS" BY <3>1 DEF ssh_packet_send2_wrapped, End
    <3>2. CASE t # "SUCCESS"
      <4>1. x = [e EXCEPT !.wire = w, !.sblocks = e.sblocks + 1]
        BY <1>1, <3>2 DEF ssh_packet_send2_wrapped
      <4>2. aa = e.after_authentication BY <3>2, Fields
      <4> QED BY <4>1, <4>2 DEF End
    <3> QED BY <3>1, <3>2
  <2>3. x.sent = e.sent BY <2>2 DEF End
  <2> QED BY <2>1, <2>2, <2>3 DEF Numbered
<1> HIDE DEF m, w, aa
<1>6. r \in End BY <1>2, <1>4, Zenon DEF End
<1>7. /\ r.server = e.server /\ r.phase = e.phase /\ r.rcvd = e.rcvd
      /\ r.failed = e.failed /\ r.accept = e.accept /\ Stays(e, r)
      /\ r.after_authentication = aa /\ r.sent = e.sent + 1
      /\ r.outgoing = e.outgoing /\ r.wire = w
  BY DEF End, Stays
<1> HIDE DEF r
<1>8. m.t = t /\ m.n = e.sent + 1 /\ m.key = e.keys.out BY DEF m
<1>9. KexSent(e) = 3 * j /\ KexSent(r) = 3 * j
  <2>1. KexSent(e) = 3 * j BY PairType DEF KexSent, j
  <2> QED BY <2>1, <1>7, StaysStage
<1>10. Sendable(m, e.server) /\ Number(m) = 3 * j
  <2>1. m.key.c = j /\ m.key.s = j BY <1>8, PairType DEF j
  <2>2. e.sent + 1 >= 1 /\ (e.sent + 1 = 1 <=> e.sent = 0) BY Fields
  <2>3. t \notin {"KEXINIT", "KEX_INIT", "KEX_REPLY"} BY DEF UpperType
  <2> QED BY <1>3, <1>8, <2>1, <2>2, <2>3, StepValue DEF Sendable, Number, j
<1>11. ASSUME NEW a \in Int, NEW first \in Int,
              Stream(e.wire, e.server, a, KexSent(e), first, e.sent)
       PROVE  Stream(r.wire, e.server, a, KexSent(r), first, e.sent + 1)
  <2>1. 3 * j \in Int /\ e.sent \in Int /\ e.server \in BOOLEAN BY Fields
  <2>2. Stream(e.wire, e.server, a, 3 * j, first, e.sent) BY <1>9, <1>11
  <2>3. Stream(w, e.server, a, 3 * j, first, e.sent + 1)
    BY <1>8, <1>10, <2>1, <2>2, AppendUpper DEF w
  <2> QED BY <1>7, <1>9, <2>3
<1>12. Successes(r.wire) = IF t = "SUCCESS" THEN Successes(e.wire) \cup {Len(e.wire) + 1}
                           ELSE Successes(e.wire)
  <2>1. e.wire \in Seq(Packet) BY Fields
  <2>2. Successes(Append(e.wire, m)) =
          IF m.t = "SUCCESS" THEN Successes(e.wire) \cup {Len(e.wire) + 1} ELSE Successes(e.wire)
    BY <1>3, <2>1, SuccessesAppend, Zenon
  <2> QED BY <2>2, <1>7, <1>8 DEF w
<1> QED BY <1>2, <1>5, <1>6, <1>7, <1>11, <1>12 DEF aa

(* It is queued, because keys are being exchanged or it starts a rekey. *)
LEMMA SendLater ==
  ASSUME NEW e \in End, QueueOK(e), Staged(e),
         e.rekeying \/ ssh_packet_need_rekeying(e, BlockSize)
  PROVE  LET r == Numbered(e, "DATA")
         IN  /\ r \in End /\ Same(e, r) /\ r.accept = e.accept /\ QueueOK(r)
             /\ \/ Stays(e, r)
                \/ Idle(e) /\ e.after_authentication /\ Begun(r) /\ r.my = e.my + 1
             /\ r.sent = e.sent + 1 /\ r.sent - Len(r.outgoing) = e.sent - Len(e.outgoing)
             /\ Wrote(e, r) /\ KexTaken(r) = KexTaken(e)
<1> DEFINE m == [t |-> "DATA", n |-> e.sent + 1, key |-> NoKey]
           o == Append(e.outgoing, m)
           q == [e EXCEPT !.outgoing = o]
           x == ssh_packet_send2(e, "DATA", e.sent + 1)
           r == Numbered(e, "DATA")
<1>1. m \in Packet BY Fields DEF Packet, NoKey, Key, UpperType
<1>2. o \in Seq(Packet) /\ Len(o) = Len(e.outgoing) + 1 BY <1>1, Fields
<1>3. x = IF ssh_packet_need_rekeying(e, BlockSize) THEN kex_start_rekex(q) ELSE q
  BY DEF ssh_packet_send2
<1> HIDE DEF o, x
<1>4. q \in End BY <1>2, Zenon DEF End
<1>5. /\ Same(e, q) /\ q.accept = e.accept /\ Stays(e, q) /\ q.sent = e.sent /\ q.outgoing = o
      /\ q.wire = e.wire
  BY DEF End, Same, Stays
<1> HIDE DEF q
<1>6. KexSent(q) = KexSent(e) /\ KexTaken(q) = KexTaken(e) BY <1>5, StaysStage DEF Same
<1>7. /\ x \in End /\ Same(q, x) /\ x.accept = q.accept /\ x.sent = q.sent
      /\ x.outgoing = q.outgoing /\ Wrote(q, x) /\ KexTaken(x) = KexTaken(q) /\ x.rekeying
      /\ \/ Stays(q, x)
         \/ Idle(q) /\ q.after_authentication /\ Begun(x) /\ x.my = q.my + 1
  <2>1. CASE ssh_packet_need_rekeying(e, BlockSize)
    <3>1. Idle(e) /\ e.after_authentication BY <2>1, NeedIdle DEF Staged
    <3>2. Idle(q) /\ q.after_authentication BY <3>1, <1>5, StaysStage DEF Same
    <3>3. x = kex_start_rekex(q) BY <2>1, <1>3
    <3>4. /\ x \in End /\ Begun(x) /\ x.my = q.my + 1 /\ Same(q, x)
          /\ x.accept = q.accept /\ x.sent = q.sent /\ x.outgoing = q.outgoing
          /\ Wrote(q, x) /\ KexTaken(x) = KexTaken(q)
      BY <1>4, <3>2, <3>3, Rekex
    <3> QED BY <3>2, <3>4 DEF Begun
  <2>2. CASE ~ssh_packet_need_rekeying(e, BlockSize)
    <3>1. x = q /\ e.rekeying BY <2>2, <1>3
    <3> QED BY <3>1, <1>4, <1>5, WroteNothing DEF Same, Stays
  <2> QED BY <2>1, <2>2
<1>8. r = [x EXCEPT !.sent = x.sent + 1] BY DEF Numbered, x
<1> HIDE DEF r
<1>9. r \in End
  <2>1. x.sent + 1 \in Nat BY <1>7, Fields
  <2> QED BY <2>1, <1>7, <1>8, Zenon DEF End
<1>10. /\ Same(x, r) /\ r.accept = x.accept /\ Stays(x, r) /\ r.sent = x.sent + 1
       /\ r.outgoing = x.outgoing /\ r.wire = x.wire
  BY <1>7, <1>8 DEF End, Same, Stays
<1>11. Same(e, r) /\ r.accept = e.accept BY <1>5, <1>7, <1>10 DEF Same
<1>12. /\ r.sent = e.sent + 1 /\ r.outgoing = o /\ r.rekeying BY <1>5, <1>7, <1>10 DEF Stays
<1>13. QueueOK(r) /\ r.sent - Len(r.outgoing) = e.sent - Len(e.outgoing)
  BY <1>9, <1>12, Enqueue DEF o
<1>14. KexSent(r) = KexSent(x) /\ KexTaken(r) = KexTaken(x) BY <1>10, StaysStage DEF Same
<1>15. KexTaken(r) = KexTaken(e) BY <1>6, <1>7, <1>14
<1>16. Wrote(e, r)
  <2>1. Wrote(e, q) BY <1>5, <1>6, WroteNothing DEF Same
  <2>2. Wrote(x, r) BY <1>10, <1>14, WroteNothing DEF Same
  <2> QED BY <2>1, <2>2, <1>7, WroteOn
<1>17. \/ Stays(e, r)
       \/ Idle(e) /\ e.after_authentication /\ Begun(r) /\ r.my = e.my + 1
  <2>1. CASE Stays(q, x) BY <2>1, <1>5, <1>10 DEF Stays
  <2>2. CASE Idle(q) /\ q.after_authentication /\ Begun(x) /\ x.my = q.my + 1
    BY <2>2, <1>5, <1>10, StaysStage DEF Same
  <2> QED BY <2>1, <2>2, <1>7
<1> QED BY <1>9, <1>11, <1>12, <1>13, <1>15, <1>16, <1>17 DEF r

(* While kex->done is not set no packet of the queue makes a rekey due:    *)
(* the loop sends the whole queue.                                         *)
LEMMA SendsAll ==
  ASSUME NEW e \in End, ~e.done
  PROVE  SendQueue(e) = QueueSent(e, Len(e.outgoing))
<1> DEFINE L == Len(e.outgoing)
           Ends(k) == k = L \/ ssh_packet_need_rekeying(QueueSent(e, k), BlockSize)
           P(k) == Ends(k) /\ \A i \in 0 .. k - 1 : ~Ends(i)
           n == CHOOSE k \in 0 .. L : P(k)
<1>1. L \in Nat BY Fields
<1>2. \A k : QueueSent(e, k).done = e.done BY DEF QueueSent, End
<1>3. \A k : Ends(k) <=> k = L
  BY <1>2 DEF ssh_packet_need_rekeying, ssh_packet_is_rekeying
<1> HIDE DEF L, Ends
<1>4. \A k \in 0 .. L : P(k) <=> k = L BY <1>1, <1>3
<1>5. n \in 0 .. L /\ P(n)
  <2>1. L \in 0 .. L /\ P(L) BY <1>1, <1>4
  <2> HIDE DEF P
  <2> QED BY <2>1
<1>6. n = L BY <1>4, <1>5
<1> HIDE DEF n
<1>7. SendQueue(e) = IF n = L THEN QueueSent(e, n) ELSE kex_start_rekex(QueueSent(e, n))
  BY DEF SendQueue, n, P, Ends, L
<1> QED BY <1>6, <1>7 DEF L

(* The queue, encrypted and written. *)
LEMMA QueueFields ==
  ASSUME NEW e \in End, QueueOK([e EXCEPT !.rekeying = TRUE])
  PROVE  LET r == QueueSent(e, Len(e.outgoing))
             L == Len(e.outgoing)
         IN  /\ r \in End /\ Same(e, r) /\ Stays(e, r) /\ r.accept = e.accept
             /\ r.sent = e.sent /\ r.outgoing = <<>>
             /\ Len(r.wire) = Len(e.wire) + L
             /\ \A i \in 1 .. Len(e.wire) : r.wire[i] = e.wire[i]
             /\ \A i \in Len(e.wire) + 1 .. Len(r.wire) :
                  /\ r.wire[i] \in Packet /\ r.wire[i].t = "DATA" /\ r.wire[i].key = e.keys.out
                  /\ r.wire[i].n = e.sent - L + (i - Len(e.wire))
<1> DEFINE L == Len(e.outgoing)
           W == Len(e.wire)
           g == [i \in 1 .. L |-> [e.outgoing[i] EXCEPT !.key = e.keys.out]]
           w == e.wire \o g
           aa == e.after_authentication \/ (e.server /\ \E i \in 1 .. L : e.outgoing[i].t = "SUCCESS")
           o == SubSeq(e.outgoing, L + 1, L)
           r == [e EXCEPT !.wire = w, !.outgoing = o, !.sblocks = e.sblocks + L,
                          !.after_authentication = aa]
<1>1. QueueSent(e, L) = r BY DEF QueueSent
<1>2. /\ L \in Nat /\ W \in Nat /\ e.outgoing \in Seq(Packet) /\ e.wire \in Seq(Packet)
      /\ e.keys.out \in Key /\ e.sblocks \in Nat /\ e.sent \in Nat
  BY Fields
<1>3. \A i \in 1 .. L : e.outgoing[i] \in Packet /\ e.outgoing[i].t = "DATA"
                        /\ e.outgoing[i].n = e.sent - L + i
  <2>1. \A i \in 1 .. L : e.outgoing[i] \in Packet BY <1>2
  <2>2. [e EXCEPT !.rekeying = TRUE].outgoing = e.outgoing
        /\ [e EXCEPT !.rekeying = TRUE].sent = e.sent
    BY DEF End
  <2> QED BY <2>1, <2>2 DEF QueueOK
<1>4. \A i \in 1 .. L : /\ g[i] \in Packet /\ g[i].t = "DATA" /\ g[i].key = e.keys.out
                        /\ g[i].n = e.sent - L + i
  <2>1. ASSUME NEW x \in Packet, NEW k \in Key
        PROVE  LET y == [x EXCEPT !.key = k] IN y \in Packet /\ y.t = x.t /\ y.n = x.n /\ y.key = k
    BY DEF Packet
  <2> QED BY <2>1, <1>2, <1>3
<1>5. g \in Seq(Packet) /\ Len(g) = L
  <2>1. g \in [1 .. L -> Packet] BY <1>4
  <2> HIDE DEF g
  <2> QED BY <2>1, <1>2
<1> HIDE DEF g
<1>6. /\ w \in Seq(Packet) /\ Len(w) = W + L
      /\ \A i \in 1 .. W + L : w[i] = IF i <= W THEN e.wire[i] ELSE g[i - W]
  <2>1. /\ e.wire \o g \in Seq(Packet) /\ Len(e.wire \o g) = Len(e.wire) + Len(g)
        /\ \A i \in 1 .. Len(e.wire) + Len(g) :
             (e.wire \o g)[i] = IF i <= Len(e.wire) THEN e.wire[i] ELSE g[i - Len(e.wire)]
    <3>1. e.wire \in Seq(Packet) /\ g \in Seq(Packet) BY <1>2, <1>5
    <3> QED BY <3>1, ConcatProperties, Zenon
  <2> HIDE DEF L
  <2> QED BY <2>1, <1>5
<1>7. o = <<>> BY <1>2, SubSeqEmpty
<1>8. o \in Seq(Packet) /\ aa \in BOOLEAN /\ e.sblocks + L \in Nat BY <1>2, <1>7, EmptySeq, Fields
<1>9. aa = e.after_authentication
  <2>1. ~\E i \in 1 .. L : e.outgoing[i].t = "SUCCESS" BY <1>3
  <2>2. e.after_authentication \in BOOLEAN BY Fields
  <2> HIDE DEF L
  <2> QED BY <2>1, <2>2, Zenon
<1> HIDE DEF w, o, aa, L, W
<1>10. r \in End BY <1>6, <1>8, Zenon DEF End
<1>11. /\ r.server = e.server /\ r.phase = e.phase /\ r.rcvd = e.rcvd /\ r.failed = e.failed
       /\ r.after_authentication = aa /\ Stays(e, r) /\ r.accept = e.accept
       /\ r.sent = e.sent /\ r.outgoing = o /\ r.wire = w
  BY DEF End, Stays
<1> HIDE DEF r
<1>12. Same(e, r) /\ r.outgoing = <<>> BY <1>7, <1>9, <1>11 DEF Same
<1>13. Len(r.wire) = W + L /\ \A i \in 1 .. W : r.wire[i] = e.wire[i] BY <1>2, <1>6, <1>11
<1>14. \A i \in W + 1 .. W + L :
         /\ r.wire[i] \in Packet /\ r.wire[i].t = "DATA" /\ r.wire[i].key = e.keys.out
         /\ r.wire[i].n = e.sent - L + (i - W)
  <2> SUFFICES ASSUME NEW i \in W + 1 .. W + L
               PROVE  /\ r.wire[i] \in Packet /\ r.wire[i].t = "DATA"
                      /\ r.wire[i].key = e.keys.out /\ r.wire[i].n = e.sent - L + (i - W)
    OBVIOUS
  <2>1. i - W \in 1 .. L /\ i \in 1 .. W + L /\ ~(i <= W) BY <1>2
  <2>2. r.wire[i] = g[i - W] BY <2>1, <1>6, <1>11
  <2> QED BY <2>1, <2>2, <1>4
<1> QED BY <1>1, <1>10, <1>11, <1>12, <1>13, <1>14 DEF L, W

(* NEWKEYS, and the queue behind it. *)
LEMMA Newkeys ==
  ASSUME NEW e \in End, NEW j \in Nat \ {0}, ~e.done, e.rekeying, e.my = j, ~e.failed,
         e.keys = [in |-> Pair(j - 1), out |-> Pair(j - 1)],
         e.newkeys = [in |-> Pair(j), out |-> Pair(j)], QueueOK(e),
         e.server /\ e.outgoing # <<>> => e.sent - Len(e.outgoing) >= 1
  PROVE  LET r == SendNewkeys(e)
         IN  /\ r \in End /\ Same(e, r) /\ r.accept = e.accept /\ ~r.done /\ ~r.rekeying
             /\ r.init_sent = e.init_sent /\ r.initial = e.initial /\ r.my = j /\ r.peer = e.peer
             /\ r.keys = [in |-> Pair(j - 1), out |-> Pair(j)]
             /\ r.newkeys = [in |-> Pair(j), out |-> NoKey]
             /\ r.sent = e.sent /\ r.outgoing = <<>>
             /\ Successes(r.wire) = Successes(e.wire)
             /\ \A a, first \in Int :
                  Stream(e.wire, e.server, a, 3 * (j - 1) + 2, first, e.sent - Len(e.outgoing)) =>
                  Stream(r.wire, e.server, a, 3 * j, first, e.sent)
<1> DEFINE m == [t |-> "NEWKEYS", n |-> 0, key |-> e.keys.out]
           v == Append(e.wire, m)
           ks == [in |-> Pair(j - 1), out |-> Pair(j)]
           nk == [in |-> Pair(j), out |-> NoKey]
           w == [e EXCEPT !.wire = v, !.sblocks = e.sblocks + 1]
           s == [w EXCEPT !.keys.out = w.newkeys.out, !.newkeys.out = NoKey, !.sblocks = 0]
           d == [e EXCEPT !.wire = v, !.keys = ks, !.newkeys = nk, !.sblocks = 0,
                          !.rekeying = FALSE, !.due = FALSE]
           r == SendNewkeys(e)
           L == Len(e.outgoing)
<1>1. j - 1 \in Nat /\ Pair(j - 1) \in Key /\ Pair(j) \in Key /\ NoKey \in Key /\ Pair(j) # NoKey
      /\ e.keys.out = Pair(j - 1) /\ e.newkeys.out = Pair(j)
  BY PairType DEF NoKey, Key
<1>2. m \in Packet BY <1>1 DEF Packet, KexType
<1>3. v \in Seq(Packet) BY <1>2, Fields
<1>4. ks \in [in : Key, out : Key] /\ nk \in [in : Key, out : Key] BY <1>1
<1> HIDE DEF v
<1>5. /\ w.newkeys = e.newkeys /\ w.keys = e.keys /\ w.failed = e.failed BY DEF End
<1>6. ssh_packet_send2_wrapped(e, "NEWKEYS", 0) = s
  <2>1. ssh_packet_send2_wrapped(e, "NEWKEYS", 0) = ssh_set_newkeys_out(w)
    BY DEF ssh_packet_send2_wrapped, v
  <2>2. w.newkeys.out # NoKey BY <1>1, <1>5
  <2> QED BY <2>1, <2>2 DEF ssh_set_newkeys_out
<1>7. s = [e EXCEPT !.wire = v, !.keys = ks, !.newkeys = nk, !.sblocks = 0]
  <2>1. s = [e EXCEPT !.wire = v, !.keys = [e.keys EXCEPT !.out = e.newkeys.out],
                      !.newkeys = [e.newkeys EXCEPT !.out = NoKey], !.sblocks = 0]
    BY DEF End
  <2>2. [e.keys EXCEPT !.out = e.newkeys.out] = ks BY <1>1
  <2>3. [e.newkeys EXCEPT !.out = NoKey] = nk BY <1>1
  <2> HIDE DEF s, ks, nk
  <2> QED BY <2>1, <2>2, <2>3
<1> HIDE DEF s, ks, nk
<1>8. ~s.failed BY <1>7 DEF End
<1>9. [s EXCEPT !.rekeying = FALSE, !.due = FALSE] = d BY <1>7 DEF End
<1>10. r = SendQueue(d) BY <1>6, <1>8, <1>9 DEF SendNewkeys
<1>11. d \in End BY <1>3, <1>4, Zenon DEF End
<1>12. /\ Same(e, d) /\ d.accept = e.accept /\ d.done = e.done /\ d.rekeying = FALSE
       /\ d.init_sent = e.init_sent /\ d.initial = e.initial /\ d.my = e.my /\ d.peer = e.peer
       /\ d.keys = ks /\ d.newkeys = nk /\ d.sent = e.sent /\ d.outgoing = e.outgoing
       /\ d.wire = v
  BY DEF End, Same
<1>13. [d EXCEPT !.rekeying = TRUE] \in End /\ QueueOK([d EXCEPT !.rekeying = TRUE])
  <2>1. [d EXCEPT !.rekeying = TRUE] \in End BY <1>11, Zenon DEF End
  <2>2. /\ [d EXCEPT !.rekeying = TRUE].outgoing = e.outgoing
        /\ [d EXCEPT !.rekeying = TRUE].sent = e.sent /\ [d EXCEPT !.rekeying = TRUE].rekeying
    BY <1>11, <1>12 DEF End
  <2> HIDE DEF d
  <2> QED BY <2>1, <2>2 DEF QueueOK
<1> HIDE DEF d, r
<1>14. r = QueueSent(d, Len(d.outgoing)) BY <1>10, <1>11, <1>12, SendsAll
<1>15. /\ r \in End /\ Same(d, r) /\ Stays(d, r) /\ r.accept = d.accept
       /\ r.sent = d.sent /\ r.outgoing = <<>>
       /\ Len(r.wire) = Len(d.wire) + Len(d.outgoing)
       /\ \A i \in 1 .. Len(d.wire) : r.wire[i] = d.wire[i]
       /\ \A i \in Len(d.wire) + 1 .. Len(r.wire) :
            /\ r.wire[i] \in Packet /\ r.wire[i].t = "DATA" /\ r.wire[i].key = d.keys.out
            /\ r.wire[i].n = d.sent - Len(d.outgoing) + (i - Len(d.wire))
  BY <1>11, <1>13, <1>14, QueueFields
<1>16. /\ Len(r.wire) = Len(v) + L /\ L \in Nat /\ Len(v) \in Nat /\ r.wire \in Seq(Packet)
       /\ \A i \in 1 .. Len(v) : r.wire[i] = v[i]
       /\ \A i \in Len(v) + 1 .. Len(r.wire) :
            /\ r.wire[i] \in Packet /\ r.wire[i].t = "DATA" /\ r.wire[i].key = Pair(j)
            /\ r.wire[i].n = e.sent - L + (i - Len(v))
  <2>1. d.keys.out = Pair(j) /\ r.wire \in Seq(Packet) /\ L \in Nat /\ Len(v) \in Nat
    BY <1>3, <1>12, <1>15, Fields DEF ks
  <2> QED BY <2>1, <1>12, <1>15
<1>17. Successes(r.wire) = Successes(e.wire)
  <2>1. Successes(v) = Successes(e.wire) BY <1>2, SuccessesAppend, Fields DEF v
  <2>2. \A i \in 1 .. Len(r.wire) : i \in 1 .. Len(v) \/ i \in Len(v) + 1 .. Len(r.wire) BY <1>16
  <2>3. \A i \in 1 .. Len(v) : i \in 1 .. Len(r.wire) BY <1>16
  <2>4. Successes(r.wire) = Successes(v) BY <1>16, <2>2, <2>3 DEF Successes
  <2> QED BY <2>1, <2>4
<1>18. ASSUME NEW a \in Int, NEW first \in Int,
              Stream(e.wire, e.server, a, 3 * (j - 1) + 2, first, e.sent - L)
       PROVE  Stream(r.wire, e.server, a, 3 * j, first, e.sent)
  <2>1. e.server \in BOOLEAN /\ e.sent \in Nat /\ e.sent - L \in Int /\ 3 * j \in Int
        /\ (e.sent - L) + L = e.sent
    BY <1>16, Fields
  <2>2. Stream(v, e.server, a, 3 * j, first, e.sent - L)
    <3>1. /\ Step["NEWKEYS"] = 3 /\ 3 * (j - 1) + 3 - 1 = 3 * (j - 1) + 2 /\ 3 * (j - 1) + 3 = 3 * j
      BY StepValue
    <3>2. Stream(e.wire, e.server, a, 3 * (j - 1) + Step["NEWKEYS"] - 1, first, e.sent - L)
      BY <1>18, <3>1
    <3>3. "NEWKEYS" \in {"KEXINIT", "KEX_INIT", "KEX_REPLY", "NEWKEYS"} /\ 0 \in Nat OBVIOUS
    <3> HIDE DEF L, m
    <3>4. Stream(Append(e.wire, [t |-> "NEWKEYS", n |-> 0, key |-> Pair(j - 1)]), e.server, a,
                 3 * (j - 1) + Step["NEWKEYS"], first, e.sent - L)
      BY <1>1, <2>1, <3>2, <3>3, StreamKex
    <3> QED BY <3>1, <3>4, <1>1 DEF v, m
  <2>3. \A i \in Len(v) + 1 .. Len(r.wire) :
            /\ Sendable(r.wire[i], e.server) /\ r.wire[i].t \in UpperType
            /\ Number(r.wire[i]) = 3 * j /\ r.wire[i].n = (e.sent - L) + (i - Len(v))
    <3> SUFFICES ASSUME NEW i \in Len(v) + 1 .. Len(r.wire)
                 PROVE  /\ Sendable(r.wire[i], e.server) /\ r.wire[i].t \in UpperType
                        /\ Number(r.wire[i]) = 3 * j /\ r.wire[i].n = (e.sent - L) + (i - Len(v))
      OBVIOUS
    <3> DEFINE x == r.wire[i]
    <3>1. /\ x \in Packet /\ x.t = "DATA" /\ x.key = Pair(j) /\ x.n = e.sent - L + (i - Len(v))
      BY <1>16
    <3> HIDE DEF x
    <3>2. x.key.c = j /\ x.key.s = j /\ j >= 1 BY <3>1, PairType
    <3>3. x.n >= 1 /\ (e.server => x.n # 1)
      <4>1. i - Len(v) \in Int /\ i - Len(v) >= 1 /\ i - Len(v) <= L BY <1>16
      <4>2. L <= e.sent BY DEF QueueOK
      <4>3. e.server => e.sent - L >= 1
        <5>1. L >= 1 BY <4>1, <1>16
        <5>2. e.outgoing # <<>> BY <5>1, EmptySeq
        <5> QED BY <5>2
      <4> HIDE DEF L
      <4> QED BY <3>1, <4>1, <4>2, <4>3, <2>1, <1>16
    <3>4. x.t \in UpperType /\ x.t \notin {"KEXINIT", "KEX_INIT", "KEX_REPLY", "EXT_INFO", "SUCCESS"}
      BY <3>1 DEF UpperType
    <3>5. Sendable(x, e.server) BY <3>1, <3>2, <3>3, <3>4 DEF Sendable
    <3>6. Number(x) = 3 * j BY <3>1, <3>2, <3>4, StepValue DEF Number
    <3> QED BY <3>1, <3>4, <3>5, <3>6 DEF x
  <2> HIDE DEF L
  <2>4. Stream(r.wire, e.server, a, 3 * j, first, (e.sent - L) + L)
    BY <1>16, <2>1, <2>2, <2>3, Extend
  <2> QED BY <2>1, <2>4
<1>19. /\ Same(e, r) /\ r.accept = e.accept /\ ~r.done /\ ~r.rekeying
       /\ r.init_sent = e.init_sent /\ r.initial = e.initial /\ r.my = j /\ r.peer = e.peer
       /\ r.keys = ks /\ r.newkeys = nk /\ r.sent = e.sent /\ r.outgoing = <<>>
  BY <1>12, <1>15 DEF Same, Stays
<1> QED BY <1>15, <1>17, <1>18, <1>19 DEF r, ks, nk

(* kex_send_newkeys(), with the keys derived. *)
LEMMA SendSeal ==
  ASSUME NEW e \in End, NEW j \in Nat \ {0}, ~e.done, e.rekeying, e.init_sent, ~e.failed,
         e.my = j, e.peer = j, e.initial = (j = 1),
         e.keys = [in |-> Pair(j - 1), out |-> Pair(j - 1)],
         e.newkeys = [in |-> Pair(j), out |-> Pair(j)], QueueOK(e),
         j = 1 => ~e.after_authentication /\ e.sent = 0,
         e.server /\ j # 1 => e.sent - Len(e.outgoing) >= 1
  PROVE  LET r == kex_send_newkeys(e)
         IN  /\ r \in End /\ Same(e, r) /\ r.accept = {"NEWKEYS"} /\ Sealed(r) /\ r.my = j
             /\ r.outgoing = <<>>
             /\ r.sent = IF e.server /\ j = 1 THEN e.sent + 1 ELSE e.sent
             /\ Successes(r.wire) = Successes(e.wire)
             /\ \A a, first \in Int :
                  Stream(e.wire, e.server, a, 3 * (j - 1) + 2, first, e.sent - Len(e.outgoing)) =>
                  Stream(r.wire, e.server, a, 3 * j, first, r.sent)
<1> DEFINE x == [e EXCEPT !.accept = {}]
           s == SendNewkeys(x)
           b == [s EXCEPT !.accept = {"NEWKEYS"}]
           r == kex_send_newkeys(e)
           L == Len(e.outgoing)
<1>1. r = IF e.server /\ e.initial THEN Numbered(b, "EXT_INFO") ELSE b
  BY DEF kex_send_newkeys, Numbered
<1>2. x \in End
  <2>1. {} \in SUBSET (KexType \cup {"EXT_INFO"}) OBVIOUS
  <2> QED BY <2>1, Zenon DEF End
<1>3. /\ Same(e, x) /\ Stays(e, x) /\ x.wire = e.wire /\ x.sent = e.sent
      /\ x.outgoing = e.outgoing
  BY DEF End, Same, Stays
<1> HIDE DEF x, r
<1>4. QueueOK(x) BY <1>3 DEF QueueOK, Stays
<1>5. /\ ~x.done /\ x.rekeying /\ x.my = j /\ ~x.failed
      /\ x.keys = [in |-> Pair(j - 1), out |-> Pair(j - 1)]
      /\ x.newkeys = [in |-> Pair(j), out |-> Pair(j)]
      /\ (x.server /\ x.outgoing # <<>> => x.sent - Len(x.outgoing) >= 1)
  <2>1. j = 1 => e.outgoing = <<>>
    <3>1. j = 1 => L = 0 BY Fields DEF QueueOK
    <3> QED BY <3>1, EmptySeq, Fields
  <2> QED BY <1>3, <2>1 DEF Same, Stays
<1>6. /\ s \in End /\ Same(x, s) /\ s.accept = x.accept /\ ~s.done /\ ~s.rekeying
      /\ s.init_sent = x.init_sent /\ s.initial = x.initial /\ s.my = j /\ s.peer = x.peer
      /\ s.keys = [in |-> Pair(j - 1), out |-> Pair(j)]
      /\ s.newkeys = [in |-> Pair(j), out |-> NoKey]
      /\ s.sent = x.sent /\ s.outgoing = <<>>
      /\ Successes(s.wire) = Successes(x.wire)
      /\ \A a, first \in Int :
           Stream(x.wire, x.server, a, 3 * (j - 1) + 2, first, x.sent - Len(x.outgoing)) =>
           Stream(s.wire, x.server, a, 3 * j, first, x.sent)
  BY <1>2, <1>4, <1>5, Newkeys
<1> HIDE DEF s
<1>7. b \in End
  <2>1. {"NEWKEYS"} \in SUBSET (KexType \cup {"EXT_INFO"}) BY DEF KexType
  <2> QED BY <2>1, <1>6, Zenon DEF End
<1>8. /\ Same(s, b) /\ Stays(s, b) /\ b.wire = s.wire /\ b.sent = s.sent
      /\ b.outgoing = s.outgoing /\ b.accept = {"NEWKEYS"}
  BY <1>6 DEF End, Same, Stays
<1> HIDE DEF b
<1>9. /\ b.server = e.server /\ b.phase = e.phase /\ b.rcvd = e.rcvd /\ b.failed = e.failed
      /\ b.after_authentication = e.after_authentication /\ ~b.done /\ ~b.rekeying
      /\ b.init_sent /\ b.initial = (j = 1) /\ b.my = j /\ b.peer = j
      /\ b.keys = [in |-> Pair(j - 1), out |-> Pair(j)]
      /\ b.newkeys = [in |-> Pair(j), out |-> NoKey] /\ b.sent = e.sent /\ b.outgoing = <<>>
  BY <1>3, <1>6, <1>8 DEF Same, Stays
<1>10. Sealed(b) BY <1>9 DEF Sealed
<1>11. \A a, first \in Int :
         Stream(e.wire, e.server, a, 3 * (j - 1) + 2, first, e.sent - L) =>
         Stream(b.wire, e.server, a, 3 * j, first, e.sent)
  BY <1>3, <1>6, <1>8 DEF Same
<1>12. Successes(b.wire) = Successes(e.wire) BY <1>3, <1>6, <1>8
<1>13. CASE ~(e.server /\ j = 1)
  <2>1. r = b BY <1>1, <1>13
  <2> QED BY <2>1, <1>7, <1>8, <1>9, <1>10, <1>11, <1>12, <1>13 DEF r, Same
<1>14. CASE e.server /\ j = 1
  <2>1. r = Numbered(b, "EXT_INFO") BY <1>1, <1>14
  <2>2. QueueOK(b)
    <3>1. Len(b.outgoing) = 0 /\ b.sent \in Nat BY <1>7, <1>9, EmptySeq, Fields
    <3> QED BY <3>1, <1>9 DEF QueueOK
  <2>3. "EXT_INFO" \in UpperType /\ b.keys.out = Pair(j) /\ b.sent = 0 /\ b.server
    BY <1>9, <1>14 DEF UpperType
  <2>4. ~ssh_packet_need_rekeying(b, BlockSize)
    BY <1>9, <1>14 DEF ssh_packet_need_rekeying
  <2> DEFINE t == "EXT_INFO"
  <2>5. /\ r \in End /\ r.server = b.server /\ r.phase = b.phase /\ r.rcvd = b.rcvd
        /\ r.failed = b.failed /\ r.accept = b.accept /\ Stays(b, r)
        /\ r.after_authentication = (b.after_authentication \/ t = "SUCCESS")
        /\ r.sent = b.sent + 1 /\ r.outgoing = <<>>
        /\ t # "SUCCESS" => Successes(r.wire) = Successes(b.wire)
        /\ \A a, first \in Int :
             Stream(b.wire, b.server, a, KexSent(b), first, b.sent) =>
             Stream(r.wire, b.server, a, KexSent(r), first, b.sent + 1)
    <3>1. /\ t \in UpperType /\ ~b.rekeying /\ r = Numbered(b, t)
          /\ t = "EXT_INFO" <=> (b.server /\ b.sent = 0)
          /\ t = "SUCCESS" => b.server /\ b.my = 1
          /\ b.my >= 1 /\ b.keys.out = Pair(b.my)
      BY <1>9, <2>1, <2>3
    <3> HIDE DEF t
    <3>2. /\ r \in End /\ r.server = b.server /\ r.phase = b.phase /\ r.rcvd = b.rcvd
          /\ r.failed = b.failed /\ r.accept = b.accept /\ Stays(b, r)
      BY <1>7, <2>2, <2>3, <2>4, <3>1, SendNow
    <3>3. r.after_authentication = (b.after_authentication \/ t = "SUCCESS")
      BY <1>7, <2>2, <2>3, <2>4, <3>1, SendNow
    <3>4. /\ r.sent = b.sent + 1 /\ r.outgoing = <<>>
          /\ t # "SUCCESS" => Successes(r.wire) = Successes(b.wire)
      BY <1>7, <2>2, <2>3, <2>4, <3>1, SendNow
    <3>5. \A a, first \in Int :
             Stream(b.wire, b.server, a, KexSent(b), first, b.sent) =>
             Stream(r.wire, b.server, a, KexSent(r), first, b.sent + 1)
      BY <1>7, <2>2, <2>3, <2>4, <3>1, SendNow
    <3> QED BY <3>2, <3>3, <3>4, <3>5
  <2>6. KexSent(b) = 3 * j /\ KexSent(r) = 3 * j
    <3>1. KexSent(b) = 3 * j BY <1>9, <2>3, PairType DEF KexSent
    <3> QED BY <3>1, <2>5, StaysStage
  <2>7. Same(e, r)
    <3>1. r.after_authentication = e.after_authentication BY <1>9, <2>5, <1>7, Fields
    <3> QED BY <3>1, <1>9, <2>5 DEF Same
  <2>8. Sealed(r) /\ r.my = j BY <1>9, <1>10, <2>5, StaysStage
  <2>9. r.sent = e.sent + 1 BY <1>9, <2>5
  <2>10. \A a, first \in Int :
           Stream(e.wire, e.server, a, 3 * (j - 1) + 2, first, e.sent - L) =>
           Stream(r.wire, e.server, a, 3 * j, first, r.sent)
    BY <1>9, <1>11, <2>5, <2>6, <2>9
  <2> QED BY <1>8, <1>12, <1>14, <2>5, <2>7, <2>8, <2>9, <2>10 DEF r
<1> QED BY <1>13, <1>14

(* The keys are derived and used for what is sent from here on. *)
LEMMA Seal ==
  ASSUME NEW e \in End, Met(e), ~e.failed, QueueOK(e),
         e.my = 1 => ~e.after_authentication /\ e.sent = 0,
         e.server /\ e.my # 1 => e.sent - Len(e.outgoing) >= 1
  PROVE  LET r == IF e.server THEN input_kex_gen_init(e) ELSE input_kex_gen_reply(e)
         IN  /\ r \in End /\ Same(e, r) /\ r.accept = {"NEWKEYS"} /\ Sealed(r) /\ r.my = e.my
             /\ r.outgoing = <<>>
             /\ r.sent = IF e.server /\ e.my = 1 THEN e.sent + 1 ELSE e.sent
             /\ Successes(r.wire) = Successes(e.wire)
             /\ KexTaken(r) = KexTaken(e) + 1
             /\ \A a, first \in Int :
                  Stream(e.wire, e.server, a, KexSent(e), first, e.sent - Len(e.outgoing)) =>
                  Stream(r.wire, e.server, a, KexSent(r), first, r.sent)
<1> DEFINE j == e.my
           o == ssh_packet_send2_wrapped(e, "KEX_REPLY", 0)
           x == IF e.server THEN o ELSE e
           k == Pair(j)
           d == [x EXCEPT !.newkeys = [in |-> k, out |-> k]]
           m == [t |-> "KEX_REPLY", n |-> 0, key |-> e.keys.out]
           r == IF e.server THEN input_kex_gen_init(e) ELSE input_kex_gen_reply(e)
           last == e.sent - Len(e.outgoing)
<1>1. /\ j \in Nat \ {0} /\ j - 1 \in Nat /\ Pair(j) \in Key /\ last \in Int
      /\ e.keys = [in |-> Pair(j - 1), out |-> Pair(j - 1)] /\ e.keys.out = Pair(j - 1)
      /\ e.peer = j /\ ~e.done /\ e.rekeying /\ e.init_sent /\ e.initial = (j = 1)
  BY PairType, Fields DEF Met
<1> HIDE DEF j, last
<1>2. /\ x \in End /\ Same(e, x) /\ Stays(e, x) /\ x.sent = e.sent /\ x.outgoing = e.outgoing
      /\ Successes(x.wire) = Successes(e.wire)
      /\ \A a, first \in Int : Stream(e.wire, e.server, a, KexSent(e), first, last) =>
                               Stream(x.wire, e.server, a, 3 * (j - 1) + 2, first, last)
  <2>1. CASE ~e.server
    <3>1. KexSent(e) = 3 * (j - 1) + 2
      <4>1. e.keys.out.c = j - 1 /\ e.peer # 0 BY <1>1, PairType
      <4> QED BY <2>1, <4>1, <1>1 DEF KexSent
    <3>2. x = e BY <2>1
    <3> HIDE DEF x
    <3> QED BY <3>1, <3>2 DEF Same, Stays
  <2>2. CASE e.server
    <3>1. x = o BY <2>2
    <3>2. KexSent(e) = 3 * (j - 1) + 1
      <4>1. e.keys.out.c = j - 1 BY <1>1, PairType
      <4> QED BY <2>2, <4>1, <1>1 DEF KexSent
    <3>3. /\ o \in End /\ Same(e, o) /\ Stays(e, o)
          /\ o.accept = e.accept /\ o.sent = e.sent /\ o.outgoing = e.outgoing
          /\ m \in Packet /\ o.wire = Append(e.wire, m)
      <4>1. "KEX_REPLY" \in {"KEXINIT", "KEX_INIT", "KEX_REPLY"} /\ 0 \in Nat OBVIOUS
      <4> QED BY <4>1, SendKex, Zenon
    <3> HIDE DEF o, x
    <3>4. Step["KEX_REPLY"] = 2 /\ 3 * (j - 1) + 2 - 1 = 3 * (j - 1) + 1 BY <1>1, StepValue
    <3>5. ASSUME NEW a \in Int, NEW first \in Int,
                 Stream(e.wire, e.server, a, KexSent(e), first, last)
          PROVE  Stream(x.wire, e.server, a, 3 * (j - 1) + 2, first, last)
      <4>1. Stream(e.wire, e.server, a, 3 * (j - 1) + Step["KEX_REPLY"] - 1, first, last)
        BY <3>2, <3>4, <3>5
      <4> HIDE DEF m
      <4>2. Stream(Append(e.wire, m), e.server, a, 3 * (j - 1) + Step["KEX_REPLY"], first, last)
        BY <1>1, <2>2, <4>1, WireKex DEF m
      <4> QED BY <3>1, <3>3, <3>4, <4>2
    <3>6. Successes(x.wire) = Successes(e.wire) BY <3>1, <3>3, SuccessesAppend, Fields
    <3> QED BY <3>1, <3>3, <3>5, <3>6
  <2> QED BY <2>1, <2>2
<1>3. r = kex_send_newkeys(d)
  <2>1. x.server = e.server /\ x.peer = j /\ x.my = j
    BY <1>1, <1>2 DEF Same, Stays, j
  <2>2. kex_derive_keys(x) = d
    <3>1. [c |-> x.peer, s |-> x.my] = k /\ [c |-> x.my, s |-> x.peer] = k
      BY <2>1 DEF Pair
    <3> HIDE DEF x, k
    <3> QED BY <3>1 DEF kex_derive_keys
  <2>3. r = kex_send_newkeys(kex_derive_keys(x))
    BY DEF input_kex_gen_init, input_kex_gen_reply
  <2> HIDE DEF r, d, x
  <2> QED BY <2>2, <2>3
<1> HIDE DEF x, r
<1>4. d \in End
  <2>1. [in |-> k, out |-> k] \in [in : Key, out : Key] BY <1>1
  <2> HIDE DEF k
  <2> QED BY <2>1, <1>2, Zenon DEF End
<1>5. /\ Same(x, d) /\ d.accept = x.accept /\ d.done = x.done /\ d.rekeying = x.rekeying
      /\ d.init_sent = x.init_sent /\ d.initial = x.initial /\ d.my = x.my /\ d.peer = x.peer
      /\ d.keys = x.keys /\ d.newkeys = [in |-> k, out |-> k] /\ d.sent = x.sent
      /\ d.outgoing = x.outgoing /\ d.wire = x.wire
  <2> HIDE DEF k
  <2> QED BY <1>2 DEF End, Same
<1> HIDE DEF d
<1>6. /\ Same(e, d) /\ ~d.done /\ d.rekeying /\ d.init_sent /\ ~d.failed /\ d.my = j /\ d.peer = j
      /\ d.initial = (j = 1) /\ d.keys = [in |-> Pair(j - 1), out |-> Pair(j - 1)]
      /\ d.newkeys = [in |-> Pair(j), out |-> Pair(j)] /\ d.sent = e.sent
      /\ d.outgoing = e.outgoing /\ d.wire = x.wire
  BY <1>1, <1>2, <1>5 DEF Same, Stays, j
<1>7. QueueOK(d) BY <1>1, <1>6 DEF QueueOK
<1>8. (j = 1 => ~d.after_authentication /\ d.sent = 0)
      /\ (d.server /\ j # 1 => d.sent - Len(d.outgoing) >= 1)
  BY <1>6 DEF Same, j
<1>9. /\ r \in End /\ Same(d, r) /\ r.accept = {"NEWKEYS"} /\ Sealed(r) /\ r.my = j
      /\ r.outgoing = <<>>
      /\ r.sent = IF d.server /\ j = 1 THEN d.sent + 1 ELSE d.sent
      /\ Successes(r.wire) = Successes(d.wire)
      /\ \A a, first \in Int :
           Stream(d.wire, d.server, a, 3 * (j - 1) + 2, first, d.sent - Len(d.outgoing)) =>
           Stream(r.wire, d.server, a, 3 * j, first, r.sent)
  BY <1>1, <1>3, <1>4, <1>6, <1>7, <1>8, SendSeal
<1>10. KexSent(r) = 3 * j /\ KexTaken(r) = KexTaken(e) + 1
  <2>1. r.keys.out.c = j /\ r.keys.in.c = j - 1 /\ r.peer = j /\ ~r.rekeying
    BY <1>1, <1>9, PairType DEF Sealed
  <2>2. e.keys.in.c = j - 1 BY <1>1, PairType
  <2> QED BY <1>1, <2>1, <2>2 DEF KexSent, KexTaken
<1>11. \A a, first \in Int :
           Stream(e.wire, e.server, a, KexSent(e), first, last) =>
           Stream(r.wire, e.server, a, KexSent(r), first, r.sent)
  BY <1>2, <1>6, <1>9, <1>10 DEF Same, last
<1>12. /\ Same(e, r) /\ Successes(r.wire) = Successes(e.wire)
       /\ r.sent = IF e.server /\ j = 1 THEN e.sent + 1 ELSE e.sent
  BY <1>2, <1>6, <1>9 DEF Same
<1> QED BY <1>9, <1>10, <1>11, <1>12 DEF r, j, last

(* NEWKEYS is taken: the exchange is over. *)
LEMMA Settle ==
  ASSUME NEW e \in End, Sealed(e), ~e.failed, e.accept = {"NEWKEYS"}
  PROVE  LET r == kex_input_newkeys(e)
         IN  /\ r \in End /\ Same(e, r) /\ r.accept = {"KEXINIT"} /\ Idle(r) /\ r.my = e.my
             /\ r.sent = e.sent /\ r.outgoing = e.outgoing
             /\ Wrote(e, r) /\ KexTaken(r) = KexTaken(e) + 1
<1> DEFINE j == e.my
           x == [e EXCEPT !.accept = (e.accept \ {"NEWKEYS"}) \cup {"KEXINIT"}]
           ks == [in |-> Pair(j), out |-> Pair(j)]
           r == kex_input_newkeys(e)
           s == ssh_set_newkeys_in(x)
           d == [e EXCEPT !.accept = {"KEXINIT"}, !.keys = ks, !.newkeys = NoKeys, !.rblocks = 0,
                          !.done = TRUE, !.initial = FALSE, !.peer = 0, !.init_sent = FALSE]
<1>1. /\ j \in Nat \ {0} /\ j - 1 \in Nat /\ Pair(j) \in Key /\ NoKey \in Key /\ Pair(j) # NoKey
      /\ e.keys = [in |-> Pair(j - 1), out |-> Pair(j)]
      /\ e.newkeys = [in |-> Pair(j), out |-> NoKey] /\ e.peer = j /\ ~e.rekeying
  BY PairType, Fields DEF Sealed, NoKey, Key
<1> HIDE DEF j
<1>2. (e.accept \ {"NEWKEYS"}) \cup {"KEXINIT"} = {"KEXINIT"} OBVIOUS
<1>3. x = [e EXCEPT !.accept = {"KEXINIT"}] BY <1>2
<1> HIDE DEF x
<1>4. s = [e EXCEPT !.accept = {"KEXINIT"}, !.keys = ks, !.newkeys = NoKeys, !.rblocks = 0]
  <2>1. x.newkeys = e.newkeys /\ x.keys = e.keys BY <1>3 DEF End
  <2>2. x.newkeys.in # NoKey /\ x.newkeys.in = Pair(j) BY <2>1, <1>1
  <2>3. s = [x EXCEPT !.keys.in = Pair(j), !.newkeys.in = NoKey, !.rblocks = 0]
    BY <2>2 DEF ssh_set_newkeys_in
  <2>4. s = [x EXCEPT !.keys = [x.keys EXCEPT !.in = Pair(j)],
                      !.newkeys = [x.newkeys EXCEPT !.in = NoKey], !.rblocks = 0]
    BY <2>3, <1>3 DEF End
  <2>5. [x.keys EXCEPT !.in = Pair(j)] = ks BY <1>1, <2>1
  <2>6. [x.newkeys EXCEPT !.in = NoKey] = NoKeys BY <1>1, <2>1 DEF NoKeys
  <2> HIDE DEF s, ks
  <2> QED BY <2>4, <2>5, <2>6, <1>3
<1>5. ks \in [in : Key, out : Key] /\ NoKeys \in [in : Key, out : Key]
      /\ {"KEXINIT"} \in SUBSET (KexType \cup {"EXT_INFO"})
  BY <1>1 DEF NoKeys, KexType
<1> HIDE DEF s, ks
<1>6. ~s.failed BY <1>4 DEF End
<1>7. r = d
  <2>1. r = [s EXCEPT !.done = TRUE, !.initial = FALSE, !.peer = 0, !.init_sent = FALSE]
    BY <1>6 DEF kex_input_newkeys, s, x
  <2> HIDE DEF r
  <2> QED BY <2>1, <1>4
<1>8. d \in End
  <2>1. 0 \in Nat /\ 0 \in Int OBVIOUS
  <2> QED BY <2>1, <1>5, Zenon DEF End
<1>9. /\ Same(e, d) /\ d.accept = {"KEXINIT"} /\ d.keys = ks /\ d.newkeys = NoKeys /\ d.done = TRUE
      /\ d.initial = FALSE /\ d.peer = 0 /\ d.init_sent = FALSE /\ d.rekeying = e.rekeying
      /\ d.my = e.my /\ d.sent = e.sent /\ d.outgoing = e.outgoing /\ d.wire = e.wire
  BY DEF End, Same
<1> HIDE DEF d, r
<1>10. Idle(d) BY <1>1, <1>9 DEF Idle, NoKeys, ks, j
<1>11. KexSent(d) = KexSent(e) /\ KexTaken(d) = KexTaken(e) + 1
  <2>1. d.keys.out.c = j /\ d.keys.in.c = j /\ e.keys.out.c = j /\ e.keys.in.c = j - 1
    BY <1>1, <1>9, PairType DEF ks
  <2> QED BY <2>1, <1>1, <1>9 DEF KexSent, KexTaken
<1>12. Wrote(e, d) BY <1>9, <1>11, WroteNothing DEF Same
<1> QED BY <1>7, <1>8, <1>9, <1>10, <1>11, <1>12 DEF r
-----------------------------------------------------------------------------
(* The actions. *)

LEMMA Exclusive ==
  ASSUME NEW e \in End
  PROVE  /\ ~(Idle(e) /\ Begun(e)) /\ ~(Idle(e) /\ Met(e)) /\ ~(Idle(e) /\ Sealed(e))
         /\ ~(Begun(e) /\ Met(e)) /\ ~(Begun(e) /\ Sealed(e)) /\ ~(Met(e) /\ Sealed(e))
         /\ Unstarted(e) => ~Staged(e)
BY Fields DEF Idle, Begun, Met, Sealed, Unstarted, Staged

(* The keys of the stages. *)
LEMMA StageKeys ==
  ASSUME NEW e \in End
  PROVE  /\ Idle(e) => e.keys.out = Pair(e.my) /\ e.keys.out.c = e.my
                       /\ e.keys.in = Pair(e.my) /\ e.keys.in.c = e.my /\ e.my >= 1
         /\ Begun(e) \/ Met(e) => /\ e.keys.out = Pair(e.my - 1) /\ e.keys.out.c = e.my - 1
                                  /\ e.keys.in = Pair(e.my - 1) /\ e.keys.in.c = e.my - 1
                                  /\ e.my >= 1
         /\ Sealed(e) => /\ e.keys.out = Pair(e.my) /\ e.keys.out.c = e.my
                         /\ e.keys.in = Pair(e.my - 1) /\ e.keys.in.c = e.my - 1 /\ e.my >= 1
         /\ Unstarted(e) => e.keys.out.c = 0 /\ e.keys.in.c = 0
<1>1. e.my \in Nat /\ (e.my >= 1 => e.my - 1 \in Nat) BY Fields
<1> QED BY <1>1, PairType DEF Idle, Begun, Met, Sealed, Unstarted, NoKey

LEMMA PhaseSplit ==
  /\ \A f \in Phase : f \in Early <=> f \notin Late
  /\ "start" \in Early /\ "kex" \in Early /\ "auth" \in Early
  /\ "success" \in Late /\ "postauth" \in Late /\ "loop" \in Late
BY DEF Phase, Early, Late

(* The reader of e's wire finds what it expects in r's. *)
Writes(e, r) ==
  \A a, first \in Int :
    Stream(e.wire, e.server, a, KexSent(e), first, e.sent - Len(e.outgoing)) =>
    Stream(r.wire, r.server, a, KexSent(r), first, r.sent - Len(r.outgoing))

LEMMA WroteWrites ==
  ASSUME NEW e \in End, NEW r, Wrote(e, r), r.sent - Len(r.outgoing) = e.sent - Len(e.outgoing)
  PROVE  Writes(e, r)
<1>1. e.sent - Len(e.outgoing) \in Int BY Fields
<1> QED BY <1>1 DEF Wrote, Writes

LEMMA CoupledSame ==
  ASSUME NEW c, NEW s, NEW d, NEW t, Coupled(c, s), Successes(t.wire) = Successes(s.wire),
         c.phase \in Late <=> d.phase \in Late, c.phase \in Early <=> d.phase \in Early,
         s.phase \in Late <=> t.phase \in Late
  PROVE  Coupled(d, t)
BY DEF Coupled

LEMMA Peers ==
  /\ Peer = {"client", "server"} /\ Other("client") = "server" /\ Other("server") = "client"
  /\ \A p \in Peer : Other(p) \in Peer /\ Other(p) # p /\ Other(Other(p)) = p
BY DEF Peer, Other

LEMMA InvFacts ==
  ASSUME Inv, NEW p \in Peer
  PROVE  /\ end[p] \in End /\ end[p].server = (p = "server") /\ EndOK(end[p])
         /\ Between(end[p], end[Other(p)])
         /\ dues \in [Peer -> 0 .. MaxDue] /\ manual \in 0 .. MaxManual
         /\ end \in [Peer -> End]
BY Peers DEF Inv, TypeOK

(* Keys change to newer ones only. *)
Fresh(e, h) ==
  /\ e.rekeying /\ ~h.rekeying => Newer(h.keys.out, e.keys.out)
  /\ ~e.done /\ h.done => Newer(h.keys.in, e.keys.in)
Renewed == \A p \in Peer : Fresh(end[p], end'[p])

LEMMA NoNewKeys ==
  ASSUME NEW e, NEW r, Stays(e, r) \/ Begun(r) PROVE Fresh(e, r)
BY DEF Fresh, Stays, Begun

(* A step of one end on its own. *)
LEMMA OneEnd ==
  ASSUME Inv, NEW p \in Peer, NEW r \in End, end' = [end EXCEPT ![p] = r],
         dues' \in [Peer -> 0 .. MaxDue], manual' \in 0 .. MaxManual,
         r.server = end[p].server, EndOK(r), r.rcvd = end[p].rcvd,
         KexTaken(r) = KexTaken(end[p]), Writes(end[p], r), Fresh(end[p], r),
         Coupled(end'["client"], end'["server"])
  PROVE  Inv' /\ Renewed
<1> DEFINE q == Other(p)
<1>1. q \in Peer /\ q # p BY Peers
<1>2. end'[p] = r /\ end'[q] = end[q] /\ end' \in [Peer -> End] BY <1>1, InvFacts
<1>3. \A x \in Peer : x = p \/ x = q BY Peers
<1>4. TypeOK' BY <1>2 DEF TypeOK
<1>5. \A x \in Peer : end'[x].server = (x = "server") /\ EndOK(end'[x])
  <2>1. end'[p].server = (p = "server") /\ EndOK(end'[p]) BY <1>2, InvFacts
  <2>2. end'[q].server = (q = "server") /\ EndOK(end'[q]) BY <1>1, <1>2, InvFacts
  <2> QED BY <1>3, <2>1, <2>2
<1>6. Between(end'[p], end'[q])
  <2>1. Between(end[p], end[q]) BY InvFacts
  <2>2. KexTaken(end[q]) \in Int /\ end[q].rcvd \in Int BY <1>1, InvFacts, Fields
  <2> QED BY <1>2, <2>1, <2>2 DEF Between, Writes
<1>7. Between(end'[q], end'[p])
  <2>1. Between(end[q], end[p]) BY <1>1, InvFacts, Peers
  <2> QED BY <1>2, <2>1 DEF Between
<1>8. Between(end'["client"], end'["server"]) /\ Between(end'["server"], end'["client"])
  BY <1>6, <1>7, Peers
<1>9. Inv' BY <1>4, <1>5, <1>8 DEF Inv, Between
<1>10. Renewed
  <2>1. Fresh(end[q], end'[q]) BY <1>2 DEF Fresh
  <2> QED BY <1>2, <1>3, <2>1 DEF Renewed
<1> QED BY <1>9, <1>10

LEMMA SetupStep == ASSUME Inv, NEW p \in Peer, kex_setup(p) PROVE Inv' /\ Renewed
<1> DEFINE e == end[p]
           x == [e EXCEPT !.phase = "kex", !.accept = {"KEXINIT"}]
           r == kex_send_kexinit(x)
<1>1. e \in End /\ EndOK(e) /\ dues' = dues /\ manual' = manual /\ e.phase = "start"
      /\ end' = [end EXCEPT ![p] = r]
  BY InvFacts DEF kex_setup
<1>2. Unstarted(e) /\ e.sent = 0 BY <1>1, StageKeys DEF EndOK
<1> HIDE DEF e
<1>3. x \in End
  <2>1. {"KEXINIT"} \in SUBSET (KexType \cup {"EXT_INFO"}) /\ "kex" \in Phase BY DEF KexType, Phase
  <2> QED BY <1>1, <2>1, Zenon DEF End
<1>4. /\ x.phase = "kex" /\ x.accept = {"KEXINIT"} /\ x.server = e.server /\ x.rcvd = e.rcvd
      /\ x.failed = e.failed /\ x.after_authentication = e.after_authentication
      /\ Stays(e, x) /\ x.sent = e.sent /\ x.outgoing = e.outgoing /\ x.wire = e.wire
  BY <1>1 DEF End, Stays
<1> HIDE DEF x
<1>5. /\ ~x.init_sent /\ x.peer = 0 /\ ~x.rekeying /\ x.newkeys = NoKeys /\ x.my = 0
      /\ x.keys = [in |-> Pair(x.my), out |-> Pair(x.my)] /\ x.initial = (x.my = 0)
  BY <1>2, <1>4 DEF Unstarted, Stays, NoKeys, NoKey, Pair
<1>6. /\ r \in End /\ Begun(r) /\ r.my = x.my + 1 /\ Same(x, r)
      /\ r.accept = x.accept /\ r.sent = x.sent /\ r.outgoing = x.outgoing
      /\ Wrote(x, r) /\ KexTaken(r) = KexTaken(x)
  BY <1>3, <1>5, Kexinit
<1> HIDE DEF r
<1>7. KexSent(x) = KexSent(e) /\ KexTaken(x) = KexTaken(e) BY <1>4, StaysStage
<1>8. Wrote(e, r) BY <1>4, <1>6, <1>7, WroteNothing, WroteOn
<1>9. EndOK(r)
  <2>1. /\ r.phase = "kex" /\ r.my = 1 /\ r.accept = {"KEXINIT"} /\ r.rcvd = e.rcvd
        /\ ~r.failed /\ r.sent = 0 /\ r.outgoing = e.outgoing /\ ~r.after_authentication
    BY <1>1, <1>2, <1>4, <1>5, <1>6, PhaseSplit DEF Same, EndOK, Late
  <2>2. Len(e.outgoing) = 0 /\ QueueOK(e) BY <1>1, <1>2, Fields DEF EndOK, QueueOK
  <2>3. QueueOK(r) BY <2>1, <2>2, <1>1, <1>2, <1>6 DEF QueueOK, Begun
  <2>4. r.keys.out.c = 0 /\ e.rcvd = 0 BY <1>1, <1>6, <2>1, StageKeys DEF EndOK
  <2>5. ~Idle(r) /\ ~Met(r) /\ ~Sealed(r) BY <1>6, Exclusive
  <2> QED BY <2>1, <2>3, <2>4, <2>5, <1>6 DEF EndOK, Handlers, Late
<1>10. r.server = e.server /\ r.rcvd = e.rcvd /\ KexTaken(r) = KexTaken(e) /\ r.phase = "kex"
      /\ r.sent = e.sent /\ r.outgoing = e.outgoing
  BY <1>4, <1>6, <1>7 DEF Same
<1>11. Writes(e, r) BY <1>1, <1>8, <1>10, WroteWrites
<1>12. Coupled(end'["client"], end'["server"])
  <2>1. Successes(r.wire) = Successes(e.wire) BY <1>8 DEF Wrote
  <2>2. Coupled(end["client"], end["server"]) BY DEF Inv
  <2>3. end \in [Peer -> End] BY InvFacts
  <2> QED BY <1>1, <1>10, <2>1, <2>2, <2>3, CoupledSame, Peers DEF Early, Late, e
<1>13. Fresh(e, r) BY <1>6, NoNewKeys
<1> QED BY <1>13, <1>1, <1>6, <1>9, <1>10, <1>11, <1>12, OneEnd, InvFacts DEF e

(* A step that changes the phase or the handlers only. *)
LEMMA UserauthStep == ASSUME Inv, NEW p \in Peer, start_userauth(p) PROVE Inv' /\ Renewed
<1> DEFINE e == end[p]
           h == IF p = "client" THEN {"EXT_INFO"} ELSE {}
           r == [e EXCEPT !.phase = "auth", !.accept = h]
<1>1. e \in End /\ EndOK(e) /\ dues' = dues /\ manual' = manual /\ e.phase = "kex" /\ e.done
      /\ end' = [end EXCEPT ![p] = r]
  BY InvFacts DEF start_userauth
<1> HIDE DEF e
<1>2. r \in End
  <2>1. h \in SUBSET (KexType \cup {"EXT_INFO"}) /\ "auth" \in Phase BY DEF KexType, Phase
  <2> HIDE DEF h
  <2> QED BY <1>1, <2>1, Zenon DEF End
<1>3. /\ r.phase = "auth" /\ r.accept = h /\ r.server = e.server /\ r.rcvd = e.rcvd
      /\ r.failed = e.failed /\ r.after_authentication = e.after_authentication
      /\ Stays(e, r) /\ r.sent = e.sent /\ r.outgoing = e.outgoing /\ r.wire = e.wire
  BY <1>1 DEF End, Stays
<1> HIDE DEF r
<1>4. KexSent(r) = KexSent(e) /\ KexTaken(r) = KexTaken(e) BY <1>3, StaysStage
<1>5. Writes(e, r) BY <1>3, <1>4 DEF Writes
<1>6. EndOK(r)
  <2>1. Idle(e) /\ e.my = 1 BY <1>1 DEF EndOK, Begun, Met, Sealed
  <2>2. Idle(r) /\ r.my = 1 /\ r.keys = e.keys /\ r.rekeying = e.rekeying
    BY <2>1, <1>3, StaysStage DEF Stays
  <2>3. QueueOK(r) BY <1>1, <1>3, <2>2 DEF QueueOK, EndOK
  <2>4. ~e.server => p = "client" BY InvFacts, Peers DEF e
  <2> QED BY <1>1, <1>3, <2>2, <2>3, <2>4 DEF EndOK, Late
<1>7. Coupled(end'["client"], end'["server"])
  <2>1. Coupled(end["client"], end["server"]) /\ end \in [Peer -> End] BY InvFacts DEF Inv
  <2> QED BY <1>1, <1>3, <2>1, CoupledSame, Peers DEF Early, Late, e
<1>8. Fresh(e, r) BY <1>3, NoNewKeys
<1> QED BY <1>8, <1>1, <1>2, <1>3, <1>4, <1>5, <1>6, <1>7, OneEnd, InvFacts DEF e

LEMMA DispatchStep == ASSUME Inv, NEW p \in Peer, init_dispatch(p) PROVE Inv' /\ Renewed
<1> DEFINE e == end[p]
           r == [e EXCEPT !.phase = "loop", !.accept = {"KEXINIT"}]
<1>1. e \in End /\ EndOK(e) /\ dues' = dues /\ manual' = manual
      /\ e.phase = (IF p = "server" THEN "postauth" ELSE "success")
      /\ end' = [end EXCEPT ![p] = r]
  BY InvFacts DEF init_dispatch
<1> HIDE DEF e
<1>2. r \in End
  <2>1. {"KEXINIT"} \in SUBSET (KexType \cup {"EXT_INFO"}) /\ "loop" \in Phase BY DEF KexType, Phase
  <2> QED BY <1>1, <2>1, Zenon DEF End
<1>3. /\ r.phase = "loop" /\ r.accept = {"KEXINIT"} /\ r.server = e.server /\ r.rcvd = e.rcvd
      /\ r.failed = e.failed /\ r.after_authentication = e.after_authentication
      /\ Stays(e, r) /\ r.sent = e.sent /\ r.outgoing = e.outgoing /\ r.wire = e.wire
  BY <1>1 DEF End, Stays
<1> HIDE DEF r
<1>4. KexSent(r) = KexSent(e) /\ KexTaken(r) = KexTaken(e) BY <1>3, StaysStage
<1>5. Writes(e, r) BY <1>3, <1>4 DEF Writes
<1>6. EndOK(r)
  <2>1. (Idle(e) /\ e.my = 1) \/ (Begun(e) /\ e.my = 2) BY <1>1 DEF EndOK
  <2>2. (Idle(r) /\ r.my = 1) \/ (Begun(r) /\ r.my = 2) BY <2>1, <1>3, StaysStage
  <2>3. r.keys = e.keys /\ r.rekeying = e.rekeying BY <1>3 DEF Stays
  <2>4. QueueOK(r) BY <1>1, <1>3, <2>3 DEF QueueOK, EndOK
  <2>5. ~Met(r) /\ ~Sealed(r) BY <1>2, <2>2, Exclusive
  <2>6. e.phase \in Late BY <1>1, PhaseSplit
  <2> QED BY <1>1, <1>3, <2>2, <2>3, <2>4, <2>5, <2>6 DEF EndOK, Late, Handlers
<1>7. Coupled(end'["client"], end'["server"])
  <2>1. Coupled(end["client"], end["server"]) /\ end \in [Peer -> End] BY InvFacts DEF Inv
  <2> QED BY <1>1, <1>3, <2>1, CoupledSame, Peers DEF Early, Late, e
<1>8. Fresh(e, r) BY <1>3, NoNewKeys
<1> QED BY <1>8, <1>1, <1>2, <1>3, <1>4, <1>5, <1>6, <1>7, OneEnd, InvFacts DEF e

LEMMA IntervalStep == ASSUME Inv, NEW p \in Peer, interval_passes(p) PROVE Inv' /\ Renewed
<1> DEFINE e == end[p]
           r == [e EXCEPT !.due = TRUE]
<1>1. e \in End /\ EndOK(e) /\ manual' = manual /\ end' = [end EXCEPT ![p] = r]
  BY InvFacts DEF interval_passes
<1>2. dues' \in [Peer -> 0 .. MaxDue]
  <2>1. dues \in [Peer -> 0 .. MaxDue] /\ dues[p] < MaxDue /\ dues' = [dues EXCEPT ![p] = dues[p] + 1]
    BY InvFacts DEF interval_passes
  <2>2. dues[p] + 1 \in 0 .. MaxDue BY <2>1, TransportAssumption
  <2> QED BY <2>1, <2>2
<1> HIDE DEF e
<1>3. r \in End BY <1>1, Zenon DEF End
<1>4. /\ r.phase = e.phase /\ r.accept = e.accept /\ r.server = e.server /\ r.rcvd = e.rcvd
      /\ r.failed = e.failed /\ r.after_authentication = e.after_authentication
      /\ Stays(e, r) /\ r.sent = e.sent /\ r.outgoing = e.outgoing /\ r.wire = e.wire
  BY <1>1 DEF End, Stays
<1> HIDE DEF r
<1>5. KexSent(r) = KexSent(e) /\ KexTaken(r) = KexTaken(e) BY <1>4, StaysStage
<1>6. Writes(e, r) BY <1>4, <1>5 DEF Writes
<1>7. EndOK(r)
  <2>1. r.keys = e.keys /\ r.rekeying = e.rekeying /\ Unstarted(r) <=> Unstarted(e)
    BY <1>4 DEF Stays, Unstarted
  <2>2. QueueOK(r) BY <1>1, <1>4, <2>1 DEF QueueOK, EndOK, Stays
  <2>3. Unstarted(r) <=> Unstarted(e) BY <1>4 DEF Stays, Unstarted
  <2>4. Handlers(r) <=> Handlers(e) BY <1>4, StaysStage DEF Handlers
  <2>5. r.keys = e.keys BY <1>4 DEF Stays
  <2> QED BY <1>1, <1>4, <2>2, <2>3, <2>4, <2>5, StaysStage DEF EndOK
<1>8. Coupled(end'["client"], end'["server"])
  <2>1. Coupled(end["client"], end["server"]) /\ end \in [Peer -> End] BY InvFacts DEF Inv
  <2> QED BY <1>1, <1>4, <2>1, CoupledSame, Peers DEF e
<1>9. Fresh(e, r) BY <1>4, NoNewKeys
<1> QED BY <1>9, <1>1, <1>2, <1>3, <1>4, <1>5, <1>6, <1>7, <1>8, OneEnd, InvFacts DEF e

(* The hand-over, and its absence: the server is in no exchange and has    *)
(* nothing queued.                                                         *)
LEMMA HandoverStep == ASSUME Inv, monitor_apply_keystate \/ no_privsep PROVE Inv' /\ Renewed
<1> DEFINE p == "server"
           e == end[p]
           a == [e EXCEPT !.phase = "postauth", !.done = TRUE, !.rekeying = FALSE,
                  !.outgoing = <<>>, !.newkeys = NoKeys,
                  !.sblocks = 0, !.rblocks = 0, !.due = FALSE, !.accept = {},
                  !.after_authentication = TRUE]
           b == [e EXCEPT !.phase = "postauth"]
<1>1. PICK r \in {a, b} : end' = [end EXCEPT ![p] = r]
  BY DEF monitor_apply_keystate, no_privsep, NoKeys
<1>2. e \in End /\ EndOK(e) /\ dues' = dues /\ manual' = manual /\ e.phase = "success" /\ p \in Peer
      /\ e.server
  BY InvFacts, Peers DEF monitor_apply_keystate, no_privsep
<1> HIDE DEF e
<1>3. Idle(e) /\ e.my = 1 /\ e.outgoing = <<>> /\ e.after_authentication
  BY <1>2 DEF EndOK, QueueOK, Idle, Late
<1>4. a \in End /\ b \in End
  <2>1. /\ {} \in SUBSET (KexType \cup {"EXT_INFO"}) /\ "postauth" \in Phase /\ 0 \in Nat
        /\ <<>> \in Seq(Packet) /\ NoKeys \in [in : Key, out : Key]
    BY EmptySeq DEF Phase, NoKeys, NoKey, Key
  <2>2. a \in End BY <1>2, <2>1, Zenon DEF End
  <2>3. b \in End BY <1>2, <2>1, Zenon DEF End
  <2> QED BY <2>2, <2>3
<1>5. /\ r.phase = "postauth" /\ r.server = e.server /\ r.rcvd = e.rcvd
      /\ r.failed = e.failed /\ r.after_authentication
      /\ Stays(e, r) /\ r.sent = e.sent /\ r.outgoing = e.outgoing /\ r.wire = e.wire
  <2>1. CASE r = a
    <3>1. /\ r.done = TRUE /\ r.rekeying = FALSE /\ r.newkeys = NoKeys /\ r.outgoing = <<>>
          /\ r.phase = "postauth" /\ r.server = e.server /\ r.rcvd = e.rcvd
          /\ r.failed = e.failed /\ r.after_authentication = TRUE /\ r.init_sent = e.init_sent
          /\ r.initial = e.initial /\ r.my = e.my /\ r.peer = e.peer /\ r.keys = e.keys
          /\ r.sent = e.sent /\ r.wire = e.wire
      BY <1>2, <2>1 DEF End
    <3>2. e.done \in BOOLEAN /\ e.rekeying \in BOOLEAN /\ e.done /\ ~e.rekeying /\ e.newkeys = NoKeys
      BY <1>2, <1>3, Fields DEF Idle, NoKeys
    <3> QED BY <1>3, <3>1, <3>2 DEF Stays
  <2>2. CASE r = b BY <1>2, <1>3, <2>2 DEF End, Stays
  <2> QED BY <2>1, <2>2
<1>6. r \in End BY <1>4
<1> HIDE DEF a, b
<1>7. KexSent(r) = KexSent(e) /\ KexTaken(r) = KexTaken(e) BY <1>5, StaysStage
<1>8. Writes(e, r) BY <1>5, <1>7 DEF Writes
<1>9. EndOK(r)
  <2>1. Idle(r) /\ r.my = 1 BY <1>3, <1>5, StaysStage
  <2>2. r.keys = e.keys /\ r.rekeying = e.rekeying BY <1>5 DEF Stays
  <2>3. QueueOK(r) BY <1>2, <1>5, <2>2 DEF QueueOK, EndOK
  <2> QED BY <1>2, <1>5, <2>1, <2>2, <2>3 DEF EndOK, Late
<1>10. Coupled(end'["client"], end'["server"])
  <2>1. Coupled(end["client"], end["server"]) /\ end \in [Peer -> End] BY <1>2, InvFacts DEF Inv
  <2> QED BY <1>1, <1>2, <1>5, <2>1, CoupledSame, Peers DEF Early, Late, e
<1>11. Fresh(e, r) BY <1>5, NoNewKeys
<1> QED BY <1>11, <1>1, <1>2, <1>5, <1>6, <1>7, <1>8, <1>9, <1>10, OneEnd, InvFacts DEF e

LEMMA ManualStep == ASSUME Inv, manual_rekey PROVE Inv' /\ Renewed
<1> DEFINE p == "client"
           e == end[p]
           r == kex_start_rekex(e)
<1>1. e \in End /\ EndOK(e) /\ dues' = dues /\ e.phase = "loop" /\ p \in Peer
      /\ end' = [end EXCEPT ![p] = r] /\ ~ssh_packet_is_rekeying(e)
  BY InvFacts, Peers DEF manual_rekey
<1>2. manual' \in 0 .. MaxManual
  <2>1. manual \in 0 .. MaxManual /\ manual < MaxManual /\ manual' = manual + 1
    BY <1>1, InvFacts DEF manual_rekey
  <2> QED BY <2>1, TransportAssumption
<1> HIDE DEF e
<1>3. Idle(e) BY <1>1 DEF EndOK, ssh_packet_is_rekeying, Begun, Met, Sealed
<1>4. /\ r \in End /\ Begun(r) /\ r.my = e.my + 1 /\ Same(e, r)
      /\ r.accept = e.accept /\ r.sent = e.sent /\ r.outgoing = e.outgoing
      /\ Wrote(e, r) /\ KexTaken(r) = KexTaken(e)
  BY <1>1, <1>3, Rekex
<1> HIDE DEF r
<1>5. Writes(e, r) BY <1>1, <1>4, WroteWrites
<1>6. EndOK(r)
  <2>1. /\ r.phase = "loop" /\ r.accept = {"KEXINIT"} /\ ~r.failed /\ r.after_authentication
        /\ r.rcvd = e.rcvd /\ r.server = e.server
    BY <1>1, <1>3, <1>4 DEF Same, EndOK, Handlers, Late
  <2>2. ~Idle(r) /\ ~Met(r) /\ ~Sealed(r) BY <1>4, Exclusive
  <2>3. r.keys.out.c = e.my /\ e.keys.out.c = e.my /\ e.my \in Nat /\ e.my >= 1 /\ r.my >= 2
    BY <1>1, <1>3, <1>4, StageKeys, Fields
  <2>4. QueueOK(r) BY <1>1, <1>4 DEF QueueOK, EndOK, Begun
  <2>5. r.server => r.sent - Len(r.outgoing) >= 1 BY <1>1, <1>4, <2>1, <2>3 DEF EndOK
  <2>6. ~r.server => r.rcvd >= 1 BY <1>1, <2>1 DEF EndOK, Late
  <2> QED BY <1>4, <2>1, <2>2, <2>3, <2>4, <2>5, <2>6 DEF EndOK, Late, Handlers
<1>7. Coupled(end'["client"], end'["server"])
  <2>1. Coupled(end["client"], end["server"]) /\ end \in [Peer -> End] BY <1>1, InvFacts DEF Inv
  <2>2. r.phase = e.phase BY <1>4 DEF Same
  <2> QED BY <1>1, <2>1, <2>2, CoupledSame, Peers DEF e
<1>8. r.server = e.server /\ r.rcvd = e.rcvd BY <1>4 DEF Same
<1>9. dues' \in [Peer -> 0 .. MaxDue] BY <1>1, InvFacts
<1>10. Fresh(e, r) BY <1>4, NoNewKeys
<1> QED BY <1>10, <1>1, <1>2, <1>4, <1>5, <1>6, <1>7, <1>8, <1>9, OneEnd DEF e

(* An end that stays in its phase and its stage, or begins a rekey where   *)
(* that is allowed, is as it should be.                                    *)
LEMMA EndKept ==
  ASSUME NEW e \in End, NEW r \in End, EndOK(e), Same(e, r), r.accept = e.accept, QueueOK(r),
         \/ Stays(e, r)
         \/ /\ Idle(e) /\ Begun(r) /\ r.my = e.my + 1
            /\ e.phase \in Late /\ (e.server => e.phase # "success"),
         r.keys.out.c = 0 => r.sent = 0,
         r.sent - Len(r.outgoing) >= e.sent - Len(e.outgoing)
  PROVE  EndOK(r)
<1>1. /\ r.server = e.server /\ r.phase = e.phase /\ r.rcvd = e.rcvd /\ r.failed = e.failed
      /\ r.after_authentication = e.after_authentication
  BY DEF Same
<1>2. /\ e.my \in Nat /\ r.my \in Nat /\ r.sent \in Nat /\ e.sent \in Nat
      /\ Len(r.outgoing) \in Nat /\ Len(e.outgoing) \in Nat
  BY Fields
<1>3. CASE Stays(e, r)
  <2>1. (Unstarted(r) <=> Unstarted(e)) /\ r.keys = e.keys BY <1>3 DEF Stays, Unstarted
  <2>2. Handlers(r) <=> Handlers(e) BY <1>1, <1>3, StaysStage DEF Handlers
  <2>3. r.server /\ r.keys.out.c >= 1 => r.sent - Len(r.outgoing) >= 1
    BY <1>1, <1>2, <2>1 DEF EndOK
  <2> QED BY <1>1, <1>3, <2>1, <2>2, <2>3, StaysStage DEF EndOK
<1>4. CASE /\ Idle(e) /\ Begun(r) /\ r.my = e.my + 1
           /\ e.phase \in Late /\ (e.server => e.phase # "success")
  <2>1. ~Idle(r) /\ ~Met(r) /\ ~Sealed(r) BY <1>4, Exclusive
  <2>2. e.keys.out.c = e.my /\ e.my >= 1 /\ r.my >= 2 BY <1>2, <1>4, StageKeys
  <2>3. r.server /\ r.keys.out.c >= 1 => r.sent - Len(r.outgoing) >= 1
    BY <1>1, <1>2, <2>2 DEF EndOK
  <2>4. e.phase = "loop" => Handlers(r) BY <1>4, <2>1 DEF EndOK, Handlers
  <2>5. e.phase \in {"success", "postauth"} => r.my = 2
    BY <1>4, Exclusive DEF EndOK
  <2>6. e.phase \notin {"start", "kex", "auth"} BY <1>4 DEF Late
  <2> QED BY <1>1, <1>4, <2>1, <2>2, <2>3, <2>4, <2>5, <2>6 DEF EndOK
<1> QED BY <1>3, <1>4

(* What is sent in a phase where no exchange is going on. *)
LEMMA SuccessStep == ASSUME Inv, send_userauth_success PROVE Inv' /\ Renewed
<1> DEFINE p == "server"
           e == end[p]
           t == "SUCCESS"
           x == Numbered(e, t)
           r == [x EXCEPT !.phase = "success"]
<1>1. e \in End /\ EndOK(e) /\ dues' = dues /\ manual' = manual /\ e.phase = "auth" /\ p \in Peer
      /\ e.server
  BY InvFacts, Peers DEF send_userauth_success
<1>2. end' = [end EXCEPT ![p] = [ssh_packet_send2(e, t, e.sent + 1) EXCEPT
                                   !.sent = @ + 1, !.phase = "success"]]
  BY DEF send_userauth_success
<1>3. Idle(e) /\ e.my = 1 /\ QueueOK(e) /\ ~e.after_authentication /\ ~e.rekeying
  BY <1>1 DEF EndOK, Late, Idle
<1>4. e.keys.out = Pair(e.my) /\ e.keys.out.c = 1 /\ e.outgoing = <<>> /\ Len(e.outgoing) = 0
  BY <1>1, <1>3, StageKeys DEF QueueOK
<1>5. e.sent \in Nat /\ e.sent >= 1 BY <1>1, <1>4, Fields DEF EndOK
<1>6. ~ssh_packet_need_rekeying(e, BlockSize) BY <1>3 DEF ssh_packet_need_rekeying
<1>7. t \in UpperType /\ t # "EXT_INFO" BY DEF UpperType
<1>8. r = [ssh_packet_send2(e, t, e.sent + 1) EXCEPT !.sent = @ + 1, !.phase = "success"]
  BY DEF Numbered
<1>9. end' = [end EXCEPT ![p] = r] BY <1>2, <1>8
<1> HIDE DEF e, t
<1>10. e.my >= 1 BY <1>3
<1>11. t = "EXT_INFO" <=> (e.server /\ e.sent = 0) BY <1>5, <1>7
<1>12. /\ x \in End /\ x.server = e.server /\ x.phase = e.phase /\ x.rcvd = e.rcvd
       /\ x.failed = e.failed /\ x.accept = e.accept /\ Stays(e, x)
       /\ x.after_authentication = (e.after_authentication \/ t = "SUCCESS")
       /\ x.sent = e.sent + 1 /\ x.outgoing = <<>>
       /\ t # "SUCCESS" => Successes(x.wire) = Successes(e.wire)
       /\ t = "SUCCESS" => Successes(x.wire) = Successes(e.wire) \cup {Len(e.wire) + 1}
       /\ \A a, first \in Int :
            Stream(e.wire, e.server, a, KexSent(e), first, e.sent) =>
            Stream(x.wire, e.server, a, KexSent(x), first, e.sent + 1)
  <2>1. t = "SUCCESS" => e.server /\ e.my = 1 BY <1>1, <1>3
  <2> QED BY <1>1, <1>3, <1>4, <1>6, <1>7, <1>10, <1>11, <2>1, SendNow
<1> HIDE DEF x
<1>13. r \in End
  <2>1. "success" \in Phase BY DEF Phase
  <2> QED BY <2>1, <1>12, Zenon DEF End
<1>14. /\ r.server = x.server /\ r.phase = "success" /\ r.rcvd = x.rcvd /\ r.failed = x.failed
       /\ r.accept = x.accept /\ Stays(x, r) /\ r.after_authentication = x.after_authentication
       /\ r.sent = x.sent /\ r.outgoing = x.outgoing /\ r.wire = x.wire
  BY <1>12 DEF End, Stays
<1> HIDE DEF r
<1>15. Stays(e, r) BY <1>12, <1>14 DEF Stays
<1>16. KexSent(r) = KexSent(x) /\ KexTaken(r) = KexTaken(e)
  BY <1>12, <1>14, <1>15, StaysStage
<1>17. r.sent = e.sent + 1 /\ r.outgoing = <<>> /\ Len(r.outgoing) = 0 /\ r.server = e.server
  BY <1>12, <1>14
<1>18. Writes(e, r)
  <2>1. e.sent - Len(e.outgoing) = e.sent /\ r.sent - Len(r.outgoing) = e.sent + 1
    BY <1>4, <1>5, <1>17
  <2> QED BY <1>12, <1>14, <1>16, <1>17, <2>1 DEF Writes
<1>19. EndOK(r)
  <2>1. Idle(r) /\ r.my = 1 /\ r.keys = e.keys /\ r.rekeying = e.rekeying
    BY <1>3, <1>15, StaysStage DEF Stays
  <2>2. QueueOK(r) BY <1>5, <1>17 DEF QueueOK
  <2>3. r.failed = e.failed /\ r.after_authentication BY <1>12, <1>14 DEF t
  <2>4. r.sent - Len(r.outgoing) >= 1 BY <1>5, <1>17
  <2> QED BY <1>1, <1>4, <1>14, <1>17, <2>1, <2>2, <2>3, <2>4 DEF EndOK, Late
<1>20. Coupled(end'["client"], end'["server"])
  <2> DEFINE c == end["client"]
  <2>1. Coupled(c, e) /\ end \in [Peer -> End] /\ c \in End BY <1>1, InvFacts, Peers DEF Inv, e
  <2>2. end'["client"] = c /\ end'["server"] = r BY <2>1, <1>9, Peers
  <2>3. e.phase \in Early /\ e.phase \notin Late /\ r.phase \in Late
    BY <1>1, <1>14, PhaseSplit DEF Late
  <2>4. Successes(e.wire) = {} /\ c.phase \in Early
    <3>1. c.phase \notin Late /\ Successes(e.wire) = {} BY <2>1, <2>3 DEF Coupled
    <3> QED BY <3>1, <2>1, Fields, PhaseSplit
  <2>5. Successes(r.wire) = {Len(e.wire) + 1} BY <1>12, <1>14, <2>4 DEF t
  <2> HIDE DEF c
  <2>6. Coupled(c, r) BY <2>3, <2>4, <2>5, PhaseSplit DEF Coupled, Early, Late
  <2> QED BY <2>2, <2>6
<1>21. r.rcvd = e.rcvd BY <1>12, <1>14
<1>22. Fresh(e, r) BY <1>15, NoNewKeys
<1> QED BY <1>22, <1>1, <1>9, <1>13, <1>16, <1>17, <1>18, <1>19, <1>20, <1>21, OneEnd, InvFacts DEF e

LEMMA DataStep == ASSUME Inv, NEW p \in Peer, send_data(p) PROVE Inv' /\ Renewed
<1> DEFINE e == end[p]
           t == "DATA"
           r == Numbered(e, t)
<1>1. e \in End /\ EndOK(e) /\ dues' = dues /\ manual' = manual /\ end' = [end EXCEPT ![p] = r]
      /\ (e.phase \in {"auth", "postauth", "loop"} \/ (p = "client" /\ e.phase = "success"))
  BY InvFacts DEF send_data, Numbered
<1>2. e.server = (p = "server") /\ QueueOK(e) /\ Staged(e) BY <1>1, InvFacts DEF EndOK, Staged
<1> HIDE DEF e, t
<1>3. e.keys.out.c \in Nat /\ e.sent \in Nat /\ Len(e.outgoing) \in Nat /\ e.my \in Nat
  BY <1>1, Fields
<1>4. e.keys.out.c >= 1
  <2>1. e.phase = "loop" /\ ~Idle(e) => e.my >= 2 BY <1>1 DEF EndOK
  <2>2. e.phase # "loop" => Idle(e) \/ (Begun(e) /\ e.my = 2) BY <1>1 DEF EndOK
  <2> QED BY <1>1, <1>2, <1>3, <2>1, <2>2, StageKeys DEF Staged
<1>5. t = "DATA" /\ t \in UpperType /\ t # "EXT_INFO" /\ t # "SUCCESS" BY DEF UpperType, t
<1>6. /\ r \in End /\ Same(e, r) /\ r.accept = e.accept /\ QueueOK(r)
      /\ \/ Stays(e, r)
         \/ /\ Idle(e) /\ Begun(r) /\ r.my = e.my + 1
            /\ e.after_authentication
      /\ r.sent - Len(r.outgoing) >= e.sent - Len(e.outgoing)
      /\ KexTaken(r) = KexTaken(e) /\ Writes(e, r) /\ Successes(r.wire) = Successes(e.wire)
  <2>1. CASE e.rekeying \/ ssh_packet_need_rekeying(e, BlockSize)
    <3>1. /\ r \in End /\ Same(e, r) /\ r.accept = e.accept /\ QueueOK(r)
          /\ \/ Stays(e, r)
             \/ Idle(e) /\ e.after_authentication /\ Begun(r) /\ r.my = e.my + 1
          /\ r.sent = e.sent + 1 /\ r.sent - Len(r.outgoing) = e.sent - Len(e.outgoing)
          /\ Wrote(e, r) /\ KexTaken(r) = KexTaken(e)
      BY <1>1, <1>2, <1>5, <2>1, SendLater
    <3>2. Writes(e, r) BY <1>1, <3>1, WroteWrites
    <3>3. Successes(r.wire) = Successes(e.wire) BY <3>1 DEF Wrote
    <3> QED BY <3>1, <3>2, <3>3, <1>3
  <2>2. CASE ~(e.rekeying \/ ssh_packet_need_rekeying(e, BlockSize))
    <3>1. ~e.rekeying /\ ~ssh_packet_need_rekeying(e, BlockSize) BY <2>2
    <3>2. e.outgoing = <<>> /\ Len(e.outgoing) = 0 BY <1>2, <3>1 DEF QueueOK
    <3>3. e.my >= 1 /\ e.keys.out = Pair(e.my)
      <4>1. Idle(e) \/ Sealed(e) BY <1>2, <3>1 DEF Staged, Begun, Met
      <4> QED BY <4>1, <1>1, StageKeys
    <3>4. e.server => e.sent >= 1 BY <1>1, <1>3, <1>4, <3>2 DEF EndOK
    <3>5. t = "EXT_INFO" <=> (e.server /\ e.sent = 0) BY <1>3, <1>5, <3>4
    <3>6. t = "SUCCESS" => e.server /\ e.my = 1 BY <1>5
    <3>7. /\ r \in End /\ r.server = e.server /\ r.phase = e.phase /\ r.rcvd = e.rcvd
          /\ r.failed = e.failed /\ r.accept = e.accept /\ Stays(e, r)
          /\ r.after_authentication = (e.after_authentication \/ t = "SUCCESS")
          /\ r.sent = e.sent + 1 /\ r.outgoing = <<>>
          /\ t # "SUCCESS" => Successes(r.wire) = Successes(e.wire)
          /\ t = "SUCCESS" => Successes(r.wire) = Successes(e.wire) \cup {Len(e.wire) + 1}
          /\ \A a, first \in Int :
               Stream(e.wire, e.server, a, KexSent(e), first, e.sent) =>
               Stream(r.wire, e.server, a, KexSent(r), first, e.sent + 1)
      BY <1>1, <1>2, <1>5, <3>1, <3>3, <3>5, <3>6, SendNow
    <3> HIDE DEF r
    <3>8. Same(e, r) /\ KexTaken(r) = KexTaken(e)
      <4>1. e.after_authentication \in BOOLEAN BY <1>1, Fields
      <4> QED BY <3>7, <1>5, <4>1, StaysStage DEF Same
    <3>9. Len(r.outgoing) = 0 BY <3>7
    <3>10. QueueOK(r) BY <3>7, <3>9, <1>3 DEF QueueOK
    <3>11. e.sent - Len(e.outgoing) = e.sent /\ r.sent - Len(r.outgoing) = e.sent + 1
      BY <1>3, <3>2, <3>7, <3>9
    <3>12. Writes(e, r) BY <3>7, <3>11 DEF Writes
    <3>13. r.sent - Len(r.outgoing) >= e.sent - Len(e.outgoing) BY <1>3, <3>11
    <3> QED BY <1>5, <3>7, <3>8, <3>10, <3>12, <3>13
  <2> QED BY <2>1, <2>2
<1> HIDE DEF r
<1>7. EndOK(r)
  <2>1. e.after_authentication => e.phase \in Late BY <1>1 DEF EndOK
  <2>2. e.server => e.phase # "success" BY <1>1, <1>2
  <2>3. r.keys.out.c # 0
    <3>1. CASE Stays(e, r) BY <3>1, <1>3, <1>4 DEF Stays
    <3>2. CASE Idle(e) /\ Begun(r) /\ r.my = e.my + 1
      <4>1. r.keys.out.c = r.my - 1 /\ e.my >= 1 BY <3>2, <1>1, <1>6, StageKeys
      <4> QED BY <4>1, <3>2, <1>3
    <3> QED BY <3>1, <3>2, <1>6
  <2> QED BY <1>1, <1>6, <2>1, <2>2, <2>3, EndKept
<1>8. Coupled(end'["client"], end'["server"])
  <2>1. Coupled(end["client"], end["server"]) /\ end \in [Peer -> End] BY InvFacts DEF Inv
  <2>2. r.phase = e.phase BY <1>6 DEF Same
  <2> QED BY <1>1, <1>6, <2>1, <2>2, CoupledSame, Peers DEF e
<1>9. r.server = e.server /\ r.rcvd = e.rcvd BY <1>6 DEF Same
<1>10. Fresh(e, r) BY <1>6, NoNewKeys
<1> QED BY <1>10, <1>1, <1>6, <1>7, <1>8, <1>9, OneEnd, InvFacts DEF e
-----------------------------------------------------------------------------
(* The next packet. *)

(* The next packet is encrypted with the key its reader uses, and of the   *)
(* key exchange it is the one its reader waits for.                        *)
LEMMA Expected ==
  ASSUME NEW e \in End, Staged(e), NEW m, Sendable(m, ~e.server),
         m.t \in KexType => Number(m) = KexTaken(e) + 1,
         m.t \in UpperType => Number(m) <= KexTaken(e) /\ KexTaken(e) <= Number(m) + 2
  PROVE  /\ m \in Packet /\ m.key = e.keys.in /\ m.key.c = e.keys.in.c
         /\ m.t \in KexType =>
              /\ Idle(e) => m.t = "KEXINIT" /\ m.n = e.my + 1
              /\ Begun(e) => m.t = "KEXINIT" /\ m.n = e.my
              /\ Met(e) => m.t = IF e.server THEN "KEX_INIT" ELSE "KEX_REPLY"
              /\ Sealed(e) => m.t = "NEWKEYS"
<1>1. /\ m \in Packet /\ m.key.c \in Nat /\ m.key.s = m.key.c /\ m.key \in Key /\ Number(m) \in Nat
      /\ m.t \in KexType \cup UpperType
      /\ m.t \in UpperType => Number(m) = 3 * m.key.c
      /\ m.t \in KexType => Number(m) \in 3 * m.key.c + 1 .. 3 * m.key.c + 3
  BY NumberType DEF Sendable
<1>2. /\ e.my \in Nat /\ e.keys.in.c \in Nat /\ KexTaken(e) \in Nat BY Fields
<1>3. /\ Idle(e) \/ Begun(e) => KexTaken(e) = 3 * e.keys.in.c
      /\ Met(e) => KexTaken(e) = 3 * e.keys.in.c + 1
      /\ Sealed(e) => KexTaken(e) = 3 * e.keys.in.c + 2
  BY <1>2 DEF KexTaken, Idle, Begun, Met, Sealed
<1>4. m.key.c = e.keys.in.c
  <2>1. CASE m.t \in UpperType BY <2>1, <1>1, <1>2, <1>3 DEF Staged
  <2>2. CASE m.t \in KexType BY <2>2, <1>1, <1>2, <1>3 DEF Staged
  <2> QED BY <2>1, <2>2, <1>1
<1>5. m.key = e.keys.in
  <2>1. e.keys.in = Pair(e.keys.in.c)
    BY StageKeys DEF Staged
  <2>2. m.key = Pair(m.key.c) BY <1>1 DEF Key, Pair
  <2> QED BY <2>1, <2>2, <1>4
<1>6. ASSUME m.t \in KexType
      PROVE  /\ Idle(e) => m.t = "KEXINIT" /\ m.n = e.my + 1
             /\ Begun(e) => m.t = "KEXINIT" /\ m.n = e.my
             /\ Met(e) => m.t = IF e.server THEN "KEX_INIT" ELSE "KEX_REPLY"
             /\ Sealed(e) => m.t = "NEWKEYS"
  <2>1. Number(m) = 3 * e.keys.in.c + Step[m.t] BY <1>4 DEF Number
  <2>2. Step[m.t] \in 1 .. 3 BY <1>6, StepValue
  <2>3. Step[m.t] = KexTaken(e) + 1 - 3 * e.keys.in.c BY <1>2, <1>6, <2>1, <2>2
  <2>4. /\ Step[m.t] = 1 => m.t = "KEXINIT"
        /\ Step[m.t] = 2 => m.t \in {"KEX_INIT", "KEX_REPLY"}
        /\ Step[m.t] = 3 => m.t = "NEWKEYS"
    BY <1>6, StepValue DEF KexType
  <2>5. Idle(e) \/ Begun(e) => m.t = "KEXINIT" BY <1>2, <1>3, <2>3, <2>4
  <2>6. Met(e) => m.t \in {"KEX_INIT", "KEX_REPLY"} BY <1>2, <1>3, <2>3, <2>4
  <2>7. Sealed(e) => m.t = "NEWKEYS" BY <1>2, <1>3, <2>3, <2>4
  <2>8. m.t = "KEXINIT" => m.n = e.keys.in.c + 1 BY <1>4 DEF Sendable
  <2>9. (Idle(e) => e.keys.in.c = e.my) /\ (Begun(e) => e.keys.in.c = e.my - 1) BY StageKeys
  <2>10. (m.t = "KEX_INIT" => e.server) /\ (m.t = "KEX_REPLY" => ~e.server) BY DEF Sendable
  <2>11. Met(e) => m.t = IF e.server THEN "KEX_INIT" ELSE "KEX_REPLY"
    BY <2>6, <2>10
  <2>12. Begun(e) => m.n = e.my BY <1>2, <2>5, <2>8, <2>9
  <2>13. Idle(e) => m.n = e.my + 1 BY <1>2, <2>5, <2>8, <2>9
  <2> QED BY <2>5, <2>7, <2>11, <2>12, <2>13
<1> QED BY <1>1, <1>4, <1>5, <1>6

(* What becomes of an end e that takes the packet m. *)
Taking(e, m) ==
  LET r == ssh_packet_read_poll2(e, m) IN IF r.failed THEN r ELSE Handle(r, m)
Takes(e, m, h) ==
  /\ h \in End /\ h.server = e.server /\ EndOK(h) /\ Writes(e, h)
  /\ Successes(h.wire) = Successes(e.wire) /\ Fresh(e, h)
  /\ KexTaken(h) = IF m.t \in KexType THEN KexTaken(e) + 1 ELSE KexTaken(e)
  /\ h.rcvd = IF m.t \in UpperType THEN e.rcvd + 1 ELSE e.rcvd
  /\ h.phase = IF m.t = "SUCCESS" THEN "success" ELSE e.phase

(* Reading a message of the key exchange, before its handler runs. *)
LEMMA ReadKex ==
  ASSUME NEW e \in End, EndOK(e), Staged(e), NEW m \in Packet, m.key = e.keys.in, m.t \in KexType
  PROVE  LET r == ssh_packet_read_poll2(e, m)
         IN  /\ r \in End /\ Same(e, r) /\ ~r.failed /\ QueueOK(r)
             /\ r.accept = e.accept /\ r.sent = e.sent /\ r.outgoing = e.outgoing
             /\ Wrote(e, r) /\ KexTaken(r) = KexTaken(e)
             /\ \/ Stays(e, r)
                \/ Idle(e) /\ Begun(r) /\ r.my = e.my + 1 /\ e.after_authentication
<1> DEFINE r == ssh_packet_read_poll2(e, m)
<1>1. /\ r \in End /\ r.server = e.server /\ r.phase = e.phase /\ r.rcvd = e.rcvd
      /\ r.failed = e.failed
      /\ r.after_authentication = (e.after_authentication \/ (m.t = "SUCCESS" /\ ~e.server))
      /\ r.accept = e.accept /\ r.sent = e.sent /\ r.outgoing = e.outgoing
      /\ Wrote(e, r) /\ KexTaken(r) = KexTaken(e)
      /\ \/ Stays(e, r)
         \/ Idle(e) /\ Begun(r) /\ r.my = e.my + 1 /\ r.after_authentication
  BY Read
<1> HIDE DEF r
<1>2. m.t # "SUCCESS" /\ e.after_authentication \in BOOLEAN BY Fields DEF KexType
<1>3. r.after_authentication = e.after_authentication BY <1>1, <1>2
<1>4. QueueOK(r) BY <1>1 DEF EndOK, QueueOK, Stays, Begun
<1>5. Same(e, r) /\ ~r.failed BY <1>1, <1>3 DEF Same, EndOK
<1> QED BY <1>1, <1>3, <1>4, <1>5 DEF r

(* An end that moves on in an exchange is as it should be. *)
LEMMA EndMoved ==
  ASSUME NEW e \in End, NEW h \in End, EndOK(e), Same(e, h), e.phase \in {"kex", "loop"},
         QueueOK(h), Idle(h) \/ Met(h) \/ Sealed(h), Handlers(h),
         e.phase = "kex" => h.my = 1, e.phase = "loop" /\ ~Idle(h) => h.my >= 2,
         h.keys.out.c = 0 => h.sent = 0,
         h.server /\ h.keys.out.c >= 1 => h.sent - Len(h.outgoing) >= 1
  PROVE  EndOK(h)
BY DEF Same, EndOK, Late

(* The peer's KEXINIT: the answer to one's own, the start of an exchange,  *)
(* or both at once.                                                        *)
LEMMA TakeKexinit ==
  ASSUME NEW e \in End, EndOK(e), e.phase = "loop" \/ (e.phase = "kex" /\ ~e.done),
         NEW m \in Packet, m.key = e.keys.in, m.t = "KEXINIT",
         (Idle(e) /\ m.n = e.my + 1) \/ (Begun(e) /\ m.n = e.my)
  PROVE  Takes(e, m, Taking(e, m))
<1> DEFINE r == ssh_packet_read_poll2(e, m)
           h == kex_input_kexinit(r, m.n)
<1>1. m.t \in KexType /\ m.t \notin UpperType /\ m.t # "SUCCESS" BY DEF KexType, UpperType
<1>2. /\ r \in End /\ Same(e, r) /\ ~r.failed /\ QueueOK(r)
      /\ r.accept = e.accept /\ r.sent = e.sent /\ r.outgoing = e.outgoing
      /\ Wrote(e, r) /\ KexTaken(r) = KexTaken(e)
      /\ \/ Stays(e, r)
         \/ Idle(e) /\ Begun(r) /\ r.my = e.my + 1 /\ e.after_authentication
  BY <1>1, ReadKex DEF Staged
<1> HIDE DEF r
<1>3. e.accept = {"KEXINIT"} BY DEF EndOK, Handlers
<1>4. (Idle(r) /\ m.n = r.my + 1) \/ (Begun(r) /\ m.n = r.my)
  BY <1>2, Exclusive, StaysStage
<1>5. m.n \in Nat BY NumberType
<1>6. /\ h \in End /\ Met(h) /\ h.my = m.n /\ Same(r, h)
      /\ h.accept = {IF r.server THEN "KEX_INIT" ELSE "KEX_REPLY"}
      /\ h.sent = r.sent /\ h.outgoing = r.outgoing
      /\ Wrote(r, h) /\ KexTaken(h) = KexTaken(r) + 1
  BY <1>2, <1>3, <1>4, <1>5, Meet
<1>7. Taking(e, m) = h
  <2>1. Taking(e, m) = Handle(r, m) BY <1>2 DEF Taking, r
  <2>2. m.t \in r.accept BY <1>2, <1>3
  <2> HIDE DEF h
  <2>3. Handle(r, m) = kex_input_kexinit(r, m.n) BY <2>2 DEF Handle
  <2> QED BY <2>1, <2>3 DEF h
<1> HIDE DEF h
<1>8. Same(e, h) /\ Wrote(e, h) BY <1>2, <1>6, WroteOn DEF Same
<1>9. Writes(e, h) /\ Successes(h.wire) = Successes(e.wire)
  BY <1>2, <1>6, <1>8, WroteWrites DEF Wrote
<1>10. Fresh(e, h) BY <1>6 DEF Fresh, Met
<1>11. EndOK(h)
  <2>1. ~Idle(h) /\ ~Begun(h) /\ ~Sealed(h) BY <1>6, Exclusive
  <2>2. h.server = r.server BY <1>6 DEF Same
  <2>3. Handlers(h) BY <1>6, <2>1, <2>2 DEF Handlers
  <2>4. QueueOK(h) BY <1>2, <1>6 DEF QueueOK, Met
  <2>5. e.my \in Nat /\ h.my \in Nat /\ h.keys.out.c = h.my - 1 /\ h.my >= 1
    BY <1>6, Fields, StageKeys
  <2>6. e.phase = "kex" => h.my = 1 /\ e.my = 1 /\ Begun(e)
    BY <1>6, Exclusive DEF EndOK, Idle
  <2>7. e.phase = "loop" => h.my >= 2 /\ e.my >= 1
    <3>1. CASE Idle(e) BY <3>1, <1>6, <2>5, StageKeys, Exclusive
    <3>2. CASE Begun(e)
      <4>1. m.n = e.my /\ ~Idle(e) BY <3>2, Exclusive
      <4> QED BY <4>1, <1>6, <2>5, <3>2 DEF EndOK
    <3> QED BY <3>1, <3>2
  <2>8. h.keys.out.c = e.keys.out.c
    <3>1. CASE Idle(e)
      <4>1. m.n = e.my + 1 /\ e.keys.out.c = e.my BY <3>1, Exclusive, StageKeys
      <4> QED BY <4>1, <1>6, <2>5
    <3>2. CASE Begun(e)
      <4>1. m.n = e.my /\ e.keys.out.c = e.my - 1 BY <3>2, Exclusive, StageKeys
      <4> QED BY <4>1, <1>6, <2>5
    <3> QED BY <3>1, <3>2
  <2>9. /\ h.keys.out.c = 0 => h.sent = 0
        /\ h.server /\ h.keys.out.c >= 1 => h.sent - Len(h.outgoing) >= 1
    BY <1>2, <1>6, <2>8, <1>8 DEF EndOK, Same
  <2>10. e.phase = "loop" => h.my >= 2 BY <2>7
  <2> QED BY <1>6, <1>8, <2>3, <2>4, <2>6, <2>10, <2>9, EndMoved
<1>12. h.server = e.server /\ h.rcvd = e.rcvd /\ h.phase = e.phase BY <1>8 DEF Same
<1> QED BY <1>1, <1>2, <1>6, <1>7, <1>9, <1>10, <1>11, <1>12 DEF Takes

(* The second message of the exchange: the keys are derived, NEWKEYS and   *)
(* the queue are sent.                                                     *)
LEMMA TakeReply ==
  ASSUME NEW e \in End, EndOK(e), e.phase = "loop" \/ (e.phase = "kex" /\ ~e.done),
         NEW m \in Packet, m.key = e.keys.in,
         m.t = IF e.server THEN "KEX_INIT" ELSE "KEX_REPLY", Met(e)
  PROVE  Takes(e, m, Taking(e, m))
<1> DEFINE r == ssh_packet_read_poll2(e, m)
           h == IF r.server THEN input_kex_gen_init(r) ELSE input_kex_gen_reply(r)
<1>1. m.t \in KexType /\ m.t \notin UpperType /\ m.t # "SUCCESS" BY DEF KexType, UpperType
<1>2. /\ r \in End /\ Same(e, r) /\ ~r.failed /\ QueueOK(r)
      /\ r.accept = e.accept /\ r.sent = e.sent /\ r.outgoing = e.outgoing
      /\ Wrote(e, r) /\ KexTaken(r) = KexTaken(e)
      /\ \/ Stays(e, r)
         \/ Idle(e) /\ Begun(r) /\ r.my = e.my + 1 /\ e.after_authentication
  BY <1>1, ReadKex DEF Staged
<1> HIDE DEF r
<1>3. e.accept = {m.t} BY DEF EndOK, Handlers
<1>4. Stays(e, r) /\ Met(r) /\ r.my = e.my /\ r.keys = e.keys
  BY <1>2, Exclusive, StaysStage DEF Stays
<1>5. e.my \in Nat /\ e.sent \in Nat /\ Len(e.outgoing) \in Nat /\ e.keys.out.c = e.my - 1 /\ e.my >= 1
  BY Fields, StageKeys
<1>6. ~Idle(e) BY Exclusive
<1>7. e.my = 1 => ~e.after_authentication /\ e.sent = 0 /\ Len(e.outgoing) = 0 /\ e.phase = "kex"
  BY <1>5, <1>6 DEF EndOK, Late, QueueOK
<1>8. e.server /\ e.my # 1 => e.sent - Len(e.outgoing) >= 1 BY <1>5 DEF EndOK
<1>9. r.server = e.server BY <1>2 DEF Same
<1>10. /\ h \in End /\ Same(r, h) /\ h.accept = {"NEWKEYS"} /\ Sealed(h) /\ h.my = r.my
       /\ h.outgoing = <<>>
       /\ h.sent = IF r.server /\ r.my = 1 THEN r.sent + 1 ELSE r.sent
       /\ Successes(h.wire) = Successes(r.wire)
       /\ KexTaken(h) = KexTaken(r) + 1
       /\ \A a, first \in Int :
            Stream(r.wire, r.server, a, KexSent(r), first, r.sent - Len(r.outgoing)) =>
            Stream(h.wire, r.server, a, KexSent(h), first, h.sent)
  <2>1. r.my = 1 => ~r.after_authentication /\ r.sent = 0 BY <1>2, <1>4, <1>7 DEF Same
  <2>2. r.server /\ r.my # 1 => r.sent - Len(r.outgoing) >= 1 BY <1>2, <1>4, <1>8, <1>9
  <2> QED BY <1>2, <1>4, <2>1, <2>2, Seal
<1>11. Taking(e, m) = h
  <2>1. Taking(e, m) = Handle(r, m) BY <1>2 DEF Taking, r
  <2>2. m.t \in r.accept BY <1>2, <1>3
  <2>3. m.t = IF r.server THEN "KEX_INIT" ELSE "KEX_REPLY" BY <1>9
  <2>4. CASE r.server
    <3>1. m.t = "KEX_INIT" BY <2>3, <2>4
    <3> HIDE DEF h
    <3>2. Handle(r, m) = input_kex_gen_init(r) BY <2>2, <3>1 DEF Handle
    <3> QED BY <2>1, <2>4, <3>2 DEF h
  <2>5. CASE ~r.server
    <3>1. m.t = "KEX_REPLY" BY <2>3, <2>5
    <3> HIDE DEF h
    <3>2. Handle(r, m) = input_kex_gen_reply(r) BY <2>2, <3>1 DEF Handle
    <3> QED BY <2>1, <2>5, <3>2 DEF h
  <2> QED BY <2>4, <2>5
<1> HIDE DEF h
<1>12. Same(e, h) BY <1>2, <1>10 DEF Same
<1>13. Len(h.outgoing) = 0 /\ h.sent \in Nat /\ h.sent - Len(h.outgoing) = h.sent
  BY <1>10, Fields
<1>14. Writes(e, h)
  <2>1. h.server = e.server BY <1>12 DEF Same
  <2>2. ASSUME NEW a \in Int, NEW first \in Int,
               Stream(e.wire, e.server, a, KexSent(e), first, e.sent - Len(e.outgoing))
        PROVE  Stream(h.wire, h.server, a, KexSent(h), first, h.sent - Len(h.outgoing))
    <3>1. e.sent - Len(e.outgoing) \in Int BY <1>5
    <3>2. Stream(r.wire, r.server, a, KexSent(r), first, r.sent - Len(r.outgoing))
      BY <1>2, <2>2, <3>1 DEF Wrote
    <3> QED BY <1>9, <1>10, <1>13, <2>1, <3>2
  <2> QED BY <2>2 DEF Writes
<1>15. Successes(h.wire) = Successes(e.wire) BY <1>2, <1>10 DEF Wrote
<1>16. Fresh(e, h)
  <2>1. ~h.done BY <1>10 DEF Sealed
  <2>3. h.keys.out = Pair(e.my) /\ e.keys.out = Pair(e.my - 1) BY <1>4, <1>10, StageKeys
  <2>2. e.my - 1 \in Nat BY <1>5
  <2> QED BY <1>5, <2>1, <2>2, <2>3, PairType DEF Fresh, Newer
<1>17. EndOK(h)
  <2>1. ~Idle(h) /\ ~Begun(h) /\ ~Met(h) BY <1>10, Exclusive
  <2>2. Handlers(h) BY <1>10, <2>1 DEF Handlers
  <2>3. QueueOK(h) BY <1>10, <1>13 DEF QueueOK
  <2>4. h.keys.out.c = e.my BY <1>4, <1>10, StageKeys
  <2>5. h.server => h.sent >= 1
    <3>1. h.sent = IF e.server /\ e.my = 1 THEN e.sent + 1 ELSE e.sent
      BY <1>2, <1>4, <1>9, <1>10
    <3>2. h.server = e.server BY <1>12 DEF Same
    <3> QED BY <1>5, <1>8, <3>1, <3>2
  <2>6. (e.phase = "kex" => h.my = 1) /\ (e.phase = "loop" => h.my >= 2)
    BY <1>4, <1>6, <1>10 DEF EndOK
  <2> QED BY <1>5, <1>10, <1>12, <1>13, <2>2, <2>3, <2>4, <2>5, <2>6, EndMoved
<1>18. h.server = e.server /\ h.rcvd = e.rcvd /\ h.phase = e.phase BY <1>12 DEF Same
<1> QED BY <1>1, <1>2, <1>10, <1>11, <1>14, <1>15, <1>16, <1>17, <1>18 DEF Takes

(* NEWKEYS: the exchange is over. *)
LEMMA TakeNewkeys ==
  ASSUME NEW e \in End, EndOK(e), e.phase = "loop" \/ (e.phase = "kex" /\ ~e.done),
         NEW m \in Packet, m.key = e.keys.in, m.t = "NEWKEYS", Sealed(e)
  PROVE  Takes(e, m, Taking(e, m))
<1> DEFINE r == ssh_packet_read_poll2(e, m)
           h == kex_input_newkeys(r)
<1>1. m.t \in KexType /\ m.t \notin UpperType /\ m.t # "SUCCESS" BY DEF KexType, UpperType
<1>2. /\ r \in End /\ Same(e, r) /\ ~r.failed /\ QueueOK(r)
      /\ r.accept = e.accept /\ r.sent = e.sent /\ r.outgoing = e.outgoing
      /\ Wrote(e, r) /\ KexTaken(r) = KexTaken(e)
      /\ \/ Stays(e, r)
         \/ Idle(e) /\ Begun(r) /\ r.my = e.my + 1 /\ e.after_authentication
  BY <1>1, ReadKex DEF Staged
<1> HIDE DEF r
<1>3. e.accept = {"NEWKEYS"} BY DEF EndOK, Handlers
<1>4. Sealed(r) /\ r.my = e.my BY <1>2, Exclusive, StaysStage
<1>5. /\ h \in End /\ Same(r, h) /\ h.accept = {"KEXINIT"} /\ Idle(h) /\ h.my = r.my
      /\ h.sent = r.sent /\ h.outgoing = r.outgoing
      /\ Wrote(r, h) /\ KexTaken(h) = KexTaken(r) + 1
  BY <1>2, <1>3, <1>4, Settle
<1>6. Taking(e, m) = h
  <2>1. Taking(e, m) = Handle(r, m) BY <1>2 DEF Taking, r
  <2>2. m.t \in r.accept BY <1>2, <1>3
  <2> HIDE DEF h
  <2>3. Handle(r, m) = kex_input_newkeys(r) BY <2>2 DEF Handle
  <2> QED BY <2>1, <2>3 DEF h
<1> HIDE DEF h
<1>7. Same(e, h) /\ Wrote(e, h) BY <1>2, <1>5, WroteOn DEF Same
<1>8. Writes(e, h) /\ Successes(h.wire) = Successes(e.wire)
  BY <1>2, <1>5, <1>7, WroteWrites DEF Wrote
<1>9. e.my \in Nat /\ e.my - 1 \in Nat /\ h.keys.out.c = e.my /\ e.keys.out.c = e.my /\ e.my >= 1
      /\ h.keys.in = Pair(e.my) /\ e.keys.in = Pair(e.my - 1) /\ ~e.rekeying
  BY <1>4, <1>5, Fields, StageKeys DEF Sealed
<1>10. Fresh(e, h) BY <1>9, PairType DEF Fresh, Newer
<1>11. EndOK(h)
  <2>1. ~Met(h) /\ ~Begun(h) /\ ~Sealed(h) BY <1>5, Exclusive
  <2>2. Handlers(h) BY <1>5, <2>1 DEF Handlers
  <2>3. QueueOK(h) BY <1>2, <1>5, <1>9 DEF QueueOK, EndOK
  <2>4. e.phase = "kex" => h.my = 1 BY <1>4, <1>5 DEF EndOK
  <2>5. /\ h.keys.out.c = 0 => h.sent = 0
        /\ h.server /\ h.keys.out.c >= 1 => h.sent - Len(h.outgoing) >= 1
    BY <1>2, <1>5, <1>7, <1>9 DEF EndOK, Same
  <2> QED BY <1>5, <1>7, <2>2, <2>3, <2>4, <2>5, EndMoved
<1>12. h.server = e.server /\ h.rcvd = e.rcvd /\ h.phase = e.phase BY <1>7 DEF Same
<1> QED BY <1>1, <1>2, <1>5, <1>6, <1>8, <1>10, <1>11, <1>12 DEF Takes

(* A packet of the upper layers: its reader is past its first exchange.    *)
(* EXT_INFO finds its handler, SUCCESS a client in authentication.         *)
LEMMA TakeUpper ==
  ASSUME NEW e \in End, EndOK(e), e.phase \in {"auth", "loop"} \/ (e.phase = "kex" /\ ~e.done),
         NEW m \in Packet, m.key = e.keys.in, m.key.c = e.keys.in.c,
         m.t \in UpperType, Sendable(m, ~e.server), m.n = e.rcvd + 1,
         m.t = "SUCCESS" => e.phase \in Early
  PROVE  Takes(e, m, Taking(e, m))
<1> DEFINE r == ssh_packet_read_poll2(e, m)
           a == IF m.t = "EXT_INFO" THEN r.accept \ {"EXT_INFO"} ELSE r.accept
           f == IF m.t = "SUCCESS" THEN "success" ELSE r.phase
           h == [r EXCEPT !.accept = a, !.phase = f, !.rcvd = r.rcvd + 1]
<1>1. m.t \notin KexType BY DEF KexType, UpperType
<1>2. e.my \in Nat /\ e.rcvd \in Nat /\ e.sent \in Nat /\ Len(e.outgoing) \in Nat
      /\ e.after_authentication \in BOOLEAN /\ e.server \in BOOLEAN /\ e.keys.out.c \in Nat
  BY Fields
<1>3. e.phase \in {"auth", "loop"}
  <2>1. SUFFICES ASSUME e.phase = "kex", ~e.done PROVE FALSE OBVIOUS
  <2>2. Begun(e) \/ Met(e) \/ Sealed(e) BY <2>1 DEF EndOK, Idle
  <2>3. e.my = 1 BY <2>1 DEF EndOK
  <2>4. e.keys.in.c = 0 BY <1>2, <2>2, <2>3, StageKeys
  <2> QED BY <2>4 DEF Sendable
<1>4. Staged(e) BY <1>3 DEF EndOK, Staged
<1>5. /\ r \in End /\ r.server = e.server /\ r.phase = e.phase /\ r.rcvd = e.rcvd
      /\ r.failed = e.failed
      /\ r.after_authentication = (e.after_authentication \/ (m.t = "SUCCESS" /\ ~e.server))
      /\ r.accept = e.accept /\ r.sent = e.sent /\ r.outgoing = e.outgoing
      /\ Wrote(e, r) /\ KexTaken(r) = KexTaken(e)
      /\ \/ Stays(e, r)
         \/ Idle(e) /\ Begun(r) /\ r.my = e.my + 1 /\ r.after_authentication
  BY <1>4, Read
<1> HIDE DEF r
<1>6. m.t = "EXT_INFO" => ~e.server /\ e.phase = "auth" /\ "EXT_INFO" \in e.accept
  <2>1. SUFFICES ASSUME m.t = "EXT_INFO" PROVE ~e.server /\ e.phase = "auth" /\ "EXT_INFO" \in e.accept
    OBVIOUS
  <2>2. ~e.server /\ m.n = 1 BY <2>1 DEF Sendable
  <2>3. e.rcvd = 0 BY <1>2, <2>2
  <2>4. e.phase = "auth" BY <1>3, <2>2, <2>3 DEF EndOK, Late
  <2> QED BY <2>2, <2>3, <2>4 DEF EndOK
<1>7. m.t = "SUCCESS" => ~e.server /\ e.phase = "auth" BY <1>3 DEF Sendable, Early
<1>8. Taking(e, m) = h
  <2>1. ~r.failed BY <1>5 DEF EndOK
  <2>2. Taking(e, m) = Handle(r, m) BY <2>1 DEF Taking, r
  <2>3. CASE m.t = "EXT_INFO"
    <3>1. Handle(r, m) = [r EXCEPT !.accept = @ \ {"EXT_INFO"}, !.rcvd = @ + 1]
      BY <2>3, <1>5, <1>6 DEF Handle
    <3>2. h = [r EXCEPT !.accept = r.accept \ {"EXT_INFO"}, !.phase = r.phase, !.rcvd = r.rcvd + 1]
      BY <2>3
    <3> HIDE DEF h
    <3> QED BY <3>1, <3>2, <2>2, <1>5 DEF End
  <2>4. CASE m.t = "SUCCESS"
    <3>1. Handle(r, m) = [r EXCEPT !.phase = "success", !.rcvd = @ + 1]
      BY <2>4, <1>1 DEF Handle
    <3>2. h = [r EXCEPT !.accept = r.accept, !.phase = "success", !.rcvd = r.rcvd + 1]
      BY <2>4
    <3> HIDE DEF h
    <3> QED BY <3>1, <3>2, <2>2, <1>5 DEF End
  <2>5. CASE m.t = "DATA"
    <3>1. Handle(r, m) = [r EXCEPT !.rcvd = @ + 1] BY <2>5, <1>1 DEF Handle
    <3>2. h = [r EXCEPT !.accept = r.accept, !.phase = r.phase, !.rcvd = r.rcvd + 1]
      BY <2>5
    <3> HIDE DEF h
    <3> QED BY <3>1, <3>2, <2>2, <1>5 DEF End
  <2> QED BY <2>3, <2>4, <2>5 DEF UpperType
<1>9. h \in End
  <2>1. r.accept \in SUBSET (KexType \cup {"EXT_INFO"}) /\ r.phase \in Phase BY <1>5, Fields
  <2>2. a \in SUBSET (KexType \cup {"EXT_INFO"}) BY <2>1
  <2>3. f \in Phase BY <2>1 DEF Phase
  <2>4. r.rcvd + 1 \in Nat BY <1>2, <1>5
  <2> HIDE DEF a, f
  <2> QED BY <1>5, <2>2, <2>3, <2>4, Zenon DEF End
<1>10. /\ h.server = r.server /\ h.phase = f /\ h.rcvd = r.rcvd + 1 /\ h.failed = r.failed
       /\ h.accept = a /\ Stays(r, h) /\ h.after_authentication = r.after_authentication
       /\ h.sent = r.sent /\ h.outgoing = r.outgoing /\ h.wire = r.wire
  <2> HIDE DEF a, f
  <2> QED BY <1>5 DEF End, Stays
<1> HIDE DEF h, a, f
<1>11. KexSent(h) = KexSent(r) /\ KexTaken(h) = KexTaken(r) BY <1>10, StaysStage
<1>12. Wrote(e, h) BY <1>5, <1>10, <1>11, WroteNothing, WroteOn
<1>13. Writes(e, h) /\ Successes(h.wire) = Successes(e.wire)
  BY <1>5, <1>10, <1>12, WroteWrites DEF Wrote
<1>14. h.phase = (IF m.t = "SUCCESS" THEN "success" ELSE e.phase) /\ h.rcvd = e.rcvd + 1
       /\ h.rcvd \in Nat /\ h.rcvd >= 1 /\ h.server = e.server
  BY <1>2, <1>5, <1>10 DEF f
<1>15. \/ Stays(e, h)
       \/ Idle(e) /\ Begun(h) /\ h.my = e.my + 1 /\ h.after_authentication
  <2>1. CASE Stays(e, r) BY <2>1, <1>10 DEF Stays
  <2>2. CASE Idle(e) /\ Begun(r) /\ r.my = e.my + 1 /\ r.after_authentication
    BY <2>2, <1>10, StaysStage
  <2> QED BY <2>1, <2>2, <1>5
<1>16. Fresh(e, h) BY <1>15 DEF Fresh, Stays, Begun
<1>17. QueueOK(h) BY <1>5, <1>10, <1>15 DEF EndOK, QueueOK, Stays, Begun
<1>18. h.sent = e.sent /\ h.outgoing = e.outgoing BY <1>5, <1>10
<1>19. h.keys.out.c = e.keys.out.c
  <2>1. CASE Stays(e, h) BY <2>1 DEF Stays
  <2>2. CASE Idle(e) /\ Begun(h) /\ h.my = e.my + 1
    <3>1. h.keys.out.c = h.my - 1 /\ e.keys.out.c = e.my BY <2>2, <1>9, StageKeys
    <3> QED BY <3>1, <2>2, <1>2
  <2> QED BY <2>1, <2>2, <1>15
<1>20. EndOK(h)
  <2>1. CASE e.phase = "auth" /\ m.t # "SUCCESS"
    <3>1. ~h.after_authentication BY <2>1, <1>5, <1>10 DEF EndOK, Late
    <3>2. Idle(h) /\ h.my = 1 BY <2>1, <3>1, <1>15, StaysStage DEF EndOK
    <3>3. h.phase = "auth" BY <2>1, <1>14
    <3> QED BY <2>1, <1>5, <1>10, <1>14, <1>17, <1>18, <1>19, <3>1, <3>2, <3>3 DEF EndOK, Late
  <2>2. CASE m.t = "SUCCESS"
    <3>1. ~e.server /\ e.phase = "auth" /\ h.after_authentication
      BY <2>2, <1>5, <1>7, <1>10
    <3>2. Idle(e) /\ e.my = 1 BY <3>1 DEF EndOK
    <3>3. (Idle(h) /\ h.my = 1) \/ (Begun(h) /\ h.my = 2) BY <3>2, <1>15, StaysStage
    <3>4. h.phase = "success" BY <2>2, <1>14
    <3> QED BY <1>5, <1>10, <1>14, <1>17, <1>18, <1>19, <3>1, <3>3, <3>4 DEF EndOK, Late
  <2>3. CASE e.phase = "loop" /\ m.t # "SUCCESS"
    <3>1. h.phase = "loop" /\ e.after_authentication /\ h.after_authentication
      BY <2>3, <1>5, <1>10, <1>14 DEF EndOK, Late
    <3>2. h.accept = e.accept BY <2>3, <1>5, <1>6, <1>10 DEF a
    <3>3. (Idle(h) \/ Begun(h) \/ Met(h) \/ Sealed(h)) /\ (~Idle(h) => h.my >= 2)
      <4>1. CASE Stays(e, h) BY <2>3, <4>1, StaysStage DEF EndOK
      <4>2. CASE Idle(e) /\ Begun(h) /\ h.my = e.my + 1 BY <4>2, <1>2, StageKeys
      <4> QED BY <4>1, <4>2, <1>15
    <3>4. Handlers(h)
      <4>1. CASE Stays(e, h) BY <2>3, <3>2, <4>1, <1>14, StaysStage DEF EndOK, Handlers
      <4>2. CASE Idle(e) /\ Begun(h)
        <5>1. ~Met(h) /\ ~Sealed(h) BY <4>2, <1>9, Exclusive
        <5> QED BY <2>3, <3>2, <4>2, <5>1 DEF EndOK, Handlers
      <4> QED BY <4>1, <4>2, <1>15
    <3> QED BY <1>5, <1>10, <1>14, <1>17, <1>18, <1>19, <3>1, <3>3, <3>4 DEF EndOK, Late
  <2> QED BY <2>1, <2>2, <2>3, <1>3
<1> QED BY <1>1, <1>5, <1>8, <1>9, <1>11, <1>13, <1>14, <1>16, <1>20 DEF Takes

LEMMA EarlySent ==
  ASSUME NEW e \in End, EndOK(e), e.phase \in Early PROVE KexSent(e) <= 3
<1>1. e.keys.out.c \in Nat /\ e.my \in Nat BY Fields
<1>2. CASE e.phase = "start"
  <2>1. e.keys.out.c = 0 /\ ~e.rekeying BY <1>2, StageKeys DEF EndOK, Unstarted
  <2> QED BY <2>1 DEF KexSent
<1>3. CASE e.phase \in {"kex", "auth"}
  <2>1. e.my = 1 /\ Staged(e) BY <1>3 DEF EndOK, Staged
  <2>2. CASE Idle(e) \/ Sealed(e)
    <3>1. e.keys.out.c = 1 /\ ~e.rekeying BY <2>1, <2>2, StageKeys DEF Idle, Sealed
    <3> QED BY <3>1 DEF KexSent
  <2>3. CASE Begun(e) \/ Met(e)
    <3>1. e.keys.out.c = 0 BY <1>1, <2>1, <2>3, StageKeys
    <3> QED BY <3>1 DEF KexSent
  <2> QED BY <2>1, <2>2, <2>3 DEF Staged
<1> QED BY <1>2, <1>3 DEF Early

(* The SUCCESS on a wire from which a packet is taken. *)
LEMMA SuccessesTail ==
  ASSUME NEW w \in Seq(Packet), w # <<>>, \A i, j \in Successes(w) : i = j
  PROVE  /\ \A i, j \in Successes(Tail(w)) : i = j
         /\ Head(w).t = "SUCCESS" => Successes(w) # {} /\ Successes(Tail(w)) = {}
         /\ Head(w).t # "SUCCESS" => (Successes(Tail(w)) = {} <=> Successes(w) = {})
<1> DEFINE v == Tail(w)
<1>1. /\ Len(w) \in Nat /\ Len(w) >= 1 /\ Len(v) = Len(w) - 1 /\ v \in Seq(Packet)
      /\ Head(w) = w[1] /\ \A i \in 1 .. Len(v) : v[i] = w[i + 1]
  OBVIOUS
<1> HIDE DEF v
<1>2. \A i \in 1 .. Len(v) : i + 1 \in 1 .. Len(w) /\ i + 1 # 1 /\ v[i] = w[i + 1] /\ i \in Int BY <1>1
<1>3. \A i \in 1 .. Len(w) : i = 1 \/ (i - 1 \in 1 .. Len(v) /\ w[i] = v[i - 1]) BY <1>1
<1>4. \A i \in Successes(v) : i + 1 \in Successes(w) /\ i + 1 # 1 /\ i \in Int BY <1>2 DEF Successes
<1>5. \A i \in Successes(w) : i = 1 \/ i - 1 \in Successes(v) BY <1>3 DEF Successes
<1>6. 1 \in Successes(w) <=> Head(w).t = "SUCCESS" BY <1>1 DEF Successes
<1>7. \A i, j \in Successes(v) : i = j
  <2> SUFFICES ASSUME NEW i \in Successes(v), NEW j \in Successes(v) PROVE i = j OBVIOUS
  <2>1. i + 1 = j + 1 /\ i \in Int /\ j \in Int BY <1>4
  <2> QED BY <2>1
<1>8. Head(w).t = "SUCCESS" => Successes(v) = {} BY <1>4, <1>6
<1>9. Head(w).t # "SUCCESS" => (Successes(v) = {} <=> Successes(w) = {}) BY <1>4, <1>5, <1>6
<1> QED BY <1>6, <1>7, <1>8, <1>9 DEF v

(* One end takes the packet m from the wire of the other.                  *)
LEMMA Received ==
  ASSUME Inv, NEW p \in Peer, Receive(p)
  PROVE  LET q == Other(p)
             m == Head(end[q].wire)
             h == end'[p]
         IN  /\ Takes(end[p], m, h) /\ end' \in [Peer -> End]
             /\ end'[q] = [end[q] EXCEPT !.wire = Tail(end[q].wire)]
             /\ end[q].wire # <<>>
             /\ m.t \in KexType \cup UpperType
             /\ m.t = "SUCCESS" => p = "client" /\ end[p].phase \in Early
<1> DEFINE q == Other(p)
           e == end[p]
           f == end[q]
           m == Head(f.wire)
           g == [f EXCEPT !.wire = Tail(f.wire)]
           h == Taking(e, m)
           last == f.sent - Len(f.outgoing)
<1>1. q \in Peer /\ q # p /\ Other(q) = p BY Peers
<1>2. e \in End /\ f \in End /\ EndOK(e) /\ EndOK(f) /\ Between(f, e) /\ end \in [Peer -> End]
  BY <1>1, InvFacts
<1>3. e.server \in BOOLEAN /\ f.server = ~e.server /\ (e.server <=> p = "server")
      /\ (~e.server <=> p = "client")
  <2>1. e.server \in BOOLEAN /\ f.server \in BOOLEAN BY <1>2, Fields
  <2>2. e.server = (p = "server") /\ f.server = (q = "server") BY <1>1, InvFacts
  <2>3. (p = "server" /\ q = "client") \/ (p = "client" /\ q = "server") BY Peers
  <2> HIDE DEF e, f, q
  <2> QED BY <2>1, <2>2, <2>3
<1>4. end' = [end EXCEPT ![q] = g, ![p] = h] /\ f.wire # <<>>
      /\ (e.phase \in {"auth", "loop"} \/ (e.phase = "kex" /\ ~e.done))
  <2>1. /\ f.wire # <<>> /\ (e.phase \in {"auth", "loop"} \/ (e.phase = "kex" /\ ~e.done))
        /\ end' = [end EXCEPT ![q].wire = Tail(@), ![p] = h]
    BY DEF Receive, Taking
  <2> HIDE DEF h
  <2> QED BY <1>1, <1>2, <2>1
<1>5. end'[q] = g /\ end'[p] = h /\ DOMAIN end' = Peer BY <1>1, <1>2, <1>4
<1>6. Stream(f.wire, f.server, KexTaken(e), KexSent(f), e.rcvd, last) BY <1>2 DEF Between
<1> HIDE DEF e, f, q, h
<1>7. /\ KexTaken(e) \in Int /\ KexSent(f) \in Int /\ e.rcvd \in Int /\ last \in Int /\ f.server \in BOOLEAN
      /\ f.wire \in Seq(Packet)
  BY <1>2, Fields
<1> HIDE DEF last
<1>8. /\ Sendable(m, f.server) /\ Tail(f.wire) \in Seq(Packet)
      /\ m.t \in KexType => Number(m) = KexTaken(e) + 1
      /\ m.t \in UpperType => Number(m) <= KexTaken(e) /\ KexTaken(e) <= Number(m) + 2 /\ m.n = e.rcvd + 1
  <2>1. Sendable(m, f.server) /\ Tail(f.wire) \in Seq(Packet) BY <1>4, <1>6, <1>7, Take
  <2> DEFINE w == f.wire
             k == KexTaken(e)
             b == KexSent(f)
             x == e.rcvd
  <2>4. Number(m) \in Nat /\ m.n \in Nat BY <2>1, NumberType DEF Sendable
  <2>5. m = Head(w) /\ w # <<>> /\ Stream(w, f.server, k, b, x, last) /\ x \in Int /\ k \in Int /\ b \in Int
    BY <1>4, <1>6, <1>7
  <2> HIDE DEF w, k, b, x, m
  <2>2. m.t \in KexType => Number(m) = k + 1 BY <1>7, <2>4, <2>5, Take
  <2>3. m.t \in UpperType => Number(m) <= k /\ k <= Number(m) + 2 BY <1>7, <2>4, <2>5, Take
  <2>6. m.t \in UpperType => m.n = x + 1
    <3>1. Head(w).t \in UpperType => Head(w).n = x + 1 BY <1>7, <2>5, NextUpper
    <3> QED BY <2>5, <3>1
  <2> QED BY <2>1, <2>2, <2>3, <2>6 DEF k, x
<1>9. g \in End BY <1>2, <1>8, Zenon DEF End
<1> HIDE DEF g, m
<1>10. Staged(e) BY <1>2, <1>4 DEF EndOK, Staged
<1>11. /\ m \in Packet /\ m.key = e.keys.in /\ m.key.c = e.keys.in.c
       /\ m.t \in KexType =>
              /\ Idle(e) => m.t = "KEXINIT" /\ m.n = e.my + 1
              /\ Begun(e) => m.t = "KEXINIT" /\ m.n = e.my
              /\ Met(e) => m.t = IF e.server THEN "KEX_INIT" ELSE "KEX_REPLY"
              /\ Sealed(e) => m.t = "NEWKEYS"
  BY <1>2, <1>3, <1>8, <1>10, Expected
<1>12. m.t \in KexType \cup UpperType BY <1>11, NumberType
<1>13. m = f.wire[1] /\ 1 \in 1 .. Len(f.wire) /\ Len(f.wire) \in Nat BY <1>4, <1>7 DEF m
<1>14. m.t = "SUCCESS" => p = "client" /\ e.phase \in Early
  <2>1. SUFFICES ASSUME m.t = "SUCCESS" PROVE p = "client" /\ e.phase \in Early OBVIOUS
  <2>2. f.server BY <2>1, <1>8 DEF Sendable
  <2>3. p = "client" /\ q = "server" BY <2>2, <1>3, Peers DEF q
  <2>4. Coupled(e, f) BY <2>3 DEF Inv, e, f
  <2>5. 1 \in Successes(f.wire) BY <2>1, <1>13 DEF Successes
  <2> QED BY <2>3, <2>4, <2>5 DEF Coupled
<1>15. m.t \in KexType => e.phase # "auth"
  <2>1. SUFFICES ASSUME m.t \in KexType, e.phase = "auth" PROVE FALSE OBVIOUS
  <2>2. Idle(e) /\ e.my = 1 BY <2>1, <1>2 DEF EndOK
  <2>3. m.t = "KEXINIT" /\ m.key.c = 1 BY <2>1, <2>2, <1>2, <1>11, StageKeys
  <2>4. Number(m) = 4 BY <2>3, StepValue DEF Number
  <2>5. KexSent(f) >= 4 BY <1>6, <1>13, <2>4 DEF Stream
  <2>6. f.phase \in Late
    <3>1. f.phase \notin Early BY <1>2, <1>7, <2>5, EarlySent
    <3> QED BY <3>1, <1>2, Fields, PhaseSplit
  <2>7. p = "client" /\ q = "server" /\ Coupled(e, f)
    <3>1. CASE p = "server"
      <4>1. q = "client" /\ Coupled(f, e) BY <3>1, Peers DEF Inv, e, f, q
      <4>2. e.phase \notin Late BY <2>1 DEF Late
      <4> QED BY <4>1, <4>2, <2>6 DEF Coupled
    <3>2. CASE p = "client" BY <3>2, Peers DEF Inv, e, f, q
    <3> QED BY <3>1, <3>2, Peers
  <2>8. PICK i \in 1 .. Len(f.wire) : f.wire[i].t = "SUCCESS"
    <3>1. Successes(f.wire) # {} BY <2>1, <2>6, <2>7, PhaseSplit DEF Coupled, Early
    <3> QED BY <3>1 DEF Successes
  <2>9. Sendable(f.wire[i], f.server) BY <1>6 DEF Stream
  <2>10. Number(f.wire[i]) = 3
    <3>1. "SUCCESS" \in UpperType BY DEF UpperType
    <3> QED BY <2>8, <2>9, <3>1, StepValue DEF Sendable, Number
  <2>11. i # 1 BY <2>3, <2>8, <1>13
  <2>12. Number(f.wire[1]) <= Number(f.wire[i]) BY <1>6, <1>13, <2>11 DEF Stream
  <2> QED BY <2>4, <2>10, <2>12, <1>13
<1>16. Takes(e, m, h)
  <2>1. CASE m.t \in UpperType
    BY <1>2, <1>3, <1>4, <1>8, <1>11, <1>14, <2>1, TakeUpper DEF h
  <2>2. CASE m.t \in KexType
    <3>1. e.phase = "loop" \/ (e.phase = "kex" /\ ~e.done) BY <1>4, <1>15, <2>2
    <3>2. CASE Idle(e) \/ Begun(e)
      <4>1. m.t = "KEXINIT" /\ ((Idle(e) /\ m.n = e.my + 1) \/ (Begun(e) /\ m.n = e.my))
        BY <1>11, <2>2, <3>2
      <4> QED BY <1>2, <1>11, <3>1, <4>1, TakeKexinit DEF h
    <3>3. CASE Met(e) BY <1>2, <1>11, <2>2, <3>1, <3>3, TakeReply DEF h
    <3>4. CASE Sealed(e) BY <1>2, <1>11, <2>2, <3>1, <3>4, TakeNewkeys DEF h
    <3> QED BY <3>2, <3>3, <3>4, <1>10 DEF Staged
  <2> QED BY <2>1, <2>2, <1>12
<1>17. end' \in [Peer -> End]
  <2>1. h \in End BY <1>16 DEF Takes
  <2> QED BY <2>1, <1>2, <1>4, <1>9
<1> QED BY <1>4, <1>5, <1>12, <1>14, <1>16, <1>17 DEF e, f, q, m, g

LEMMA ReceiveStep == ASSUME Inv, NEW p \in Peer, Receive(p) PROVE Inv' /\ Renewed
<1> DEFINE q == Other(p)
           e == end[p]
           f == end[q]
           m == Head(f.wire)
           g == [f EXCEPT !.wire = Tail(f.wire)]
           h == end'[p]
           last == f.sent - Len(f.outgoing)
<1>1. q \in Peer /\ q # p /\ Other(q) = p /\ \A x \in Peer : x = p \/ x = q BY Peers
<1>2. e \in End /\ f \in End /\ EndOK(e) /\ EndOK(f) /\ Between(f, e) /\ Between(e, f)
      /\ e.server = (p = "server") /\ f.server = (q = "server")
  BY <1>1, InvFacts
<1>3. /\ Takes(e, m, h) /\ end' \in [Peer -> End] /\ end'[q] = g /\ f.wire # <<>>
      /\ m.t \in KexType \cup UpperType
      /\ m.t = "SUCCESS" => p = "client" /\ e.phase \in Early
  BY Received
<1>4. /\ h \in End /\ h.server = e.server /\ EndOK(h) /\ Writes(e, h)
      /\ Successes(h.wire) = Successes(e.wire)
      /\ KexTaken(h) = IF m.t \in KexType THEN KexTaken(e) + 1 ELSE KexTaken(e)
      /\ h.rcvd = IF m.t \in UpperType THEN e.rcvd + 1 ELSE e.rcvd
      /\ h.phase = IF m.t = "SUCCESS" THEN "success" ELSE e.phase
  BY <1>3 DEF Takes
<1>5. dues' = dues /\ manual' = manual BY DEF Receive
<1>6. TypeOK' BY <1>3, <1>5, InvFacts DEF TypeOK
<1>7. g \in End BY <1>1, <1>3
<1> HIDE DEF e, f, q, last, h
<1>8. /\ Same(f, g) /\ Stays(f, g) /\ g.accept = f.accept /\ g.sent = f.sent
      /\ g.outgoing = f.outgoing /\ g.wire = Tail(f.wire)
  BY <1>2 DEF End, Same, Stays
<1> HIDE DEF g
<1>9. EndOK(g)
  <2>1. QueueOK(g) BY <1>2, <1>8 DEF EndOK, QueueOK, Stays
  <2>2. g.keys.out.c = 0 => g.sent = 0 BY <1>2, <1>8 DEF EndOK, Stays
  <2>3. g.sent - Len(g.outgoing) >= f.sent - Len(f.outgoing) BY <1>2, <1>8, Fields
  <2> QED BY <1>2, <1>7, <1>8, <2>1, <2>2, <2>3, EndKept
<1>10. KexSent(g) = KexSent(f) /\ KexTaken(g) = KexTaken(f) /\ g.server = f.server
       /\ g.rcvd = f.rcvd /\ g.phase = f.phase
  BY <1>8, StaysStage DEF Same
<1>11. Between(g, h)
  <2>1. /\ KexTaken(e) \in Int /\ KexSent(f) \in Int /\ e.rcvd \in Int /\ last \in Int
        /\ f.server \in BOOLEAN /\ e.server \in BOOLEAN
    BY <1>2, Fields DEF last
  <2>2. Stream(f.wire, f.server, KexTaken(e), KexSent(f), e.rcvd, last) BY <1>2 DEF Between, last
  <2>3. /\ m.t \in KexType =>
              Stream(Tail(f.wire), f.server, KexTaken(e) + 1, KexSent(f), e.rcvd, last)
        /\ m.t \in UpperType =>
              Stream(Tail(f.wire), f.server, KexTaken(e), KexSent(f), e.rcvd + 1, last)
    BY <1>3, <2>1, <2>2, Take
  <2>4. m.t \in KexType => m.t \notin UpperType BY DEF KexType, UpperType
  <2>5. Stream(Tail(f.wire), f.server, KexTaken(h), KexSent(f), h.rcvd, last)
    BY <1>3, <1>4, <2>3, <2>4
  <2>6. g.sent - Len(g.outgoing) = last BY <1>8 DEF last
  <2> QED BY <1>8, <1>10, <2>5, <2>6 DEF Between
<1>12. Between(h, g)
  <2>1. KexTaken(f) \in Int /\ f.rcvd \in Int BY <1>2, Fields
  <2> QED BY <1>2, <1>4, <1>10, <2>1 DEF Between, Writes
<1>13. Coupled(end'["client"], end'["server"])
  <2>1. CASE p = "server"
    <3>1. q = "client" /\ Coupled(f, e) BY <2>1, Peers DEF Inv, e, f, q
    <3>2. m.t # "SUCCESS" BY <1>3, <2>1
    <3>3. h.phase = e.phase BY <1>4, <3>2
    <3>4. Coupled(g, h) BY <1>4, <1>10, <3>1, <3>3, CoupledSame
    <3> QED BY <1>3, <2>1, <3>1, <3>4 DEF h
  <2>2. CASE p = "client"
    <3>1. q = "server" /\ Coupled(e, f) BY <2>2, Peers DEF Inv, e, f, q
    <3>2. f.wire \in Seq(Packet) /\ \A i, j \in Successes(f.wire) : i = j
      BY <1>2, <3>1, Fields DEF Coupled
    <3>3. /\ \A i, j \in Successes(Tail(f.wire)) : i = j
          /\ m.t = "SUCCESS" => Successes(f.wire) # {} /\ Successes(Tail(f.wire)) = {}
          /\ m.t # "SUCCESS" => (Successes(Tail(f.wire)) = {} <=> Successes(f.wire) = {})
      BY <1>3, <3>2, SuccessesTail
    <3>4. Coupled(h, g)
      <4>1. CASE m.t = "SUCCESS"
        <5>1. h.phase \in Late /\ h.phase \notin Early BY <4>1, <1>4 DEF Late, Early
        <5>2. g.phase \in Late BY <1>10, <3>1, <3>3, <4>1 DEF Coupled
        <5> QED BY <1>8, <3>3, <4>1, <5>1, <5>2 DEF Coupled
      <4>2. CASE m.t # "SUCCESS"
        <5>1. h.phase = e.phase BY <1>4, <4>2
        <5> QED BY <1>8, <1>10, <3>1, <3>3, <4>2, <5>1 DEF Coupled
      <4> QED BY <4>1, <4>2
    <3> QED BY <1>3, <2>2, <3>1, <3>4 DEF h
  <2> QED BY <2>1, <2>2, Peers
<1>14. \A x \in Peer : end'[x].server = (x = "server") /\ EndOK(end'[x])
  <2>1. end'[p].server = (p = "server") /\ EndOK(end'[p]) BY <1>2, <1>4 DEF h
  <2>2. end'[q].server = (q = "server") /\ EndOK(end'[q]) BY <1>2, <1>3, <1>9, <1>10
  <2> QED BY <1>1, <2>1, <2>2
<1>15. Between(end'[p], end'[q]) /\ Between(end'[q], end'[p]) BY <1>3, <1>11, <1>12 DEF h
<1>16. Between(end'["client"], end'["server"]) /\ Between(end'["server"], end'["client"])
  BY <1>15, Peers DEF q
<1>17. Inv' BY <1>6, <1>13, <1>14, <1>16 DEF Inv, Between
<1>18. Renewed
  <2>1. Fresh(end[p], end'[p]) BY <1>3 DEF Takes, e, h
  <2>2. Fresh(end[q], end'[q]) BY <1>3, <1>8, NoNewKeys DEF f
  <2> QED BY <1>1, <2>1, <2>2 DEF Renewed
<1> QED BY <1>17, <1>18
-----------------------------------------------------------------------------
(* The specification. *)

LEMMA InitInv == Init => Inv
<1> SUFFICES ASSUME Init PROVE Inv OBVIOUS
<1> DEFINE I(b) ==
       [server |-> b, phase |-> "start",
        rekeying |-> FALSE, after_authentication |-> FALSE, outgoing |-> <<>>,
        done |-> FALSE, init_sent |-> FALSE, initial |-> TRUE,
        my |-> 0, peer |-> 0, newkeys |-> [in |-> NoKey, out |-> NoKey],
        keys |-> [in |-> NoKey, out |-> NoKey], sblocks |-> 0, rblocks |-> 0,
        accept |-> {}, due |-> FALSE, sent |-> 0, rcvd |-> 0, failed |-> FALSE,
        wire |-> <<>>]
<1>1. \A p \in Peer : end[p] = I(p = "server") BY DEF Init
<1>2. DOMAIN end = Peer /\ dues = [p \in Peer |-> 0] /\ manual = 0 /\ end = [p \in Peer |-> I(p = "server")]
  BY DEF Init
<1>3. ASSUME NEW b \in BOOLEAN
      PROVE  /\ I(b) \in End /\ EndOK(I(b)) /\ I(b).server = b
             /\ I(b).wire = <<>> /\ KexTaken(I(b)) = 0 /\ KexSent(I(b)) = 0 /\ I(b).rcvd = 0
             /\ I(b).sent - Len(I(b).outgoing) = 0 /\ I(b).phase = "start"
  <2>1. <<>> \in Seq(Packet) /\ Len(<<>>) = 0 BY EmptySeq
  <2>2. NoKey \in Key /\ NoKey.c = 0 BY DEF NoKey, Key
  <2>3. I(b) \in End BY <2>1, <2>2 DEF End, Phase
  <2>4. Unstarted(I(b)) BY DEF Unstarted
  <2>5. QueueOK(I(b)) BY <2>1 DEF QueueOK
  <2>6. KexTaken(I(b)) = 0 /\ KexSent(I(b)) = 0 BY <2>2 DEF KexTaken, KexSent
  <2>7. EndOK(I(b)) BY <2>1, <2>2, <2>4, <2>5 DEF EndOK, Late
  <2> QED BY <2>1, <2>3, <2>6, <2>7
<1> HIDE DEF I
<1>4. \A p \in Peer : (p = "server") \in BOOLEAN OBVIOUS
<1>5. TypeOK
  <2>1. end \in [Peer -> End]
    <3>1. \A p \in Peer : end[p] \in End BY <1>1, <1>3, <1>4
    <3>2. end = [p \in Peer |-> end[p]] BY <1>2
    <3> QED BY <3>1, <3>2
  <2>2. 0 \in 0 .. MaxDue /\ 0 \in 0 .. MaxManual BY TransportAssumption
  <2> QED BY <2>1, <2>2, <1>2 DEF TypeOK
<1>6. \A p \in Peer : end[p].server = (p = "server") /\ EndOK(end[p]) BY <1>1, <1>3, <1>4
<1>7. ASSUME NEW b \in BOOLEAN PROVE Stream(<<>>, b, 0, 0, 0, 0)
  <2>1. <<>> \in Seq(Packet) /\ Len(<<>>) = 0 BY EmptySeq
  <2> QED BY <2>1 DEF Stream
<1>8. Between(end["client"], end["server"]) /\ Between(end["server"], end["client"])
  <2>1. "client" \in Peer /\ "server" \in Peer BY DEF Peer
  <2> QED BY <1>1, <1>3, <1>4, <1>7, <2>1 DEF Between
<1>9. Coupled(end["client"], end["server"])
  <2>1. end["client"].phase = "start" /\ end["server"].phase = "start" /\ end["server"].wire = <<>>
    BY <1>1, <1>3, <1>4, Peers
  <2>2. Successes(<<>>) = {} BY EmptySeq DEF Successes
  <2> QED BY <2>1, <2>2 DEF Coupled, Late
<1> QED BY <1>5, <1>6, <1>8, <1>9 DEF Inv

LEMMA NextInv == Inv /\ [Next]_vars => Inv' /\ (Renewed \/ UNCHANGED vars)
<1> SUFFICES ASSUME Inv, [Next]_vars PROVE Inv' /\ (Renewed \/ UNCHANGED vars) OBVIOUS
<1>1. CASE UNCHANGED vars
  BY <1>1 DEF vars, Inv, TypeOK, Between, Coupled
<1>2. CASE Next
  <2>1. ASSUME NEW p \in Peer, kex_setup(p) PROVE Inv' /\ Renewed BY <2>1, SetupStep
  <2>2. ASSUME NEW p \in Peer, start_userauth(p) PROVE Inv' /\ Renewed BY <2>2, UserauthStep
  <2>3. ASSUME NEW p \in Peer, init_dispatch(p) PROVE Inv' /\ Renewed BY <2>3, DispatchStep
  <2>4. ASSUME NEW p \in Peer, send_data(p) PROVE Inv' /\ Renewed BY <2>4, DataStep
  <2>5. ASSUME NEW p \in Peer, Receive(p) PROVE Inv' /\ Renewed BY <2>5, ReceiveStep
  <2>6. ASSUME NEW p \in Peer, interval_passes(p) PROVE Inv' /\ Renewed BY <2>6, IntervalStep
  <2>7. CASE send_userauth_success BY <2>7, SuccessStep
  <2>8. CASE monitor_apply_keystate \/ no_privsep BY <2>8, HandoverStep
  <2>9. CASE manual_rekey BY <2>9, ManualStep
  <2> QED BY <1>2, <2>1, <2>2, <2>3, <2>4, <2>5, <2>6, <2>7, <2>8, <2>9 DEF Next
<1> QED BY <1>1, <1>2

(* What lies on a wire is sound: between an end's KEXINIT and its NEWKEYS  *)
(* there is nothing else, and every packet is there once and in order.     *)
LEMMA StreamSound ==
  ASSUME NEW w, NEW server \in BOOLEAN, NEW a \in Int, NEW b \in Int,
         NEW first \in Int, NEW last \in Int, Stream(w, server, a, b, first, last)
  PROVE  /\ \A i \in DOMAIN w : w[i].t \in UpperType =>
              \A j \in 1 .. i : w[j].t = "KEXINIT" => \E k \in j .. i : w[k].t = "NEWKEYS"
         /\ \A i \in DOMAIN w : w[i].t \in UpperType => w[i].n \in first + 1 .. last
         /\ \A i, j \in DOMAIN w :
              w[i].t \in UpperType /\ w[j].t \in UpperType /\ i < j => w[i].n < w[j].n
<1>1. w \in Seq(Packet) /\ DOMAIN w = 1 .. Len(w) /\ Len(w) \in Nat BY DEF Stream
<1>2. \A i \in 1 .. Len(w) : w[i] \in Packet /\ w[i].n \in Nat /\ Number(w[i]) \in Nat
  BY <1>1, NumberType
<1>3. ASSUME NEW i \in 1 .. Len(w), w[i].t \in UpperType, NEW j \in 1 .. i, w[j].t = "KEXINIT"
      PROVE  \E k \in j .. i : w[k].t = "NEWKEYS"
  <2>1. j \in 1 .. Len(w) BY <1>1
  <2>2. "KEXINIT" \in KexType /\ w[j].t \in KexType /\ w[j].key.c \in Nat /\ w[i].key.c \in Nat
    BY <1>2, <1>3, <2>1, NumberType DEF KexType
  <2>3. i # j /\ j < i BY <1>2, <1>3, <2>1, <2>2, NumberType
  <2>4. Number(w[j]) <= Number(w[i]) /\ a < Number(w[j]) /\ Number(w[i]) <= b
    BY <2>1, <2>2, <2>3 DEF Stream
  <2>5. Number(w[i]) = 3 * w[i].key.c BY <1>2, <1>3, NumberType
  <2>6. Number(w[j]) = 3 * w[j].key.c + 1 BY <1>3, StepValue DEF Number
  <2> DEFINE x == 3 * w[j].key.c + 3
  <2>7. x \in Int /\ Number(w[j]) < x /\ x <= Number(w[i]) /\ a < x /\ x <= b
    <3> DEFINE cj == w[j].key.c
               ci == w[i].key.c
               nj == Number(w[j])
               ni == Number(w[i])
    <3>1. /\ cj \in Nat /\ ci \in Nat /\ nj = 3 * cj + 1 /\ ni = 3 * ci /\ nj <= ni /\ a < nj
          /\ ni <= b /\ x = 3 * cj + 3
      BY <2>2, <2>4, <2>5, <2>6
    <3> HIDE DEF cj, ci, nj, ni, x
    <3>2. x \in Int /\ nj < x /\ x <= ni /\ a < x /\ x <= b BY <3>1
    <3> QED BY <3>2 DEF nj, ni
  <2>8. PICK k \in 1 .. Len(w) : w[k].t \in KexType /\ Number(w[k]) = x BY <2>7 DEF Stream
  <2>9. w[k].t = "NEWKEYS"
    <3>1. w[k].key.c \in Nat /\ Step[w[k].t] \in 1 .. 3 /\ Number(w[k]) = 3 * w[k].key.c + Step[w[k].t]
      BY <1>2, <2>8, NumberType, StepValue DEF Number
    <3>2. Step[w[k].t] = 3
      <4> DEFINE cj == w[j].key.c
                 ck == w[k].key.c
                 st == Step[w[k].t]
      <4>1. cj \in Nat /\ ck \in Nat /\ st \in 1 .. 3 /\ 3 * ck + st = 3 * cj + 3
        BY <2>2, <2>8, <3>1
      <4> HIDE DEF cj, ck, st
      <4>2. st = 3 BY <4>1
      <4> QED BY <4>2 DEF st
    <3> QED BY <2>8, <3>2, StepValue DEF KexType
  <2>10. j <= k
    <3>1. SUFFICES ASSUME k < j PROVE FALSE OBVIOUS
    <3>2. Number(w[k]) < Number(w[j]) BY <2>1, <2>2, <3>1 DEF Stream
    <3> QED BY <1>2, <2>1, <2>7, <2>8, <3>2
  <2>11. k <= i
    <3>1. SUFFICES ASSUME i < k PROVE FALSE OBVIOUS
    <3>2. Number(w[i]) < Number(w[k]) BY <2>8, <3>1 DEF Stream
    <3> QED BY <1>2, <2>7, <2>8, <3>2
  <2> QED BY <2>9, <2>10, <2>11
<1>4. \A i \in 1 .. Len(w) : w[i].t \in UpperType => w[i].n \in first + 1 .. last
  <2>1. \A i \in 1 .. Len(w) : w[i].t \in UpperType => first < w[i].n /\ w[i].n <= last BY DEF Stream
  <2> QED BY <1>2, <2>1
<1>5. \A i, j \in 1 .. Len(w) :
        w[i].t \in UpperType /\ w[j].t \in UpperType /\ i < j => w[i].n < w[j].n
  BY DEF Stream
<1> QED BY <1>1, <1>3, <1>4, <1>5

LEMMA InvSound == Inv => TransportSound
<1> SUFFICES ASSUME Inv PROVE TransportSound OBVIOUS
<1>1. NoTransportError BY DEF Inv, EndOK, NoTransportError, Alive
<1>2. ASSUME NEW p \in Peer
      PROVE  LET f == end[Other(p)] IN
             /\ Stream(end[p].wire, end[p].server, KexTaken(f), KexSent(end[p]), f.rcvd,
                       end[p].sent - Len(end[p].outgoing))
             /\ end[p].server \in BOOLEAN /\ KexTaken(f) \in Int /\ KexSent(end[p]) \in Int
             /\ f.rcvd \in Int /\ end[p].sent - Len(end[p].outgoing) \in Int
             /\ end[p].outgoing \in Seq(Packet)
  <2>1. end[p] \in End /\ end[Other(p)] \in End /\ Between(end[p], end[Other(p)])
    BY InvFacts, Peers
  <2> QED BY <2>1, Fields DEF Between
<1>3. OnlyKexWhileRekeying
  BY <1>2, StreamSound DEF OnlyKexWhileRekeying
<1>4. NothingLost
  <2> SUFFICES ASSUME NEW p \in Peer
               PROVE  LET w == end[p].wire
                          q == end[p].outgoing
                          first == end[Other(p)].rcvd
                          last == end[p].sent - Len(q)
                          Upper == {i \in DOMAIN w : w[i].t \in UpperType}
                      IN  /\ first <= last
                          /\ \A i \in Upper : w[i].n \in first + 1 .. last
                          /\ \A i, j \in Upper : i < j => w[i].n < w[j].n
                          /\ \A n \in first + 1 .. last : \E i \in Upper : w[i].n = n
                          /\ \A i \in DOMAIN q : q[i].n = last + i
    BY DEF NothingLost
  <2> DEFINE w == end[p].wire
             q == end[p].outgoing
             first == end[Other(p)].rcvd
             last == end[p].sent - Len(q)
             sv == end[p].server
             a == KexTaken(end[Other(p)])
             b == KexSent(end[p])
  <2>1. Stream(w, sv, a, b, first, last) /\ q \in Seq(Packet) /\ sv \in BOOLEAN /\ a \in Int
        /\ b \in Int /\ first \in Int /\ last \in Int
    BY <1>2
  <2>2. first <= last BY <2>1 DEF Stream
  <2>6. \A i \in 1 .. Len(q) : q[i].n = last + i
    <3>1. QueueOK(end[p]) BY InvFacts DEF EndOK
    <3> QED BY <3>1 DEF QueueOK
  <2> HIDE DEF w, q, first, last, sv, a, b
  <2>3. \A i \in DOMAIN w : w[i].t \in UpperType => w[i].n \in first + 1 .. last
    BY <2>1, StreamSound
  <2>7. \A i, j \in DOMAIN w :
              w[i].t \in UpperType /\ w[j].t \in UpperType /\ i < j => w[i].n < w[j].n
    BY <2>1, StreamSound
  <2>8. \A n \in first + 1 .. last : \E i \in DOMAIN w : w[i].t \in UpperType /\ w[i].n = n
    <3> SUFFICES ASSUME NEW n \in first + 1 .. last
                 PROVE  \E i \in DOMAIN w : w[i].t \in UpperType /\ w[i].n = n
      OBVIOUS
    <3>1. n \in Int /\ first < n /\ n <= last BY <2>1
    <3>2. PICK i \in 1 .. Len(w) : w[i].t \in UpperType /\ w[i].n = n BY <2>1, <3>1 DEF Stream
    <3>3. w \in Seq(Packet) BY <2>1 DEF Stream
    <3>4. DOMAIN w = 1 .. Len(w) BY <3>3
    <3> QED BY <3>2, <3>4
  <2>4. \A i \in DOMAIN q : q[i].n = last + i
    <3>1. DOMAIN q = 1 .. Len(q) BY <2>1
    <3>2. \A i \in DOMAIN q : i \in 1 .. Len(q) BY <3>1, Zenon
    <3> QED BY <3>2, <2>6
  <2>5. LET Upper == {i \in DOMAIN w : w[i].t \in UpperType}
        IN  /\ \A i \in Upper : w[i].n \in first + 1 .. last
            /\ \A i, j \in Upper : i < j => w[i].n < w[j].n
            /\ \A n \in first + 1 .. last : \E i \in Upper : w[i].n = n
    BY <2>3, <2>7, <2>8
  <2> QED BY <2>2, <2>4, <2>5 DEF w, q, first, last
<1> QED BY <1>1, <1>3, <1>4 DEF TransportSound

(* Type correctness and the inductive invariant. *)
THEOREM TransportInvariant == Spec => []Inv
<1>1. Inv /\ [Next]_vars => Inv' BY NextInv
<1> QED BY <1>1, InitInv, PTL DEF Spec

(* For every rekey limit, interval and number of packets: no rekey ever    *)
(* breaks the connection, nothing but the key exchange is sent between     *)
(* KEXINIT and NEWKEYS, and nothing of the upper layers is lost, doubled   *)
(* or overtaken, across the hand-over to the post-authentication process.  *)
THEOREM TransportSafe == Spec => []TransportSound
BY TransportInvariant, InvSound, PTL

(* Both directions of a rekey end with keys to which both ends contributed *)
(* afresh.                                                                 *)
THEOREM KeysFresh == Spec => FreshKeys
<1>1. Inv /\ [Next]_vars =>
        [\A p \in Peer :
           /\ end[p].rekeying /\ ~end'[p].rekeying =>
                Newer(end'[p].keys.out, end[p].keys.out)
           /\ ~end[p].done /\ end'[p].done =>
                Newer(end'[p].keys.in, end[p].keys.in)]_vars
  BY NextInv DEF Renewed, Fresh
<1> QED BY <1>1, TransportInvariant, PTL DEF Spec, FreshKeys
=============================================================================
