------------------------------- MODULE Packet -------------------------------
(***************************************************************************)
(* The binary packet protocol of packet.c with cipher.c and mac.c, byte by *)
(* byte: framing, padding, encryption, message authentication, compression *)
(* and the hand-over of a connection from the unprivileged server process  *)
(* to the one that serves the user.                                        *)
(*                                                                         *)
(* A byte is a record that says what it is.  An encrypted byte is readable *)
(* only with the key and at the position it was written with; an authenti- *)
(* cation code is good for the bytes and the number it was computed for.   *)
(* The key exchange is reduced to the order KEXINIT, NEWKEYS (module       *)
(* Transport has its messages).  A write and the read at the other end are *)
(* one step of any size; a fault may change a byte on the way.             *)
(***************************************************************************)
EXTENDS Integers, Sequences, SequencesExt, FiniteSets

CONSTANTS
    PacketCases,        \* cipher suites, compression and scripts that are tried
    MacLength,          \* bytes of an authentication code or tag
    MaxPacketSize,      \* PACKET_MAX_SIZE
    MaxSequence,        \* sequence numbers and packet counters are modulo this
    MaxPacketsPerKey,   \* MAX_PACKETS
    BadLengths          \* what an unreadable length may turn out to be

VARIABLES
    pk_case,            \* the case
    pk                  \* side -> the state of its connection

packetVars == <<pk_case, pk>>

Side == {"client", "server"}
Opposite(s) == IF s = "client" THEN "server" ELSE "client"

----------------------------------------------------------------------------
(* Bytes                                                                   *)

Octet(t, a, b) == [t |-> t, a |-> a, b |-> b]
Noise == Octet("noise", 0, 0)
Kind_p(b) == IF "t" \in DOMAIN b THEN b.t ELSE "noise"
Length4(n) == [i \in 1..4 |-> Octet("len", n, i)]
PEEK_U32(bs, bad) ==
    IF \A i \in 1..4 : Kind_p(bs[i]) = "len" /\ bs[i].a = bs[1].a /\ bs[i].b = i THEN bs[1].a ELSE bad
Payload(id, n) == [i \in 1..n |-> Octet("pay", id, i)]

\* ciphers[], macs[]: block size, length of the tag, of the code, what it covers
Suite(kind, block, auth, mac, etm) == [kind |-> kind, block |-> block, auth |-> auth, mac |-> mac, etm |-> etm]
cipher_none == Suite("none", 8, 0, 0, FALSE)
cipher_is_cbc(k) == k.kind = "cbc"
aad_length(k) == IF k.etm \/ k.auth > 0 THEN 4 ELSE 0

\* The position a byte is encrypted at: a stream goes on where the last packet
\* ended, GCM counts packets, ChaCha20 takes the sequence number
position(h, i) == CASE h.k.kind = "gcm" -> <<h.iv, i>> [] h.k.kind = "chacha" -> <<h.seqnr, i>> [] OTHER -> <<h.iv + i, 0>>
seal(h, b, i) == IF h.k.kind = "none" THEN b ELSE [enc |-> h.id, at |-> position(h, i), of |-> b]
open(h, b, i) ==
    IF h.k.kind = "none" THEN b
    ELSE IF "enc" \in DOMAIN b /\ b.enc = h.id /\ b.at = position(h, i) THEN b.of ELSE Noise
\* cipher_crypt(): the first aadlen bytes are not encrypted, except that
\* ChaCha20 has a key of its own for the length
encrypt(h, bs, aad) ==
    [i \in DOMAIN bs |-> IF i > aad THEN seal(h, bs[i], i - aad) ELSE IF h.k.kind = "chacha" THEN seal(h, bs[i], 0 - i) ELSE bs[i]]
decrypt(h, bs, aad) ==
    [i \in DOMAIN bs |-> IF i > aad THEN open(h, bs[i], i - aad) ELSE IF h.k.kind = "chacha" THEN open(h, bs[i], 0 - i) ELSE bs[i]]
advance(h, n) == [h EXCEPT !.iv = CASE h.k.kind = "gcm" -> @ + 1 [] h.k.kind \in {"cbc", "ctr"} -> @ + n [] OTHER -> @]
\* the tag of authenticated encryption
cipher_tag(h, bs) == [i \in 1..h.k.auth |-> [tag |-> h.id, at |-> position(h, 0), over |-> bs, i |-> i]]
mac_compute(h, bs) == [i \in 1..h.k.mac |-> [mac |-> h.id, seqnr |-> h.seqnr, over |-> bs, i |-> i]]
mac_check(h, bs, theirs) == theirs = mac_compute(h, bs)

\* deflate() and inflate() with their dictionaries
compress_buffer(h, bs) == <<Octet("zlib", h.dict, 0)>> \o [i \in DOMAIN bs |-> [t |-> "z", dict |-> h.dict, of |-> bs[i]]]
uncompressible(h, bs) == Len(bs) > 0 /\ bs[1] = Octet("zlib", h.dict, 0) /\ \A i \in 2..Len(bs) : Kind_p(bs[i]) = "z" /\ bs[i].dict = h.dict
uncompress_buffer(bs) == [i \in 1..(Len(bs) - 1) |-> bs[i + 1].of]

----------------------------------------------------------------------------
(* Sending                                                                 *)

ROUNDUP(x, y) == ((x + y - 1) \div y) * y
\* the length of the padding in a byte, or -1 if it does not fit
least_padding(len, block) == LET p == block - (len % block) IN IF p < 4 THEN p + block ELSE p
padding(len, block, extra) ==
    LET p == least_padding(len, block)
        x == ROUNDUP(extra, block) % 256
        q == (p + (x - ((len + p) % x))) % 256
    IN  IF extra = 0 THEN p ELSE IF x < extra \/ q < p THEN -1 ELSE q

NoHalf(dir) ==
    [k |-> cipher_none, id |-> dir \o "0", n |-> 0, dir |-> dir, iv |-> 0, seqnr |-> 0, packets |-> 0, blocks |-> 0,
     on |-> FALSE, dict |-> 0, buf |-> <<>>, packlen |-> 0, incoming |-> <<>>, discard |-> 0]
KeyNames == <<"1", "2", "3", "4", "5", "6">>

\* ssh_set_newkeys(): sequence numbers go on, everything else starts anew
ssh_set_newkeys_h(h, authenticated) ==
    [h EXCEPT !.k = pk_case.suite, !.n = @ + 1, !.id = h.dir \o KeyNames[h.n + 1], !.iv = 0, !.packets = 0, !.blocks = 0,
              !.on = pk_case.comp = "zlib" \/ (pk_case.comp = "delayed" /\ authenticated), !.dict = 0]
\* ssh_packet_enable_delayed_p()
delayed(h) == IF h.n > 0 /\ ~h.on /\ pk_case.comp = "delayed" THEN [h EXCEPT !.on = TRUE, !.dict = 0] ELSE h
ssh_packet_enable_delayed_p(e) == [e EXCEPT !.auth = TRUE, !.o = delayed(@), !.i = delayed(@)]

\* ssh_packet_send2_wrapped(): what one packet becomes
body_of(h, m) == IF h.on THEN compress_buffer(h, m) ELSE m
plain_packet(h, m, extra) ==
    LET body == body_of(h, m)
        pad  == padding(5 + Len(body) - aad_length(h.k), h.k.block, extra)
    IN  Length4(1 + Len(body) + pad) \o <<Octet("padlen", pad, 0)>> \o body \o [i \in 1..pad |-> Octet("pad", 0, 0)]
sealed_packet(h, plain) ==
    LET c == encrypt(h, plain, aad_length(h.k)) IN
    IF h.k.auth > 0 THEN c \o cipher_tag(h, c)
    ELSE c \o mac_compute(h, IF h.k.etm THEN c ELSE plain)
ssh_packet_send2_h(h, m, extra) ==
    LET plain == plain_packet(h, m, extra)
        a == advance(h, Len(plain) - aad_length(h.k))
    IN  [a EXCEPT !.buf = @ \o sealed_packet(h, plain), !.dict = IF h.on THEN @ + 1 ELSE @,
                  !.seqnr = (@ + 1) % MaxSequence, !.packets = (@ + 1) % MaxSequence, !.blocks = @ + (Len(plain) \div h.k.block)]
\* ssh_packet_send_mux(): the master of a shared connection gets connection
\* messages only, as they are
ssh_packet_send_mux(h, m, type) ==
    IF type # "data" THEN h
    ELSE [h EXCEPT !.buf = @ \o Length4(1 + Len(m)) \o <<Octet("padlen", 0, 0)>> \o m]

\* Messages by number: the script of each side, then those of the key exchange
Script(s) == pk_case.script[s]
TypeOf(s, id) == IF id = 100 THEN "kexinit" ELSE IF id = 101 THEN "newkeys" ELSE Script(s)[id].type
SizeOf(s, id) == IF id >= 100 THEN 1 ELSE Script(s)[id].size

\* The nonces of a packet: one for the cipher, one for the code
Nonces(h) == IF h.k.kind = "none" THEN {}
             ELSE {<<h.id, "cipher", IF h.k.kind = "chacha" THEN h.seqnr ELSE h.iv>>, <<h.id, "code", h.seqnr>>}
\* the books that are kept of what a side wrote: the end of each packet in
\* the stream and the nonces it took
Book(b, h, g) ==
    [b EXCEPT !.ends = Append(@, b.moved + Len(g.buf)), !.used = @ \union Nonces(h), !.reused = @ \/ Nonces(h) \intersect b.used # {}]

\* Everything that follows from sending message id
SentAs(e, id, type, h) ==
    LET dropped == pk_case.mux /\ type # "data"
        e1 == [e EXCEPT !.o = h, !.sent = IF dropped THEN @ ELSE Append(@, id), !.log = IF dropped THEN @ ELSE Book(@, e.o, h),
                        !.err = IF ~pk_case.mux /\ h.packets = 0 /\ ~pk_case.norekey THEN "need rekey" ELSE @]
    IN  CASE type = "newkeys" -> [e1 EXCEPT !.o = ssh_set_newkeys_h(@, e.auth), !.rekeying = FALSE]
          [] type = "kexinit" -> [e1 EXCEPT !.rekeying = TRUE, !.done = FALSE]
          [] type = "success" -> [ssh_packet_enable_delayed_p(e1) EXCEPT !.handing = pk_case.privsep]
          [] OTHER -> e1
sends(s, e, id) ==
    LET m == Payload(id, SizeOf(s, id))
    IN  SentAs(e, id, TypeOf(s, id),
               IF pk_case.mux THEN ssh_packet_send_mux(e.o, m, TypeOf(s, id))
               ELSE ssh_packet_send2_h(e.o, m, IF id >= 100 THEN 0 ELSE Script(s)[id].pad))

ssh_packet_is_rekeying_p(e) == e.rekeying \/ ~e.done
\* ssh_packet_need_rekeying(): bytes are added where blocks are counted, which
\* makes it ask early
ssh_packet_need_rekeying_p(e, len) ==
    /\ e.auth /\ ~ssh_packet_is_rekeying_p(e) /\ ~pk_case.norekey /\ ~pk_case.mux
    /\ e.o.packets > 0 \/ e.i.packets > 0
    /\ \/ e.o.packets > MaxPacketsPerKey \/ e.i.packets > MaxPacketsPerKey
       \/ pk_case.limit > 0 /\ (e.o.blocks + ROUNDUP(len, e.o.k.block) > pk_case.limit \/ e.i.blocks > pk_case.limit)

----------------------------------------------------------------------------
(* Receiving                                                               *)

Nothing(h) == [h |-> h, what |-> "nothing", m |-> <<>>]
Refuse(h, why) == [h |-> h, what |-> why, m |-> <<>>]
\* ssh_packet_start_discard(): with CBC, go on reading as if the packet were
\* as long as packets may be
ssh_packet_start_discard(h, discard) ==
    IF ~cipher_is_cbc(h.k) \/ h.k.etm THEN Refuse(h, "corrupt")
    ELSE IF Len(h.buf) >= discard THEN Refuse(h, "mac invalid")
    ELSE Nothing([h EXCEPT !.discard = discard - Len(h.buf)])
BadPacketLength(n) == n < 5 \/ n > MaxPacketSize

\* the message in a packet that was found to be good
unwrap(h, plain) ==
    LET pad  == plain[5].a
        body == SubSeq(plain, 6, Len(plain) - pad)
        h1   == [h EXCEPT !.seqnr = (@ + 1) % MaxSequence, !.packets = (@ + 1) % MaxSequence, !.packlen = 0, !.incoming = <<>>,
                          !.blocks = @ + (Len(plain) \div h.k.block), !.dict = IF h.on THEN @ + 1 ELSE @]
    IN  IF h1.packets = 0 /\ ~pk_case.norekey THEN Refuse(h1, "need rekey")
        ELSE IF pad < 4 THEN Refuse(h1, "corrupt")
        ELSE IF ~h.on THEN [h |-> h1, what |-> "packet", m |-> body]
        ELSE IF uncompressible(h, body) THEN [h |-> h1, what |-> "packet", m |-> uncompress_buffer(body)]
        ELSE Refuse(h1, "invalid format")

\* the length is in the clear or has a key of its own
find_length_aad(h, bad) ==
    IF Len(h.buf) < 4 THEN Nothing(h)
    ELSE LET n == PEEK_U32(decrypt(h, SubSeq(h.buf, 1, 4), 4), bad) IN
         IF BadPacketLength(n) THEN Refuse(h, "corrupt") ELSE [h |-> [h EXCEPT !.packlen = n, !.incoming = <<>>], what |-> "length", m |-> <<>>]
\* the length is in the first block
find_length_block(h, bad) ==
    IF Len(h.buf) < h.k.block THEN Nothing(h)
    ELSE LET first == decrypt(h, SubSeq(h.buf, 1, h.k.block), 0)
             n     == PEEK_U32(first, bad)
         IN  IF BadPacketLength(n) THEN ssh_packet_start_discard([h EXCEPT !.incoming = first], MaxPacketSize)
             ELSE [h |-> [advance(h, h.k.block) EXCEPT !.packlen = n, !.incoming = first, !.buf = SubSeq(@, h.k.block + 1, Len(@))],
                   what |-> "length", m |-> <<>>]
\* the rest of the packet
whole_packet(h) ==
    LET aad  == aad_length(h.k)
        need == IF aad > 0 THEN h.packlen ELSE 4 + h.packlen - h.k.block
        data == SubSeq(h.buf, 1, aad + need)
        code == SubSeq(h.buf, aad + need + 1, aad + need + h.k.auth + h.k.mac)
        plain == h.incoming \o decrypt(h, data, aad)
        h1   == [advance(h, need) EXCEPT !.buf = SubSeq(@, aad + need + h.k.auth + 1, Len(@)), !.incoming = plain]
        h2   == [h1 EXCEPT !.buf = SubSeq(@, h.k.mac + 1, Len(@))]
    IN  IF need % h.k.block # 0 THEN ssh_packet_start_discard(h, MaxPacketSize - h.k.block)
        ELSE IF Len(h.buf) < aad + need + h.k.auth + h.k.mac THEN Nothing(h)
        ELSE IF h.k.auth > 0 THEN IF code = cipher_tag(h, data) THEN unwrap(h2, plain) ELSE Refuse(h, "mac invalid")
        ELSE IF h.k.etm THEN IF mac_check(h, data, code) THEN unwrap(h2, plain) ELSE Refuse(h, "mac invalid")
        ELSE IF mac_check(h, plain, code) THEN unwrap(h2, plain)
        ELSE IF need + h.k.block > MaxPacketSize THEN Refuse(h1, "internal error")
        ELSE ssh_packet_start_discard(h1, MaxPacketSize - need - h.k.block)
\* ssh_packet_read_poll2()
ssh_packet_read_poll2_h(h, bad) ==
    IF h.discard > 0 THEN Nothing(h)
    ELSE IF h.packlen > 0 THEN whole_packet(h)
    ELSE LET l == IF aad_length(h.k) > 0 THEN find_length_aad(h, bad) ELSE find_length_block(h, bad) IN
         IF l.what = "length" THEN whole_packet(l.h) ELSE l
\* ssh_packet_read_poll2_mux()
ssh_packet_read_poll2_mux(h, bad) ==
    LET n == IF h.packlen > 0 THEN h.packlen ELSE PEEK_U32(SubSeq(h.buf, 1, 4), bad)
    IN  IF h.packlen = 0 /\ Len(h.buf) < 5 THEN Nothing(h)
        ELSE IF h.packlen = 0 /\ BadPacketLength(n) THEN Refuse(h, "incomplete")
        ELSE IF Len(h.buf) < n + 4 THEN Nothing([h EXCEPT !.packlen = n])
        ELSE [h |-> [h EXCEPT !.packlen = 0, !.buf = SubSeq(@, n + 5, Len(@))], what |-> "packet", m |-> SubSeq(h.buf, 6, n + 4)]
read_poll(h, bad) == IF pk_case.mux THEN ssh_packet_read_poll2_mux(h, bad) ELSE ssh_packet_read_poll2_h(h, bad)

\* ssh_packet_process_incoming(): n bytes bs from the socket
ssh_packet_process_incoming(e, bs) ==
    IF e.i.discard = 0 THEN [e EXCEPT !.i.buf = @ \o bs]
    ELSE IF Len(bs) >= e.i.discard THEN [e EXCEPT !.err = "mac invalid"]
    ELSE [e EXCEPT !.i.discard = @ - Len(bs)]

\* The message of the other side that bytes are, or 0
Recognised(s, m) ==
    IF Len(m) > 0 /\ Kind_p(m[1]) = "pay" /\ m = Payload(m[1].a, SizeOf(s, m[1].a)) THEN m[1].a ELSE 0

\* What a side does with a message: ssh_packet_read_poll_seqnr() and the
\* handlers of the key exchange
receives(s, e, id) ==
    LET type == IF id = 0 THEN "bad" ELSE TypeOf(Opposite(s), id)
        e1 == [e EXCEPT !.got = IF type = "ignore" THEN @ ELSE Append(@, id)]
        k  == IF e.rekeying THEN e1 ELSE sends(s, e1, 100)
    IN  CASE type = "bad" -> [e EXCEPT !.err = "protocol error", !.got = Append(@, 0)]
          [] type = "kexinit" -> sends(s, k, 101)
          [] type = "newkeys" -> [e1 EXCEPT !.i = ssh_set_newkeys_h(@, e.auth), !.done = TRUE]
          [] type = "success" -> ssh_packet_enable_delayed_p(e1)
          [] type = "disconnect" -> [e1 EXCEPT !.err = "disconnected"]
          [] OTHER -> e1

----------------------------------------------------------------------------
(* Steps                                                                   *)

PacketStart(c) ==
    /\ pk_case = c
    /\ pk = [s \in Side |-> [o |-> NoHalf(s), i |-> NoHalf(Opposite(s)), auth |-> FALSE, rekeying |-> FALSE, done |-> TRUE,
                             err |-> "", sent |-> <<>>, got |-> <<>>, next |-> 1, handing |-> FALSE,
                             log |-> [ends |-> <<>>, moved |-> 0, hit |-> 0, used |-> {}, reused |-> FALSE]]]
PacketInit == \E c \in PacketCases : PacketStart(c)

Live(s) == pk[s].err = ""
\* One packet more from side s
Write(s, id) ==
    /\ pk' = [pk EXCEPT ![s] = [sends(s, @, id) EXCEPT !.next = IF id < 100 THEN @ + 1 ELSE @]]
    /\ UNCHANGED pk_case

\* a request is answered before anything else is read
Due(s) == pk[s].next <= Len(Script(s)) /\ Len(pk[s].got) >= Script(s)[pk[s].next].after
Answering(s) == Due(s) /\ Script(s)[pk[s].next].type = "success"
\* sshpkt_send(): unless keys are exchanged, or have to be first
Send_p(s) ==
    LET e == pk[s] IN
    /\ Live(s) /\ ~e.handing /\ Due(s) /\ ~e.rekeying
    /\ Write(s, IF ssh_packet_need_rekeying_p(e, Script(s)[e.next].size) THEN 100 ELSE e.next)
\* Keys are exchanged at first
FirstKex(s) == Live(s) /\ ~pk_case.mux /\ pk[s].o.n = 0 /\ ~pk[s].rekeying /\ Write(s, 100)

\* ssh_packet_write_poll() here and read(), ssh_packet_process_incoming() there
Transfer_p(s) ==
    \E n \in {IF c < Len(pk[s].o.buf) THEN c ELSE Len(pk[s].o.buf) : c \in pk_case.chunks} :
        /\ n > 0 /\ Live(Opposite(s))
        /\ pk' = [pk EXCEPT ![s].o.buf = SubSeq(@, n + 1, Len(@)), ![s].log.moved = @ + n,
                            ![Opposite(s)] = ssh_packet_process_incoming(@, SubSeq(pk[s].o.buf, 1, n))]
        /\ UNCHANGED pk_case

\* The connection is read until a packet is complete; a process that is about
\* to hand the connection over does not read on
Read_p(s) ==
    \E bad \in IF pk_case.fault THEN BadLengths ELSE {0} :
        /\ Live(s) /\ ~pk[s].handing /\ ~Answering(s)
        /\ \E r \in {read_poll(pk[s].i, bad)} :
           LET e == [pk[s] EXCEPT !.i = r.h] IN
           \E f \in {IF r.what = "packet" THEN receives(s, e, Recognised(Opposite(s), r.m))
                     ELSE IF r.what = "nothing" THEN e ELSE [e EXCEPT !.err = r.what]} :
                f # pk[s] /\ pk' = [pk EXCEPT ![s] = f]
        /\ UNCHANGED pk_case

\* A plausible slip: the position of the cipher is not handed over
handed_without_iv(h) == [h EXCEPT !.packets = 0, !.blocks = 0, !.on = FALSE, !.dict = 0, !.packlen = 0, !.incoming = <<>>, !.discard = 0, !.iv = 0]
\* ssh_packet_get_state() in the process that authenticated the user,
\* ssh_packet_set_state() in its parent: counters of packets and blocks start
\* again, and so does compression
handed_half(h) == [h EXCEPT !.packets = 0, !.blocks = 0, !.on = FALSE, !.dict = 0, !.packlen = 0, !.incoming = <<>>, !.discard = 0]
ssh_packet_set_postauth(e) == ssh_packet_enable_delayed_p([e EXCEPT !.rekeying = FALSE])
HandOver ==
    /\ Live("server") /\ pk["server"].handing
    /\ pk' = [pk EXCEPT !["server"] =
                 ssh_packet_set_postauth([@ EXCEPT !.o = handed_half(@), !.i = handed_half(@), !.auth = FALSE,
                                                   !.done = TRUE, !.handing = FALSE])]
    /\ UNCHANGED pk_case

\* One byte is changed on the way, once keys are in use
Disturb(s) ==
    /\ pk_case.fault /\ \A t \in Side : pk[t].log.hit = 0
    /\ pk[Opposite(s)].i.n > 0 /\ pk[s].o.n = pk[Opposite(s)].i.n
    /\ \E j \in {1, 5, Len(pk[s].o.buf)} \intersect DOMAIN pk[s].o.buf :
          pk' = [pk EXCEPT ![s].o.buf[j] = Noise,
                           ![s].log.hit = 1 + Cardinality({k \in DOMAIN pk[s].log.ends : pk[s].log.ends[k] < pk[s].log.moved + j})]
    /\ UNCHANGED pk_case

PacketNext ==
    \/ \E s \in Side : Send_p(s) \/ FirstKex(s) \/ Transfer_p(s) \/ Read_p(s) \/ Disturb(s)
    \/ HandOver

----------------------------------------------------------------------------
(* Properties                                                              *)

Wanted_p(s, ids) == SelectSeq(ids, LAMBDA id : TypeOf(s, id) # "ignore")
Disturbed(s) == pk[s].log.hit > 0

\* What a side has received is what the other side sent, packet by packet and
\* in order, whatever the size of the reads, the suite, the compression and
\* the hand-over; nothing from a packet that was changed on is accepted, and
\* without a change there is no error.
ReceivedAsSent ==
    \A s \in Side :
        LET t == Opposite(s) IN
        /\ IsPrefix(pk[t].got, Wanted_p(s, pk[s].sent))
        /\ (Disturbed(s) => Len(pk[t].got) <= Len(Wanted_p(s, SubSeq(pk[s].sent, 1, pk[s].log.hit - 1))))
        /\ (~Disturbed(s) => pk[t].err \in {"", "disconnected"})

\* When everything written has arrived and the receiver waits for more, it
\* waits at the beginning of a packet and has received everything.
NothingHeldBack ==
    \A s \in Side :
        LET t == Opposite(s)
            r == read_poll(pk[t].i, 0)
        IN  (Live(t) /\ ~Disturbed(s) /\ ~pk[t].handing /\ ~Answering(t) /\ pk[s].o.buf = <<>> /\ r.what = "nothing") =>
                pk[t].i.buf = <<>> /\ pk[t].i.packlen = 0 /\ pk[t].got = Wanted_p(s, pk[s].sent)

\* No key meets the same nonce twice, neither in the cipher nor in the code:
\* packets are counted and keys changed in time, even across a hand-over.
NoncesFresh == \A s \in Side : ~pk[s].log.reused

\* Padding, when it fits, has at least four bytes, fills the block, fills the
\* extra size asked for, and its length fits into its byte.
PaddingFits ==
    \A len \in 1..70, block \in {8, 16}, extra \in {0, 1, 8, 40, 64, 239, 240, 247, 248, 249, 255} :
        LET p == padding(len, block, extra) IN
        p # -1 => /\ p \in 4..255 /\ (len + p) % block = 0
                  /\ (extra > 0 => (len + p) % ROUNDUP(extra, block) = 0)

PacketSound == ReceivedAsSent /\ NothingHeldBack /\ NoncesFresh /\ ((\A s \in Side : pk[s].sent = <<>>) => PaddingFits)

PacketSpec == PacketInit /\ [][PacketNext]_packetVars
=============================================================================
