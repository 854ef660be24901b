------------------------------ MODULE Buffer ------------------------------
(***************************************************************************)
(* The buffers every message is built in and taken apart in (sshbuf.c,     *)
(* sshbuf-getput-basic.c, sshbuf-getput-crypto.c, sshbuf-misc.c): a block  *)
(* of memory that is filled at one end, emptied at the other, packed, moved*)
(* and grown, and read-only buffers that look into the memory of another.  *)
(*                                                                         *)
(* Beside each buffer stands `queue', the bytes its users believe it holds.*)
(***************************************************************************)
EXTENDS Integers, Sequences, SequencesExt, FiniteSetsExt

CONSTANTS
    SSHBUF_SIZE_INIT, SSHBUF_SIZE_INC, SSHBUF_SIZE_MAX, SSHBUF_PACK_MIN, SSHBUF_MAX_BIGNUM,
    BufferCount,    \* bound: buffers made in one behaviour
    BufferStarts,   \* [put, got, made]: bytes put and taken, and calls counted, before those explored
    ByteStrings,    \* arguments of the put calls
    MaxSizes,       \* arguments of sshbuf_set_max_size()
    MaxBufferCalls  \* bound: calls

ASSUME SmallestAllocation == \A m \in MaxSizes : m >= SSHBUF_SIZE_INIT

VARIABLE buffers    \* at: the buffers; wrong: calls whose result or value was not the one
                    \* expected; count: how many calls were made

bufferVars == <<buffers>>

----------------------------------------------------------------------------
(* Memory.  d is the block a buffer allocated, cd where its bytes begin:   *)
(* in which buffer's block, in which of the blocks it has had (realloc     *)
(* moves it), behind how many bytes.                                       *)

NoBuffer == 0
Blank(n) == [i \in 1..n |-> 0]
sshbuf_new ==
    [d |-> Blank(SSHBUF_SIZE_INIT), block |-> 0, cd |-> <<NoBuffer, 0, 0>>, off |-> 0, size |-> 0, alloc |-> SSHBUF_SIZE_INIT,
     max_size |-> SSHBUF_SIZE_MAX, readonly |-> FALSE, refcount |-> 1, parent |-> NoBuffer,
     live |-> TRUE, held |-> TRUE, queue |-> <<>>]
NotMade == [sshbuf_new EXCEPT !.live = FALSE, !.held = FALSE, !.refcount = 0]

\* A mistake: a buffer that others look into is written to.
writable_while_shared(c) == ~c.readonly
Writable(c) == ~c.readonly /\ c.refcount <= 1
sshbuf_len(c) == c.size - c.off
sshbuf_check_sanity(c) ==
    /\ c.refcount >= 1 /\ c.max_size <= SSHBUF_SIZE_MAX
    /\ c.alloc <= c.max_size /\ c.size <= c.alloc /\ c.off <= c.size

\* The memory a buffer reads from is still the block it was in.
StillThere(h, b) ==
    \/ ~h[b].readonly
    \/ LET o == h[b].cd[1] IN h[o].live /\ h[o].block = h[b].cd[2]
Memory(h, b) ==
    IF h[b].readonly THEN SubSeq(h[h[b].cd[1]].d, h[b].cd[3] + 1, h[b].cd[3] + h[b].size) ELSE SubSeq(h[b].d, 1, h[b].size)
\* sshbuf_ptr() and sshbuf_len() bytes from there.
sshbuf_ptr(h, b) == SubSeq(Memory(h, b), h[b].off + 1, h[b].size)
Address(h, b) ==
    LET c == h[b] IN IF c.readonly THEN <<c.cd[1], c.cd[2], c.cd[3] + c.off>> ELSE <<b, c.block, c.off>>

\* recallocarray(): another block, the new bytes are zero.
recallocarray(c, n) ==
    [c EXCEPT !.d = IF n <= Len(c.d) THEN SubSeq(c.d, 1, n) ELSE c.d \o Blank(n - Len(c.d)),
              !.block = (c.block + 1) % 2, !.alloc = n]
RoundUp(n, m) == ((n + m - 1) \div m) * m

sshbuf_maybe_pack(c, force) ==
    IF c.off = 0 \/ ~Writable(c) \/ ~(force \/ (c.off >= SSHBUF_PACK_MIN /\ c.off >= c.size \div 2)) THEN c
    ELSE [c EXCEPT !.d = SubSeq(c.d, c.off + 1, c.size) \o SubSeq(c.d, c.size - c.off + 1, c.alloc),
                   !.size = c.size - c.off, !.off = 0]

----------------------------------------------------------------------------
(* Calls.  A call gives the buffers after it, its result and its value.    *)

Done(h, r, v) == [h |-> h, r |-> r, v |-> v]
NotDone(h, r) == Done(h, r, <<>>)

sshbuf_check_reserve(c, len) ==
    IF ~Writable(c) THEN "read_only"
    ELSE IF len > c.max_size \/ c.max_size - len < sshbuf_len(c) THEN "no_space" ELSE "ok"
sshbuf_allocate(c, len) ==
    LET p == sshbuf_maybe_pack(c, c.size + len > c.max_size)
        need == len + p.size - p.alloc
        rlen == RoundUp(p.alloc + need, SSHBUF_SIZE_INC)
    IN IF len + p.size <= p.alloc THEN p
       ELSE recallocarray(p, IF rlen > p.max_size THEN p.alloc + need ELSE rlen)
sshbuf_reserve(h, b, bytes) ==
    LET r == sshbuf_check_reserve(h[b], Len(bytes))
        c == sshbuf_allocate(h[b], Len(bytes))
    IN IF r # "ok" THEN NotDone(h, r)
       ELSE Done([h EXCEPT ![b] = [c EXCEPT !.size = c.size + Len(bytes),
                                            !.d = SubSeq(c.d, 1, c.size) \o bytes \o SubSeq(c.d, c.size + Len(bytes) + 1, c.alloc)]],
                 "ok", <<>>)
sshbuf_consume(h, b, len) ==
    LET c == h[b] IN
    IF len = 0 THEN Done(h, "ok", <<>>)
    ELSE IF len > sshbuf_len(c) THEN NotDone(h, "incomplete")
    ELSE Done([h EXCEPT ![b] = IF c.off + len = c.size THEN [c EXCEPT !.off = 0, !.size = 0] ELSE [c EXCEPT !.off = c.off + len]],
              "ok", SubSeq(sshbuf_ptr(h, b), 1, len))
sshbuf_consume_end(h, b, len) ==
    IF len > sshbuf_len(h[b]) THEN NotDone(h, "incomplete")
    ELSE Done([h EXCEPT ![b].size = h[b].size - len], "ok", <<>>)

\* POKE_U32(), PEEK_U32() and their kin of other widths.
POKE(width, n) == [i \in 1..width |-> (n \div 256^(width - i)) % 256]
\* A number of more than two bytes is above every limit, whatever it is.
PEEK(s) ==
    IF \E i \in 1..(Len(s) - 2) : s[i] # 0 THEN 65536 ELSE FoldLeft(LAMBDA n, x : 256 * n + x, 0, s)

sshbuf_put(h, b, v) == sshbuf_reserve(h, b, v)
sshbuf_put_u(h, b, width, n) == sshbuf_reserve(h, b, POKE(width, n))
sshbuf_put_string(h, b, v) ==
    IF Len(v) > SSHBUF_SIZE_MAX - 4 THEN NotDone(h, "no_space") ELSE sshbuf_reserve(h, b, POKE(4, Len(v)) \o v)
\* The formatted text ends with a NUL, which is taken back.
sshbuf_putfv(h, b, v) ==
    LET w == sshbuf_reserve(h, b, v \o <<0>>) IN
    IF v = <<>> THEN Done(h, "ok", <<>>) ELSE IF w.r # "ok" THEN w ELSE sshbuf_consume_end(w.h, b, 1)
Significant(v) == LET n == {i \in 1..Len(v) : v[i] # 0} IN IF n = {} THEN <<>> ELSE SubSeq(v, Min(n), Len(v))
mpint(v) == LET s == Significant(v) IN IF s # <<>> /\ s[1] >= 128 THEN <<0>> \o s ELSE s
sshbuf_put_bignum2_bytes(h, b, v) ==
    IF Len(v) > SSHBUF_SIZE_MAX - 5 THEN NotDone(h, "no_space") ELSE sshbuf_reserve(h, b, POKE(4, Len(mpint(v))) \o mpint(v))
sshbuf_put_bignum2(h, b, v) ==
    IF Len(Significant(v)) > SSHBUF_MAX_BIGNUM THEN NotDone(h, "invalid") ELSE sshbuf_put_string(h, b, mpint(v))

check_offset(c, wr, offset, len) ==
    IF offset + len > sshbuf_len(c) THEN (IF wr THEN "no_space" ELSE "incomplete") ELSE "ok"
sshbuf_peek_u(h, b, offset, width) ==
    LET r == check_offset(h[b], FALSE, offset, width) IN
    IF r # "ok" THEN NotDone(h, r) ELSE Done(h, r, SubSeq(sshbuf_ptr(h, b), offset + 1, offset + width))
sshbuf_poke(h, b, offset, v) ==
    LET c == h[b]
        r == check_offset(c, TRUE, offset, Len(v))
    IN IF r # "ok" THEN NotDone(h, r)
       ELSE IF ~Writable(c) THEN NotDone(h, "read_only")
       ELSE Done([h EXCEPT ![b].d = SubSeq(c.d, 1, c.off + offset) \o v \o SubSeq(c.d, c.off + offset + Len(v) + 1, c.alloc)], "ok", <<>>)

sshbuf_get(h, b, len) == sshbuf_consume(h, b, len)
sshbuf_get_u(h, b, width) == sshbuf_consume(h, b, width)
sshbuf_peek_string_direct(h, b) ==
    LET p == sshbuf_ptr(h, b)
        len == PEEK(SubSeq(p, 1, 4))
    IN IF Len(p) < 4 THEN NotDone(h, "incomplete")
       ELSE IF len > SSHBUF_SIZE_MAX - 4 THEN NotDone(h, "too_large")
       ELSE IF Len(p) - 4 < len THEN NotDone(h, "incomplete")
       ELSE Done(h, "ok", SubSeq(p, 5, 4 + len))
sshbuf_get_string_direct(h, b) ==
    LET s == sshbuf_peek_string_direct(h, b) IN
    IF s.r # "ok" THEN s ELSE Done(sshbuf_consume(h, b, Len(s.v) + 4).h, "ok", s.v)
\* A NUL is allowed only at the end; what strlen() sees is returned.
sshbuf_get_cstring(h, b) ==
    LET s == sshbuf_get_string_direct(h, b) IN
    IF s.r # "ok" THEN s
    ELSE IF \E i \in 1..(Len(s.v) - 1) : s.v[i] = 0 THEN NotDone(h, "invalid")
    ELSE [s EXCEPT !.v = SelectSeq(s.v, LAMBDA x : x # 0)]
sshbuf_get_bignum2_bytes_direct(h, b) ==
    LET s == sshbuf_get_string_direct(h, b) IN
    IF s.r # "ok" THEN s
    ELSE IF s.v # <<>> /\ s.v[1] >= 128 THEN NotDone(h, "negative")
    ELSE IF Len(s.v) > SSHBUF_MAX_BIGNUM + 1 \/ (Len(s.v) = SSHBUF_MAX_BIGNUM + 1 /\ s.v[1] # 0) THEN NotDone(h, "too_large")
    ELSE [s EXCEPT !.v = Significant(s.v)]
\* The length is taken before there is known to be room for the string.
sshbuf_get_stringb(h, b, to) ==
    LET s == sshbuf_peek_string_direct(h, b)
        taken == sshbuf_get_u(h, b, 4)
        put == sshbuf_reserve(taken.h, to, s.v)
    IN IF s.r # "ok" THEN s ELSE IF put.r # "ok" THEN put ELSE Done(sshbuf_get(put.h, b, Len(s.v)).h, "ok", s.v)
sshbuf_putb(h, b, from) == sshbuf_put(h, b, sshbuf_ptr(h, from))
sshbuf_put_stringb(h, b, from) == sshbuf_put_string(h, b, sshbuf_ptr(h, from))
sshbuf_dup_string(h, b) ==
    LET p == sshbuf_ptr(h, b) IN
    IF \E i \in 1..(Len(p) - 1) : p[i] = 0 THEN NotDone(h, "invalid") ELSE Done(h, "ok", SelectSeq(p, LAMBDA x : x # 0))
sshbuf_cmp(h, b, offset, v) ==
    IF v = <<>> THEN NotDone(h, "invalid_argument")
    ELSE IF offset + Len(v) > sshbuf_len(h[b]) THEN NotDone(h, "incomplete")
    ELSE NotDone(h, IF SubSeq(sshbuf_ptr(h, b), offset + 1, offset + Len(v)) = v THEN "ok" ELSE "invalid")
sshbuf_find(h, b, start, v) ==
    LET p == sshbuf_ptr(h, b)
        at == {i \in start..(Len(p) - Len(v)) : SubSeq(p, i + 1, i + Len(v)) = v}
    IN IF v = <<>> THEN NotDone(h, "invalid_argument")
       ELSE IF start + Len(v) > Len(p) THEN NotDone(h, "incomplete")
       ELSE IF at = {} THEN NotDone(h, "invalid") ELSE Done(h, "ok", <<Min(at)>>)

sshbuf_reset(h, b) ==
    LET c == h[b] IN
    IF ~Writable(c) THEN Done([h EXCEPT ![b].off = c.size], "ok", <<>>)
    ELSE Done([h EXCEPT ![b] = [(IF c.alloc # SSHBUF_SIZE_INIT THEN recallocarray(c, SSHBUF_SIZE_INIT) ELSE c)
                                    EXCEPT !.off = 0, !.size = 0, !.d = Blank(SSHBUF_SIZE_INIT)]], "ok", <<>>)
sshbuf_set_max_size(h, b, max) ==
    LET c == h[b]
        p == sshbuf_maybe_pack(c, max < c.size)
        rlen == IF p.size < SSHBUF_SIZE_INIT THEN SSHBUF_SIZE_INIT ELSE RoundUp(p.size, SSHBUF_SIZE_INC)
        q == IF max < p.alloc /\ max > p.size THEN recallocarray(p, IF rlen > max THEN max ELSE rlen) ELSE p
    IN IF max = c.max_size THEN Done(h, "ok", <<>>)
       ELSE IF ~Writable(c) THEN NotDone(h, "read_only")
       ELSE IF max > SSHBUF_SIZE_MAX THEN NotDone(h, "no_space")
       ELSE IF max < q.alloc THEN NotDone([h EXCEPT ![b] = q], "no_space")
       ELSE Done([h EXCEPT ![b] = [q EXCEPT !.max_size = max]], "ok", <<>>)

----------------------------------------------------------------------------
(* Buffers that look into another one.                                     *)

sshbuf_from(address, len) ==
    [sshbuf_new EXCEPT !.d = <<>>, !.cd = address, !.readonly = TRUE, !.alloc = len, !.size = len, !.max_size = len]
sshbuf_set_parent(h, child, parent) ==
    [h EXCEPT ![child].parent = parent, ![parent].refcount = h[parent].refcount + 1]
sshbuf_fromb(h, b, new) ==
    LET child == [sshbuf_from(Address(h, b), sshbuf_len(h[b])) EXCEPT !.queue = h[b].queue] IN
    Done(sshbuf_set_parent([h EXCEPT ![new] = child], new, b), "ok", <<>>)
sshbuf_froms(h, b, new) ==
    LET s == sshbuf_peek_string_direct(h, b)
        a == Address(h, b)
        child == [sshbuf_from(<<a[1], a[2], a[3] + 4>>, Len(s.v)) EXCEPT !.queue = s.v]
        taken == sshbuf_consume([h EXCEPT ![new] = child], b, Len(s.v) + 4)
    IN IF s.r # "ok" THEN s ELSE Done(sshbuf_set_parent(taken.h, new, b), "ok", s.v)
\* A parent goes with the last of its children (at most two generations).
Drop(h, b) ==
    [h EXCEPT ![b].refcount = h[b].refcount - 1, ![b].live = h[b].refcount > 1]
sshbuf_free(h, b) ==
    LET FreeOne(g, x) == IF x = NoBuffer \/ g.stop THEN g
                         ELSE [h |-> Drop(g.h, x), stop |-> g.h[x].refcount > 1]
        up(x) == IF x = NoBuffer THEN NoBuffer ELSE h[x].parent
    IN Done(FoldLeft(FreeOne, [h |-> h, stop |-> FALSE], <<b, up(b), up(up(b)), up(up(up(b)))>>).h, "ok", <<>>)

----------------------------------------------------------------------------
(* What the queue of each buffer becomes, and what the call should return. *)

Room(c, n) == Len(c.queue) + n <= c.max_size
PutResult(c, n) == IF ~Writable(c) THEN "read_only" ELSE IF Room(c, n) THEN "ok" ELSE "no_space"
First_q(c, n) == SubSeq(c.queue, 1, n)
Rest_q(c, n) == SubSeq(c.queue, n + 1, Len(c.queue))
TakeResult(c, n) == IF Len(c.queue) < n THEN "incomplete" ELSE "ok"
StringLength(c) == PEEK(First_q(c, 4))
StringResult(c) ==
    IF Len(c.queue) < 4 THEN "incomplete"
    ELSE IF StringLength(c) > SSHBUF_SIZE_MAX - 4 THEN "too_large"
    ELSE IF Len(c.queue) < 4 + StringLength(c) THEN "incomplete" ELSE "ok"
StringBytes(c) == SubSeq(c.queue, 5, 4 + StringLength(c))

\* One call: what the code does, with the queue q of buffer b afterwards, the result r
\* and the value v that its users expect.
Calls_b(name, done, b, q, r, v) ==
    /\ buffers.count < MaxBufferCalls
    /\ buffers' = [at |-> [done.h EXCEPT ![b].queue = q],
                   wrong |-> buffers.wrong \cup (IF <<done.r, done.v>> = <<r, v>> THEN {} ELSE {name}),
                   count |-> buffers.count + 1]
h0 == buffers.at
Held == {b \in DOMAIN h0 : h0[b].held /\ h0[b].live}
After(r, b, q) == IF r = "ok" THEN q ELSE h0[b].queue

Putting(name, done, b, bytes) ==
    LET r == IF Len(bytes) > SSHBUF_SIZE_MAX THEN "no_space" ELSE PutResult(h0[b], Len(bytes)) IN
    Calls_b(name, done, b, After(r, b, h0[b].queue \o bytes), r, <<>>)
Taking(name, done, b, n, r, v) == Calls_b(name, done, b, After(r, b, Rest_q(h0[b], n)), r, IF r = "ok" THEN v ELSE <<>>)

PutBytes ==
    \E b \in Held, v \in ByteStrings :
        \/ Putting("put", sshbuf_put(h0, b, v), b, v)
        \/ Putting("put_string", sshbuf_put_string(h0, b, v), b, POKE(4, Len(v)) \o v)
        \/ Putting("put_bignum2_bytes", sshbuf_put_bignum2_bytes(h0, b, v), b, POKE(4, Len(mpint(v))) \o mpint(v))
        \/ Putting("put_u16", sshbuf_put_u(h0, b, 2, Len(v) + 255), b, POKE(2, Len(v) + 255))
        \/ \* the text is put with its NUL
           /\ \A i \in 1..Len(v) : v[i] # 0
           /\ v # <<>>
           /\ LET r == PutResult(h0[b], Len(v) + 1) IN
              Calls_b("putf", sshbuf_putfv(h0, b, v), b, After(r, b, h0[b].queue \o v), r, <<>>)
        \/ LET r == IF Len(Significant(v)) > SSHBUF_MAX_BIGNUM THEN "invalid" ELSE PutResult(h0[b], 4 + Len(mpint(v))) IN
           Calls_b("put_bignum2", sshbuf_put_bignum2(h0, b, v), b, After(r, b, h0[b].queue \o POKE(4, Len(mpint(v))) \o mpint(v)), r, <<>>)
PutBuffer ==
    \E b \in Held, from \in Held :
        /\ b # from
        /\ \/ Putting("putb", sshbuf_putb(h0, b, from), b, h0[from].queue)
           \/ Putting("put_stringb", sshbuf_put_stringb(h0, b, from), b, POKE(4, Len(h0[from].queue)) \o h0[from].queue)
Take ==
    \E b \in Held :
        LET c == h0[b]
            s == StringBytes(c)
            sr == StringResult(c)
            cr == IF sr = "ok" /\ \E i \in 1..(Len(s) - 1) : s[i] = 0 THEN "invalid" ELSE sr
            br == IF sr = "ok" /\ s # <<>> /\ s[1] >= 128 THEN "negative"
                  ELSE IF sr = "ok" /\ (Len(s) > SSHBUF_MAX_BIGNUM + 1 \/ (Len(s) = SSHBUF_MAX_BIGNUM + 1 /\ s[1] # 0)) THEN "too_large" ELSE sr
        IN \/ \E n \in {1, 3, 5} : Taking("get", sshbuf_get(h0, b, n), b, n, TakeResult(c, n), First_q(c, n))
           \/ Taking("get_u16", sshbuf_get_u(h0, b, 2), b, 2, TakeResult(c, 2), First_q(c, 2))
           \/ Taking("get_string", sshbuf_get_string_direct(h0, b), b, 4 + Len(s), sr, s)
           \/ Taking("get_cstring", sshbuf_get_cstring(h0, b), b, 4 + Len(s), cr, SelectSeq(s, LAMBDA x : x # 0))
           \/ Taking("get_bignum2", sshbuf_get_bignum2_bytes_direct(h0, b), b, 4 + Len(s), br, Significant(s))
           \/ \E n \in {1, 3} :
                LET r == TakeResult(c, n) IN
                Calls_b("consume_end", sshbuf_consume_end(h0, b, n), b, After(r, b, First_q(c, Len(c.queue) - n)), r, <<>>)
TakeBuffer ==
    \E b \in Held, to \in Held :
        LET s == StringBytes(h0[b])
            r == IF StringResult(h0[b]) = "ok" THEN PutResult(h0[to], Len(s)) ELSE StringResult(h0[b])
            done == sshbuf_get_stringb(h0, b, to)
            \* a destination without room costs the source its length
            left == IF r = "ok" THEN Rest_q(h0[b], 4 + Len(s)) ELSE IF StringResult(h0[b]) = "ok" THEN Rest_q(h0[b], 4) ELSE h0[b].queue
        IN /\ b # to
           /\ Calls_b("get_stringb", [done EXCEPT !.h[to].queue = After(r, to, h0[to].queue \o s)], b, left, r, IF r = "ok" THEN s ELSE <<>>)
Look ==
    \E b \in Held, offset \in {0, 2} :
        LET c == h0[b]
            q == c.queue
        IN \/ Calls_b("peek_u16", sshbuf_peek_u(h0, b, offset, 2), b, q, TakeResult(c, offset + 2),
                   IF Len(q) < offset + 2 THEN <<>> ELSE SubSeq(q, offset + 1, offset + 2))
           \/ LET r == IF Len(q) < offset + 2 THEN "no_space" ELSE IF Writable(c) THEN "ok" ELSE "read_only" IN
              Calls_b("poke", sshbuf_poke(h0, b, offset, <<9, 9>>), b,
                   IF r = "ok" THEN [i \in 1..Len(q) |-> IF i \in {offset + 1, offset + 2} THEN 9 ELSE q[i]] ELSE q, r, <<>>)
           \/ \E v \in ByteStrings \ {<<>>} :
                /\ Len(q) >= offset + Len(v)
                /\ LET f == {i \in offset..(Len(q) - Len(v)) : \A j \in 1..Len(v) : q[i + j] = v[j]} IN
                   \/ Calls_b("cmp", sshbuf_cmp(h0, b, offset, v), b, q, IF offset \in f THEN "ok" ELSE "invalid", <<>>)
                   \/ Calls_b("find", sshbuf_find(h0, b, offset, v), b, q, IF f = {} THEN "invalid" ELSE "ok", IF f = {} THEN <<>> ELSE <<Min(f)>>)
           \/ LET bad == \E i \in 1..(Len(q) - 1) : q[i] = 0 IN
              /\ offset = 0
              /\ Calls_b("dup_string", sshbuf_dup_string(h0, b), b, q, IF bad THEN "invalid" ELSE "ok",
                      IF bad THEN <<>> ELSE SelectSeq(q, LAMBDA x : x # 0))
Limit ==
    \E b \in Held :
        \/ Calls_b("reset", sshbuf_reset(h0, b), b, <<>>, "ok", <<>>)
        \/ \E m \in MaxSizes :
            LET done == sshbuf_set_max_size(h0, b, m)
                r == IF m = h0[b].max_size THEN "ok" ELSE IF ~Writable(h0[b]) THEN "read_only"
                     ELSE IF Len(h0[b].queue) > m THEN "no_space" ELSE done.r \* otherwise it may depend on the block
            IN Calls_b("set_max_size", done, b, h0[b].queue, r, <<>>)
Make ==
    \E new \in DOMAIN h0 :
        /\ ~h0[new].live /\ h0[new] = NotMade
        /\ \A k \in DOMAIN h0 : k < new => h0[k] # NotMade
        /\ \/ Calls_b("new", Done([h0 EXCEPT ![new] = sshbuf_new], "ok", <<>>), new, <<>>, "ok", <<>>)
           \/ \E b \in Held : Calls_b("fromb", sshbuf_fromb(h0, b, new), b, h0[b].queue, "ok", <<>>)
           \/ \E b \in Held :
                LET r == StringResult(h0[b])
                    s == StringBytes(h0[b])
                IN Taking("froms", sshbuf_froms(h0, b, new), b, 4 + Len(s), r, s)
Free ==
    \E b \in Held :
        LET done == sshbuf_free(h0, b) IN
        Calls_b("free", [done EXCEPT !.h[b].held = FALSE], b, h0[b].queue, "ok", <<>>)

BufferStart(s) ==
    LET one == [b \in 1..BufferCount |-> IF b = 1 THEN sshbuf_new ELSE NotMade]
        filled == IF s.put = <<>> THEN one ELSE sshbuf_put(one, 1, s.put).h
        used == sshbuf_get(filled, 1, s.got).h
    IN buffers = [at |-> [used EXCEPT ![1].queue = SubSeq(s.put, s.got + 1, Len(s.put))],
                  wrong |-> {}, count |-> s.made]
BufferInit == \E s \in BufferStarts : BufferStart(s)
BufferNext == PutBytes \/ PutBuffer \/ Take \/ TakeBuffer \/ Look \/ Limit \/ Make \/ Free
BufferSpec == BufferInit /\ [][BufferNext]_bufferVars

----------------------------------------------------------------------------
(* Properties.                                                             *)

\* The checks of sshbuf_check_sanity(), which would end the program, never fail.
Sane == \A b \in Held : sshbuf_check_sanity(h0[b]) /\ (h0[b].readonly \/ Len(h0[b].d) = h0[b].alloc)

\* However the memory is packed, moved, grown and shared, a buffer holds the bytes put
\* into it and not yet taken, and a buffer that looks into another keeps its bytes.
HoldsItsQueue == \A b \in Held : StillThere(h0, b) /\ sshbuf_ptr(h0, b) = h0[b].queue

\* Each call returns what a queue of bytes with a limit would: no value is lost or invented
\* and a call that fails says why.
AnswersAsQueue == buffers.wrong = {}

\* A buffer lives exactly as long as its owner or a buffer that looks into it.
LivesWhileUsed ==
    \A b \in DOMAIN h0 :
        LET users == {c \in DOMAIN h0 : h0[c].live /\ h0[c].parent = b} IN
        /\ h0[b].live <=> (h0[b].held \/ users # {})
        /\ h0[b].refcount = Cardinality(users) + (IF h0[b].held THEN 1 ELSE 0)

BufferSound == Sane /\ HoldsItsQueue /\ AnswersAsQueue /\ LivesWhileUsed
============================================================================
