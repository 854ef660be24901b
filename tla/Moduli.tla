------------------------------ MODULE Moduli ------------------------------
(***************************************************************************)
(* Groups for Diffie-Hellman: ssh-keygen -M generate sieves candidates     *)
(* (moduli.c:gen_candidates), ssh-keygen -M screen tests them, can be      *)
(* killed and continues at its checkpoint (prime_test), and the server     *)
(* chooses among the results while the file grows (dh.c:choose_dh).        *)
(*                                                                         *)
(* Numbers are small and the sieves shorter; the arithmetic is the code's. *)
(***************************************************************************)
EXTENDS Naturals, Sequences, SequencesExt, FiniteSetsExt

CONSTANTS
    SieveStarts,    \* the runs of ssh-keygen -M generate whose candidates are in one file:
                    \* sequences of [base, power], the start of the sieve and the bits of q
    LargeBits,      \* odd numbers in the large sieve
    TinyNumber,     \* TINY_NUMBER
    SmallMaximum,   \* SMALL_MAXIMUM
    QsizeMinimum,   \* QSIZE_MINIMUM
    ScreenOptions,  \* [start, lines, generator] of ssh-keygen -M screen
    DhRequests,     \* [min, want, max] of clients
    MaxKills,       \* bound: how often the screening is killed
    MaxUnrecorded   \* bound: how many writes of the checkpoint fail

VARIABLES
    candidates,     \* the file of candidates: [q, size]
    screen,         \* the screening: pc, o (its options), count_in, last, end
    checkpoint,     \* the line of the checkpoint file, 0 if there is none
    moduli,         \* the result: [p, size, generator]
    choose,         \* choose_dh(): pc, r (the request), best, bestcount, group, and for the
                    \* properties the sizes of the lines read first
    kills,          \* how often the screening was killed
    skipped,        \* lines in hand when it was killed
    unrecorded      \* lines for which the checkpoint could not be written

moduliVars == <<candidates, screen, checkpoint, moduli, choose, kills, skipped, unrecorded>>

----------------------------------------------------------------------------
(* The sieves.  A sieve is the set of its marked bits.                     *)

\* Every step-th bit from the first.
Marks(first, step, bits) == {u \in first..(bits - 1) : (u - first) % step = 0}
\* The distance to the first multiple of s.
ToMultiple(r, s) == IF r = 0 THEN 0 ELSE s - r

\* Bits of the large sieve for multiples of s among q = base + 2u and p = 2q + 1.
sieve_large(base, s) ==
    LET r == base % s
        u == ToMultiple(r, s)
        even == IF u % 2 = 1 THEN u + s ELSE u
        v == ToMultiple((2 * r + 1) % s, s)
        \* the first of v, v + s, ... that 4 divides, unless it is too large
        fours == {n \in 0..3 : (v + n * s) % 4 = 0}
        w == v + Min(fours) * s
    IN (IF u < LargeBits * 2 THEN Marks(even \div 2, s, LargeBits) ELSE {})
       \cup (IF v < LargeBits * 4 /\ w <= SmallMaximum THEN Marks(w \div 4, s, LargeBits) ELSE {})

TinyBits == TinyNumber \div 2
TinySieve ==
    FoldLeft(LAMBDA m, i : IF i \in m THEN m ELSE m \cup Marks(i + 2 * i + 3, 2 * i + 3, TinyBits),
             {}, [n \in 1..TinyBits |-> n - 1])
TinyPrimes == {2 * i + 3 : i \in (0..(TinyBits - 1)) \ TinySieve}
\* Composite numbers of one block, from smallbase.
SmallSieve(smallbase) ==
    UNION {LET s == ToMultiple(smallbase % t, t)
           IN Marks((IF s % 2 = 1 THEN s + t ELSE s) \div 2, t, TinyBits) : t \in TinyPrimes}
SmallBases == {b \in (TinyNumber + 3)..(SmallMaximum - TinyNumber - 1) : (b - 3) % TinyNumber = 0}
SmallPrimes == UNION {{2 * i + b : i \in (0..(TinyBits - 1)) \ SmallSieve(b)} : b \in SmallBases}

LargeSieve(base) == UNION {sieve_large(base, s) : s \in TinyPrimes \cup SmallPrimes}

\* The candidates in their order.
gen_candidates(start) ==
    LET left == (0..(LargeBits - 1)) \ LargeSieve(start.base)
    IN [n \in 1..Cardinality(left) |->
            [q |-> start.base + 2 * (CHOOSE u \in left : Cardinality({v \in left : v <= u}) = n),
             size |-> start.power - 1]]

----------------------------------------------------------------------------
(* The test of one line.                                                   *)

num_bits(n) == Min({b \in 0..16 : n < 2 ^ b})
IsPrime(n) == n > 1 /\ \A d \in 2..(n - 1) : n % d # 0
Generator(p) == IF p % 24 = 11 THEN 2 ELSE IF p % 10 \in {3, 7} THEN 5 ELSE 0

\* The line it writes, if any.
TestLine(line, wanted) ==
    LET p == 2 * line.q + 1
        size == line.size + 1
        g == Generator(p)
    IN IF /\ num_bits(p) = size + 1 /\ size >= QsizeMinimum
          /\ wanted > 0 => wanted = g
          /\ g # 0
          /\ IsPrime(line.q) /\ IsPrime(p)
       THEN <<[p |-> p, size |-> size, generator |-> g]>>
       ELSE <<>>

NoScreening == [pc |-> "none", o |-> [start |-> 0, lines |-> 0, generator |-> 0],
                count_in |-> 0, last |-> 0, end |-> 0]

\* Every start of the job has the same options.
StartScreening(o) ==
    /\ screen.pc = "none"
    /\ LET last == Max({checkpoint, o.start})
       IN screen' = [pc |-> "line", o |-> o, count_in |-> 0, last |-> last,
                     end |-> IF o.lines = 0 THEN Len(candidates) ELSE o.start + o.lines]
    /\ UNCHANGED <<candidates, checkpoint, moduli, choose, kills, skipped, unrecorded>>

\* Mistake: the line before is written.
CheckpointBehind(n) == n - 1
CheckpointLine(n) == n
\* A failure is only logged.
write_checkpoint(n) ==
    \/ checkpoint' = CheckpointLine(n) /\ UNCHANGED unrecorded
    \/ /\ Cardinality(unrecorded) < MaxUnrecorded
       /\ unrecorded' = unrecorded \cup {n} /\ UNCHANGED checkpoint
\* The checkpoint is removed at the end, even after an error.
Finished(pc) == screen' = [screen EXCEPT !.pc = pc] /\ checkpoint' = 0 /\ UNCHANGED unrecorded

\* The next line; its number is recorded before it is tested.
NextLine ==
    /\ screen.pc = "line"
    /\ LET n == screen.count_in + 1
       IN IF n > Len(candidates) \/ n > screen.end THEN Finished("done")
          ELSE IF n <= screen.last
               THEN screen' = [screen EXCEPT !.count_in = n] /\ UNCHANGED <<checkpoint, unrecorded>>
               ELSE screen' = [screen EXCEPT !.count_in = n, !.pc = "test"] /\ write_checkpoint(n)
    /\ UNCHANGED <<candidates, moduli, choose, kills, skipped>>

\* The result is written, or cannot be.
PrimeTest ==
    /\ screen.pc = "test"
    /\ LET out == TestLine(candidates[screen.count_in], screen.o.generator)
       IN \/ /\ moduli' = moduli \o out
             /\ screen' = [screen EXCEPT !.pc = "line"] /\ UNCHANGED <<checkpoint, unrecorded>>
          \/ /\ out # <<>> /\ Finished("error")
             /\ UNCHANGED moduli
    /\ UNCHANGED <<candidates, choose, kills, skipped>>

KillScreening ==
    /\ screen.pc \in {"line", "test"} /\ kills < MaxKills
    /\ kills' = kills + 1
    /\ skipped' = IF screen.pc = "test" THEN skipped \cup {screen.count_in} ELSE skipped
    /\ screen' = [screen EXCEPT !.pc = "killed"]
    /\ UNCHANGED <<candidates, checkpoint, moduli, choose, unrecorded>>

Restart ==
    /\ screen.pc = "killed"
    /\ screen' = [screen EXCEPT !.pc = "line", !.count_in = 0, !.last = Max({checkpoint, screen.o.start})]
    /\ UNCHANGED <<candidates, checkpoint, moduli, choose, kills, skipped, unrecorded>>

----------------------------------------------------------------------------
(* The choice of a group.  0 stands for a fixed group.                     *)

NoChoice == [pc |-> "none", r |-> [min |-> 0, want |-> 0, max |-> 0], best |-> 0, bestcount |-> 0,
             group |-> 0, sizes |-> <<>>]

\* parse_prime(): sizes in the file are one less.
DhgSize(line) == line.size + 1
\* Mistake: the larger one is preferred.
Better_larger(size, best, want) == size > best
Better(size, best, want) == (size > want /\ size < best) \/ (size > best /\ best < want)

FirstPass(r) ==
    /\ choose.pc = "none"
    /\ LET One(b, line) ==
               IF DhgSize(line) > r.max \/ DhgSize(line) < r.min THEN b
               ELSE IF Better(DhgSize(line), b.best, r.want) THEN [best |-> DhgSize(line), n |-> 1]
               ELSE IF DhgSize(line) = b.best THEN [b EXCEPT !.n = @ + 1]
               ELSE b
           b == FoldLeft(One, [best |-> 0, n |-> 0], moduli)
       IN choose' = [pc |-> IF b.n = 0 THEN "chosen" ELSE "second", r |-> r, best |-> b.best,
                     bestcount |-> b.n, group |-> 0,
                     sizes |-> [i \in DOMAIN moduli |-> DhgSize(moduli[i])]]
    /\ UNCHANGED <<candidates, screen, checkpoint, moduli, kills, skipped, unrecorded>>

SecondPass(which) ==
    /\ choose.pc = "second" /\ which < choose.bestcount
    /\ LET fit == SelectSeq(moduli, LAMBDA line : DhgSize(line) = choose.best)
       IN choose' = [choose EXCEPT !.pc = "chosen",
                                   !.group = IF which < Len(fit) THEN fit[which + 1].p ELSE 0]
    /\ UNCHANGED <<candidates, screen, checkpoint, moduli, kills, skipped, unrecorded>>

\* The administrator empties the file.
EmptyModuli ==
    /\ screen.pc = "done" /\ moduli # <<>>
    /\ screen' = [screen EXCEPT !.pc = "emptied"]
    /\ moduli' = <<>>
    /\ UNCHANGED <<candidates, checkpoint, choose, kills, skipped, unrecorded>>

ModuliStart(starts) ==
    /\ candidates = FlattenSeq([i \in DOMAIN starts |-> gen_candidates(starts[i])])
    /\ screen = NoScreening /\ checkpoint = 0 /\ moduli = <<>> /\ choose = NoChoice /\ kills = 0
    /\ skipped = {} /\ unrecorded = {}
NoModuli ==
    /\ candidates = <<>> /\ screen = NoScreening /\ checkpoint = 0 /\ moduli = <<>>
    /\ choose = NoChoice /\ kills = 0 /\ skipped = {} /\ unrecorded = {}
ModuliInit == \E starts \in SieveStarts : ModuliStart(starts)
ModuliNext ==
    \/ \E o \in ScreenOptions : StartScreening(o)
    \/ NextLine \/ PrimeTest
    \/ KillScreening \/ Restart
    \/ \E r \in DhRequests : FirstPass(r)
    \/ \E which \in 0..2 : SecondPass(which)
    \/ EmptyModuli

----------------------------------------------------------------------------
\* The candidates are the numbers for which neither q nor 2q + 1 has a small factor, and those
\* only (moduli.c:sieve_large, the steps of the three sieves).
SieveExact ==
    LET small == {s \in 3..(Max(SmallBases) + TinyNumber - 1) : IsPrime(s)}
        Left(start) == {q \in {start.base + 2 * u : u \in 0..(LargeBits - 1)} :
                            \A s \in small : q % s # 0 /\ (2 * q + 1) % s # 0}
    IN candidates # <<>> /\ screen.pc = "none" =>
        \E starts \in SieveStarts :
            {candidates[n].q : n \in DOMAIN candidates} = UNION {Left(start) : start \in ToSet(starts)}

\* A job that is started again where it was killed, as often as that may be, writes every safe
\* prime of its lines exactly once, but for those of the lines it had in hand when it was killed
\* (may be missing) and of lines whose checkpoint could not be written (may be repeated) (moduli.c:prime_test, write_checkpoint, read_checkpoint).
ScreenedOnce ==
    screen.pc = "done" =>
        LET lines == {n \in DOMAIN candidates : n > screen.o.start /\ n <= screen.end}
            found == {n \in lines : TestLine(candidates[n], screen.o.generator) # <<>>}
            Written(n) == Cardinality({i \in DOMAIN moduli : moduli[i].p = 2 * candidates[n].q + 1})
        IN \A n \in DOMAIN candidates :
              /\ n \in found \ skipped => Written(n) >= 1
              /\ Written(n) > 0 => n \in found
              /\ n \notin unrecorded => Written(n) <= 1

\* A group that is chosen while the file grows is safe and between the bounds of the request.
\* If no size in the file, as it was read first, is at least the one wanted, it is of the largest
\* size; otherwise of the wanted size or the smallest above it, and in a file sorted by size
\* never above the wanted size in vain: a larger size that comes first hides the wanted one
\* (dh.c:choose_dh).
GroupFits ==
    choose.pc = "chosen" /\ choose.group # 0 =>
        LET r == choose.r
            size == num_bits(choose.group)
            sizes == ToSet(choose.sizes) \cap r.min..r.max
            enough == {n \in sizes : n >= r.want}
            larger == enough \ {r.want}
            sorted == \A i, j \in DOMAIN choose.sizes : i < j => choose.sizes[i] <= choose.sizes[j]
        IN /\ IsPrime(choose.group) /\ IsPrime((choose.group - 1) \div 2)
           /\ size \in sizes
           /\ enough = {} => size = Max(sizes)
           /\ enough # {} => size \in enough /\ \A n \in larger : size <= n
           /\ enough # {} /\ sorted => size = Min(enough)

ModuliSound == SieveExact /\ ScreenedOnce /\ GroupFits
=============================================================================
