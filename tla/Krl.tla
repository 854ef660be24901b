-------------------------------- MODULE Krl --------------------------------
(***************************************************************************)
(* Key revocation lists (krl.c, bitmap.c): ssh-keygen makes and updates    *)
(* one from lines of text, and writes it in the most compact form; sshd    *)
(* reads the file for each key it is offered (authfile.c, auth.c).         *)
(*                                                                         *)
(* Serial numbers are 0..MaxSerial, a small 2^64 - 1.  A plain key is      *)
(* [key, ca |-> "none", serial |-> 0, id |-> "none"], anything else a      *)
(* certificate.  Nobody signs a list: signature sections are left out.     *)
(***************************************************************************)
EXTENDS Integers, Sequences, SequencesExt, FiniteSets

CONSTANTS
    MaxSerial,      \* (u_int64_t)-1
    CostLimit,      \* 1 << 31, of the estimates of a section's size
    BitmapMax,      \* BITMAP_MAX, in bits
    MaxBignum,      \* SSHBUF_MAX_BIGNUM, in bytes
    CAs,            \* authorities; "any" is the wildcard
    KrlLines,       \* lines that ssh-keygen may be given
    KrlStarts,      \* ranges of the list there may be at first: sets of ranges apart
    MaxKrlLines     \* bound: lines of one ssh-keygen

VARIABLES
    krl,        \* the list in memory of ssh-keygen
    kfile,      \* the file: state "none", "empty" (truncated, not yet written), "krl"; blob
    keygen,     \* the program: pc, lines handled
    asked,      \* the revocations of the list in memory, and of the file
    written

krlVars == <<krl, kfile, keygen, asked, written>>

Range_k(lo, hi) == [lo |-> lo, hi |-> hi]
ssh_krl_init ==
    [serials |-> [c \in CAs |-> {}], ids |-> [c \in CAs |-> {}],
     keys |-> {}, sha1s |-> {}, sha256s |-> {}]

----------------------------------------------------------------------------
(* Serial numbers: a tree of ranges, none of which touches another.        *)

serial_cmp(a, b) == IF a.hi >= b.lo /\ a.lo <= b.hi THEN 0 ELSE IF a.lo < b.lo THEN -1 ELSE 1
Lowest(rs) == CHOOSE r \in rs : \A s \in rs : r.lo <= s.lo
Highest(rs) == CHOOSE r \in rs : \A s \in rs : r.lo >= s.lo

RECURSIVE Predecessors(_, _)
Predecessors(before, ers) ==
    IF before = {} \/ (ers.lo # 0 /\ Highest(before).hi < ers.lo - 1)
    THEN [left |-> before, ers |-> ers]
    ELSE Predecessors(before \ {Highest(before)},
            IF Highest(before).lo < ers.lo THEN [ers EXCEPT !.lo = Highest(before).lo] ELSE ers)

\* Mistake: the number after the last one is 0.
RECURSIVE SuccessorsWrap(_, _)
SuccessorsWrap(after, ers) ==
    IF after = {} \/ Lowest(after).lo > (ers.hi + 1) % (MaxSerial + 1)
    THEN [left |-> after, ers |-> ers]
    ELSE SuccessorsWrap(after \ {Lowest(after)},
            IF Lowest(after).hi > ers.hi THEN [ers EXCEPT !.hi = Lowest(after).hi] ELSE ers)
RECURSIVE Successors(_, _)
Successors(after, ers) ==
    IF after = {} \/ (ers.hi # MaxSerial /\ Lowest(after).lo > ers.hi + 1)
    THEN [left |-> after, ers |-> ers]
    ELSE Successors(after \ {Lowest(after)},
            IF Lowest(after).hi > ers.hi THEN [ers EXCEPT !.hi = Lowest(after).hi] ELSE ers)

\* The trees the insertion of a range may lead to: which of several overlapping ranges is
\* found and grows depends on the shape of the tree.
insert_serial_range(rt, lo, hi) ==
    LET rs == Range_k(lo, hi)
        overlapping == {e \in rt : serial_cmp(e, rs) = 0}
        Coalesce(pos, ers) ==
            LET p == Predecessors({e \in rt : e.lo < pos.lo}, ers)
                s == Successors({e \in rt : e.lo > pos.lo}, p.ers)
            IN p.left \cup s.left \cup {s.ers}
    IN IF overlapping = {} THEN {Coalesce(rs, rs)}
       ELSE {Coalesce(e, Range_k(IF e.lo > lo THEN lo ELSE e.lo, IF e.hi < hi THEN hi ELSE e.hi)) :
                e \in overlapping}

----------------------------------------------------------------------------
(* What ssh-keygen is asked to revoke: update_krl_from_file().             *)

is_cert(k) == k.ca # "none"

\* The lists one line may lead to; {} if the line is refused.
ssh_krl_revoke_cert_by_serial_range(l, ca, lo, hi) ==
    IF lo > hi \/ lo = 0 THEN {}
    ELSE {[l EXCEPT !.serials[ca] = t] : t \in insert_serial_range(l.serials[ca], lo, hi)}
ssh_krl_revoke_cert_by_key_id(l, ca, id) == {[l EXCEPT !.ids[ca] = @ \cup {id}]}
\* Of a certificate the key without the certificate is revoked.
ssh_krl_revoke_key_explicit(l, k) == {[l EXCEPT !.keys = @ \cup {k.key}]}
ssh_krl_revoke_key_sha1(l, k) == {[l EXCEPT !.sha1s = @ \cup {k.key}]}
ssh_krl_revoke_key_sha256(l, k) == {[l EXCEPT !.sha256s = @ \cup {k.key}]}
ssh_krl_revoke_key(l, k) ==
    IF ~is_cert(k) THEN ssh_krl_revoke_key_explicit(l, k)
    ELSE IF k.serial = 0 THEN ssh_krl_revoke_cert_by_key_id(l, k.ca, k.id)
    ELSE ssh_krl_revoke_cert_by_serial_range(l, k.ca, k.serial, k.serial)

update_krl_from_file(l, line) ==
    CASE line.kind = "serial" -> ssh_krl_revoke_cert_by_serial_range(l, line.ca, line.lo, line.hi)
      [] line.kind = "id" -> ssh_krl_revoke_cert_by_key_id(l, line.ca, line.id)
      [] line.kind = "key" -> ssh_krl_revoke_key_explicit(l, line.k)
      [] line.kind = "sha1" -> ssh_krl_revoke_key_sha1(l, line.k)
      [] line.kind = "sha256" -> ssh_krl_revoke_key_sha256(l, line.k)
      [] line.kind = "file" -> ssh_krl_revoke_key(l, line.k)

----------------------------------------------------------------------------
(* The file.                                                               *)

Least(a, b) == IF a < b THEN a ELSE b
Bytes(bits) == (bits + 7) \div 8

\* The type of the section that is cheapest for a range, and whether it is a new bitmap.
choose_next_state(state, contig, final, last_gap, next_gap) ==
    LET run == Least(contig, CostLimit)
        before == Least(last_gap, CostLimit)
        rest == IF final THEN 0 ELSE 72
        gap == IF final THEN 0 ELSE Least(Least(next_gap, CostLimit), 72)
        list == Bytes((IF state = "list" THEN 0 ELSE 8) + 64 * run + rest)
        range == Bytes(8 + 128 + rest)
        bitmap == Bytes((IF state = "bitmap" THEN 0 ELSE 72) + before + run + gap)
        restart == Bytes(72 + run + gap)
        afterRange == IF range < bitmap THEN <<"range", range>> ELSE <<"bitmap", bitmap>>
        afterList == IF list < afterRange[2] THEN <<"list", list>> ELSE afterRange
    IN IF restart < afterList[2] THEN [state |-> "bitmap", force |-> TRUE]
       ELSE [state |-> afterList[1], force |-> FALSE]

Section(type, start, serials) == [type |-> type, start |-> start, serials |-> serials]

\* Mistake: a section of one range is not finished by the next range.
revoked_certs_ranges(acc, rs, final, next) ==
    LET c == choose_next_state(acc.state, 1 + (rs.hi - rs.lo), final,
                IF acc.state = "none" THEN 0 ELSE rs.lo - acc.last, next)
        finish == acc.state # "none" /\ (c.force \/ c.state # acc.state)
        sect == IF finish \/ acc.state = "none" THEN Section(c.state, rs.lo, {}) ELSE acc.sect
    IN [state |-> c.state, last |-> rs.hi, bad |-> acc.bad,
        out |-> IF finish THEN Append(acc.out, acc.sect) ELSE acc.out,
        sect |-> [sect EXCEPT !.serials = @ \cup (rs.lo .. rs.hi)]]
\* One turn of the loop of revoked_certs_generate(): acc has the sections so far, the type of
\* the current one, the last number, and whether a bitmap would be too large.
revoked_certs_step(acc, rs, final, next) ==
    LET c == choose_next_state(acc.state, 1 + (rs.hi - rs.lo), final,
                IF acc.state = "none" THEN 0 ELSE rs.lo - acc.last, next)
        finish == acc.state # "none" /\ (c.force \/ c.state # acc.state \/ acc.state = "range")
        sect == IF finish \/ acc.state = "none" THEN Section(c.state, rs.lo, {}) ELSE acc.sect
    IN [state |-> c.state, last |-> rs.hi,
        out |-> IF finish THEN Append(acc.out, acc.sect) ELSE acc.out,
        sect |-> [sect EXCEPT !.serials = @ \cup (rs.lo .. rs.hi)],
        bad |-> acc.bad \/ (c.state = "bitmap" /\ rs.hi - sect.start > BitmapMax)]

RECURSIVE Generate(_, _)
Generate(acc, rt) ==
    IF rt = {} THEN acc
    ELSE LET rs == Lowest(rt)
             rest == rt \ {rs}
         IN Generate(revoked_certs_step(acc, rs, rest = {},
                        IF rest = {} THEN 0 ELSE Lowest(rest).lo - rs.hi), rest)

revoked_certs_generate(rt) ==
    LET acc == Generate([state |-> "none", out |-> <<>>, last |-> 0, bad |-> FALSE,
                         sect |-> Section("none", 0, {})], rt)
    IN [bad |-> acc.bad,
        sections |-> IF acc.state = "none" THEN <<>> ELSE Append(acc.out, acc.sect)]

\* An authority without revocations has a section, too, but that says nothing.
ssh_krl_to_blob(l) ==
    LET gen == [c \in CAs |-> revoked_certs_generate(l.serials[c])] IN
    [bad |-> \E c \in CAs : gen[c].bad, certs |-> [c \in CAs |-> gen[c].sections],
     ids |-> l.ids, keys |-> l.keys, sha1s |-> l.sha1s, sha256s |-> l.sha256s]

\* The bytes of a bitmap as a number; one more if its first bit would be set.
BignumLength(bits) == Bytes(bits) + (IF bits % 8 = 0 THEN 1 ELSE 0)
sshbuf_get_bignum2_bytes_direct(bits) ==
    ~ \/ BignumLength(bits) > MaxBignum + 1
      \/ BignumLength(bits) = MaxBignum + 1 /\ bits % 8 # 0

\* A section is refused, or its numbers are inserted one after the other, a range at once; of
\* a section of ranges more than the first is unparsed data.
SectionBits(s) == 1 + (CHOOSE n \in s.serials : \A m \in s.serials : m <= n) - s.start
SectionRefused(s) ==
    \/ s.type = "bitmap" /\ (~sshbuf_get_bignum2_bytes_direct(SectionBits(s))
                             \/ Bytes(SectionBits(s)) > BitmapMax \div 8)
    \/ s.type = "range" /\ Cardinality(s.serials) # SectionBits(s)
    \/ 0 \in s.serials
InsertSerial(rt, lo, hi) == CHOOSE t \in insert_serial_range(rt, lo, hi) : TRUE
Smallest(ns) == CHOOSE n \in ns : \A m \in ns : n <= m
RECURSIVE InsertAll(_, _)
InsertAll(rt, ns) ==
    IF ns = {} THEN rt
    ELSE InsertAll(InsertSerial(rt, Smallest(ns), Smallest(ns)), ns \ {Smallest(ns)})
SectionTree(rt, s) ==
    IF s.type = "range" THEN InsertSerial(rt, s.start, s.start + SectionBits(s) - 1)
    ELSE InsertAll(rt, s.serials)
parse_revoked_certs(sections) == FoldLeft(SectionTree, {}, sections)

\* What the sections hold, each of them to its end.
ReadSections(b) ==
    [serials |-> [c \in CAs |-> parse_revoked_certs(b.certs[c])], ids |-> b.ids,
     keys |-> b.keys, sha1s |-> b.sha1s, sha256s |-> b.sha256s]
ssh_krl_from_blob(b) ==
    [bad |-> \E c \in CAs : \E i \in DOMAIN b.certs[c] : SectionRefused(b.certs[c][i]),
     krl |-> ReadSections(b)]

----------------------------------------------------------------------------
(* The decision on a key.                                                  *)

is_cert_revoked(l, c, k) ==
    \/ k.id \in l.ids[c]
    \/ k.serial # 0 /\ \E r \in l.serials[c] : serial_cmp(r, Range_k(k.serial, k.serial)) = 0
is_key_revoked(l, k) ==
    \/ k.key \in l.sha1s \cup l.sha256s \cup l.keys
    \/ is_cert(k) /\ (is_cert_revoked(l, k.ca, k) \/ is_cert_revoked(l, "any", k))
Plain(k) == [key |-> k, ca |-> "none", serial |-> 0, id |-> "none"]
ssh_krl_check_key(l, k) == is_key_revoked(l, k) \/ (is_cert(k) /\ is_key_revoked(l, Plain(k.ca)))

\* A file that cannot be read revokes every key, one that is no list is a text without keys.
auth_key_is_revoked(f, loaded, k) ==
    \/ f.state = "none"
    \/ f.state = "krl" /\ (loaded.bad \/ ssh_krl_check_key(loaded.krl, k))

----------------------------------------------------------------------------
(* ssh-keygen: do_gen_krl().                                               *)

NoBlob == ssh_krl_to_blob(ssh_krl_init)

KeygenStarts(updating) ==
    /\ keygen.pc = "idle" /\ keygen.runs > 0
    /\ updating => kfile.state # "none"
    /\ LET loaded == ssh_krl_from_blob(kfile.blob) IN
       IF updating /\ loaded.bad
       THEN keygen' = [keygen EXCEPT !.pc = "fatal"] /\ UNCHANGED <<krl, asked>>
       ELSE /\ keygen' = [pc |-> "lines", lines |-> 0, runs |-> keygen.runs - 1]
            /\ krl' = IF updating THEN loaded.krl ELSE ssh_krl_init
            /\ asked' = IF updating THEN written ELSE {}
    /\ UNCHANGED <<kfile, written>>

KeygenReads ==
    /\ keygen.pc = "lines" /\ keygen.lines < MaxKrlLines
    /\ \E line \in KrlLines :
        LET lists == update_krl_from_file(krl, line) IN
        IF lists = {} THEN keygen' = [keygen EXCEPT !.pc = "fatal"] /\ UNCHANGED <<krl, asked>>
        ELSE /\ krl' \in lists /\ asked' = asked \cup {line}
             /\ keygen' = [keygen EXCEPT !.lines = @ + 1]
    /\ UNCHANGED <<kfile, written>>

\* sshbuf_write_file(): the file is truncated, then written.
KeygenTruncates ==
    /\ keygen.pc = "lines" /\ keygen.lines > 0
    /\ IF ssh_krl_to_blob(krl).bad
       THEN keygen' = [keygen EXCEPT !.pc = "fatal"] /\ UNCHANGED kfile
       ELSE keygen' = [keygen EXCEPT !.pc = "write"] /\ kfile' = [kfile EXCEPT !.state = "empty"]
    /\ UNCHANGED <<krl, asked, written>>
KeygenWrites ==
    /\ keygen.pc = "write"
    /\ kfile' = [state |-> "krl", blob |-> ssh_krl_to_blob(krl)]
    /\ written' = asked /\ keygen' = [keygen EXCEPT !.pc = "idle"]
    /\ UNCHANGED <<krl, asked>>

\* At first a list that revokes some ranges is about to be written.
KrlStart(ranges, runs) ==
    /\ keygen = [pc |-> "lines", lines |-> IF ranges = {} THEN 0 ELSE 1, runs |-> runs]
    /\ krl = [ssh_krl_init EXCEPT !.serials = [c \in CAs |-> IF c = "any" THEN {} ELSE ranges]]
    /\ asked = {[kind |-> "serial", ca |-> c, lo |-> r.lo, hi |-> r.hi] :
                    c \in CAs \ {"any"}, r \in ranges}
    /\ written = {} /\ kfile = [state |-> "none", blob |-> NoBlob]
KrlInit == \E ranges \in KrlStarts : KrlStart(ranges, 1)

KrlNext ==
    \/ \E updating \in BOOLEAN : KeygenStarts(updating)
    \/ KeygenReads \/ KeygenTruncates \/ KeygenWrites

KrlSpec == KrlInit /\ [][KrlNext]_krlVars

----------------------------------------------------------------------------
(* Properties.                                                             *)

\* What the lines say of a key.
Says(line, k) ==
    CASE line.kind = "serial" -> is_cert(k) /\ line.ca \in {k.ca, "any"} /\ k.serial \in line.lo .. line.hi
      [] line.kind = "id" -> is_cert(k) /\ line.ca \in {k.ca, "any"} /\ k.id = line.id
      [] line.kind = "file" /\ is_cert(line.k) ->
            /\ k.ca = line.k.ca
            /\ IF line.k.serial = 0 THEN k.id = line.k.id ELSE k.serial = line.k.serial
      [] OTHER -> line.k.key \in {k.key, k.ca}
Serials(lines) ==
    UNION {{line.lo, line.hi, line.lo - 1, line.hi + 1} : line \in {l \in lines : l.kind = "serial"}}
TestKeys ==
    {Plain(k) : k \in {"a", "b", "ca1"}} \cup
    [key : {"a", "b"}, ca : CAs \ {"any"}, serial : {0} \cup (Serials(KrlLines) \cap 0 .. MaxSerial),
     id : {"x", "y"}]

\* A key or certificate is refused by sshd exactly if a line that ssh-keygen was given, when
\* the list was made or updated, says so: whatever form the numbers were written in, and up to
\* the largest number (insert_serial_range(), revoked_certs_generate(), parse_revoked_certs()).
KrlFaithful ==
    kfile.state = "krl" =>
        LET loaded == ssh_krl_from_blob(kfile.blob) IN
        \A k \in TestKeys :
            auth_key_is_revoked(kfile, loaded, k) <=> \E line \in written : Says(line, k)

\* The ranges of an authority do not overlap or touch, so that the tree finds each number
\* once and the order of its entries is the order of the numbers (serial_cmp()).
RangesApart ==
    \A c \in CAs : \A r, s \in krl.serials[c] : r # s => r.hi + 1 < s.lo \/ s.hi + 1 < r.lo

(* A revocation list read back revokes what was put in, and its ranges stay apart. *)
KrlSound == KrlFaithful /\ RangesApart
=============================================================================
