------------------------------- MODULE Text -------------------------------
(***************************************************************************)
(* The conversions between text and values that the programs share:        *)
(* patterns and address lists (match.c, addrmatch.c), words, quoting,      *)
(* percent escapes, times, host names, ports and URIs (misc.c) and the     *)
(* terminal modes that ssh writes and sshd reads (ttymodes.c).             *)
(*                                                                         *)
(* A string is a sequence of characters.  Each conversion is translated    *)
(* and compared with what it is meant to compute, or with its inverse.     *)
(***************************************************************************)
EXTENDS Integers, Sequences, SequencesExt, FiniteSetsExt

LOCAL INSTANCE Bitwise

CONSTANTS
    WordBits,       \* bits of a word: an IPv4 address has one, an IPv6 address four
    LongMax,        \* LONG_MAX
    HostAddresses,  \* addresses matched against lists
    AddressLists,   \* lists of entries
    MatchStrings, MatchPatterns, PatternLists,
    ArgumentLists, Words_t, NextWords, FormatStrings, TimeStrings,
    WrittenDestinations,   \* [user, host, port, path] written as text
    RawDestinations,\* other texts
    Terminals,      \* terminals whose modes are sent
    ModeMessages    \* modes as another client may send them

VARIABLE text       \* what: the function called; in: its argument; out: its result

textVars == <<text>>

----------------------------------------------------------------------------
(* Addresses (addrmatch.c).  An address has words and, for IPv6, a scope.  *)

Full == 2^WordBits - 1
WordsOf(af) == IF af = "v4" THEN 1 ELSE 4
addr_unicast_masklen(af) == WordBits * WordsOf(af)
masklen_valid(af, l) == l <= addr_unicast_masklen(af)
\* (0xffffffff << (32 - l)) & 0xffffffff
HighBits(l) == (Full * 2^(WordBits - l)) % (Full + 1)

addr_netmask(af, l) ==
    [i \in 1..WordsOf(af) |->
        IF l >= i * WordBits THEN Full
        ELSE IF l <= (i - 1) * WordBits THEN 0 ELSE HighBits(l - (i - 1) * WordBits)]
addr_and(a, mask) == [a EXCEPT !.words = [i \in DOMAIN a.words |-> a.words[i] & mask[i]]]
addr_invert(mask) == [i \in DOMAIN mask |-> Full - mask[i]]
addr_hostmask(af, l) == addr_invert(addr_netmask(af, l))
addr_is_all0s(a) == \A i \in DOMAIN a.words : a.words[i] = 0
addr_host_is_all0s(a, l) == addr_is_all0s(addr_and(a, addr_hostmask(a.af, l)))
addr_cmp_equal(a, b) == a.af = b.af /\ a.words = b.words /\ a.scope = b.scope

\* An entry: neg, the address net and bits (<<>> if no / is there), or a pattern that
\* matches the addresses like; an entry without anything is empty.
addr_pton_cidr(e) ==
    LET l == IF e.bits = <<>> THEN addr_unicast_masklen(e.net.af) ELSE e.bits[1] IN
    IF e.form # "net" \/ l > addr_unicast_masklen("v6") THEN -1
    ELSE IF ~masklen_valid(e.net.af, l) \/ ~addr_host_is_all0s(e.net, l) THEN -2 ELSE l
\* A mistake: the mask is made of one bit more.
addr_netmatch_one_more(host, net, l) ==
    host.af = net.af /\ addr_cmp_equal(addr_and(host, addr_netmask(host.af, Min({l + 1, addr_unicast_masklen(host.af)}))), net)
addr_netmatch(host, net, l) ==
    host.af = net.af /\ addr_cmp_equal(addr_and(host, addr_netmask(host.af, l)), net)
addr_match_list(host, list) ==
    FoldLeft(LAMBDA g, e :
        LET r == addr_pton_cidr(e)
            found == IF r >= 0 THEN addr_netmatch(host, e.net, r) ELSE host \in e.like
        IN IF g.done THEN g
           ELSE IF e.form = "empty" \/ r = -2 THEN [done |-> TRUE, ret |-> -2]
           ELSE IF found /\ e.neg THEN [done |-> TRUE, ret |-> -1]
           ELSE IF found THEN [g EXCEPT !.ret = 1] ELSE g,
        [done |-> FALSE, ret |-> 0], list).ret
\* An entry with strange characters is noticed, but looked up all the same.
addr_match_cidr_list(host, list) ==
    FoldLeft(LAMBDA g, e :
        LET r == addr_pton_cidr(e)
            noticed == IF e.strange THEN -1 ELSE g.ret
        IN IF g.done THEN g
           ELSE IF e.form = "empty" \/ e.neg \/ r < 0 THEN [done |-> TRUE, ret |-> -1]
           ELSE [g EXCEPT !.ret = IF addr_netmatch(host, e.net, r) THEN 1 ELSE noticed],
        [done |-> FALSE, ret |-> 0], list).ret

----------------------------------------------------------------------------
(* Patterns (match.c).                                                     *)

match_pattern_f(s, p) ==
    LET m[i \in 0..Len(s), j \in 0..Len(p)] ==  \* the last i characters against the last j of the pattern
        LET c == p[Len(p) - j + 1]
            next == p[Len(p) - j + 2]
            At(k) == s[Len(s) - k + 1]
        IN IF j = 0 THEN i = 0
           ELSE IF c = "*" /\ j = 1 THEN TRUE
           ELSE IF c = "*" /\ next \notin {"?", "*"} THEN \E k \in 1..i : At(k) = next /\ m[k - 1, j - 2]
           ELSE IF c = "*" THEN \E k \in 1..i : m[k, j - 1]
           ELSE i > 0 /\ (c = "?" \/ c = At(i)) /\ m[i - 1, j - 1]
    IN m[Len(s), Len(p)]
match_pattern(s, p) == match_pattern_f(s, p)
\* The subpatterns: [neg, pattern, like], like the addresses it denotes if it is one.
match_pattern_list_t(s, list) ==
    FoldLeft(LAMBDA g, e : IF g = -1 \/ ~match_pattern(s, e.pattern) THEN g ELSE IF e.neg THEN -1 ELSE 1, 0, list)
match_host_and_ip(host, ip, patterns) ==
    LET mip == addr_match_list(ip, [i \in DOMAIN patterns |-> patterns[i].entry])
        mhost == match_pattern_list_t(host, patterns)
    IN IF mip = -2 THEN -1 ELSE IF mip = -1 \/ mhost = -1 \/ (mhost = 0 /\ mip = 0) THEN 0 ELSE 1
match_user(user, host, ip, userpattern, patterns) ==
    IF ~match_pattern(user, userpattern) THEN 0 ELSE IF patterns = <<>> THEN 1 ELSE match_host_and_ip(host, ip, patterns)

----------------------------------------------------------------------------
(* Words and quoting (misc.c).                                             *)

Space == {" ", "\t"}
QuoteMarks == {"'", "\"", "\\"}
NoToken == [ok |-> FALSE, arg |-> <<>>, rest |-> <<>>]
SkipSpace(s) == LET n == {i \in 1..Len(s) : s[i] \notin Space} IN IF n = {} THEN <<>> ELSE SubSeq(s, Min(n), Len(s))
Escaped(s, i) == i < Len(s) /\ s[i] = "\\" /\ s[i + 1] \in QuoteMarks

\* One token of argv_split(), from the first character that is no space.
argv_token(s) ==
    LET quote == IF s[1] \in {"'", "\""} THEN s[1] ELSE ""
        first == IF quote # "" \/ Escaped(s, 1) THEN 2 ELSE 1
        step(g, i) ==
            IF g.done \/ i < g.at THEN g
            ELSE IF Escaped(s, i) THEN [g EXCEPT !.arg = Append(@, s[i + 1]), !.at = i + 2]
            ELSE IF s[i] # "\\" /\ (IF quote = "" THEN s[i] \in Space ELSE s[i] = quote) THEN [g EXCEPT !.done = TRUE, !.at = i]
            ELSE [g EXCEPT !.arg = Append(@, s[i]), !.at = i + 1]
        g == FoldLeft(step, [done |-> FALSE, at |-> first, arg |-> <<>>], [i \in 1..Len(s) |-> i])
    IN [ok |-> quote = "" \/ g.done, arg |-> g.arg, rest |-> SubSeq(s, g.at + 1, Len(s))]
argv_split(s) ==
    LET split[n \in 0..Len(s)] ==   \* with at most n tokens taken
            IF n = 0 THEN [ok |-> TRUE, argv |-> <<>>, rest |-> SkipSpace(s)]
            ELSE LET g == split[n - 1]
                     t == argv_token(g.rest)
                 IN IF ~g.ok \/ g.rest = <<>> THEN g
                    ELSE [ok |-> t.ok, argv |-> Append(g.argv, t.arg), rest |-> SkipSpace(t.rest)]
    IN split[Len(s)]
EscapeAll(s, which) == FlattenSeq([i \in 1..Len(s) |-> IF s[i] \in which THEN <<"\\", s[i]>> ELSE <<s[i]>>])
argv_assemble(argv) ==
    LET one(a) == IF \E i \in 1..Len(a) : a[i] \in Space THEN <<"\"">> \o EscapeAll(a, QuoteMarks) \o <<"\"">> ELSE EscapeAll(a, QuoteMarks)
    IN FlattenSeq([i \in 1..Len(argv) |-> (IF i = 1 THEN <<>> ELSE <<" ">>) \o one(argv[i])])
\* The next word of a line of a configuration file: up to a space, one "=" or the end;
\* what stands between quotes belongs to it as it is.
strdelim(s, split_equals) ==
    LET delim == Space \cup (IF split_equals THEN {"="} ELSE {})
        hits == {i \in 1..Len(s) : s[i] \in delim \cup {"\""}}
        at == Min(hits)
        body == SubSeq(s, at + 1, Len(s))
        step(g, i) ==
            IF g.pc # "in" \/ i < g.at THEN g
            ELSE IF body[i] = "\\" THEN (IF Escaped(body, i) THEN [g EXCEPT !.arg = Append(@, body[i + 1]), !.at = i + 2] ELSE [g EXCEPT !.pc = "bad"])
            ELSE IF body[i] = "\"" THEN [g EXCEPT !.pc = "end", !.at = i]
            ELSE [g EXCEPT !.arg = Append(@, body[i]), !.at = i + 1]
        g == FoldLeft(step, [pc |-> "in", at |-> 1, arg |-> <<>>], [i \in 1..Len(body) |-> i])
        after == SkipSpace(SubSeq(s, at + 1, Len(s)))
    IN IF hits = {} THEN [ok |-> TRUE, arg |-> s, rest |-> <<>>]
       ELSE IF s[at] = "\"" THEN
            (IF g.pc = "end" THEN [ok |-> TRUE, arg |-> SubSeq(s, 1, at - 1) \o g.arg, rest |-> SkipSpace(SubSeq(body, g.at + 1, Len(body)))] ELSE NoToken)
       ELSE [ok |-> TRUE, arg |-> SubSeq(s, 1, at - 1),
             rest |-> IF split_equals /\ after # <<>> /\ after[1] = "=" /\ s[at] # "=" THEN SkipSpace(Tail(after)) ELSE after]
\* The value of an option in authorized_keys, from its quote on.
opt_dequote(s) ==
    LET step(g, i) ==
            IF g.done \/ i < g.at THEN g
            ELSE IF s[i] = "\"" THEN [g EXCEPT !.done = TRUE, !.at = i]
            ELSE IF s[i] = "\\" /\ i < Len(s) /\ s[i + 1] = "\"" THEN [g EXCEPT !.arg = Append(@, "\""), !.at = i + 2]
            ELSE [g EXCEPT !.arg = Append(@, s[i]), !.at = i + 1]
        g == FoldLeft(step, [done |-> FALSE, at |-> 2, arg |-> <<>>], [i \in 1..Len(s) |-> i])
    IN IF s = <<>> \/ s[1] # "\"" \/ ~g.done THEN NoToken ELSE [ok |-> TRUE, arg |-> g.arg, rest |-> SubSeq(s, g.at + 1, Len(s))]

\* %h stands for Replacement, %% for %; anything else ends the program.
Replacement == <<"h", "%", "h">>
percent_expand(s) ==
    LET step(g, i) ==
            IF g.fatal \/ i < g.at THEN g
            ELSE IF s[i] # "%" THEN [g EXCEPT !.out = Append(@, s[i]), !.at = i + 1]
            ELSE IF i = Len(s) \/ s[i + 1] \notin {"%", "h"} THEN [g EXCEPT !.fatal = TRUE]
            ELSE [g EXCEPT !.out = @ \o (IF s[i + 1] = "%" THEN <<"%">> ELSE Replacement), !.at = i + 2]
    IN FoldLeft(step, [fatal |-> FALSE, at |-> 1, out |-> <<>>], [i \in 1..Len(s) |-> i])

\* A time: numbers, each with its unit (none only at the end).
Multiplier(unit) == CASE unit \in {"", "s"} -> 1 [] unit = "m" -> 60 [] unit = "h" -> 3600 [] unit = "d" -> 86400 [] OTHER -> 604800
convtime(t) ==
    IF t = <<>> THEN -1
    ELSE FoldLeft(LAMBDA total, f :
            LET secs == f.secs * Multiplier(f.unit) IN
            IF total < 0 \/ f.unit = "x" THEN -1
            ELSE IF f.secs >= LongMax \div Multiplier(f.unit) \/ total >= LongMax - secs THEN -1 ELSE total + secs, 0, t)

----------------------------------------------------------------------------
(* WrittenDestinations (misc.c).  A text that is not there is NotGiven.             *)

NotGiven == <<"">>
Unset_port == -1
At_(c, s) == {i \in 1..Len(s) : s[i] = c}
Before(s, i) == SubSeq(s, 1, i - 1)
Behind(s, i) == SubSeq(s, i + 1, Len(s))
Digit == [d \in {"0", "1", "2"} |-> CASE d = "0" -> 0 [] d = "1" -> 1 [] OTHER -> 2]
a2port(s) ==
    IF s = <<>> \/ \E i \in 1..Len(s) : s[i] \notin DOMAIN Digit THEN -1 ELSE FoldLeft(LAMBDA n, c : 10 * n + Digit[c], 0, s)
cleanhostname(h) == IF h # <<>> /\ h[1] = "[" /\ h[Len(h)] = "]" THEN (IF Len(h) = 1 THEN <<>> ELSE SubSeq(h, 2, Len(h) - 1)) ELSE h

\* The next field and its delimiter; rest is NotGiven when it was the last.
hpdelim2(s) ==
    LET close == At_("]", s)
        ends == {i \in 1..Len(s) : s[i] \in {":", "/"}}
        end == IF s # <<>> /\ s[1] = "[" THEN Min(close) + 1 ELSE IF ends = {} THEN Len(s) + 1 ELSE Min(ends)
    IN IF s # <<>> /\ s[1] = "[" /\ close = {} THEN [ok |-> FALSE, field |-> <<>>, delim |-> "", rest |-> NotGiven]
       ELSE IF end > Len(s) THEN [ok |-> TRUE, field |-> s, delim |-> "", rest |-> NotGiven]
       ELSE IF s[end] \notin {":", "/"} THEN [ok |-> FALSE, field |-> <<>>, delim |-> "", rest |-> NotGiven]
       ELSE [ok |-> TRUE, field |-> Before(s, end), delim |-> s[end], rest |-> Behind(s, end)]

BadDestination == [ok |-> FALSE, user |-> NotGiven, host |-> <<>>, port |-> Unset_port, path |-> NotGiven]
parse_user_host_port(s) ==
    LET ats == At_("@", s)
        user == IF ats = {} THEN NotGiven ELSE Before(s, Max(ats))
        f == hpdelim2(IF ats = {} THEN s ELSE Behind(s, Max(ats)))
        more == f.rest \notin {NotGiven, <<>>}
        port == IF more THEN a2port(f.rest) ELSE Unset_port
    IN IF user = <<>> \/ ~f.ok \/ f.field = <<>> \/ (more /\ port <= 0) THEN BadDestination
       ELSE [ok |-> TRUE, user |-> user, host |-> cleanhostname(f.field), port |-> port, path |-> NotGiven]
\* The colon before the path, 0 if there is none.
colon(s) ==
    LET flagged(i) == s[1] = "[" \/ \E k \in 1..i : k < Len(s) /\ s[k] = "@" /\ s[k + 1] = "["
        hit(i) == IF s[i] = "]" THEN i < Len(s) /\ s[i + 1] = ":" /\ flagged(i) ELSE s[i] = ":" /\ ~flagged(i)
        stops == {i \in 1..Len(s) : hit(i) \/ s[i] = "/"}
    IN IF s = <<>> \/ s[1] = ":" \/ stops = {} THEN 0
       ELSE LET i == Min(stops) IN IF ~hit(i) THEN 0 ELSE IF s[i] = "]" THEN i + 1 ELSE i
parse_user_host_path(s) ==
    LET c == colon(s)
        left == Before(s, c)
        ats == At_("@", left)
    IN IF c = 0 THEN BadDestination
       ELSE [ok |-> TRUE, user |-> IF ats = {} \/ Max(ats) = 1 THEN NotGiven ELSE Before(left, Max(ats)),
             host |-> cleanhostname(IF ats = {} THEN left ELSE Behind(left, Max(ats))), port |-> Unset_port,
             path |-> IF Behind(s, c) = <<>> THEN <<".">> ELSE Behind(s, c)]
\* "%" and two hexadecimal digits, here one of the Codes.
Codes == [c \in {"@", "/", "%", ":"} |-> CASE c = "@" -> <<"%", "4", "0">> [] c = "/" -> <<"%", "2", "f">> [] c = "%" -> <<"%", "2", "5">> [] OTHER -> <<"%", "3", "a">>]
urldecode(s) ==
    LET step(g, i) ==
            LET code == SubSeq(s, i, i + 2)
                which == {c \in DOMAIN Codes : Codes[c] = code}
            IN IF ~g.ok \/ i < g.at THEN g
               ELSE IF s[i] # "%" THEN [g EXCEPT !.out = Append(@, s[i]), !.at = i + 1]
               ELSE IF i + 2 > Len(s) \/ which = {} THEN [g EXCEPT !.ok = FALSE]
               ELSE [g EXCEPT !.out = Append(@, CHOOSE c \in which : TRUE), !.at = i + 3]
    IN FoldLeft(step, [ok |-> TRUE, at |-> 1, out |-> <<>>], [i \in 1..Len(s) |-> i])
NameCharacters == {"a", "h", "p", "u", "0", "1", "2", "-", "."}
valid_domain(h) ==
    /\ h # <<>> /\ h[1] \in NameCharacters \ {"-", "."}
    /\ \A i \in 1..Len(h) : h[i] \in NameCharacters /\ (i > 1 => ~(h[i] = "." /\ h[i - 1] = "."))
\* What follows the scheme and "://".
parse_uri(s) ==
    LET ats == At_("@", s)
        info == IF ats = {} THEN <<>> ELSE Before(s, Min(ats))
        name == IF At_(";", info) = {} THEN info ELSE Before(info, Min(At_(";", info)))
        f == hpdelim2(IF ats = {} THEN s ELSE Behind(s, Min(ats)))
        host == cleanhostname(f.field)
        more == f.rest \notin {NotGiven, <<>>}
        slash == At_("/", f.rest)
        porttext == IF slash = {} THEN f.rest ELSE Before(f.rest, Min(slash))
        hasport == more /\ f.delim = ":"
        port == IF hasport THEN a2port(porttext) ELSE Unset_port
        path == IF ~more THEN <<>> ELSE IF ~hasport THEN f.rest ELSE IF slash = {} THEN <<>> ELSE Behind(f.rest, Min(slash))
    IN IF \/ ats # {} /\ (name = <<>> \/ ~urldecode(name).ok)
          \/ ~f.ok \/ f.field = <<>> \/ ~valid_domain(host)
          \/ hasport /\ port <= 0
          \/ ~urldecode(path).ok
       THEN BadDestination
       ELSE [ok |-> TRUE, user |-> IF ats = {} THEN NotGiven ELSE urldecode(name).out,
             host |-> IF host[Len(host)] = "." THEN Before(host, Len(host)) ELSE host, port |-> port,
             path |-> IF path = <<>> THEN NotGiven ELSE urldecode(path).out]

----------------------------------------------------------------------------
(* Terminal modes (ttymodes.c).  A mode is a set of bits of the terminal's *)
(* flags: CS7 and CS8 share one.  TTY_OP_END is 0, ISPEED 128, OSPEED 129. *)

VDISABLE == 0
Bauds == {0, 9600, 38400}
speed_to_baud(speed) == IF speed \in Bauds THEN speed ELSE 9600
baud_to_speed(baud) == IF baud \in Bauds THEN baud ELSE 9600
special_char_encode(c) == IF c = VDISABLE THEN 255 ELSE c
special_char_decode(c) == IF c = 255 THEN VDISABLE ELSE c
TTYCHAR == [op \in {1, 3} |-> IF op = 1 THEN "VINTR" ELSE "VERASE"]
TTYMODE == [op \in {42, 53, 90, 91} |-> CASE op = 42 -> {"IUTF8"} [] op = 53 -> {"ECHO"} [] op = 90 -> {"cs1"} [] OTHER -> {"cs0", "cs1"}]
Op(op, arg) == <<op, arg>>
ssh_tty_make_modes(tio, utf8bug) ==
    <<Op(129, speed_to_baud(tio.ospeed)), Op(128, speed_to_baud(tio.ispeed))>>
    \o SetToSortSeq({Op(op, special_char_encode(tio.cc[TTYCHAR[op]])) : op \in DOMAIN TTYCHAR}, LAMBDA a, b : a[1] < b[1])
    \o SetToSortSeq({Op(op, IF tio.flags \cap TTYMODE[op] # {} THEN 1 ELSE 0) : op \in {o \in DOMAIN TTYMODE : ~(utf8bug /\ o = 42)}}, LAMBDA a, b : a[1] < b[1])
    \o <<<<0>>>>
\* An opcode without its argument ends the program; what is behind the end of the
\* modes, or behind an opcode that has no defined length, makes them all void.
ssh_tty_parse_modes(m, old) ==
    LET apply(tio, o) ==
            CASE o[1] = 128 -> [tio EXCEPT !.ispeed = baud_to_speed(o[2])]
              [] o[1] = 129 -> [tio EXCEPT !.ospeed = baud_to_speed(o[2])]
              [] o[1] \in DOMAIN TTYCHAR -> [tio EXCEPT !.cc[TTYCHAR[o[1]]] = special_char_decode(o[2])]
              [] o[1] \in DOMAIN TTYMODE -> [tio EXCEPT !.flags = IF o[2] # 0 THEN @ \cup TTYMODE[o[1]] ELSE @ \ TTYMODE[o[1]]]
              [] OTHER -> tio
        step(g, o) ==
            IF g.pc # "more" THEN [g EXCEPT !.left = TRUE]
            ELSE IF o[1] = 0 \/ o[1] >= 160 THEN [g EXCEPT !.pc = "set", !.left = (Len(o) = 2)]
            ELSE IF Len(o) = 1 THEN [g EXCEPT !.pc = "fatal"]
            ELSE [g EXCEPT !.tio = apply(g.tio, o)]
        g == FoldLeft(step, [pc |-> "more", tio |-> old, left |-> FALSE], m)
    IN IF g.pc = "fatal" THEN [pc |-> "fatal", tio |-> old] ELSE [pc |-> "set", tio |-> IF g.left THEN old ELSE g.tio]

----------------------------------------------------------------------------
(* Calls.                                                                  *)

Converts(what, in, out) == text' = [what |-> what, in |-> in, out |-> out]

MatchAddress ==
    \E h \in HostAddresses, l \in AddressLists :
        \/ Converts("addr_match_list", <<h, l>>, addr_match_list(h, l))
        \/ Converts("addr_match_cidr_list", <<h, l>>, addr_match_cidr_list(h, l))
MatchPattern ==
    \/ \E s \in MatchStrings, p \in MatchPatterns : Converts("match_pattern", <<s, p>>, match_pattern(s, p))
    \/ \E s \in MatchStrings, l \in PatternLists, h \in HostAddresses :
        Converts("match_user", <<s, h, l>>, match_user(<<"u">>, s, h, <<"?">>, l))
SplitWords ==
    \/ \E a \in ArgumentLists : Converts("argv", a, argv_split(argv_assemble(a)))
    \/ \E a \in Words_t, b \in NextWords :
        \/ LET line == <<"\"">> \o EscapeAll(a, QuoteMarks) \o <<"\"", " ", "\"">> \o EscapeAll(b, QuoteMarks) \o <<"\"">>
                  first == strdelim(line, FALSE)
              IN Converts("strdelim", <<a, b>>, <<first, strdelim(first.rest, FALSE)>>)
        \/ Converts("opt_dequote", <<a, b>>, opt_dequote(<<"\"">> \o EscapeAll(a, {"\""}) \o <<"\"">> \o b))
    \/ \E a \in FormatStrings, b \in FormatStrings :
        Converts("percent_expand", <<a, b>>, <<percent_expand(a), percent_expand(b), percent_expand(a \o b)>>)
    \/ \E t \in TimeStrings : Converts("convtime", t, convtime(t))
\* A destination as it is written: brackets where the host needs them.
Bracketed(h) == IF \E i \in 1..Len(h) : h[i] \in {":", "/"} THEN <<"[">> \o h \o <<"]">> ELSE h
UserAt(u, f(_)) == IF u = NotGiven THEN <<>> ELSE f(u) \o <<"@">>
Encoded(s) == FlattenSeq([i \in 1..Len(s) |-> IF s[i] \in DOMAIN Codes THEN Codes[s[i]] ELSE <<s[i]>>])
PortText == [p \in {1, 22} |-> IF p = 1 THEN <<"1">> ELSE <<"2", "2">>]
ColonPort(p) == IF p = Unset_port THEN <<>> ELSE <<":">> \o PortText[p]
AsItIs(s) == s
ParseDestination ==
    \/ \E d \in WrittenDestinations :
        \/ Converts("parse_user_host_port", d, parse_user_host_port(UserAt(d.user, AsItIs) \o Bracketed(d.host) \o ColonPort(d.port)))
        \/ Converts("parse_user_host_path", d, parse_user_host_path(UserAt(d.user, AsItIs) \o Bracketed(d.host) \o <<":">> \o (IF d.path = NotGiven THEN <<>> ELSE d.path)))
        \/ Converts("parse_uri", d, parse_uri(UserAt(d.user, Encoded) \o Bracketed(d.host) \o ColonPort(d.port)
                                             \o (IF d.path = NotGiven THEN <<>> ELSE <<"/">> \o Encoded(d.path))))
    \/ \E s \in RawDestinations : Converts("raw", s, <<parse_user_host_port(s), parse_user_host_path(s), parse_uri(s)>>)
SendModes ==
    \/ \E t \in Terminals, old \in Terminals, bug \in BOOLEAN :
        Converts("modes", <<t, old, bug>>, ssh_tty_parse_modes(ssh_tty_make_modes(t, bug), old))
    \/ \E m \in ModeMessages, old \in Terminals : Converts("message", <<m, old>>, ssh_tty_parse_modes(m, old))

TextInit == text = [what |-> "none", in |-> <<>>, out |-> <<>>]
TextNext ==
    /\ text.what = "none"
    /\ MatchAddress \/ MatchPattern \/ SplitWords \/ ParseDestination \/ SendModes
TextSpec == TextInit /\ [][TextNext]_textVars

----------------------------------------------------------------------------
(* Properties.                                                             *)

Bits(a) == FlattenSeq([i \in DOMAIN a.words |-> [b \in 1..WordBits |-> (a.words[i] \div 2^(WordBits - b)) % 2]])
InNetwork(h, net, l) ==
    h.af = net.af /\ h.scope = net.scope /\ SubSeq(Bits(h), 1, l) = SubSeq(Bits(net), 1, l)
Malformed(e) ==
    \/ e.form = "empty"
    \/ e.form = "net" /\ e.bits # <<>> /\ e.bits[1] <= 4 * WordBits
        /\ (e.bits[1] > Len(Bits(e.net)) \/ \E i \in (e.bits[1] + 1)..Len(Bits(e.net)) : Bits(e.net)[i] = 1)
EntryMatches(h, e) ==
    ~Malformed(e) /\ IF e.form = "net" /\ (e.bits = <<>> \/ e.bits[1] <= 4 * WordBits)
    THEN InNetwork(h, e.net, IF e.bits = <<>> THEN Len(Bits(e.net)) ELSE e.bits[1]) ELSE h \in e.like

\* A well-formed list accepts an address exactly when an entry matches bit by bit and no
\* negated entry does, in whatever order they stand; a malformed list never accepts one.
AddressListsExact ==
    LET h == text.in[1]
        l == text.in[2]
        some(neg) == \E i \in 1..Len(l) : l[i].neg = neg /\ EntryMatches(h, l[i])
        bad == \E i \in 1..Len(l) : Malformed(l[i])
    IN text.what = "addr_match_list" =>
        /\ text.out = 1 <=> (~bad /\ some(FALSE) /\ ~some(TRUE))
        /\ ~bad => (text.out = -1 <=> some(TRUE))
        /\ (bad /\ ~some(TRUE)) => text.out = -2
CidrListsExact ==
    LET h == text.in[1]
        l == text.in[2]
        bad == \E i \in 1..Len(l) : Malformed(l[i]) \/ l[i].neg \/ addr_pton_cidr(l[i]) = -1
        some == \E i \in 1..Len(l) : EntryMatches(h, l[i])
    IN text.what = "addr_match_cidr_list" =>
        /\ bad => text.out = -1
        /\ (~bad /\ \A i \in 1..Len(l) : ~l[i].strange) => (text.out = 1 <=> some)

\* The pattern matches exactly the strings that can be cut into pieces for its characters,
\* but "**" may miss an empty piece.
Cuts(s, p) ==
    {f \in [0..Len(p) -> 0..Len(s)] :
        /\ f[0] = 0 /\ f[Len(p)] = Len(s)
        /\ \A j \in 1..Len(p) :
            /\ f[j - 1] <= f[j]
            /\ p[j] # "*" => (f[j] = f[j - 1] + 1 /\ (p[j] = "?" \/ p[j] = s[f[j]]))}
PatternsExact ==
    LET s == text.in[1]
        p == text.in[2]
    IN text.what = "match_pattern" =>
        /\ text.out => Cuts(s, p) # {}
        /\ (Cuts(s, p) # {} /\ \A j \in 1..(Len(p) - 1) : ~(p[j] = "*" /\ p[j + 1] = "*")) => text.out
\* A negated pattern that matches the host or its address refuses it, whatever else matches.
NegationRefuses ==
    text.what = "match_user" =>
        LET l == text.in[3]
            hit(e) == match_pattern(text.in[1], e.pattern) \/ EntryMatches(text.in[2], e.entry)
        IN (\E i \in 1..Len(l) : l[i].neg /\ hit(l[i])) => text.out # 1

\* What was put together comes apart again as it was: arguments (none of them empty), words
\* of a configuration line, option values (but for a backslash at the end).
WordsKept ==
    /\ (text.what = "argv" /\ \A i \in 1..Len(text.in) : text.in[i] # <<>>) => (text.out.ok /\ text.out.argv = text.in)
    /\ text.what = "strdelim" =>
        (text.out[1].ok /\ text.out[1].arg = text.in[1] /\ text.out[2].ok /\ text.out[2].arg = text.in[2])
    /\ (text.what = "opt_dequote" /\ (text.in[1] # <<>> => text.in[1][Len(text.in[1])] # "\\")
         /\ ~\E i \in 1..(Len(text.in[1]) - 1) : text.in[1][i] = "\\" /\ text.in[1][i + 1] = "\"")
        => (text.out.ok /\ text.out.arg = text.in[1] /\ text.out.rest = text.in[2])
\* What an escape stands for is not expanded again, and escapes do not reach into what follows.
ExpandsOnce ==
    text.what = "percent_expand" =>
        LET a == text.out[1]
            b == text.out[2]
            ab == text.out[3]
        IN ~a.fatal => (ab.fatal = b.fatal /\ (~b.fatal => ab.out = a.out \o b.out))
\* A time is the sum of its parts or is refused, and only one that is too long or misspelt is.
TimesExact ==
    text.what = "convtime" =>
        LET t == text.in
            sum == FoldLeft(LAMBDA n, f : n + f.secs * Multiplier(f.unit), 0, t)
            misspelt == t = <<>> \/ \E i \in 1..Len(t) : t[i].unit = "x"
        IN /\ misspelt => text.out = -1
           /\ ~misspelt => (text.out \in {sum, -1} /\ (text.out = -1 => sum + 604800 > LongMax))

\* A destination is read as it was written, and one that is accepted names a host.
DestinationsKept ==
    LET d == text.in IN
    /\ text.what = "parse_user_host_port" => text.out = [d EXCEPT !.ok = TRUE, !.path = NotGiven]
    /\ text.what = "parse_user_host_path" =>
        text.out = [d EXCEPT !.ok = TRUE, !.port = Unset_port, !.path = IF d.path = NotGiven THEN <<".">> ELSE d.path]
    /\ text.what = "parse_uri" =>
        text.out = IF valid_domain(d.host) THEN [d EXCEPT !.ok = TRUE] ELSE BadDestination
    /\ text.what = "raw" =>
        \A i \in {1, 3} : text.out[i].ok => (text.out[i].host # <<>> \/ i = 1) /\ text.out[i].user # <<>> /\ text.out[i].port # 0

\* The modes of a terminal arrive as they were (the character size only if it is 8 bits or 5,
\* the speed only if it is a known one, IUTF8 not for a peer with the bug); any message
\* changes the terminal as a whole or not at all.
ModesKept ==
    /\ text.what = "modes" =>
        LET t == text.in[1]
            old == text.in[2]
            got == text.out.tio
            size(f) == f \cap {"cs0", "cs1"}
        IN /\ got.cc = t.cc
           /\ "ECHO" \in got.flags <=> "ECHO" \in t.flags
           /\ "IUTF8" \in got.flags <=> "IUTF8" \in (IF text.in[3] THEN old ELSE t).flags
           /\ size(got.flags) = IF size(t.flags) = {} THEN {} ELSE {"cs0", "cs1"}
           /\ t.ispeed \in Bauds => got.ispeed = t.ispeed
    /\ text.what = "message" =>
        LET m == text.in[1]
            old == text.in[2]
            ends == {i \in 1..Len(m) : m[i][1] = 0 \/ m[i][1] >= 160}
        IN \/ text.out.tio = old
           \/ /\ ends # {} => (Min(ends) = Len(m) /\ Len(m[Len(m)]) = 1)
              /\ \A i \in 1..Len(m) : (m[i][1] = 53 /\ ~\E k \in (i + 1)..Len(m) : m[k][1] = 53) =>
                    ("ECHO" \in text.out.tio.flags <=> m[i][2] # 0)

TextSound ==
    /\ AddressListsExact /\ CidrListsExact /\ PatternsExact /\ NegationRefuses
    /\ WordsKept /\ ExpandsOnce /\ TimesExact /\ DestinationsKept /\ ModesKept
============================================================================
