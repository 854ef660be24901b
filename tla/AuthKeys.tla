------------------------------ MODULE AuthKeys ------------------------------
(***************************************************************************)
(* Which keys authorise a user and with which options (auth2-pubkey.c,     *)
(* auth-options.c): user_xkey_allowed() asks the revoked keys, each        *)
(* authorized_keys file, the trusted authorities with their principals and *)
(* a command, in that order, and validates an X.509 certificate before or  *)
(* after.  Time passes between two sources.                                *)
(*                                                                         *)
(* A key is [kind, key, ...]: "plain"; "cert" with ca, type, from, to,     *)
(* principals, critical, extensions; "x509" with subject, selfissued, from *)
(* and to, while which the store finds it valid (X509Store).  A line is    *)
(* [options, key, subject]: a sequence of options, a public key or "", a   *)
(* distinguished name or "".  A line of principals has name for the rest.  *)
(***************************************************************************)
EXTENDS Naturals, Sequences, SequencesExt

CONSTANTS
    Offered,        \* the keys clients offer
    Sites,          \* configurations: files, ca_keys, principals_file, principals_command,
                    \* keys_command (sequences of lines or NoList), revoked, and the flags
                    \* validate_first and key_allow_selfissued
    Host, Username,
    AkMaxTime,      \* bound: the last instant
    PermitMax       \* SSH_AUTHOPT_PERMIT_MAX

VARIABLES
    ak_key, site, ak_now,
    ak              \* the search: pc, i (the next source), opts; and when it began

authkeysVars == <<ak_key, site, ak_now, ak>>

NoList == [set |-> FALSE, lines |-> <<>>]
Holds(lines) == [set |-> TRUE, lines |-> lines]

----------------------------------------------------------------------------
(* Options.  0 stands for no expiry, "" for no command; lists that are not *)
(* given are empty.                                                        *)

AkFlags == {"port", "agent", "x11", "pty", "rc"}
NoOptions ==
    [ok |-> TRUE, flags |-> {}, authority |-> FALSE, command |-> "", principals |-> {}, from |-> {},
     source |-> {}, valid_before |-> 0, permits |-> <<>>]
keys_defaults == [NoOptions EXCEPT !.flags = AkFlags]
BadOptions == [NoOptions EXCEPT !.ok = FALSE]

handle_permit(o, p) ==
    IF Len(o.permits) > PermitMax THEN BadOptions ELSE [o EXCEPT !.permits = Append(@, p)]

\* One option: its name o and a string v, a number n or a set of names.
parse_option(o, t) ==
    CASE ~o.ok -> o
      [] t.o = "restrict" -> [o EXCEPT !.flags = {}]
      [] t.o = "cert-authority" -> [o EXCEPT !.authority = TRUE]
      [] t.o = "flag" -> [o EXCEPT !.flags = IF t.on THEN @ \cup {t.v} ELSE @ \ {t.v}]
      [] t.o = "command" -> IF o.command # "" THEN BadOptions ELSE [o EXCEPT !.command = t.v]
      [] t.o = "principals" -> IF o.principals # {} THEN BadOptions ELSE [o EXCEPT !.principals = t.names]
      [] t.o = "from" -> IF o.from # {} THEN BadOptions ELSE [o EXCEPT !.from = t.names]
      [] t.o = "expiry-time" ->
            [o EXCEPT !.valid_before = IF @ = 0 \/ t.n < @ THEN t.n ELSE @]
      [] t.o = "permitopen" -> handle_permit(o, t.n)
      [] OTHER -> BadOptions
sshauthopt_parse(opts) == FoldLeft(parse_option, keys_defaults, opts)

\* Options of a certificate: a critical one that is not known makes it useless, an extension
\* that is not known is passed over.
cert_option_list(o, list, critical) ==
    LET One(r, t) ==
            CASE ~r.ok -> r
              [] ~critical /\ t.o = "flag" -> [r EXCEPT !.flags = @ \cup {t.v}]
              [] critical /\ t.o = "command" ->
                    IF r.command # "" THEN BadOptions ELSE [r EXCEPT !.command = t.v]
              [] critical /\ t.o = "source-address" ->
                    IF r.source # {} THEN BadOptions ELSE [r EXCEPT !.source = t.names]
              [] OTHER -> IF critical THEN BadOptions ELSE r
    IN FoldLeft(One, o, list)
sshauthopt_from_cert(k) ==
    IF k.type # "user" THEN BadOptions
    ELSE cert_option_list(cert_option_list(NoOptions, k.critical, TRUE), k.extensions, FALSE)

\* Mistake: what the second permits is permitted as well.
merge_flags_or(p, a) == p.flags \cup a.flags
merge_flags(p, a) == p.flags \cap a.flags
EarlierExpiry(p, a) ==
    IF a.valid_before # 0 /\ a.valid_before < p.valid_before THEN a.valid_before ELSE p.valid_before
merge(p, a) ==
    IF p.command # "" /\ a.command # "" /\ p.command # a.command THEN BadOptions
    ELSE [NoOptions EXCEPT !.flags = merge_flags(p, a),
                           !.command = IF p.command # "" THEN p.command ELSE a.command,
                           !.from = IF p.from # {} THEN p.from ELSE a.from,
                           !.source = IF p.source # {} THEN p.source ELSE a.source,
                           !.valid_before = EarlierExpiry(p, a),
                           !.permits = IF p.permits # <<>> THEN p.permits ELSE a.permits]

\* Names and addresses match as members of the list.
auth_authorise_keyopts(o, allow_cert_authority) ==
    /\ o.valid_before # 0 => o.valid_before >= ak_now
    /\ o.principals # {} => o.authority
    /\ o.authority => allow_cert_authority
    /\ o.from # {} => Host \in o.from
    /\ o.source # {} => Host \in o.source

----------------------------------------------------------------------------
(* Keys and lines.                                                         *)

key_match(k, line) == line.subject = "" /\ line.key = k.key
\* By its name; by its public key; one that is its own issuer only by its public key.
x509_match(k, line) ==
    IF line.subject = k.subject /\ ~(site.key_allow_selfissued /\ k.selfissued) THEN TRUE
    ELSE (line.subject # "" => line.subject = k.subject) /\ line.key = k.key

sshkey_cert_check_authority(k, require_principal, name) ==
    /\ k.type = "user"
    /\ k.from <= ak_now /\ ak_now < k.to
    /\ IF k.principals = {} THEN ~require_principal ELSE name # "" => name \in k.principals

Refusal == [found |-> FALSE, opts |-> BadOptions]
Success(opts) == [found |-> opts.ok, opts |-> opts]

\* The options of a line with those of the certificate.
check_authkey_line(k, line) ==
    LET o == sshauthopt_parse(line.options)
        c == sshauthopt_from_cert(k)
    IN IF ~o.ok THEN Refusal
       ELSE IF k.kind = "plain" THEN
            IF key_match(k, line) /\ ~o.authority /\ auth_authorise_keyopts(o, FALSE)
            THEN Success(o) ELSE Refusal
       ELSE IF k.kind = "x509" THEN
            IF x509_match(k, line) /\ auth_authorise_keyopts(o, FALSE) THEN Success(o) ELSE Refusal
       ELSE IF /\ line.key = k.ca /\ line.subject = "" /\ o.authority
               /\ auth_authorise_keyopts(o, TRUE)
               /\ c.ok /\ auth_authorise_keyopts(c, FALSE)
               /\ o.principals # {} => o.principals \cap k.principals # {}
               /\ sshkey_cert_check_authority(k, FALSE, IF o.principals = {} THEN Username ELSE "")
            THEN Success(merge(o, c)) ELSE Refusal

\* The first line that allows the key.
FirstAllowing(lines, Check(_)) ==
    LET hits == SelectSeq(lines, LAMBDA l : Check(l).found)
    IN IF hits = <<>> THEN Refusal ELSE Check(Head(hits))
check_authkeys_file(k, lines) == FirstAllowing(lines, LAMBDA l : check_authkey_line(k, l))

check_principals_line(k, line) ==
    LET o == sshauthopt_parse(line.options)
    IN IF line.name \in k.principals THEN Success(o) ELSE Refusal
process_principals(k, lines) == FirstAllowing(lines, LAMBDA l : check_principals_line(k, l))

\* Principals of the file, or else of the command, which counts if it exits cleanly.
match_principals_file(k) == process_principals(k, site.principals_file.lines)
match_principals_command(k, clean) ==
    IF clean THEN process_principals(k, site.principals_command.lines) ELSE Refusal
PrincipalsFor(k, clean) ==
    IF match_principals_file(k).found THEN match_principals_file(k)
    ELSE match_principals_command(k, clean)

user_cert_trusted_ca(k, clean) ==
    LET use == site.principals_file.set \/ site.principals_command.set
        p == PrincipalsFor(k, clean)
        c == sshauthopt_from_cert(k)
    IN IF /\ k.kind = "cert"
          /\ k.ca \in site.ca_keys
          /\ use => p.found
          /\ sshkey_cert_check_authority(k, TRUE, IF use THEN "" ELSE Username)
          /\ c.ok /\ auth_authorise_keyopts(c, FALSE)
          /\ use => auth_authorise_keyopts(p.opts, FALSE)
       THEN Success(IF use THEN merge(p.opts, c) ELSE c)
       ELSE Refusal

----------------------------------------------------------------------------
(* user_xkey_allowed(): one action per source.                             *)

xkey_validate_cert(k) == k.from <= ak_now /\ ak_now <= k.to
auth_keys_revoked(k) == k.key \in site.revoked \/ (k.kind = "cert" /\ k.ca \in site.revoked)

ValidatedAfter(k) == k.kind = "x509" /\ ~site.validate_first => xkey_validate_cert(k)

user_xkey_allowed ==
    /\ ak.pc = "start"
    /\ ak' = [ak EXCEPT !.began = ak_now,
                        !.pc = IF \/ site.validate_first /\ ak_key.kind = "x509" /\ ~xkey_validate_cert(ak_key)
                                  \/ auth_keys_revoked(ak_key)
                               THEN "refused" ELSE "files"]
    /\ UNCHANGED <<ak_key, site, ak_now>>

Found(r, next) ==
    ak' = IF r.found THEN [ak EXCEPT !.pc = "out", !.opts = r.opts] ELSE next

user_key_allowed2 ==
    /\ ak.pc = "files" /\ ak.i <= Len(site.files)
    /\ Found(check_authkeys_file(ak_key, site.files[ak.i]), [ak EXCEPT !.i = @ + 1])
    /\ UNCHANGED <<ak_key, site, ak_now>>

TrustedCa(clean) ==
    /\ ak.pc = "files" /\ ak.i > Len(site.files)
    /\ Found(user_cert_trusted_ca(ak_key, clean), [ak EXCEPT !.pc = "command"])
    /\ UNCHANGED <<ak_key, site, ak_now>>

user_key_command_allowed2(clean) ==
    /\ ak.pc = "command"
    /\ Found(IF clean THEN check_authkeys_file(ak_key, site.keys_command.lines) ELSE Refusal,
             [ak EXCEPT !.pc = "refused"])
    /\ UNCHANGED <<ak_key, site, ak_now>>

Out ==
    /\ ak.pc = "out"
    /\ ak' = [ak EXCEPT !.pc = IF ValidatedAfter(ak_key) THEN "allowed" ELSE "refused"]
    /\ UNCHANGED <<ak_key, site, ak_now>>

Tick_ak == ak_now < AkMaxTime /\ ak_now' = ak_now + 1 /\ UNCHANGED <<ak_key, site, ak>>

AuthKeysStart(k, s) ==
    /\ ak_key = k /\ site = s /\ ak_now = 1
    /\ ak = [pc |-> "start", i |-> 1, opts |-> NoOptions, began |-> 0]
AuthKeysInit == \E k \in Offered, s \in Sites : AuthKeysStart(k, s)
AuthKeysNext ==
    \/ user_xkey_allowed
    \/ user_key_allowed2
    \/ \E clean \in BOOLEAN : TrustedCa(clean)
    \/ \E clean \in BOOLEAN : user_key_command_allowed2(clean)
    \/ Out
    \/ Tick_ak /\ ak.pc \notin {"start", "allowed", "refused"}

----------------------------------------------------------------------------
(* What a site grants, source by source and without an order.              *)

Given(line, o) == {i \in DOMAIN line.options : line.options[i].o = o}
NameLists(line, o) == {line.options[i].names : i \in Given(line, o)}
Numbers(line, o) == {line.options[i].n : i \in Given(line, o)}
Commands(line) == {line.options[i].v : i \in Given(line, "command")}
\* The last mention of a flag, or of restrict, decides.
Permits(line, f) ==
    LET about == {i \in DOMAIN line.options :
                    line.options[i].o = "restrict" \/ (line.options[i].o = "flag" /\ line.options[i].v = f)}
    IN \/ about = {}
       \/ \E i \in about : /\ \A j \in about : j <= i
                           /\ line.options[i].o = "flag" /\ line.options[i].on
Sensible(line) ==
    /\ \A i \in DOMAIN line.options : line.options[i].o # "unknown"
    /\ \A o \in {"command", "from", "principals"} : \A i, j \in Given(line, o) : i = j
OpenAt(line, t) ==
    /\ Sensible(line)
    /\ \A v \in Numbers(line, "expiry-time") : t <= v
    /\ \A v \in NameLists(line, "from") : Host \in v
CertGoodAt(k, t) ==
    /\ k.type = "user" /\ k.from <= t /\ t < k.to
    /\ \A i \in DOMAIN k.critical : /\ k.critical[i].o \in {"command", "source-address"}
                                    /\ k.critical[i].o = "source-address" => Host \in k.critical[i].names
CertCommands(k) == {k.critical[i].v : i \in {j \in DOMAIN k.critical : k.critical[j].o = "command"}}

\* The lines of the keys files or of the command that name the key at some instant.
KeyLines == UNION {ToSet(f) : f \in ToSet(site.files)} \cup ToSet(site.keys_command.lines)
PrincipalLines == ToSet(site.principals_file.lines) \cup ToSet(site.principals_command.lines)
Authority(line) == Given(line, "cert-authority") # {}
LineGrants(k, l, t) ==
    /\ OpenAt(l, t) /\ (NameLists(l, "principals") # {} => Authority(l))
    /\ CASE k.kind = "plain" -> l.key = k.key /\ l.subject = "" /\ ~Authority(l)
         [] k.kind = "x509" ->
               /\ ~Authority(l)
               /\ \/ l.key = k.key /\ l.subject \in {"", k.subject}
                  \/ l.subject = k.subject /\ ~(k.selfissued /\ site.key_allow_selfissued)
         [] OTHER ->
               /\ Authority(l) /\ l.key = k.ca /\ l.subject = "" /\ CertGoodAt(k, t)
               /\ IF NameLists(l, "principals") # {}
                  THEN \E v \in NameLists(l, "principals") : v \cap k.principals # {}
                  ELSE k.principals = {} \/ Username \in k.principals
PrincipalGrants(k, l, t) ==
    OpenAt(l, t) /\ ~Authority(l) /\ NameLists(l, "principals") = {} /\ l.name \in k.principals

\* The flags, commands and lists the session may have by this line and the certificate.
Within(o, l, k) ==
    /\ \A f \in o.flags : Permits(l, f) /\ (k.kind = "cert" => \E i \in DOMAIN k.extensions :
                                                k.extensions[i].o = "flag" /\ k.extensions[i].v = f)
    /\ {o.command} \ {""} = Commands(l) \cup (IF k.kind = "cert" THEN CertCommands(k) ELSE {})
    /\ ToSet(o.permits) = Numbers(l, "permitopen") /\ Len(o.permits) <= PermitMax + 1

During == ak.began..ak_now

\* A key is allowed if a line, or an authority with a line of principals, allows it at some
\* instant of the search: it is not revoked, the line has not expired and permits the host, the
\* certificate is current, for the user and valid; and the session may do only what both the
\* line and the certificate permit and has the command of either
\* (auth2-pubkey.c:user_xkey_allowed, auth-options.c:sshauthopt_parse, sshauthopt_merge).
AllowedByLine ==
    ak.pc = "allowed" =>
        /\ ak_key.key \notin site.revoked
        /\ ak_key.kind = "cert" => ak_key.ca \notin site.revoked
        /\ ak_key.kind = "x509" => \E t \in During : ak_key.from <= t /\ t <= ak_key.to
        /\ \E t \in During :
             \/ \E l \in KeyLines : LineGrants(ak_key, l, t) /\ Within(ak.opts, l, ak_key)
             \/ /\ ak_key.kind = "cert" /\ ak_key.ca \in site.ca_keys /\ CertGoodAt(ak_key, t)
                /\ ak_key.principals # {}
                /\ IF site.principals_file.set \/ site.principals_command.set
                   THEN \E l \in PrincipalLines :
                            PrincipalGrants(ak_key, l, t) /\ Within(ak.opts, l, ak_key)
                   ELSE /\ Username \in ak_key.principals
                        /\ Within(ak.opts, [options |-> <<>>], ak_key)

\* A key that a line of a file allows all the time is not refused, unless two options of it
\* contradict one another, an X.509 certificate is not valid or a list is too long.
RefusedForReason ==
    ak.pc = "refused" =>
        \/ ak_key.key \in site.revoked
        \/ ak_key.kind = "cert" /\ ak_key.ca \in site.revoked
        \/ ak_key.kind = "x509" /\ \E t \in During : ~(ak_key.from <= t /\ t <= ak_key.to)
        \/ \A l \in UNION {ToSet(f) : f \in ToSet(site.files)} :
              \/ \E t \in During : ~LineGrants(ak_key, l, t)
              \/ ak_key.kind = "cert" /\ \E c \in CertCommands(ak_key) : Commands(l) \notin {{}, {c}}
              \/ ak_key.kind = "cert" /\ Len(ak_key.critical) > 1
              \/ Len(l.options) > PermitMax + 1

AuthorisedExactly == AllowedByLine /\ RefusedForReason
=============================================================================
