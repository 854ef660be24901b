------------------------------- MODULE Keys -------------------------------
(***************************************************************************)
(* Keys in memory, on the wire and in files (sshkey.c, authfile.c,         *)
(* ssh-x509.c): public and private blobs, certificates, X.509 identities,  *)
(* private key files of both formats, public key files and revoked lists.  *)
(*                                                                         *)
(* A number stands for a key pair: `pub` and `priv` of one pair are equal, *)
(* 0 is an absent part.  A blob is a record of the fields the parsers tell *)
(* apart; `tail` is "" when nothing is missing and nothing follows.        *)
(***************************************************************************)
EXTENDS Naturals, Sequences, SequencesExt, FiniteSets

CONSTANTS
    KeyTypes,     \* keytypes[]: name -> [base, curve, cert, sigonly, sigalg]
    XAlgs,        \* x509keyalgs[]: sequence of [name, base, curve, chain, big, sig, md]
    ShortKeys,    \* RSA pairs with fewer bits than sshrsa_check_length() admits
    SmallKeys,    \* RSA pairs too small for algorithms with SHA-256 (check_rsa2048_sha256)
    Kinds,        \* the [base, curve, pub] that sshkey_generate() is asked for
    Passphrases,  \* pairs <<word, length>>
    Authorities,  \* the keys that sign certificates
    CertBodies,   \* contents of the certificates that are issued
    Issuers,      \* sequence of certificates that follows an X.509 certificate in a file
    RevokedLists, \* contents of one-per-line lists of revoked keys
    MaxIssued,    \* bound on the certificates that are issued
    MaxSteps      \* bound on the operations on one identity

VARIABLES
    mem,          \* the key a program holds
    disk,         \* path -> contents of the file
    saved,        \* what the last sshkey_save_private() was to store, <<>> after damage
    issued,       \* the certificates that certification authorities did sign
    steps         \* operations so far
keysVars == <<mem, disk, saved, issued, steps>>

Paths == {"id", "id.pub", "id-cert.pub"}

(* struct sshkey, struct sshkey_cert, SSH_X509. *)
Sshkey(base, curve, pub, priv) ==
    [base |-> base, curve |-> curve, pub |-> pub, priv |-> priv, cert |-> <<>>, x509 |-> <<>>]
Result(err, key) == [err |-> err, key |-> key]
Fails(err) == Result(err, <<>>)
sshkey_is_cert(k) == k.cert # <<>>
sshkey_is_x509(k) == k.x509 # <<>>

----------------------------------------------------------------------------
(* Names.                                                                  *)

ssh_xkalg_nameind(name) == {i \in DOMAIN XAlgs : XAlgs[i].name = name}
ssh_xkalg_typeind(base, curve) ==
    {i \in DOMAIN XAlgs : XAlgs[i].base = base /\ (curve # "" => XAlgs[i].curve = curve)}
XAlgOf(name) == XAlgs[CHOOSE i \in ssh_xkalg_nameind(name) : \A j \in ssh_xkalg_nameind(name) : i <= j]
IsXName(name) == \E i \in DOMAIN XAlgs : XAlgs[i].name = name

sshkey_ssh_name_from_type_nid(base, curve, cert) ==
    CHOOSE n \in DOMAIN KeyTypes :
        /\ KeyTypes[n].base = base /\ KeyTypes[n].cert = cert /\ ~KeyTypes[n].sigonly
        /\ KeyTypes[n].curve = curve
sshkey_ssh_name_plain(k) == sshkey_ssh_name_from_type_nid(k.base, k.curve, FALSE)
sshkey_ssh_name(k) ==
    IF sshkey_is_x509(k) /\ ssh_xkalg_typeind(k.base, k.curve) # {}
    THEN XAlgs[CHOOSE i \in ssh_xkalg_typeind(k.base, k.curve) :
                   \A j \in ssh_xkalg_typeind(k.base, k.curve) : i <= j].name
    ELSE sshkey_ssh_name_from_type_nid(k.base, k.curve, sshkey_is_cert(k))

(* The base type, curve and certificate flag of a name; base "" is KEY_UNSPEC. *)
sshkey_types_from_name(name) ==
    IF IsXName(name) THEN [base |-> XAlgOf(name).base, curve |-> XAlgOf(name).curve, cert |-> FALSE]
    ELSE IF name \in DOMAIN KeyTypes
    THEN [base |-> KeyTypes[name].base, curve |-> KeyTypes[name].curve, cert |-> KeyTypes[name].cert]
    ELSE [base |-> "", curve |-> "", cert |-> FALSE]

check_rsa2048_sha256(alg, k) == ~(k.base = "rsa" /\ k.pub \in SmallKeys /\ alg.big)
sshrsa_check_length(base, pub) == base = "rsa" /\ pub \in ShortKeys

----------------------------------------------------------------------------
(* Signatures: which key made it, under which name, over what.             *)

Signature(type, digest, k, data) ==
    [type |-> type, digest |-> digest, base |-> k.base, curve |-> k.curve, by |-> k.priv, data |-> data]

(* A certificate name asks for the digest of the plain name. *)
RsaHash(alg) ==
    IF alg \in DOMAIN KeyTypes /\ KeyTypes[alg].base = "rsa"
    THEN IF KeyTypes[alg].sigalg # "" THEN KeyTypes[alg].sigalg
         ELSE IF KeyTypes[alg].cert THEN sshkey_ssh_name_from_type_nid("rsa", "", FALSE) ELSE alg
    ELSE ""

ssh_rsa_sign(k, data, alg) ==
    LET hash == IF alg = "" THEN sshkey_ssh_name_from_type_nid("rsa", "", FALSE) ELSE RsaHash(alg)
    IN IF hash = "" THEN Fails("argument")
       ELSE IF sshrsa_check_length(k.base, k.pub) THEN Fails("length")
       ELSE Result("", Signature(hash, hash, k, data))
ssh_ecdsa_sign(k, data) == Result("", Signature(sshkey_ssh_name_plain(k), "", k, data))
ssh_ed25519_sign(k, data) == Result("", Signature(sshkey_ssh_name_plain(k), "", k, data))
sshkey_sign(k, data, alg) ==
    IF k.priv = 0 THEN Fails("libcrypto")
    ELSE CASE k.base = "rsa" -> ssh_rsa_sign(k, data, alg)
           [] k.base = "ec" -> ssh_ecdsa_sign(k, data)
           [] k.base = "ed" -> ssh_ed25519_sign(k, data)

MadeBy(k, sig, data) == sig.by = k.pub /\ sig.base = k.base /\ sig.curve = k.curve /\ sig.data = data
ssh_rsa_verify(k, sig, data, alg) ==
    IF sshrsa_check_length(k.base, k.pub) THEN "length"
    ELSE IF RsaHash(sig.type) # sig.type THEN "mismatch"
    ELSE IF alg # "" /\ alg # sshkey_ssh_name_from_type_nid("rsa", "", TRUE) /\ RsaHash(alg) # sig.type
    THEN "signature"
    ELSE IF MadeBy(k, sig, data) THEN "" ELSE "signature"
ssh_ecdsa_verify(k, sig, data) ==
    IF sig.type # sshkey_ssh_name_plain(k) THEN "mismatch" ELSE IF MadeBy(k, sig, data) THEN "" ELSE "signature"
ssh_ed25519_verify(k, sig, data) ==
    IF sig.type # sshkey_ssh_name_plain(k) THEN "mismatch" ELSE IF MadeBy(k, sig, data) THEN "" ELSE "signature"
sshkey_verify(k, sig, data, alg) ==
    CASE k.base = "rsa" -> ssh_rsa_verify(k, sig, data, alg)
      [] k.base = "ec" -> ssh_ecdsa_verify(k, sig, data)
      [] k.base = "ed" -> ssh_ed25519_verify(k, sig, data)

sshkey_sigalg_by_name(alg) ==
    IF alg \notin DOMAIN KeyTypes THEN ""
    ELSE IF KeyTypes[alg].sigalg # "" THEN KeyTypes[alg].sigalg
    ELSE IF ~KeyTypes[alg].cert THEN alg
    ELSE sshkey_ssh_name_from_type_nid(KeyTypes[alg].base, KeyTypes[alg].curve, FALSE)

(* Algorithms with X.509 certificates name their signatures themselves. *)
ssh_x509_sign(k, data, xalg) ==
    IF k.priv = 0 THEN Fails("argument") ELSE Result("", Signature(xalg.sig, xalg.md, k, data))
Xkey_sign(k, data, alg) ==
    IF IsXName(alg) THEN ssh_x509_sign(k, data, XAlgOf(alg)) ELSE sshkey_sign(k, data, alg)
Xkey_check_sigalg(sig, alg) ==
    IF IsXName(alg) THEN XAlgOf(alg).sig = sig.type
    ELSE sshkey_sigalg_by_name(alg) # "" /\ sshkey_sigalg_by_name(alg) = sig.type
(* Every digest that goes with the name is tried. *)
ssh_xkalg_verify(k, sig, data, alg) ==
    \E i \in ssh_xkalg_nameind(alg) :
        XAlgs[i].md = sig.digest /\ sig.by = k.x509.cert.pub /\ sig.base = k.base /\ sig.data = data
ssh_x509_verify(k, sig, data, alg) ==
    IF k.x509 = <<>> \/ k.x509.cert.pub = 0 THEN "argument"
    ELSE IF sig.type \notin {XAlgs[i].sig : i \in DOMAIN XAlgs} THEN "format"
    ELSE IF ssh_xkalg_verify(k, sig, data, alg) THEN "" ELSE "signature"
Xkey_verify(k, sig, data, alg) ==
    IF IsXName(alg) THEN ssh_x509_verify(k, sig, data, alg) ELSE sshkey_verify(k, sig, data, alg)

----------------------------------------------------------------------------
(* Public blobs.                                                           *)

(* string name, [nonce,] [curve,] numbers, and for a certificate its body, the
   authority's blob and the signature over everything before it. *)
Blob(name, curve, pub) ==
    [form |-> "key", name |-> name, curve |-> curve, pub |-> pub, tail |-> "",
     body |-> <<>>, ca |-> <<>>, sig |-> <<>>]
DerBlob(x) == [Blob("", x.curve, x.pub) EXCEPT !.form = "der", !.body = <<x>>]
ChainBlob(name, xs) == [Blob(name, "", 0) EXCEPT !.form = "chain", !.body = xs]
SignedPart(b) == [b EXCEPT !.sig = <<>>, !.tail = ""]

to_blob_buf(k, plain) ==
    IF sshkey_is_cert(k) /\ k.cert.blob = <<>> THEN Fails("lacks_certblob")
    ELSE IF sshkey_is_cert(k) /\ ~plain THEN Result("", k.cert.blob)
    ELSE IF k.pub = 0 THEN Fails("argument")
    ELSE Result("", Blob(sshkey_ssh_name_plain(k), k.curve, k.pub))

(* X.509: the legacy format is the certificate alone; RFC 6187 has a chain. *)
x509_to_key(x) ==
    [Sshkey(x.base, x.curve, x.pub, 0) EXCEPT !.x509 = [cert |-> x, chain |-> <<>>]]
xkey_to_buf2(alg, k) ==
    IF ~check_rsa2048_sha256(alg, k) THEN Fails("length")
    ELSE Result("", ChainBlob(alg.name, <<k.x509.cert>> \o k.x509.chain))
XBlob(alg, k) == IF alg.chain THEN xkey_to_buf2(alg, k) ELSE Result("", DerBlob(k.x509.cert))
Xkey_to_blob(pkalg, k) == IF IsXName(pkalg) THEN XBlob(XAlgOf(pkalg), k) ELSE to_blob_buf(k, FALSE)

X509key_from_blob(b) ==
    IF b.form # "der" \/ b.tail = "short" THEN Fails("format")
    ELSE IF b.tail = "extra" THEN Fails("trailing")
    ELSE Result("", x509_to_key(b.body[1]))

X509key_from_buf2_common(b) ==
    LET algs == {i \in ssh_xkalg_nameind(b.name) : XAlgs[i].chain}
        alg == XAlgOf(b.name)
        k == x509_to_key(b.body[1])
    IN IF b.form # "chain" THEN Fails(IF b.form = "key" /\ algs = {} THEN "unknown" ELSE "format")
       ELSE IF algs = {} THEN Fails("unknown")
       ELSE IF b.body = <<>> \/ b.tail = "short" THEN Fails("format")
       ELSE IF k.base # alg.base \/ k.curve # alg.curve THEN Fails("mismatch")
       ELSE IF ~check_rsa2048_sha256(alg, k) THEN Fails("length")
       ELSE IF b.tail = "extra" THEN Fails("trailing")
       ELSE Result("", [k EXCEPT !.x509.chain = Tail(b.body)])

X509key_from_blob2(pkalg, b) ==
    LET r == X509key_from_buf2_common(b)
    IN IF r.err = "" /\ b.name # pkalg THEN Fails("mismatch") ELSE r

(* The key part of a blob: sshkey_from_blob_internal() up to the certificate. *)
PlainOfType(b, t) ==
    IF b.form # "key" THEN Fails("format")
    ELSE IF t.base = "" THEN Fails("unknown")
    ELSE IF b.tail = "short" THEN Fails("format")
    ELSE IF t.curve # b.curve THEN Fails("curve")
    ELSE IF sshrsa_check_length(t.base, b.pub) THEN Fails("length")
    ELSE Result("", Sshkey(t.base, t.curve, b.pub, 0))
PlainFromBlob(b) == PlainOfType(b, sshkey_types_from_name(b.name))

(* struct sshkey_cert as cert_parse() fills it in. *)
Certificate(b, ca, sigtype) == [blob |-> b, body |-> b.body, ca |-> ca, sigtype |-> sigtype]
EmptyCert == [blob |-> <<>>, body |-> <<>>, ca |-> <<>>, sigtype |-> ""]

CertSignedBy(b, k, ca) ==
    IF b.body = <<>> \/ b.ca = <<>> \/ b.sig = <<>> THEN Fails("format")
    ELSE IF b.body.kind \notin {"user", "host"} THEN Fails("cert_unknown_type")
    ELSE IF sshkey_types_from_name(b.ca.name).cert \/ ca.err # "" THEN Fails("sign_key")
    ELSE IF sshkey_verify(ca.key, b.sig, SignedPart(b), "") # "" THEN Fails("signature")
    ELSE Result("", [k EXCEPT !.cert = Certificate(b, ca.key, b.sig.type)])
cert_parse(b, k) == CertSignedBy(b, k, PlainFromBlob(b.ca))

NothingLeft(b, t, c) ==
    IF c.err = "" /\ (b.tail = "extra" \/ (~t.cert /\ b.body # <<>>)) THEN Fails("format") ELSE c
KeyOrCert(b, t, r) == NothingLeft(b, t, IF r.err = "" /\ t.cert THEN cert_parse(b, r.key) ELSE r)
sshkey_from_blob(b) == KeyOrCert(b, sshkey_types_from_name(b.name), PlainFromBlob(b))

Xkey_from_blob(pkalg, b) ==
    IF ~IsXName(pkalg) THEN sshkey_from_blob(b)
    ELSE IF XAlgOf(pkalg).chain THEN X509key_from_blob2(pkalg, b)
    ELSE X509key_from_blob(b)

parse_key_from_blob(b) ==
    LET der == X509key_from_blob(b)
        chain == X509key_from_buf2_common(b)
    IN IF b.form = "der" /\ der.err # "format" THEN der
       ELSE IF chain.err = "" THEN chain
       ELSE sshkey_from_blob(b)

(* The algorithms a key can be used with. *)
Xkey_algoriths(k) ==
    (IF sshkey_is_x509(k)
     THEN {XAlgs[i].name : i \in {j \in ssh_xkalg_typeind(k.base, k.curve) : check_rsa2048_sha256(XAlgs[j], k)}}
     ELSE {})
    \cup {sshkey_ssh_name_from_type_nid(k.base, k.curve, sshkey_is_cert(k))}
    \cup (IF k.base = "rsa" /\ ~sshkey_is_cert(k)
          THEN {n \in DOMAIN KeyTypes : KeyTypes[n].base = "rsa" /\ KeyTypes[n].sigonly /\ ~KeyTypes[n].cert} ELSE {})

----------------------------------------------------------------------------
(* Comparisons and copies.                                                 *)

ssh_x509_equal(a, b) == a.x509.cert.subject = b.x509.cert.subject
sshkey_equal_public(a, b) ==
    /\ a.base = b.base
    /\ IF sshkey_is_x509(a) /\ sshkey_is_x509(b) THEN ssh_x509_equal(a, b)
       ELSE a.pub # 0 /\ b.pub # 0 /\ a.pub = b.pub /\ a.curve = b.curve
sshkey_equal(a, b) ==
    /\ sshkey_is_cert(a) = sshkey_is_cert(b)
    /\ sshkey_is_cert(a) => a.cert.blob = b.cert.blob
    /\ sshkey_equal_public(a, b)

sshkey_cert_copy(from, to) == [to EXCEPT !.cert = from.cert]
sshkey_from_private(k) == [k EXCEPT !.priv = 0]
sshkey_to_certified(k) ==
    IF sshkey_is_cert(k) THEN Fails("argument") ELSE Result("", [k EXCEPT !.cert = EmptyCert])
sshkey_drop_cert(k) == IF sshkey_is_cert(k) THEN Result("", [k EXCEPT !.cert = <<>>]) ELSE Fails("unknown")

----------------------------------------------------------------------------
(* Certification.                                                          *)

(* alg "" leaves the choice to the code. *)
sshkey_certify_custom(k, ca, alg) ==
    LET wanted == IF alg = "" THEN k.cert.sigtype ELSE alg
        used == IF wanted = "" /\ ca.base = "rsa"
                THEN CHOOSE n \in DOMAIN KeyTypes : KeyTypes[n].base = "rsa" /\ KeyTypes[n].sigonly /\ ~KeyTypes[n].cert
                ELSE wanted
        unsigned == [Blob(sshkey_ssh_name(k), k.curve, k.pub)
                        EXCEPT !.body = k.cert.body, !.ca = to_blob_buf(ca, FALSE).key]
        s == sshkey_sign(ca, unsigned, used)
    IN IF ~sshkey_is_cert(k) THEN Fails("argument")
       ELSE IF sshkey_is_cert(ca) THEN Fails("sign_key")
       ELSE IF alg # "" /\ k.cert.sigtype \notin {"", alg} THEN Fails("argument")
       ELSE IF to_blob_buf(ca, FALSE).err # "" THEN Fails("sign_key")
       ELSE IF s.err # "" THEN Fails(s.err)
       ELSE IF used # "" /\ used # s.key.type THEN Fails("sign_alg")
       ELSE Result("", [k EXCEPT !.cert.blob = [unsigned EXCEPT !.sig = s.key], !.cert.sigtype = IF @ = "" THEN s.key.type ELSE @])

----------------------------------------------------------------------------
(* Private blobs, as sent to the agent and as sealed in key files.         *)

sshkey_private_serialize(k) ==
    LET name == sshkey_ssh_name(k)
        ident == IF sshkey_is_x509(k) /\ IsXName(name) THEN XBlob(XAlgOf(name), k) ELSE Result("", <<>>)
    IN IF sshkey_is_cert(k) /\ k.cert.blob = <<>> THEN Fails("argument")
       ELSE IF ident.err # "" THEN Fails(ident.err)
       ELSE Result("", [name |-> name, curve |-> k.curve, pub |-> k.pub, priv |-> k.priv, ident |-> ident.key,
                        certblob |-> IF sshkey_is_cert(k) THEN k.cert.blob ELSE <<>>])

X509key_decode_identity(name, b, k) ==
    LET r == IF XAlgOf(name).chain THEN X509key_from_blob2(name, b) ELSE X509key_from_blob(b)
    IN IF r.err # "" THEN r ELSE Result("", [k EXCEPT !.x509 = r.key.x509])

DeserializedAs(p, t, c) ==
    LET k == IF t.cert THEN [c.key EXCEPT !.priv = p.priv] ELSE Sshkey(t.base, t.curve, p.pub, p.priv)
    IN IF t.cert /\ c.err # "" THEN c
       ELSE IF t.cert /\ (~sshkey_is_cert(c.key) \/ c.key.base # t.base) THEN Fails("cert_mismatch")
       ELSE IF t.base = "" THEN Fails("unknown")
       ELSE IF ~t.cert /\ p.certblob # <<>> THEN Fails("format")
       ELSE IF ~t.cert /\ t.curve # p.curve THEN Fails("curve")
       ELSE IF sshrsa_check_length(t.base, k.pub) THEN Fails("length")
       ELSE IF IsXName(p.name) THEN X509key_decode_identity(p.name, p.ident, k)
       ELSE Result("", k)
sshkey_private_deserialize(p) ==
    DeserializedAs(p, sshkey_types_from_name(p.name), sshkey_from_blob(p.certblob))

----------------------------------------------------------------------------
(* Private key files.                                                      *)

NoFile == [fmt |-> "none"]
EmptyFile == [fmt |-> "empty"]
(* The new format seals a private blob and a comment under the passphrase and
   repeats the public blob outside; PEM holds PKCS#8 and X.509 certificates. *)
NewFile(pass, k, comment) ==
    [fmt |-> "new", pass |-> pass, env |-> to_blob_buf(k, FALSE).key, sealed |-> sshkey_private_serialize(k).key,
     comment |-> comment, check |-> TRUE, padding |-> TRUE, open |-> FALSE]
PemFile(pass, k) ==
    [fmt |-> "pem", pass |-> pass, base |-> k.base, curve |-> k.curve, pub |-> k.pub, priv |-> k.priv,
     certs |-> IF sshkey_is_x509(k) THEN <<k.x509.cert>> \o k.x509.chain ELSE <<>>, open |-> FALSE]

sshkey_private_to_fileblob(k, pass, comment, newfmt) ==
    LET new == (newfmt /\ ~sshkey_is_x509(k)) \/ k.base = "ed"
    IN IF sshkey_is_cert(k) THEN Fails("unknown")
       ELSE IF new
       THEN IF to_blob_buf(k, FALSE).err # "" THEN Fails(to_blob_buf(k, FALSE).err)
            ELSE Result("", NewFile(pass[1], k, comment))
       ELSE IF pass[2] \in 1..4 THEN Fails("too_short")
       ELSE IF k.priv = 0 THEN Fails("libcrypto")
       ELSE Result("", PemFile(pass[1], k))

(* passphrase "" is none.  A wrong one leaves different check numbers. *)
private2_decrypt(f, env, pass) ==
    IF f.fmt # "new" THEN "format"
    ELSE IF env.err # "" THEN env.err
    ELSE IF (f.pass # "" /\ pass # f.pass) \/ ~f.check THEN "wrong_passphrase"
    ELSE ""

Unsealed(f, type, e, pubkey, k) ==
    IF e # "" THEN Fails(e)
    ELSE IF type # "" /\ type # pubkey.base THEN Fails("mismatch")
    ELSE IF k.err # "" THEN k
    ELSE IF ~f.padding THEN Fails("format")
    ELSE IF ~sshkey_equal(pubkey, k.key) THEN Fails("format")
    ELSE k
Private2(f, type, pass, env) ==
    Unsealed(f, type, private2_decrypt(f, env, pass), env.key, sshkey_private_deserialize(f.sealed))
sshkey_parse_private2(f, type, pass) == Private2(f, type, pass, sshkey_from_blob(f.env))

(* A certificate that does not belong to the key ends the program. *)
x509key_parse_cert(k, certs) ==
    IF certs = <<>> \/ k.base \notin {"rsa", "dsa", "ec"} THEN Result("", k)
    ELSE IF Head(certs).pub # k.pub \/ Head(certs).base # k.base THEN Fails("fatal")
    ELSE Result("", [k EXCEPT !.x509 = [cert |-> Head(certs), chain |-> Tail(certs)]])

sshkey_parse_private_pem_fileblob(f, type, pass) ==
    IF f.fmt = "empty" THEN Fails("argument")
    ELSE IF f.fmt # "pem" \/ (f.pass # "" /\ pass # f.pass) THEN Fails("wrong_passphrase")
    ELSE IF type \notin {"", f.base} THEN Fails("format")
    ELSE IF sshrsa_check_length(f.base, f.pub) THEN Fails("length")
    ELSE x509key_parse_cert(Sshkey(f.base, f.curve, f.pub, f.priv), f.certs)

FirstFormat(f, type, pass, new) ==
    IF type \in {"rsa", "dsa", "ec"} THEN sshkey_parse_private_pem_fileblob(f, type, pass)
    ELSE IF type # "" THEN new
    ELSE IF new.err \in {"", "wrong_passphrase"} THEN new
    ELSE sshkey_parse_private_pem_fileblob(f, type, pass)
sshkey_parse_private_fileblob_type(f, type, pass) ==
    FirstFormat(f, type, pass, sshkey_parse_private2(f, type, pass))

sshkey_perm_ok(f) == ~f.open
sshkey_load_private_type(type, pass) ==
    IF disk["id"].fmt = "none" THEN Fails("system")
    ELSE IF disk["id"].fmt \in {"new", "pem"} /\ ~sshkey_perm_ok(disk["id"]) THEN Fails("permissions")
    ELSE sshkey_parse_private_fileblob_type(disk["id"], type, pass)

----------------------------------------------------------------------------
(* Public key files: lines of a name, a blob and a comment.                *)

KeyLine(name, b) == [kind |-> "key", name |-> name, blob |-> b, subject |-> ""]
SubjectLine(name, subject) == [kind |-> "subject", name |-> name, blob |-> <<>>, subject |-> subject]
CommentLine == [kind |-> "comment", name |-> "", blob |-> <<>>, subject |-> ""]
JunkLine == [kind |-> "junk", name |-> "", blob |-> <<>>, subject |-> ""]
PubFile(lines) == [fmt |-> "pub", lines |-> lines]

(* A key known by its distinguished name has no public part. *)
X509key_from_subject(l) ==
    LET x == [subject |-> l.subject, base |-> XAlgOf(l.name).base, curve |-> "", pub |-> 0]
    IN [Sshkey(x.base, "", 0, 0) EXCEPT !.x509 = [cert |-> x, chain |-> <<>>]]

ReadAs(l, t, r) ==
    IF l.kind \notin {"key", "subject"} \/ t.base = "" THEN Fails("format")
    ELSE IF l.kind = "subject" THEN IF IsXName(l.name) THEN Result("", X509key_from_subject(l)) ELSE Fails("format")
    ELSE IF r.err # "" THEN r
    ELSE IF r.key.base # t.base \/ sshkey_is_cert(r.key) # t.cert THEN Fails("mismatch")
    ELSE IF t.base = "ec" /\ t.curve # r.key.curve THEN Fails("curve")
    ELSE r
sshkey_read_pkalg(l) == ReadAs(l, sshkey_types_from_name(l.name), parse_key_from_blob(l.blob))

(* The line sshkey_write() makes: X.509 keys by their certificate. *)
sshkey_write(k) ==
    IF sshkey_is_x509(k) THEN Result("", KeyLine(sshkey_ssh_name(k), DerBlob(k.x509.cert)))
    ELSE IF to_blob_buf(k, FALSE).err # "" THEN Fails(to_blob_buf(k, FALSE).err)
    ELSE Result("", KeyLine(sshkey_ssh_name(k), to_blob_buf(k, FALSE).key))

(* The certificates after the first in the private key file. *)
x509key_load_certs(path, k) ==
    IF path # "id.pub" \/ ~sshkey_is_x509(k) \/ disk["id"].fmt # "pem" THEN k
    ELSE [k EXCEPT !.x509.chain = disk["id"].certs]

FirstRead(path, f, keys) ==
    LET good == {i \in DOMAIN f.lines : f.lines[i].kind # "comment" /\ keys[i].err = ""}
        first == CHOOSE i \in good : \A j \in good : i <= j
    IN IF f.fmt = "none" THEN Fails("system")
       ELSE IF f.fmt # "pub" \/ good = {} THEN Fails("format")
       ELSE Result("", x509key_load_certs(path, keys[first].key))
sshkey_try_load_public(path) ==
    FirstRead(path, disk[path], [i \in DOMAIN disk[path].lines |-> sshkey_read_pkalg(disk[path].lines[i])])

OrBeside(path, r) == IF r.err = "" \/ path # "id" THEN r ELSE sshkey_try_load_public("id.pub")
sshkey_load_public(path) == OrBeside(path, sshkey_try_load_public(path))

(* Mutant: the certificate file is taken without comparing it with the key. *)
UncheckedCert(k, c) ==
    IF k.err # "" THEN k ELSE IF c.err # "" THEN c
    ELSE IF ~sshkey_is_cert(c.key) THEN Fails("argument")
    ELSE Result("", sshkey_cert_copy(c.key, k.key))
load_private_cert_unchecked(type, pass) ==
    UncheckedCert(sshkey_load_private_type(type, pass), sshkey_try_load_public("id-cert.pub"))

WithCert(k, c) ==
    IF k.err # "" THEN k
    ELSE IF c.err # "" THEN c
    ELSE IF ~sshkey_equal_public(k.key, c.key) THEN Fails("cert_mismatch")
    ELSE IF sshkey_to_certified(k.key).err # "" \/ ~sshkey_is_cert(c.key) THEN Fails("argument")
    ELSE Result("", sshkey_cert_copy(c.key, k.key))
sshkey_load_private_cert(type, pass) ==
    WithCert(sshkey_load_private_type(type, pass), sshkey_try_load_public("id-cert.pub"))

----------------------------------------------------------------------------
(* Lists of revoked keys.                                                  *)

(* The first line that matches or cannot be read decides. *)
InKeys(k, lines, keys, strict, checkca) ==
    LET Same(a, b) == IF strict THEN sshkey_equal(a, b) ELSE sshkey_equal_public(a, b)
        Decides(r) ==
            \/ r.err \notin {"", "length"}
            \/ /\ r.err = ""
               /\ Same(k, r.key) \/ (checkca /\ sshkey_is_cert(k) /\ Same(k.cert.ca, r.key))
        decisive == {i \in DOMAIN lines : lines[i].kind # "comment" /\ Decides(keys[i])}
    IN IF decisive = {} THEN "not_found"
       ELSE keys[CHOOSE i \in decisive : \A j \in decisive : i <= j].err
sshkey_in_file(k, lines, strict, checkca) ==
    InKeys(k, lines, [i \in DOMAIN lines |-> sshkey_read_pkalg(lines[i])], strict, checkca)

RevokedAnswer(r) == CASE r = "" -> "revoked" [] r = "not_found" -> "" [] OTHER -> r
sshkey_check_revoked(k, lines) == RevokedAnswer(sshkey_in_file(k, lines, FALSE, TRUE))

----------------------------------------------------------------------------
(* Programs at work on one identity.                                       *)

KeysStart(kind) ==
    /\ mem = Sshkey(kind.base, kind.curve, kind.pub, kind.pub)
    /\ disk = [p \in Paths |-> NoFile]
    /\ saved = <<>>
    /\ issued = {}
    /\ steps = 0
KeysInit == \E kind \in Kinds : KeysStart(kind)

Stored(path, f) == disk' = [disk EXCEPT ![path] = f]

(* Written in place: an error removes the file, a crash leaves it empty. *)
sshkey_save_private(pass, newfmt) ==
    LET r == sshkey_private_to_fileblob(mem, pass, "c", newfmt)
        old == disk["id"]
        open == old.fmt \in {"new", "pem"} /\ old.open
    IN /\ r.err = ""
       /\ \/ Stored("id", [r.key EXCEPT !.open = open]) /\ saved' = [key |-> mem, pass |-> pass[1]]
          \/ Stored("id", NoFile) /\ saved' = <<>>
          \/ Stored("id", EmptyFile) /\ saved' = <<>>
       /\ UNCHANGED <<mem, issued>>

(* The file is truncated before the key is formatted. *)
sshkey_save_public(path) ==
    LET r == sshkey_write(mem)
    IN /\ \/ r.err = "" /\ Stored(path, PubFile(<<CommentLine, r.key>>))
          \/ Stored(path, EmptyFile)
       /\ UNCHANGED <<mem, saved, issued>>

Loaded(r) == r.err = "" /\ mem' = r.key /\ UNCHANGED <<disk, saved, issued>>
LoadPrivate == \E type \in {"", mem.base}, pass \in Passphrases : Loaded(sshkey_load_private_type(type, pass[1]))
LoadPrivateCert == \E pass \in Passphrases : Loaded(sshkey_load_private_cert("", pass[1]))
LoadPublic == \E path \in Paths : Loaded(sshkey_load_public(path))

(* A failing signature leaves the certificate without its blob. *)
sshkey_certify(ca, alg, body) ==
    LET k == [sshkey_to_certified(mem).key EXCEPT !.cert.body = body, !.cert.ca = sshkey_from_private(ca)]
        r == sshkey_certify_custom(k, ca, alg)
    IN /\ Cardinality(issued) < MaxIssued
       /\ sshkey_to_certified(mem).err = "" /\ ~sshkey_is_x509(mem)
       /\ mem' = IF r.err = "" THEN r.key ELSE k
       /\ issued' = IF r.err = "" THEN issued \cup {[ca |-> ca.pub, body |-> body, pub |-> mem.pub]} ELSE issued
       /\ UNCHANGED <<disk, saved>>
DropCert == Loaded(sshkey_drop_cert(mem))

(* The owner adds X.509 certificates to the private key file. *)
AppendCertificate ==
    LET f == disk["id"]
        x == [subject |-> "dn", base |-> f.base, curve |-> f.curve, pub |-> f.pub]
    IN /\ f.fmt = "pem" /\ f.certs = <<>> /\ saved # <<>>
       /\ Stored("id", [f EXCEPT !.certs = <<x>> \o Issuers])
       /\ saved' = [saved EXCEPT !.key.x509 = [cert |-> x, chain |-> Issuers]]
       /\ UNCHANGED <<mem, issued>>

(* Files mixed up, damaged or altered; another pair has number 9. *)
Altered(l) ==
    {KeyLine(l.name, [l.blob EXCEPT !.pub = 9]), KeyLine(l.name, [l.blob EXCEPT !.tail = "extra"])}
    \cup (IF l.blob.form = "key" /\ l.blob.body # <<>>
          THEN {KeyLine(l.name, [l.blob EXCEPT !.body.principals = {}])} ELSE {})
Damage ==
    \/ /\ disk["id"].fmt = "new"
       /\ \E f \in {[disk["id"] EXCEPT !.env.pub = 9], [disk["id"] EXCEPT !.padding = FALSE]} : Stored("id", f)
       /\ saved' = <<>> /\ UNCHANGED <<mem, issued>>
    \/ /\ disk["id"].fmt \in {"new", "pem"} /\ ~disk["id"].open
       /\ Stored("id", [disk["id"] EXCEPT !.open = TRUE]) /\ UNCHANGED <<mem, saved, issued>>
    \/ /\ \E path \in {"id.pub", "id-cert.pub"} :
            /\ disk[path].fmt = "pub" /\ Len(disk[path].lines) = 2
            /\ \E l \in Altered(disk[path].lines[2]) : Stored(path, PubFile(<<l>>))
       /\ UNCHANGED <<mem, saved, issued>>

(* Another key of the same program. *)
sshkey_generate(kind) ==
    /\ kind.base = mem.base /\ kind.pub # mem.pub
    /\ mem' = Sshkey(kind.base, kind.curve, kind.pub, kind.pub)
    /\ UNCHANGED <<disk, saved, issued>>

KeysNext ==
    /\ steps < MaxSteps /\ steps' = steps + 1
    /\ \/ \E kind \in Kinds : sshkey_generate(kind)
       \/ \E pass \in Passphrases, newfmt \in BOOLEAN : sshkey_save_private(pass, newfmt)
       \/ \E path \in {"id.pub", "id-cert.pub"} : sshkey_save_public(path)
       \/ LoadPrivate \/ LoadPrivateCert \/ LoadPublic
       \/ \E ca \in Authorities, alg \in {"", sshkey_ssh_name_plain(mem)}, body \in CertBodies : sshkey_certify(ca, alg, body)
       \/ DropCert \/ AppendCertificate \/ Damage

----------------------------------------------------------------------------
(* Properties.                                                             *)

Complete(k) == sshkey_is_cert(k) => k.cert.blob # <<>>
(* What of a key survives under an algorithm: the chain only in RFC 6187. *)
Seen(k, alg) ==
    [k EXCEPT !.cert = IF IsXName(alg) THEN <<>> ELSE @,
              !.x509 = IF ~IsXName(alg) \/ @ = <<>> THEN <<>>
                       ELSE IF XAlgOf(alg).chain THEN @ ELSE [@ EXCEPT !.chain = <<>>]]

(* A public key sent under one of its algorithms is received as it was, and
   verifies exactly what the private key signed under that algorithm. *)
WireFaithful ==
    Complete(mem) => \A alg \in Xkey_algoriths(mem) :
        LET b == Xkey_to_blob(alg, mem)
            r == Xkey_from_blob(alg, b.key)
            s == Xkey_sign(mem, "data", alg)
        IN /\ b.err = "" /\ r.err = "" /\ r.key = Seen(sshkey_from_private(mem), alg)
           /\ mem.priv # 0 =>
                /\ s.err = "" /\ Xkey_check_sigalg(s.key, alg)
                /\ Xkey_verify(r.key, s.key, "data", alg) = "" /\ Xkey_verify(r.key, s.key, "other", alg) # ""

(* What the agent gets is the key that was sent, but for a key with certificates of
   both kinds, which is sent under the X.509 name and with the other certificate. *)
AgentFaithful ==
    mem.priv # 0 /\ Complete(mem) /\ ~(sshkey_is_cert(mem) /\ sshkey_is_x509(mem)) =>
        sshkey_private_deserialize(sshkey_private_serialize(mem).key) = Result("", Seen(mem, sshkey_ssh_name(mem)))

(* A key file nobody damaged gives back what was saved for its passphrase and
   says so for any other. *)
FileFaithful ==
    saved # <<>> /\ ~disk["id"].open =>
        /\ sshkey_load_private_type("", saved.pass) = Result("", saved.key)
        /\ \A pass \in Passphrases :
              saved.pass \notin {"", pass[1]} => sshkey_load_private_type("", pass[1]).err = "wrong_passphrase"

(* Whatever was mixed up on disk: public, private and certified part are one
   pair, no short RSA key is held, and a certificate says what an authority signed. *)
PartsBelong ==
    /\ mem.priv \in {0, mem.pub}
    /\ ~sshrsa_check_length(mem.base, mem.pub)
    /\ sshkey_is_cert(mem) /\ Complete(mem) =>
        /\ mem.cert.blob.pub = mem.pub /\ mem.cert.blob.body = mem.cert.body
        /\ [ca |-> mem.cert.ca.pub, body |-> mem.cert.body, pub |-> mem.pub] \in issued

ReadLists == {[lines |-> lines, keys |-> [i \in DOMAIN lines |-> sshkey_read_pkalg(lines[i])]] : lines \in RevokedLists}

(* A list never clears a key it names, directly or by its authority, and only
   condemns keys it names. *)
RevocationRight ==
    \A list \in ReadLists :
        LET Named(k) == \E r \in Range(list.keys) : r.err = "" /\ sshkey_equal_public(k, r.key)
            named == Named(mem) \/ (sshkey_is_cert(mem) /\ Named(mem.cert.ca))
        IN \E answer \in {sshkey_check_revoked(mem, list.lines)} :
              /\ named => answer # ""
              /\ answer = "revoked" => named

(* Keys keep their parts together in memory, on the wire, with the agent and in files. *)
KeysSound == WireFaithful /\ AgentFaithful /\ FileFaithful /\ PartsBelong /\ RevocationRight
=============================================================================
