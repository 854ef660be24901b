----------------------------- MODULE X509Store -----------------------------
(***************************************************************************)
(* Validation of an X.509 certificate (x509store.c, ssh-ocsp.c): OpenSSL   *)
(* builds the chain and calls back for each certificate from the anchor    *)
(* to the one that was offered; the callback checks the list its subject   *)
(* has issued and looks the certificate up in the list of its issuer; then *)
(* a responder is asked about the certificate that was offered.            *)
(*                                                                         *)
(* Time passes and lists arrive in the directory between two callbacks.    *)
(* A certificate is [subject, issuer, key, by, crlSign, cdp, from, to,     *)
(* aia]: by is the key that signed it, aia the responders it names.  Names *)
(* of subjects also serve as serial numbers.                               *)
(***************************************************************************)
EXTENDS Naturals, Sequences, SequencesExt, FiniteSets

CONSTANTS
    XSetups,        \* what one validation finds: leaf, presented (certificates sent with it),
                    \* locations, and flags (selfissued, mandatory_crl, va)
    Arrivals,       \* lists that may arrive in the directory of revocation lists
    XMaxTime        \* bound: the last instant

VARIABLES
    xs,         \* the set-up of this validation
    crls,       \* lists in the store
    xclock,
    xv          \* the validation: pc, chain, depth, check_time, the responder to ask next,
                \* what responders said; and for the properties: the lists it began with

x509Vars == <<xs, crls, xclock, xv>>

Crl(issuer, by, from, to, listed) ==
    [issuer |-> issuer, by |-> by, from |-> from, to |-> to, listed |-> listed]

----------------------------------------------------------------------------
(* The stores.                                                             *)

\* A location is a directory or a file: given or not, and what it holds.  A directory need not
\* exist, a file must.
Location(given, exists, objs) == [given |-> given, exists |-> exists, objs |-> objs]
ssh_x509store_addlocations(l) ==
    LET Found(dir, file) == dir.given \/ (file.given /\ file.exists)
        Objs(dir, file) ==
            (IF dir.given THEN dir.objs ELSE {}) \cup (IF file.given /\ file.exists THEN file.objs ELSE {})
    IN [ok |-> Found(l.certificate_path, l.certificate_file)
               /\ Found(l.revocation_path, l.revocation_file),
        certs |-> Objs(l.certificate_path, l.certificate_file),
        crls |-> Objs(l.revocation_path, l.revocation_file)]

Trusted == ssh_x509store_addlocations(xs.locations).certs

\* Certificates and lists the stores return for a name: the first of several.
ssh_x509store_get_cert_by_subject(name) == {c \in Trusted : c.subject = name}
ssh_x509store_get_crl_by_subject(name) == {l \in crls : l.issuer = name}

ssh_X509_is_selfsigned(c) == c.issuer = c.subject

----------------------------------------------------------------------------
(* What OpenSSL does.                                                      *)

\* Chains from a certificate to one that is its own issuer: each is followed by one with the
\* name of its issuer.  The last is an anchor of the store, or the certificate itself.
Chains(c) ==
    LET pool == Trusted \cup xs.presented
        Grow == [n \in 0..Cardinality(pool) |->
                    {s \in [1..(n + 1) -> pool \cup {c}] :
                        /\ s[1] = c /\ IsInjective(s)
                        /\ \A i \in 1..n : s[i].issuer = s[i + 1].subject /\ s[i].issuer # s[i].subject
                        /\ ssh_X509_is_selfsigned(s[n + 1]) /\ (n > 0 => s[n + 1] \in Trusted)}]
    IN UNION {Grow[n] : n \in DOMAIN Grow}
ValidAt(x, t) == x.from <= t /\ t <= x.to
\* The signature on the certificate at a depth; that of the last is its own.
SignatureRight(chain, i) == i < Len(chain) => chain[i].by = chain[i + 1].key

----------------------------------------------------------------------------
(* The callback.                                                           *)

\* Mistake: the time is read anew.
CheckTimeNow == xclock
CheckTime == xv.check_time

ssh_check_crl(cert, l) == cert.crlSign /\ l.by = cert.key /\ ValidAt(l, CheckTime)
ssh_is_cert_revoked(l, cert) == cert.subject \in l.listed

ssh_x509revoked_cb(cert) ==
    LET issued == ssh_x509store_get_crl_by_subject(cert.subject)
        above == ssh_x509store_get_crl_by_subject(cert.issuer)
    IN /\ IF issued # {} THEN \A l \in issued : ssh_check_crl(cert, l)
          ELSE ~(xs.flags.mandatory_crl /\ cert.cdp)
       /\ \A l \in above : ~ssh_is_cert_revoked(l, cert)

\* Without an anchor a certificate that is its own issuer is reported first.
ssh_x509store_cb(chain, i) ==
    /\ chain[Len(chain)] \notin Trusted => xs.flags.selfissued /\ ssh_X509_is_selfsigned(chain[i])
    /\ SignatureRight(chain, i) /\ ValidAt(chain[i], CheckTime)
    /\ ssh_x509revoked_cb(chain[i])

----------------------------------------------------------------------------
\* ssh_verify_cert(): every check is done for the same instant.
ssh_verify_cert ==
    /\ xv.pc = "start"
    /\ xv' \in {[xv EXCEPT !.pc = "callbacks", !.chain = c, !.depth = Len(c),
                           !.check_time = xclock, !.began = crls] : c \in Chains(xs.leaf)}
               \cup (IF Chains(xs.leaf) = {} THEN {[xv EXCEPT !.pc = "refused"]} ELSE {})
    /\ UNCHANGED <<xs, crls, xclock>>

Callback ==
    /\ xv.pc = "callbacks"
    /\ xv' = IF ~ssh_x509store_cb(xv.chain, xv.depth) THEN [xv EXCEPT !.pc = "refused"]
             ELSE IF xv.depth > 1 THEN [xv EXCEPT !.depth = @ - 1]
             ELSE [xv EXCEPT !.pc = "ocsp"]
    /\ UNCHANGED <<xs, crls, xclock>>

\* What a responder may answer: "no" also stands for an answer that is not signed as it has to
\* be or is not current, and for a status that is unknown.
ResponderAnswers == {"no", "good", "revoked"}
ssh_ocsp_conn_new(url) == url # "ldap"
\* Nobody is asked about a certificate whose issuer is not in the store.
ssh_ocsp_validate2 ==
    IF ssh_x509store_get_cert_by_subject(xs.leaf.issuer) = {} THEN {"no"} ELSE ResponderAnswers
Result(answer) == IF answer = "good" THEN "trusted" ELSE "refused"

\* The next responder is asked if this one gave no answer.
aiaocsp_continues(a) == xv.url < Len(xs.leaf.aia) /\ a = "no"

ssh_ocsp_validate ==
    /\ xv.pc = "ocsp"
    /\ \/ /\ xs.flags.va = "none"
          /\ xv' = [xv EXCEPT !.pc = "trusted"]
       \/ /\ xs.flags.va = "cert" /\ xs.leaf.aia = <<>>
          /\ xv' = [xv EXCEPT !.pc = "trusted"]
       \/ /\ xs.flags.va = "cert" /\ xv.url <= Len(xs.leaf.aia)
          /\ \E a \in (IF ssh_ocsp_conn_new(xs.leaf.aia[xv.url]) THEN ssh_ocsp_validate2 ELSE {"no"}) :
                xv' = [xv EXCEPT !.said = Append(@, a), !.url = @ + 1,
                                 !.pc = IF aiaocsp_continues(a) THEN "ocsp" ELSE Result(a)]
       \/ /\ xs.flags.va = "spec"
          /\ \E a \in ssh_ocsp_validate2 :
                xv' = [xv EXCEPT !.said = Append(@, a), !.pc = Result(a)]
    /\ UNCHANGED <<xs, crls, xclock>>

Tick_x == xclock < XMaxTime /\ xclock' = xclock + 1 /\ UNCHANGED <<xs, crls, xv>>
CrlArrives ==
    /\ xs.locations.revocation_path.given
    /\ \E l \in Arrivals :
        /\ ssh_x509store_get_crl_by_subject(l.issuer) = {}
        /\ crls' = crls \cup {l}
    /\ UNCHANGED <<xs, xclock, xv>>

X509Start(s) ==
    /\ xs = s /\ xclock = 1
    /\ crls = ssh_x509store_addlocations(s.locations).crls
    /\ xv = [pc |-> IF ssh_x509store_addlocations(s.locations).ok THEN "start" ELSE "refused",
             chain |-> <<>>, depth |-> 0, check_time |-> 0, url |-> 1, said |-> <<>>,
             began |-> {}]
X509Init == \E s \in XSetups : X509Start(s)
X509Next ==
    /\ xv.pc \in {"start", "callbacks", "ocsp"}
    /\ (ssh_verify_cert \/ Callback \/ ssh_ocsp_validate \/ Tick_x \/ CrlArrives)

----------------------------------------------------------------------------
(* Properties.                                                             *)

\* A certificate ssh_x509store_verify_cert() trusts has a chain of right signatures to an anchor
\* (or is its own issuer where that is allowed); at one instant of the validation all of the chain
\* and each list that was in the store at its begin and is of one of the chain was valid and
\* signed by that certificate; none of the chain is in such a list; and if there is a responder
\* to ask, the last one asked said the certificate is good and none said it is revoked.
TrustedSound ==
    xv.pc = "trusted" =>
        LET chain == xv.chain
            lists == {l \in xv.began : \E i \in DOMAIN chain : l.issuer = chain[i].subject}
        IN /\ chain[Len(chain)] \in Trusted \/ (Len(chain) = 1 /\ xs.flags.selfissued)
           /\ \A i \in 1..(Len(chain) - 1) : chain[i].by = chain[i + 1].key
           /\ \E t \in 1..xclock : /\ \A i \in DOMAIN chain : ValidAt(chain[i], t)
                                   /\ \A l \in lists : ValidAt(l, t)
           /\ \A l \in lists, i \in DOMAIN chain :
                /\ l.issuer = chain[i].subject => l.by = chain[i].key
                /\ l.issuer = chain[i].issuer => chain[i].subject \notin l.listed
           /\ \A i \in DOMAIN xv.said : xv.said[i] # "revoked"
           /\ xs.flags.va = "spec" \/ (xs.flags.va = "cert" /\ xs.leaf.aia # <<>>) =>
                xv.said # <<>> /\ Last(xv.said) = "good"

\* With MandatoryCRL a trusted certificate has a chain in which the issuer of each certificate with
\* distribution points has a list in the store (sshd_config: "CRL must present in store for all
\* certificates in certificate chain with attribute X509v3 CRL Distribution Points").
MandatoryCrlPresent ==
    xv.pc = "trusted" /\ xs.flags.mandatory_crl =>
        \A i \in DOMAIN xv.chain :
            xv.chain[i].cdp => ssh_x509store_get_crl_by_subject(xv.chain[i].issuer) # {}
=============================================================================
