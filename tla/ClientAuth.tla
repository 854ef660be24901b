----------------------------- MODULE ClientAuth -----------------------------
(***************************************************************************)
(* The client's side of user authentication, sshconnect2.c: which methods  *)
(* it tries, which keys it offers in which order and with which            *)
(* algorithm, when it prompts, and when it gives up, against a server that *)
(* wants one of several lists of methods.                                  *)
(*                                                                         *)
(* The exchange is strictly one request, one answer.  GSSAPI, the banner   *)
(* and messages a server does not send in this state are left out.         *)
(***************************************************************************)
EXTENDS Naturals, Sequences, SequencesExt, FiniteSets

CONSTANTS
    Setups      \* what the user has, the options, and what the server wants

VARIABLES
    setup,      \* one of Setups, never changes
    authctxt,   \* the client
    authwire,       \* the request or the answer under way
    peer        \* lists to be met, keys that were used

clientauthVars == <<setup, authctxt, authwire, peer>>

Methods == {"none", "hostbased", "publickey", "keyboard-interactive", "password"}
NoMethod == "no method"
NoKey == "no key"
NoMessage == [t |-> "none"]

\* A setup: files are the keys of the configuration (public: the public half can be read
\* without the private one; ext: on a token), certs those of CertificateFile, each for the key
\* plain[c], agent those of the agent; clumsy users may answer wrongly.  The server wants one of lists, accepts the
\* keys authorized, asks questions or not, wants the password changed or not.

----------------------------------------------------------------------------
(* The keys.                                                               *)

Identity(key, kind, known, agent, ext) ==
    [key |-> key, kind |-> kind, known |-> known, agent |-> agent, ext |-> ext,
     tried |-> FALSE]
FileIdentity(f) == Identity(f.key, f.kind, f.public, FALSE, f.ext)

\* Mistake: agent keys that are listed in the configuration are not preferred.
prepare_unsorted(s) ==
    [i \in DOMAIN s.files |-> FileIdentity(s.files[i])]
        \o [i \in DOMAIN s.certs |-> Identity(s.certs[i], "cert", TRUE, FALSE, FALSE)]

\* Certificates, keys of the agent that the configuration lists, other keys of the agent,
\* tokens that it lists, other keys of the configuration.
pubkey_prepare(s) ==
    LET files == [i \in DOMAIN s.files |-> FileIdentity(s.files[i])]
        InAgent(id) == id.known /\ \E j \in DOMAIN s.agent : s.agent[j].key = id.key
        Listed(a) == \E i \in DOMAIN files : files[i].known /\ files[i].key = a.key
        ByAgent == [j \in DOMAIN SelectSeq(s.agent, Listed) |->
                        LET a == SelectSeq(s.agent, Listed)[j]
                        IN Identity(a.key, a.kind, TRUE, TRUE, FALSE)]
        others == SelectSeq(s.agent, LAMBDA a : ~Listed(a))
        Others == [j \in DOMAIN others |->
                        Identity(others[j].key, others[j].kind, TRUE, TRUE, FALSE)]
        left == SelectSeq(files, LAMBDA id : ~InAgent(id))
        AlsoFile(id) == id.ext /\ \E i \in DOMAIN left :
                            left[i].known /\ ~left[i].ext /\ left[i].key = id.key
    IN [i \in DOMAIN s.certs |-> Identity(s.certs[i], "cert", TRUE, FALSE, FALSE)]
       \o ByAgent \o (IF s.identities_only THEN <<>> ELSE Others)
       \o SelectSeq(left, AlsoFile)
       \o SelectSeq(left, LAMBDA id : ~AlsoFile(id) /\ ~(id.ext /\ s.identities_only))

\* The algorithms for a key, in the order they are tried.  For a plain RSA key the newer
\* ones must have been announced by the peer.
Algorithms(kind) ==
    CASE kind = "rsa" -> (IF setup.announced THEN <<"rsa-sha2-256", "rsa-sha2-512">> ELSE <<>>)
                             \o <<"ssh-rsa">>
      [] kind = "cert" -> <<"rsa-sha2-256-cert", "rsa-sha2-512-cert", "ssh-rsa-cert">>
      [] kind = "x509" -> (IF setup.announced THEN <<"x509v3-ssh-rsa", "x509v3-sign-rsa">>
                           ELSE <<"x509v3-sign-rsa">>)
                             \o (IF setup.announced THEN <<"rsa-sha2-256", "rsa-sha2-512">>
                                 ELSE <<>>) \o <<"ssh-rsa">>
      [] kind = "ed25519" -> <<"ssh-ed25519">>

\* The server announces the plain algorithm of a certificate's only.
PlainName(alg) ==
    CASE alg = "rsa-sha2-256-cert" -> "rsa-sha2-256"
      [] alg = "rsa-sha2-512-cert" -> "rsa-sha2-512"
      [] alg = "ssh-rsa-cert" -> "ssh-rsa"
      [] OTHER -> alg

pkalg_match(alg) ==
    /\ alg \in setup.pubkey_algorithms
    /\ setup.announced => PlainName(alg) \in setup.pkalgs

\* Zero if the key cannot be used.
try_identity(id) == SelectInSeq(Algorithms(id.kind), pkalg_match)

----------------------------------------------------------------------------
(* The choice of a method.                                                 *)

authmethod_is_enabled(c, m) ==
    /\ m # NoMethod /\ m \in c.enabled
    /\ m \in {"keyboard-interactive", "password"} => ~setup.batch_mode

\* The first method of what is left of the user's preferences that the server listed.
NextMethod(c) ==
    LET rest == c.preferred
        n == SelectInSeq(rest, LAMBDA m : m \in c.supported /\ authmethod_is_enabled(c, m))
    IN IF n = 0 THEN [c EXCEPT !.current = NoMethod]
       ELSE [c EXCEPT !.current = rest[n], !.preferred = SubSeq(rest, n + 1, Len(rest))]

authmethod_get(c, authlist) ==
    LET fresh == [c EXCEPT !.supported = authlist, !.preferred = setup.preferred,
                           !.current = NoMethod]
    IN IF authlist # c.supported THEN NextMethod(fresh)
       ELSE IF authmethod_is_enabled(c, c.current) THEN c
       ELSE NextMethod(c)

----------------------------------------------------------------------------
(* The methods.  Each is the set of [c, sent] it may lead to: the client   *)
(* afterwards, and the request sent, NoMessage if it sent nothing.              *)

Outcome(c, m) == [c |-> c, sent |-> m]
Req(t, val) == [t |-> t, val |-> val]
Fails(c) == {Outcome(c, NoMessage)}

\* What a user who is asked for a secret may answer.
Answers == IF setup.clumsy THEN BOOLEAN ELSE {TRUE}

\* A certificate is signed for with the identity that has its private half.
SignIds(c, id) ==
    IF id.kind # "cert" THEN {id}
    ELSE {p \in Range(c.keys) : p.kind # "cert" /\ p.key = setup.plain[id.key]}

\* The passphrase is right, or the user is at a loss.
load_identity_file(id) == Answers
identity_sign(c, id) ==
    IF SignIds(c, id) = {} THEN {FALSE}
    ELSE IF \E p \in SignIds(c, id) : p.agent \/ p.ext THEN {TRUE}
    ELSE load_identity_file(id)

sign_and_send_pubkey(c, id) ==
    {Outcome(c, IF ok THEN Req("signed", id.key) ELSE NoMessage) : ok \in identity_sign(c, id)}

send_pubkey_test(c, id) == {Outcome(c, Req("test", id.key))}

\* Mistake: a key that was tried keeps its place.
rotate_in_place(c) ==
    [c EXCEPT !.keys = <<[Head(c.keys) EXCEPT !.tried = TRUE]>> \o Tail(c.keys)]

\* The first key goes to the end of the queue; offered is kept for the properties.
Rotate(c) ==
    LET id == Head(c.keys) IN
    [c EXCEPT !.keys = Append(Tail(c.keys), [id EXCEPT !.tried = TRUE]),
              !.offered = IF try_identity(id) = 0 THEN @ ELSE Append(@, <<id.key, id.ext>>)]

\* A key that was tried already ends the method.  A key whose public half is not known is
\* loaded and used for a signature at once.
RECURSIVE userauth_pubkey(_)
userauth_pubkey(c) ==
    LET id == Head(c.keys)
        next == Rotate(c)
    IN IF c.keys = <<>> \/ id.tried THEN Fails(c)
       ELSE IF try_identity(id) = 0 THEN userauth_pubkey(next)
       ELSE IF id.known THEN send_pubkey_test(next, id)
       ELSE UNION {IF loaded THEN {Outcome(next, Req("signed", id.key))}
                   ELSE userauth_pubkey(next) : loaded \in load_identity_file(id)}

\* Mistake: attempts are not counted.
passwd_uncounted(c) ==
    IF c.attempt_passwd >= setup.prompts THEN Fails(c)
    ELSE {Outcome(c, Req("password", right)) : right \in Answers}
userauth_passwd(c) ==
    LET d == [c EXCEPT !.attempt_passwd = @ + 1] IN
    IF c.attempt_passwd >= setup.prompts THEN Fails(c)
    ELSE {Outcome(d, Req("password", right)) : right \in Answers}

\* Given up, too, when the attempt before brought no question.
userauth_kbdint(c) ==
    LET d == [c EXCEPT !.attempt_kbdint = @ + 1] IN
    IF c.attempt_kbdint >= setup.prompts \/ (c.attempt_kbdint > 0 /\ ~c.info_req_seen)
    THEN Fails(c)
    ELSE {Outcome(d, Req("kbdint", TRUE))}

\* Each host key is used once; ssh-keysign signs for it or fails.
userauth_hostbased(c) ==
    IF c.hostkeys = 0 THEN Fails(c)
    ELSE {Outcome([c EXCEPT !.hostkeys = @ - 1], IF ok THEN Req("hostbased", TRUE) ELSE NoMessage) :
            ok \in Answers}

userauth_method(c) ==
    CASE c.current = "publickey" -> userauth_pubkey(c)
      [] c.current = "password" -> userauth_passwd(c)
      [] c.current = "keyboard-interactive" -> userauth_kbdint(c)
      [] c.current = "hostbased" -> userauth_hostbased(c)

\* Methods are tried until one has sent a request; those that did not are disabled.
RECURSIVE userauth(_, _)
userauth(c0, authlist) ==
    LET c == authmethod_get(c0, authlist) IN
    IF c.current = NoMethod THEN Fails([c EXCEPT !.st = "denied"])
    ELSE UNION {IF o.sent # NoMessage THEN {o}
                ELSE userauth([o.c EXCEPT !.enabled = @ \ {c.current}], authlist) :
                    o \in userauth_method(c)}

----------------------------------------------------------------------------
(* Messages of the peer.                                                 *)

pubkey_reset(c) ==
    [c EXCEPT !.keys = [i \in DOMAIN @ |-> [@[i] EXCEPT !.tried = FALSE]], !.offered = <<>>]

input_userauth_failure(c, m) == userauth(IF m.partial THEN pubkey_reset(c) ELSE c, m.list)

\* The key is looked for from the end of the queue, where the last candidate is.
input_userauth_pk_ok(c, m) ==
    LET n == SelectLastInSeq(c.keys, LAMBDA id : id.known /\ id.key = m.key)
    IN UNION {IF o.sent # NoMessage THEN {o} ELSE userauth(o.c, c.supported) :
                    o \in sign_and_send_pubkey(c, c.keys[n])}

input_userauth_info_req(c) ==
    {Outcome([c EXCEPT !.info_req_seen = TRUE], Req("response", right)) : right \in Answers}

\* At the end of the input nothing is sent, and no other method is tried.
input_userauth_passwd_changereq(c) ==
    {Outcome(c, Req("change", TRUE))}
        \cup (IF setup.clumsy THEN {Outcome([c EXCEPT !.st = "declined"], NoMessage)} ELSE {})

ClientHandles ==
    /\ authctxt.st = "waiting" /\ authwire.t \in {"failure", "pk_ok", "info_req", "changereq"}
    /\ \E o \in CASE authwire.t = "failure" -> input_userauth_failure(authctxt, authwire)
                 [] authwire.t = "pk_ok" -> input_userauth_pk_ok(authctxt, authwire)
                 [] authwire.t = "info_req" -> input_userauth_info_req(authctxt)
                 [] authwire.t = "changereq" -> input_userauth_passwd_changereq(authctxt) :
        authctxt' = o.c /\ authwire' = o.sent
    /\ UNCHANGED <<setup, peer>>

input_userauth_success ==
    /\ authctxt.st = "waiting" /\ authwire.t = "success"
    /\ authctxt' = [authctxt EXCEPT !.st = "success"] /\ authwire' = NoMessage
    /\ UNCHANGED <<setup, peer>>

----------------------------------------------------------------------------
(* The peer.                                                             *)

Heads(lists) == {Head(l) : l \in lists}
Refuse == authwire' = [t |-> "failure", list |-> Heads(peer.lists), partial |-> FALSE]
          /\ UNCHANGED peer
\* A method succeeded: lists that begin with it are a step further.
Accept(m, key) ==
    LET lists == {IF Head(l) = m THEN Tail(l) ELSE l : l \in peer.lists} IN
    /\ peer' = [lists |-> lists, used |-> peer.used \cup ({key} \ {NoKey})]
    /\ authwire' = IF <<>> \in lists THEN [t |-> "success"]
               ELSE [t |-> "failure", list |-> Heads(lists), partial |-> TRUE]
Acceptable(key) == key \in setup.authorized \ peer.used
Serve(m, ok, key) == IF ok /\ m \in Heads(peer.lists) THEN Accept(m, key) ELSE Refuse

ServerAnswers ==
    /\ authctxt.st = "waiting"
    /\ \/ authwire.t = "none-request" /\ Refuse
       \/ /\ authwire.t = "test"
          /\ IF Acceptable(authwire.val) /\ "publickey" \in Heads(peer.lists)
             THEN authwire' = [t |-> "pk_ok", key |-> authwire.val] /\ UNCHANGED peer
             ELSE Refuse
       \/ authwire.t = "signed" /\ Serve("publickey", Acceptable(authwire.val), authwire.val)
       \/ authwire.t = "hostbased" /\ Serve("hostbased", setup.hostok, NoKey)
       \/ /\ authwire.t = "password"
          /\ IF authwire.val /\ setup.expired THEN authwire' = [t |-> "changereq"] /\ UNCHANGED peer
             ELSE Serve("password", authwire.val, NoKey)
       \/ authwire.t = "change" /\ Serve("password", TRUE, NoKey)
       \/ /\ authwire.t = "kbdint"
          /\ IF setup.asks THEN authwire' = [t |-> "info_req"] /\ UNCHANGED peer ELSE Refuse
       \/ authwire.t = "response" /\ Serve("keyboard-interactive", authwire.val, NoKey)
    /\ UNCHANGED <<setup, authctxt>>

----------------------------------------------------------------------------
\* ssh_userauth2() and input_userauth_service_accept(): the first request is for none.
ClientAuthStart(s) ==
    /\ setup = s
    /\ authctxt = [st |-> "waiting", keys |-> pubkey_prepare(setup),
                   enabled |-> Methods \ {"none"}, supported |-> {}, preferred |-> <<>>,
                   current |-> NoMethod, attempt_passwd |-> 0, attempt_kbdint |-> 0,
                   info_req_seen |-> FALSE, hostkeys |-> setup.hostkeys, offered |-> <<>>]
    /\ authwire = Req("none-request", TRUE)
    /\ peer = [lists |-> setup.lists, used |-> {}]

ClientAuthInit == \E s \in Setups : ClientAuthStart(s)

ClientAuthNext == ClientHandles \/ input_userauth_success \/ ServerAnswers

----------------------------------------------------------------------------
(* Properties.                                                             *)

\* Keys the client has at hand and an algorithm both sides allow.
Usable ==
    LET all == Range(pubkey_prepare(setup)) IN
    {id \in all : /\ try_identity(id) # 0
                  /\ id.kind = "cert" => \E p \in all : p.kind # "cert"
                                                      /\ p.key = setup.plain[id.key]}

\* The client gives up only when nothing it has would help: no key that the server would
\* accept now, no password or question it may still ask the user for, no host key.  The
\* order of methods, keys that go round in their queue, methods that were disabled and
\* lists that change with partial successes must not lose any (userauth(),
\* authmethod_get(), userauth_pubkey(), pubkey_reset()).
NothingLeft ==
    authctxt.st = "denied" /\ ~setup.clumsy =>
        LET wanted == Heads(peer.lists) \cap Range(setup.preferred) IN
        /\ "publickey" \in wanted => \A id \in Usable : ~Acceptable(id.key)
        /\ "hostbased" \in wanted /\ setup.hostok => authctxt.hostkeys = 0
        /\ "password" \in wanted /\ ~setup.batch_mode
                => authctxt.attempt_passwd = setup.prompts
        /\ "keyboard-interactive" \in wanted /\ ~setup.batch_mode /\ setup.asks
                => authctxt.attempt_kbdint = setup.prompts

\* The order pubkey_prepare() promises in its comment: certificates, keys of the agent that
\* the configuration lists, other keys of the agent, the rest; and between two partial
\* successes each key is offered once, so that a server does not count it twice.
OfferedInOrder ==
    LET Rank(offer) ==
            LET key == offer[1] IN
            IF key \in Range(setup.certs) THEN 1
            ELSE IF ~\E j \in DOMAIN setup.agent : setup.agent[j].key = key THEN 4
            ELSE IF \E i \in DOMAIN setup.files :
                        setup.files[i].key = key /\ setup.files[i].public THEN 2 ELSE 3
        o == authctxt.offered
    IN /\ \A i, j \in DOMAIN o : i # j => o[i] # o[j]
       /\ peer.used = {} => \A i, j \in DOMAIN o : i < j => Rank(o[i]) <= Rank(o[j])

\* Both: nothing is left when the client gives up, and keys are offered in order.
ClientAuthSound == NothingLeft /\ OfferedInOrder
=============================================================================
