------------------------------- MODULE Agent -------------------------------
(***************************************************************************)
(* ssh-agent.c with the helper process that drives PKCS#11 tokens          *)
(* (ssh-pkcs11-client.c in the agent, ssh-pkcs11-helper.c and ssh-pkcs11.c *)
(* in the helper) and clients that use authfd.c: a client sends a request  *)
(* and waits for its reply.  The agent is one loop: poll(), reaper(), then *)
(* one request of each connection that poll() found readable.  The         *)
(* question for a key with the confirm constraint blocks the whole loop,   *)
(* and time goes on.                                                       *)
(***************************************************************************)
EXTENDS Naturals, Sequences, FiniteSets, SequencesExt

CONSTANTS
    Clients,        \* processes that talk to the agent
    FileKeys,       \* keys read from files
    Providers,      \* PKCS#11 libraries on the whitelist
    CardKeys,       \* CardKeys[p]: the keys of the token behind p, a sequence
    Passwords,      \* passwords for lock and unlock; "" is the empty one
    Constraints,    \* what a client may ask for: a lifetime, 0 for none, and confirmation
    lifetime,       \* option -t
    maxfds,         \* descriptors poll() may wait for
    MaxTime,        \* bound: time ends here
    MaxRequests     \* bound: requests of all clients together

\* A key is a public key, alone or in an X.509 certificate with that subject.
NoCert == "none"
Key(pub, x509) == [pub |-> pub, x509 |-> x509]
IsX509(key) == key.x509 # NoCert

ASSUME AgentAssumption ==
    /\ \A p \in Providers : IsInjective(CardKeys[p])
    /\ {lifetime, maxfds, MaxTime, MaxRequests} \subseteq Nat
    /\ Constraints \subseteq [life : Nat, confirm : BOOLEAN]

VARIABLES
    ids,        \* idtab->idlist
    lock,       \* locked and lock_pwhash: NoLock, or the password
    turn,       \* connections poll() reported that are still to be served
    asking,     \* the connection whose key waits for confirmation, or Nobody
    conn,       \* a connection's state: the request under way, or the reply to it
    helper,     \* the helper: its key list, the registered providers with their reference
                \* counts, and whether one was freed while it was registered
    now,        \* monotime()
    requests,   \* number of requests so far
    signature   \* history: the circumstances of the latest signature

agentVars == <<ids, lock, turn, asking, conn, helper, now, requests, signature>>

NoLock == "unlocked"
Nobody == "nobody"
NoProvider == "file"
Closed == [st |-> "closed"]
Idle == [st |-> "idle"]
Replied(reply) == [st |-> "idle", reply |-> reply]

AgentInit ==
    /\ ids = <<>> /\ lock = NoLock /\ turn = {} /\ asking = Nobody
    /\ conn = [c \in Clients |-> Closed]
    /\ helper = [fd |-> FALSE, up |-> FALSE, keylist |-> <<>>, refcount |-> <<>>,
                 freed |-> FALSE]
    /\ now = 1 /\ requests = 0
    /\ signature = {}

----------------------------------------------------------------------------
(* The clients, authfd.c.                                                  *)

AnyKey == FileKeys \cup UNION {Range(CardKeys[p]) : p \in Providers}
ssh_fetch_identitylist == [type : {"list"}]
ssh_remove_all_identities == [type : {"remove_all"}]
Xssh_agent_sign == [type : {"sign"}, key : AnyKey]
ssh_remove_identity == [type : {"remove"}, key : AnyKey]
ssh_add_identity_constrained == [type : {"add"}, key : FileKeys, with : Constraints]
ssh_lock_agent == [type : {"lock", "unlock"}, password : Passwords]
ssh_update_card == [type : {"add_card"}, provider : Providers, with : Constraints]
                   \cup [type : {"remove_card"}, provider : Providers]

Requests ==
    ssh_fetch_identitylist \cup ssh_remove_all_identities \cup Xssh_agent_sign
    \cup ssh_remove_identity \cup ssh_add_identity_constrained \cup ssh_lock_agent
    \cup ssh_update_card

\* The listener is armed, and accept()ed from, while poll() has room.
ssh_get_authentication_socket(c) ==
    /\ asking = Nobody /\ turn = {}
    /\ conn[c].st = "closed"
    /\ 1 + Cardinality({d \in Clients : conn[d].st # "closed"}) <= maxfds
    /\ conn' = [conn EXCEPT ![c] = Idle]
    /\ UNCHANGED <<ids, lock, turn, asking, helper, now, requests, signature>>

ssh_request_reply(c, r) ==
    /\ conn[c].st = "idle" /\ requests < MaxRequests
    /\ conn' = [conn EXCEPT ![c] = [st |-> "sent", request |-> r, at |-> now]]
    /\ requests' = requests + 1
    /\ UNCHANGED <<ids, lock, turn, asking, helper, now, signature>>

\* The agent sees the end of file and frees the socket entry.
ssh_close_authentication_socket(c) ==
    /\ conn[c].st = "idle" /\ asking = Nobody /\ turn = {}
    /\ conn' = [conn EXCEPT ![c] = Closed]
    /\ UNCHANGED <<ids, lock, turn, asking, helper, now, requests, signature>>

----------------------------------------------------------------------------
(* Keys and the table of identities.                                       *)

\* Two certificates are compared by their subjects, all else by the public key.
sshkey_equal_public(a, b) == IF IsX509(a) /\ IsX509(b) THEN a.x509 = b.x509 ELSE a.pub = b.pub
\* sshkey_equal(), which is used for an identity without X.509 certificate, compares like
\* sshkey_equal_public() keys that are no OpenSSH certificates, and there are none here.
key_match(key, found) == sshkey_equal_public(key, found)

Matches(key) == {i \in DOMAIN ids : key_match(key, ids[i].key)}
lookup_identity(key) == CHOOSE i \in Matches(key) : \A j \in Matches(key) : i <= j

\* The time of death of an identity added now; 0 is never.
DeathAt(life) == IF life # 0 THEN now + life
                 ELSE IF lifetime # 0 THEN now + lifetime ELSE 0

Alive(id) == id.death = 0 \/ now < id.death
\* Mistake: expired identities stay until somebody removes them.
reaper_never == ids
reaper == SelectSeq(ids, Alive)

----------------------------------------------------------------------------
(* The helper: a list of keys, and providers that are referenced by their  *)
(* registration and by each key object made for them.                      *)

Registered(h) == DOMAIN h.refcount
KeysOf(h, p) == {i \in DOMAIN h.keylist : h.keylist[i].provider = p}

\* lookup_key(): the first key with that public key, whatever its provider; the request names
\* the bare public key.
lookup_key(pub) == CHOOSE i \in DOMAIN helper.keylist :
    /\ helper.keylist[i].key.pub = pub
    /\ \A j \in 1 .. i - 1 : helper.keylist[j].key.pub # pub
HelperCanSign(pub) ==
    /\ helper.up
    /\ \E i \in DOMAIN helper.keylist : helper.keylist[i].key.pub = pub
    /\ helper.keylist[lookup_key(pub)].provider \in Registered(helper)

\* An object of a token that equals an earlier one is skipped.
pkcs11_push_key(keys, key) ==
    IF \E i \in DOMAIN keys : sshkey_equal_public(key, keys[i]) THEN keys ELSE Append(keys, key)
pkcs11_fetch_keys(p) == FoldLeft(pkcs11_push_key, <<>>, CardKeys[p])

\* Mistake: keys do not hold a reference.
register_without_keys(h, p) ==
    [h EXCEPT !.refcount = [q \in Registered(h) \cup {p} |->
        IF q = p THEN 1 ELSE h.refcount[q]]]
\* Each key object made for the token holds a reference, a skipped one, too, and the
\* registration holds one.
pkcs11_register_provider(h, p) ==
    [h EXCEPT !.refcount = [q \in Registered(h) \cup {p} |->
        IF q = p THEN Len(CardKeys[p]) + 1 ELSE h.refcount[q]]]

\* process_add() of the helper: a provider that is registered is refused, one without
\* keys is registered and dropped again.
process_add(h, p) ==
    LET keys == pkcs11_fetch_keys(p) IN
    IF p \in Registered(h) \/ keys = <<>> THEN h
    ELSE [pkcs11_register_provider(h, p) EXCEPT
            !.keylist = @ \o [i \in DOMAIN keys |-> [key |-> keys[i], provider |-> p]]]

\* Dropping n references; the provider is freed with the last.
pkcs11_provider_unref(h, p, n) ==
    [h EXCEPT !.refcount[p] = @ - n, !.freed = @ \/ h.refcount[p] <= n]

del_keys_by_name(h, p) ==
    IF KeysOf(h, p) = {} THEN h
    ELSE [pkcs11_provider_unref(h, p, Cardinality(KeysOf(h, p))) EXCEPT
            !.keylist = SelectSeq(@, LAMBDA ki : ki.provider # p)]

\* process_del() of the helper: the provider is taken from the list and finalized.
process_del(h, p) ==
    LET k == del_keys_by_name(h, p) IN
    IF p \notin Registered(k) THEN k
    ELSE [k EXCEPT !.refcount = [q \in Registered(k) \ {p} |-> k.refcount[q]]]

pkcs11_start_helper ==
    IF helper.fd THEN helper ELSE [helper EXCEPT !.fd = TRUE, !.up = TRUE]

\* What pkcs11_add_provider() of the agent returns: the keys, when the helper answered
\* with keys.
pkcs11_add_provider(p) ==
    LET h == pkcs11_start_helper IN
    IF h.up /\ p \notin Registered(h) THEN pkcs11_fetch_keys(p) ELSE <<>>

\* The helper ends (killed, or out of memory); the agent keeps the dead descriptor.
HelperDies ==
    /\ helper.up
    /\ helper' = [helper EXCEPT !.up = FALSE, !.keylist = <<>>, !.refcount = <<>>]
    /\ UNCHANGED <<ids, lock, turn, asking, conn, now, requests, signature>>

----------------------------------------------------------------------------
(* The loop.                                                               *)

Tick ==
    /\ now < MaxTime /\ now' = now + 1
    /\ UNCHANGED <<ids, lock, turn, asking, conn, helper, requests, signature>>

\* poll() returns: expired identities are removed, the readable connections are served
\* one after the other.
prepare_poll ==
    /\ asking = Nobody /\ turn = {}
    /\ turn' = {c \in Clients : conn[c].st = "sent"}
    /\ ids' = reaper
    /\ <<turn', ids'>> # <<turn, ids>>
    /\ UNCHANGED <<lock, asking, conn, helper, now, requests, signature>>

\* It is the turn of c, and its request has this type.
Request(c, type) ==
    /\ asking = Nobody /\ c \in turn
    /\ conn[c].request.type = type
    /\ turn' = turn \ {c}
    /\ UNCHANGED <<now, requests>>
r_(c) == conn[c].request

Answer(c, reply) == conn' = [conn EXCEPT ![c] = Replied(reply)]
send_status(c, success) == Answer(c, IF success THEN "SUCCESS" ELSE "FAILURE")

\* While the agent is locked every request but unlock fails, and lists are empty.
Refused(c) ==
    /\ lock # NoLock
    /\ \E type \in {"list", "remove_all", "sign", "remove", "add", "lock", "add_card",
                    "remove_card"} : Request(c, type)
    /\ IF r_(c).type = "list" THEN Answer(c, {}) ELSE send_status(c, FALSE)
    /\ UNCHANGED <<ids, lock, asking, helper, signature>>

process_request_identities(c) ==
    /\ lock = NoLock /\ Request(c, "list")
    /\ Answer(c, {ids[i].key : i \in DOMAIN ids})
    /\ UNCHANGED <<ids, lock, asking, helper, signature>>

\* Xkey_sign(): a key of a token is used by the helper.
Xkey_sign(id) == id.card => HelperCanSign(id.key.pub)

SignReply(c, i, asked) ==
    /\ Answer(c, IF Xkey_sign(ids[i]) THEN "SIGNATURE" ELSE "FAILURE")
    /\ signature' = IF Xkey_sign(ids[i])
                    THEN {[id |-> ids[i], sent |-> conn[c].at, asked |-> asked, lock |-> lock]}
                    ELSE signature

process_sign_request2(c) ==
    /\ lock = NoLock /\ Request(c, "sign")
    /\ IF Matches(r_(c).key) = {}
       THEN send_status(c, FALSE) /\ UNCHANGED <<asking, signature>>
       ELSE LET i == lookup_identity(r_(c).key) IN
            IF ids[i].confirm
            THEN asking' = c /\ UNCHANGED <<conn, signature>>
            ELSE SignReply(c, i, FALSE) /\ UNCHANGED asking
    /\ UNCHANGED <<ids, lock, helper>>

\* The user answers; nothing else happened in the agent meanwhile.
confirm_key(c, ok) ==
    /\ asking = c /\ asking' = Nobody
    /\ IF ok THEN SignReply(c, lookup_identity(r_(c).key), TRUE)
       ELSE send_status(c, FALSE) /\ UNCHANGED signature
    /\ UNCHANGED <<ids, lock, turn, helper, now, requests>>

\* A key in a request is read as an X.509 certificate; one that is none is looked for in
\* what follows it in the message, and nothing does.
Akey_gets(key) == IsX509(key)

\* Mistake: no reply when the key is not found.
remove_identity_silently(c) ==
    /\ lock = NoLock /\ Request(c, "remove")
    /\ LET found == Akey_gets(r_(c).key) /\ Matches(r_(c).key) # {} IN
       /\ ids' = IF found THEN RemoveAt(ids, lookup_identity(r_(c).key)) ELSE ids
       /\ IF found THEN send_status(c, TRUE) ELSE UNCHANGED conn
    /\ UNCHANGED <<lock, asking, helper, signature>>

process_remove_identity(c) ==
    /\ lock = NoLock /\ Request(c, "remove")
    /\ LET found == Akey_gets(r_(c).key) /\ Matches(r_(c).key) # {} IN
       /\ ids' = IF found THEN RemoveAt(ids, lookup_identity(r_(c).key)) ELSE ids
       /\ send_status(c, found)
    /\ UNCHANGED <<lock, asking, helper, signature>>

process_remove_all_identities(c) ==
    /\ lock = NoLock /\ Request(c, "remove_all")
    /\ ids' = <<>> /\ send_status(c, TRUE)
    /\ UNCHANGED <<lock, asking, helper, signature>>

\* An identity that matches is overwritten, all but its provider.
process_add_identity(c) ==
    /\ lock = NoLock /\ Request(c, "add")
    /\ LET new == [key |-> r_(c).key, card |-> FALSE, provider |-> NoProvider,
                   death |-> DeathAt(r_(c).with.life), confirm |-> r_(c).with.confirm]
           i == lookup_identity(r_(c).key)
       IN ids' = IF Matches(r_(c).key) = {} THEN Append(ids, new)
                 ELSE [ids EXCEPT ![i] = [new EXCEPT !.provider = ids[i].provider]]
    /\ send_status(c, TRUE)
    /\ UNCHANGED <<lock, asking, helper, signature>>

process_lock_agent(c) ==
    /\ \/ lock = NoLock /\ Request(c, "lock")
       \/ Request(c, "unlock")
    /\ LET password == r_(c).password
           done == /\ password # ""
                   /\ r_(c).type = "unlock" => lock = password
       IN /\ lock' = IF ~done THEN lock
                     ELSE IF r_(c).type = "lock" THEN password ELSE NoLock
          /\ send_status(c, done)
    /\ UNCHANGED <<ids, asking, helper, signature>>

\* Keys of the token that are not known yet become identities.
NewCardIds(c, keys) ==
    LET fresh == SelectSeq(keys, LAMBDA k : Matches(k) = {}) IN
    [i \in DOMAIN fresh |-> [key |-> fresh[i], card |-> TRUE, provider |-> r_(c).provider,
                             death |-> DeathAt(r_(c).with.life), confirm |-> r_(c).with.confirm]]

process_add_smartcard_key(c) ==
    /\ lock = NoLock /\ Request(c, "add_card")
    /\ LET new == NewCardIds(c, pkcs11_add_provider(r_(c).provider)) IN
       /\ ids' = ids \o new
       /\ send_status(c, new # <<>>)
    /\ helper' = IF pkcs11_start_helper.up THEN process_add(pkcs11_start_helper, r_(c).provider)
                 ELSE helper
    /\ UNCHANGED <<lock, asking, signature>>

\* Mistake: only the first identity of the provider is removed.
remove_first_card_key(c) ==
    /\ lock = NoLock /\ Request(c, "remove_card")
    /\ LET p == r_(c).provider IN
       /\ ids' = LET of == {i \in DOMAIN ids : ids[i].provider = p} IN
                 IF of = {} THEN ids ELSE RemoveAt(ids, CHOOSE i \in of : \A j \in of : i <= j)
       /\ send_status(c, helper.up /\ p \in Registered(helper))
       /\ helper' = IF helper.up THEN process_del(helper, p) ELSE helper
    /\ UNCHANGED <<lock, asking, signature>>

process_remove_smartcard_key(c) ==
    /\ lock = NoLock /\ Request(c, "remove_card")
    /\ LET p == r_(c).provider IN
       /\ ids' = SelectSeq(ids, LAMBDA id : id.provider # p)
       /\ send_status(c, helper.up /\ p \in Registered(helper))
       /\ helper' = IF helper.up THEN process_del(helper, p) ELSE helper
    /\ UNCHANGED <<lock, asking, signature>>

process_message(c) ==
    \/ Refused(c)
    \/ process_request_identities(c)
    \/ process_sign_request2(c)
    \/ process_remove_identity(c)
    \/ process_remove_all_identities(c)
    \/ process_add_identity(c)
    \/ process_lock_agent(c)
    \/ process_add_smartcard_key(c)
    \/ process_remove_smartcard_key(c)

AgentStep(c) ==
    \/ process_message(c)
    \/ \E ok \in BOOLEAN : confirm_key(c, ok)

AgentNext ==
    \/ \E c \in Clients :
        \/ ssh_get_authentication_socket(c)
        \/ \E r \in Requests : ssh_request_reply(c, r)
        \/ ssh_close_authentication_socket(c)
        \/ AgentStep(c)
    \/ prepare_poll
    \/ Tick
    \/ HelperDies

AgentSpec == AgentInit /\ [][AgentNext]_agentVars

\* The loop goes on, and the user answers the questions.
AgentFairness ==
    /\ WF_agentVars(prepare_poll)
    /\ \A c \in Clients : WF_agentVars(AgentStep(c))
AgentFairSpec == AgentSpec /\ AgentFairness

----------------------------------------------------------------------------
(* Properties.                                                             *)

\* A signature is made with an identity that had not expired when the request for it was
\* sent, although the loop serves several connections, and waits for the user, between
\* two calls of reaper(); a key with the confirm constraint was confirmed; the agent was
\* not locked.
SignaturesTimely ==
    \A s \in signature :
        /\ s.id.death = 0 \/ s.sent < s.id.death
        /\ s.id.confirm => s.asked
        /\ s.lock = NoLock

\* The agent's table and the helper's list agree: an identity that stands for a key of a
\* token can be used as long as the helper lives, whatever was added, removed, expired or
\* overwritten in between.
CardKeysUsable ==
    helper.up => \A i \in DOMAIN ids : ids[i].card =>
        /\ ids[i].provider \in Registered(helper)
        /\ HelperCanSign(ids[i].key.pub)

\* No provider is freed while it is registered, and no key is left without its provider.
ProvidersReferenced ==
    /\ ~helper.freed
    /\ \A i \in DOMAIN helper.keylist : helper.keylist[i].provider \in Registered(helper)

\* ssh-add -d "removes identities from the agent": a request to remove an identity the agent
\* holds, and that it gets to while it is not locked, removes it.
RemovedWhenAsked ==
    [][\A c \in turn \ turn' :
        lock = NoLock /\ r_(c).type = "remove" /\ Matches(r_(c).key) # {} => Len(ids') < Len(ids)]_agentVars

\* Every request is answered, also when other clients' requests wait for a confirmation.
RequestsAnswered ==
    \A c \in Clients : conn[c].st = "sent" ~> conn[c].st # "sent"

(* Keys are used only in their lifetime and with the confirmation they need; those of a token can
   be used as long as the helper lives; and the helper neither frees a provider that is registered
   nor keeps a key of one that is not. *)
AgentSound == SignaturesTimely /\ CardKeysUsable /\ ProvidersReferenced
=============================================================================
