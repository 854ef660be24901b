-------------------------- MODULE UserauthProofs --------------------------
(***************************************************************************)
(* Three properties of a login, for every configuration, set of users and  *)
(* keys: no key serves twice, the options of every key that was used are   *)
(* in force in the session, and a session follows a configured list of     *)
(* methods.                                                                *)
(*                                                                         *)
(* Every step reaches the monitor through the operators of the child.      *)
(* For the first two, MonInv is the inductive invariant: the key the       *)
(* monitor has allowed and not yet verified is none that was used, every   *)
(* key that was verified counts as used, and auth_opts, unless a merge has *)
(* failed, enforces the options of each.  A lemma for each operator shows  *)
(* that it keeps MonInv.                                                   *)
(*                                                                         *)
(* For the third, LoginInv relates the lists of the child to the checks    *)
(* the monitor recorded.  What remains of a list is where the checks have  *)
(* brought it (Reached); a PAM conversation that ended well is the last    *)
(* check and not yet counted (Progress); a method says ok only for the     *)
(* last check, before the lists have counted it (Earned).  The monitor's   *)
(* own lists are no help: it advances them for a conversation that ended   *)
(* with a mere message (mm_answer_pam_query).                              *)
(***************************************************************************)
EXTENDS Userauth, TLAPS

IsSeq(q) == \E S : q \in Seq(S)

KeyInv(m) ==
  /\ IsSeq(m.verified)
  /\ m.key.key # "none" => m.key.key \notin m.prev_keys
  /\ \A i \in DOMAIN m.verified :
       m.verified[i].key # "none" => m.verified[i].key \in m.prev_keys
  /\ \A i, j \in DOMAIN m.verified :
       /\ m.verified[i].key = m.verified[j].key
       /\ m.verified[i].key # "none"
       => i = j

\* opts restricts a session at least as much as o.
Enforces(opts, o) ==
  /\ o.command # "" => opts.command = o.command
  /\ opts.pty => o.pty

\* All that is needed of the type of options.
IsOpts(o) == o.pty \in BOOLEAN

\* x is NULL or restricts a session at least as much as y.
Tighter(x, y) ==
  /\ IsOpts(x)
  /\ x # NullOptions => y # NullOptions /\ \A o : Enforces(y, o) => Enforces(x, o)

OptInv(m) ==
  /\ IsOpts(m.auth_opts)
  /\ m.key.type = "publickey" => m.key.key \in AuthorizedKeys
  /\ m.phase = "session" => m.auth_opts # NullOptions
  /\ \A i \in DOMAIN m.verified : m.verified[i].name = "publickey" =>
       /\ m.verified[i].key \in AuthorizedKeys
       /\ m.auth_opts # NullOptions => Enforces(m.auth_opts, KeyOptions[m.verified[i].key])

Fields == {"key", "prev_keys", "verified", "auth_opts", "phase", "pam", "ret", "auth_method"}

MonInv(m) == Fields \subseteq DOMAIN m /\ KeyInv(m) /\ OptInv(m)

\* What MonInv speaks of is the same in both, and a has not started the session.
Same(a, b) ==
  /\ DOMAIN a = DOMAIN b
  /\ a.key = b.key /\ a.prev_keys = b.prev_keys /\ a.verified = b.verified
  /\ a.auth_opts = b.auth_opts
  /\ a.phase = "session" => b.phase = "session"

LEMMA SameInv == ASSUME NEW a, NEW b, Same(a, b), MonInv(b) PROVE MonInv(a)
BY DEF Same, MonInv, Fields, KeyInv, OptInv

LEMMA SameTrans == ASSUME NEW a, NEW b, NEW c, Same(a, b), Same(b, c) PROVE Same(a, c)
BY DEF Same

LEMMA fatalSame == ASSUME NEW m, NEW why PROVE Same(fatal(m, why), m)
BY DEF fatal, Same

LEMMA monitor_permitSame == ASSUME NEW m, NEW types PROVE Same(monitor_permit(m, types), m)
BY DEF monitor_permit, Same

LEMMA maxtriesSame == ASSUME NEW m PROVE Same(sshpam_set_maxtries_reached(m), m)
BY DEF sshpam_set_maxtries_reached, Same

LEMMA GuessedSame == ASSUME NEW m PROVE Same(Guessed(m), m)
BY DEF Guessed, Same

LEMMA FreshSame == ASSUME NEW m PROVE Same(Fresh(m), m)
BY DEF Fresh, Same

LEMMA AuthenticatedSame == ASSUME NEW m PROVE Same(Authenticated(m), m)
BY DEF Authenticated, fatal, Same

LEMMA ReflSame == ASSUME NEW m PROVE Same(m, m)
BY DEF Same

LEMMA monitor_child_preauthSame ==
  ASSUME NEW m, NEW type PROVE Same(monitor_child_preauth(m, type), m)
<1> DEFINE l == auth2_update_methods_lists(m.lists, m.auth_method, m.auth_submethod).lists
           x == [m EXCEPT !.lists = l]
           y == [m EXCEPT !.phase = "account"]
           z == [x EXCEPT !.phase = "account"]
<1>1. monitor_child_preauth(m, type) \in
        {m, x, fatal(m, "method not in lists"), fatal(m, "unexpected authentication"),
         fatal(m, "null auth_opts"), y, z, Authenticated(m), Authenticated(x)}
  BY DEF monitor_child_preauth
<1>2. Same(m, m) /\ Same(x, m) /\ Same(y, m) /\ Same(z, m)
  <2> HIDE DEF l
  <2> QED BY DEF Same
<1>3. \A why : Same(fatal(m, why), m) BY fatalSame
<1>4. Same(Authenticated(m), m) BY AuthenticatedSame
<1>5. Same(Authenticated(x), m)
  <2> HIDE DEF x
  <2>1. Same(Authenticated(x), x) BY AuthenticatedSame
  <2> QED BY <1>2, <2>1, SameTrans
<1> HIDE DEF x, y, z
<1> QED BY <1>1, <1>2, <1>3, <1>4, <1>5

LEMMA SimpleAnswers ==
  ASSUME NEW m, NEW x, NEW good
  PROVE  /\ Same(mm_answer_pwnamallow(m, x), m)
         /\ Same(mm_answer_authserv(m, x), m)
         /\ Same(mm_answer_pam_start(m), m)
         /\ Same(mm_answer_pam_init_ctx(m), m)
         /\ Same(mm_answer_pam_respond(m, good), m)
         /\ Same(mm_answer_pam_free_ctx(m), m)
         /\ Same(mm_answer_pam_account(m, good), m)
<1>1. Same(mm_answer_pwnamallow(m, x), m)
  BY DEF mm_answer_pwnamallow, monitor_permit, Same
<1>2. Same(mm_answer_authserv(m, x), m)
  BY DEF mm_answer_authserv, monitor_permit, Same
<1>3. Same(mm_answer_pam_start(m), m)
  BY DEF mm_answer_pam_start, monitor_permit, Same
<1>4. Same(mm_answer_pam_init_ctx(m), m)
  BY DEF mm_answer_pam_init_ctx, monitor_permit, fatal, Same
<1>5. Same(mm_answer_pam_respond(m, good), m)
  BY DEF mm_answer_pam_respond, fatal, Same
<1>6. Same(mm_answer_pam_free_ctx(m), m)
  BY DEF mm_answer_pam_free_ctx, monitor_permit, fatal, Same
<1>7. Same(mm_answer_pam_account(m, good), m)
  BY DEF mm_answer_pam_account, Authenticated, fatal, Same
<1> QED BY <1>1, <1>2, <1>3, <1>4, <1>5, <1>6, <1>7
-----------------------------------------------------------------------------
(* Answers that record a check. *)

LEMMA AppendSeq ==
  ASSUME NEW q, IsSeq(q), NEW e
  PROVE  /\ IsSeq(Append(q, e))
         /\ Len(q) \in Nat /\ DOMAIN q = 1 .. Len(q)
         /\ DOMAIN Append(q, e) = 1 .. Len(q) + 1
         /\ Append(q, e)[Len(q) + 1] = e
         /\ \A i \in 1 .. Len(q) : Append(q, e)[i] = q[i]
<1>1. PICK S : q \in Seq(S) BY DEF IsSeq
<1>2. q \in Seq(S \cup {e}) BY <1>1
<1>3. Append(q, e) \in Seq(S \cup {e}) BY <1>2
<1> QED BY <1>1, <1>2, <1>3 DEF IsSeq

\* What sshauthopt_merge() returns restricts as much as both arguments, or is NULL.
LEMMA sshauthopt_mergeTighter ==
  ASSUME NEW a, IsOpts(a), NEW o, IsOpts(o), a # NullOptions
  PROVE  /\ Tighter(sshauthopt_merge(a, o), a)
         /\ sshauthopt_merge(a, o) # NullOptions => Enforces(sshauthopt_merge(a, o), o)
<1> DEFINE r == [command |-> IF a.command # "" THEN a.command ELSE o.command,
                 pty |-> a.pty /\ o.pty]
<1>1. /\ IsOpts(r)
      /\ r.command = IF a.command # "" THEN a.command ELSE o.command
      /\ r.pty = (a.pty /\ o.pty)
  BY DEF IsOpts
<1>2. IsOpts(NullOptions) BY DEF IsOpts, NullOptions
<1>3. \/ sshauthopt_merge(a, o) = NullOptions
      \/ /\ sshauthopt_merge(a, o) = r
         /\ a.command = "" \/ o.command = "" \/ a.command = o.command
  BY Zenon DEF sshauthopt_merge
<1> HIDE DEF r
<1>4. (a.command = "" \/ o.command = "" \/ a.command = o.command) => Enforces(r, o)
  BY <1>1 DEF Enforces, IsOpts
<1>5. \A e : Enforces(a, e) => Enforces(r, e)
  BY <1>1 DEF Enforces, IsOpts
<1> QED BY <1>1, <1>2, <1>3, <1>4, <1>5 DEF Tighter

\* A check without a key.
LEMMA VerifiedNone ==
  ASSUME NEW m, MonInv(m), NEW method, method # "publickey", NEW sub
  PROVE  MonInv(Verified(m, method, sub, "none"))
<1> DEFINE e == [name |-> method, sub |-> sub, key |-> "none"]
           v == Append(m.verified, e)
           r == [m EXCEPT !.verified = v]
<1>1. e.key = "none" /\ e.name = method OBVIOUS
<1>2. IsSeq(m.verified) BY DEF MonInv, Fields, KeyInv, OptInv
<1> HIDE DEF e
<1>3. /\ IsSeq(v)
      /\ Len(m.verified) \in Nat /\ DOMAIN m.verified = 1 .. Len(m.verified)
      /\ DOMAIN v = 1 .. Len(m.verified) + 1
      /\ v[Len(m.verified) + 1] = e
      /\ \A i \in 1 .. Len(m.verified) : v[i] = m.verified[i]
  BY <1>2, AppendSeq
<1> HIDE DEF v
<1>4. /\ DOMAIN r = DOMAIN m /\ r.key = m.key
      /\ r.prev_keys = m.prev_keys /\ r.verified = v
      /\ r.auth_opts = m.auth_opts /\ r.phase = m.phase
  BY DEF MonInv, Fields, KeyInv, OptInv
<1> HIDE DEF r
<1>5. Fields \subseteq DOMAIN r /\ KeyInv(r) BY <1>1, <1>3, <1>4 DEF MonInv, Fields, KeyInv
<1>6. OptInv(r) BY <1>1, <1>3, <1>4 DEF MonInv, OptInv
<1> QED BY <1>5, <1>6 DEF Verified, MonInv, r, v, e

\* A check of a key that was not used before and is used now.
LEMMA VerifiedKey ==
  ASSUME NEW m, MonInv(m), NEW n, NEW method, NEW sub, NEW key,
         key # "none" => key \notin m.prev_keys,
         DOMAIN n = DOMAIN m, n.key = NoKey, n.prev_keys = m.prev_keys \cup {key},
         n.verified = m.verified, n.phase # "session", Tighter(n.auth_opts, m.auth_opts),
         method = "publickey" =>
           /\ key \in AuthorizedKeys
           /\ n.auth_opts # NullOptions => Enforces(n.auth_opts, KeyOptions[key])
  PROVE  MonInv(Verified(n, method, sub, key))
<1> DEFINE e == [name |-> method, sub |-> sub, key |-> key]
           v == Append(n.verified, e)
           r == [n EXCEPT !.verified = v]
<1>1. e.key = key /\ e.name = method OBVIOUS
<1>2. IsSeq(n.verified) BY DEF MonInv, KeyInv
<1> HIDE DEF e
<1>3. /\ IsSeq(v)
      /\ Len(n.verified) \in Nat /\ DOMAIN n.verified = 1 .. Len(n.verified)
      /\ DOMAIN v = 1 .. Len(n.verified) + 1
      /\ v[Len(n.verified) + 1] = e
      /\ \A i \in 1 .. Len(n.verified) : v[i] = n.verified[i]
  BY <1>2, AppendSeq
<1> HIDE DEF v
<1>4. /\ DOMAIN r = DOMAIN n /\ r.key = n.key
      /\ r.prev_keys = n.prev_keys /\ r.verified = v
      /\ r.auth_opts = n.auth_opts /\ r.phase = n.phase
  <2>1. {"key", "prev_keys", "verified", "auth_opts", "phase"} \subseteq DOMAIN n
    BY DEF MonInv, Fields
  <2> QED BY <2>1
<1> HIDE DEF r
<1>5. r.key.key = "none" BY <1>4 DEF NoKey
<1>6. \A i \in DOMAIN v : v[i].key # "none" => v[i].key \in r.prev_keys
  <2>1. \A i \in 1 .. Len(n.verified) :
          n.verified[i].key # "none" => n.verified[i].key \in m.prev_keys
    BY <1>3 DEF MonInv, KeyInv
  <2> QED BY <1>1, <1>3, <1>4, <2>1
<1>7. \A i, j \in DOMAIN v : v[i].key = v[j].key /\ v[i].key # "none" => i = j
  <2> SUFFICES ASSUME NEW i \in DOMAIN v, NEW j \in DOMAIN v,
                      v[i].key = v[j].key, v[i].key # "none"
               PROVE  i = j
    OBVIOUS
  <2>1. CASE i \in 1 .. Len(n.verified) /\ j \in 1 .. Len(n.verified)
    BY <2>1, <1>3 DEF MonInv, KeyInv
  <2>2. CASE i = Len(n.verified) + 1 /\ j \in 1 .. Len(n.verified)
    BY <2>2, <1>1, <1>3 DEF MonInv, KeyInv
  <2>3. CASE j = Len(n.verified) + 1 /\ i \in 1 .. Len(n.verified)
    BY <2>3, <1>1, <1>3 DEF MonInv, KeyInv
  <2> QED BY <2>1, <2>2, <2>3, <1>3
<1>8. Fields \subseteq DOMAIN r /\ KeyInv(r)
  BY <1>3, <1>4, <1>5, <1>6, <1>7 DEF MonInv, Fields, KeyInv
<1>9. OptInv(r)
  <2>1. IsOpts(r.auth_opts) /\ r.key.type # "publickey" /\ r.phase # "session"
    BY <1>4 DEF NoKey, Tighter
  <2>2. ASSUME NEW i \in DOMAIN v, v[i].name = "publickey"
        PROVE  /\ v[i].key \in AuthorizedKeys
               /\ r.auth_opts # NullOptions => Enforces(r.auth_opts, KeyOptions[v[i].key])
    <3>1. CASE i = Len(n.verified) + 1 BY <2>2, <3>1, <1>1, <1>3, <1>4
    <3>2. CASE i \in 1 .. Len(n.verified)
      BY <2>2, <3>2, <1>3, <1>4 DEF MonInv, OptInv, Tighter
    <3> QED BY <3>1, <3>2, <1>3
  <2> QED BY <1>4, <2>1, <2>2 DEF OptInv
<1> QED BY <1>8, <1>9 DEF Verified, MonInv, r, v, e

LEMMA mm_answer_authpasswordInv ==
  ASSUME NEW m, MonInv(m), NEW password, NEW exhausted
  PROVE  MonInv(mm_answer_authpassword(m, password, exhausted))
<1> DEFINE ok == auth_password(m, password)
           w == IF password = "" /\ ~m.call_count THEN "none" ELSE "password"
           a == [m EXCEPT !.ret = ok, !.call_count = TRUE, !.auth_method = w]
           b == Verified(a, a.auth_method, "", "none")
           g == Guessed(a)
           c == IF ok THEN b ELSE IF MayUsePassword(m) THEN g ELSE a
<1>1. MonInv(a)
  <2> HIDE DEF ok, w
  <2>1. Same(a, m) BY DEF Same
  <2> QED BY <2>1, SameInv
<1>2. MonInv(b)
  <2>1. a.auth_method # "publickey"
    BY DEF MonInv
  <2> HIDE DEF a
  <2> QED BY <1>1, <2>1, VerifiedNone
<1>3. MonInv(g)
  <2> HIDE DEF a
  <2> QED BY <1>1, GuessedSame, SameInv
<1>4. MonInv(c)
  <2> HIDE DEF a, b, g, ok
  <2> QED BY <1>1, <1>2, <1>3
<1>5. MonInv(sshpam_set_maxtries_reached(c))
  <2> HIDE DEF c
  <2> QED BY <1>4, maxtriesSame, SameInv
<1>6. MonInv(fatal(m, "password not enabled")) BY fatalSame, SameInv
<1>7. mm_answer_authpassword(m, password, exhausted) \in
        {fatal(m, "password not enabled"), sshpam_set_maxtries_reached(c), c}
  BY Zenon DEF mm_answer_authpassword
<1> HIDE DEF c
<1> QED BY <1>4, <1>5, <1>6, <1>7

LEMMA mm_answer_keyallowedInv ==
  ASSUME NEW m, MonInv(m), NEW type, NEW key
  PROVE  MonInv(mm_answer_keyallowed(m, type, key))
<1> DEFINE k == [type |-> type, key |-> key]
           x == [m EXCEPT !.key = k]
           y == [m EXCEPT !.key = NoKey]
<1>1. MonInv(y)
  <2>1. NoKey.key = "none" /\ NoKey.type # "publickey" BY DEF NoKey
  <2> QED BY <2>1 DEF MonInv, Fields, KeyInv, OptInv
<1>2. key \notin m.prev_keys /\ (type = "publickey" => key \in AuthorizedKeys) => MonInv(x)
  <2>1. k.key = key /\ k.type = type OBVIOUS
  <2> HIDE DEF k
  <2> QED BY <2>1 DEF MonInv, Fields, KeyInv, OptInv
<1>3. \/ mm_answer_keyallowed(m, type, key) = y
      \/ /\ key \notin m.prev_keys /\ (type = "publickey" => key \in AuthorizedKeys)
         /\ mm_answer_keyallowed(m, type, key) = x
  BY Zenon DEF mm_answer_keyallowed
<1> HIDE DEF x, y
<1> QED BY <1>1, <1>2, <1>3

LEMMA mm_answer_keyverifyInv ==
  ASSUME NEW m, MonInv(m), m.phase # "session", NEW key, NEW signed, NEW good \in BOOLEAN
  PROVE  MonInv(mm_answer_keyverify(m, key, signed, good))
<1> DEFINE t == m.key.type
           p == IF good THEN m.prev_keys \cup {key} ELSE m.prev_keys
           a == [m EXCEPT !.ret = good, !.auth_method = t, !.key = NoKey, !.prev_keys = p]
           u == sshauthopt_merge(a.auth_opts, KeyOptions[key])
           o == auth_activate_options(a, KeyOptions[key])
           b == IF t = "publickey" THEN o ELSE a
<1>1. /\ DOMAIN a = DOMAIN m /\ a.key = NoKey /\ a.prev_keys = p /\ a.verified = m.verified
      /\ a.auth_opts = m.auth_opts /\ a.phase # "session"
  <2> HIDE DEF p, t
  <2> QED BY DEF MonInv, Fields
<1>2. IsOpts(m.auth_opts) BY DEF MonInv, OptInv
<1> HIDE DEF a, p
<1>3. Tighter(a.auth_opts, m.auth_opts) BY <1>1, <1>2 DEF Tighter
<1>4. ASSUME m.key.key = key, t = "publickey"
      PROVE  /\ DOMAIN o = DOMAIN a /\ o.key = a.key /\ o.prev_keys = a.prev_keys
             /\ o.verified = a.verified /\ o.phase # "session"
             /\ Tighter(o.auth_opts, m.auth_opts) /\ key \in AuthorizedKeys
             /\ o.auth_opts # NullOptions => Enforces(o.auth_opts, KeyOptions[key])
  <2>1. key \in AuthorizedKeys BY <1>4 DEF MonInv, OptInv
  <2>2. IsOpts(KeyOptions[key]) BY <2>1, ConfigAssumption DEF IsOpts
  <2>3. CASE m.auth_opts = NullOptions
    <3>1. o = fatal(a, "null auth_opts") BY <1>1, <2>3 DEF auth_activate_options
    <3> HIDE DEF o
    <3>2. Same(o, a) /\ o.phase # "session" /\ o.auth_opts = NullOptions
      BY <1>1, <2>3, <3>1 DEF fatal, Same, MonInv, Fields
    <3> QED BY <1>1, <1>3, <2>1, <2>3, <3>2 DEF Same, Tighter
  <2>4. CASE m.auth_opts # NullOptions
    <3>1. o = [a EXCEPT !.auth_opts = u] BY <1>1, <2>4 DEF auth_activate_options
    <3>2. Tighter(u, m.auth_opts) /\ (u # NullOptions => Enforces(u, KeyOptions[key]))
      BY <1>1, <1>2, <2>2, <2>4, sshauthopt_mergeTighter
    <3> HIDE DEF o, u
    <3>3. /\ DOMAIN o = DOMAIN a /\ o.key = a.key /\ o.prev_keys = a.prev_keys
          /\ o.verified = a.verified /\ o.phase = a.phase /\ o.auth_opts = u
      BY <1>1, <3>1 DEF MonInv, Fields
    <3> QED BY <1>1, <2>1, <3>2, <3>3
  <2> QED BY <2>3, <2>4
<1>5. ASSUME m.key.key = key
      PROVE  /\ DOMAIN b = DOMAIN m /\ b.key = NoKey /\ b.prev_keys = p
             /\ b.verified = m.verified /\ b.phase # "session"
             /\ Tighter(b.auth_opts, m.auth_opts)
             /\ t = "publickey" =>
                  /\ key \in AuthorizedKeys
                  /\ b.auth_opts # NullOptions => Enforces(b.auth_opts, KeyOptions[key])
  <2> HIDE DEF o, t
  <2>1. CASE t = "publickey" BY <1>1, <1>4, <1>5, <2>1
  <2>2. CASE t # "publickey" BY <1>1, <1>3, <2>2
  <2> QED BY <2>1, <2>2
<1> HIDE DEF b
<1>6. m.key.key = key /\ good => MonInv(Verified(b, t, "", key))
  <2> SUFFICES ASSUME m.key.key = key, good PROVE MonInv(Verified(b, t, "", key))
    OBVIOUS
  <2>1. key # "none" => key \notin m.prev_keys BY DEF MonInv, KeyInv
  <2>2. b.prev_keys = m.prev_keys \cup {key} BY <1>5 DEF p
  <2> HIDE DEF t
  <2> QED BY <1>5, <2>1, <2>2, VerifiedKey
<1>7. m.key.key = key /\ ~good => MonInv(Guessed(b))
  <2> SUFFICES ASSUME m.key.key = key, ~good PROVE MonInv(Guessed(b))
    OBVIOUS
  <2>1. NoKey.key = "none" /\ NoKey.type # "publickey" BY DEF NoKey
  <2>2. b.prev_keys = m.prev_keys BY <1>5 DEF p
  <2>3. KeyInv(b) /\ Fields \subseteq DOMAIN b BY <1>5, <2>1, <2>2 DEF MonInv, KeyInv
  <2>4. OptInv(b) BY <1>5, <2>1 DEF MonInv, OptInv, Tighter
  <2>5. MonInv(b) BY <2>3, <2>4 DEF MonInv
  <2> QED BY <2>5, GuessedSame, SameInv
<1>8. MonInv(fatal(m, "key not allowed before")) /\ MonInv(fatal(m, "bad signature data"))
  BY fatalSame, SameInv
<1>9. \/ mm_answer_keyverify(m, key, signed, good) = fatal(m, "key not allowed before")
      \/ mm_answer_keyverify(m, key, signed, good) = fatal(m, "bad signature data")
      \/ /\ m.key.key = key /\ good
         /\ mm_answer_keyverify(m, key, signed, good) = Verified(b, t, "", key)
      \/ /\ m.key.key = key /\ ~good
         /\ mm_answer_keyverify(m, key, signed, good) = Guessed(b)
  BY Zenon DEF mm_answer_keyverify, b, a, p
<1> QED BY <1>6, <1>7, <1>8, <1>9

LEMMA mm_answer_pam_queryInv ==
  ASSUME NEW m, MonInv(m), NEW says
  PROVE  MonInv(mm_answer_pam_query(m, says))
<1> DEFINE x == [m EXCEPT !.pam = "prompt"]
           y == [m EXCEPT !.pam = "success"]
           v == Verified(y, "keyboard-interactive", "pam", "none")
           h == IF MayUsePassword(m) THEN Guessed(m) ELSE m
           z == [h EXCEPT !.pam = "failed"]
           n == CASE says = "prompt" -> x [] says = "success" -> v [] OTHER -> z
           q == sshpam_query(m, says)
           a == [q EXCEPT !.authok = says \in {"success", "message"}]
<1>1. MonInv(x) /\ MonInv(y)
  <2>1. Same(x, m) /\ Same(y, m) BY DEF Same
  <2> HIDE DEF x, y
  <2> QED BY <2>1, SameInv
<1>2. MonInv(v)
  <2> HIDE DEF y
  <2>1. "keyboard-interactive" # "publickey" OBVIOUS
  <2> QED BY <1>1, <2>1, VerifiedNone
<1>3. MonInv(z)
  <2>1. MonInv(h) BY GuessedSame, SameInv
  <2> HIDE DEF h
  <2>2. Same(z, h) BY DEF Same
  <2> QED BY <2>1, <2>2, SameInv
<1>4. MonInv(n)
  <2> HIDE DEF x, v, z
  <2> QED BY <1>1, <1>2, <1>3
<1>5. MonInv([n EXCEPT !.account = 0]) /\ MonInv(sshpam_set_maxtries_reached(n))
  <2> HIDE DEF n
  <2>1. Same([n EXCEPT !.account = 0], n) BY DEF Same
  <2> QED BY <1>4, <2>1, maxtriesSame, SameInv
<1>6. q \in {[n EXCEPT !.account = 0], sshpam_set_maxtries_reached(n), n}
  BY Zenon DEF sshpam_query
<1>7. MonInv(q)
  <2> HIDE DEF n, q
  <2> QED BY <1>4, <1>5, <1>6
<1>8. MonInv(monitor_permit(a, {"PAM_RESPOND"}))
  <2> HIDE DEF q
  <2>1. Same(a, q) BY DEF Same
  <2>2. MonInv(a) BY <1>7, <2>1, SameInv
  <2> QED BY <2>2, monitor_permitSame, SameInv
<1>9. MonInv(fatal(m, "no context")) BY fatalSame, SameInv
<1>10. mm_answer_pam_query(m, says) \in
         {fatal(m, "no context"), monitor_permit(a, {"PAM_RESPOND"})}
  BY Zenon DEF mm_answer_pam_query
<1> HIDE DEF a
<1> QED BY <1>8, <1>9, <1>10

LEMMA monitor_readInv ==
  ASSUME NEW m, MonInv(m), NEW type, NEW a, m.phase = "preauth" => MonInv(a)
  PROVE  MonInv(monitor_read(m, type, a))
<1> DEFINE p == IF type \in Once THEN a.permit \ {type} ELSE a.permit
           b == [a EXCEPT !.permit = p]
<1>1. MonInv(a) => MonInv(b)
  <2> HIDE DEF p
  <2>1. Same(b, a) BY DEF Same
  <2> QED BY <2>1, SameInv
<1>2. MonInv(a) => MonInv(monitor_child_preauth(b, type))
  <2> HIDE DEF b
  <2> QED BY <1>1, monitor_child_preauthSame, SameInv
<1>3. /\ MonInv(fatal(m, "other request expected"))
      /\ MonInv(fatal(m, "unpermitted request"))
  BY fatalSame, SameInv
<1>4. \/ monitor_read(m, type, a) \in
           {m, fatal(m, "other request expected"), fatal(m, "unpermitted request")}
      \/ m.phase = "preauth" /\ monitor_read(m, type, a) = monitor_child_preauth(b, type)
  BY Zenon DEF monitor_read
<1> HIDE DEF b
<1> QED BY <1>2, <1>3, <1>4
-----------------------------------------------------------------------------
(* The operators of the child, on the pair s of both processes. *)

ChildFields == {"phase", "lists", "kbdint"}

PairInv(s) ==
  /\ {"c", "m", "ok"} \subseteq DOMAIN s
  /\ MonInv(s.m)
  /\ ChildFields \subseteq DOMAIN s.c

\* s1 is s but for the child's part and the result.
SameMonitor(s1, s) == DOMAIN s1 = DOMAIN s /\ s1.m = s.m /\ DOMAIN s1.c = DOMAIN s.c

LEMMA SamePair == ASSUME NEW s, PairInv(s), NEW s1, SameMonitor(s1, s) PROVE PairInv(s1)
BY DEF PairInv, SameMonitor

LEMMA exitInv == ASSUME NEW s, PairInv(s), NEW why PROVE PairInv(exit(s, why))
<1>1. SameMonitor(exit(s, why), s) BY DEF exit, SameMonitor, PairInv
<1> QED BY <1>1, SamePair

LEMMA FreshInv == ASSUME NEW s, PairInv(s) PROVE MonInv(Fresh(s.m)) /\ MonInv(s.m)
BY FreshSame, SameInv DEF PairInv

LEMMA AskInv ==
  ASSUME NEW s, PairInv(s), NEW type, NEW a, s.m.phase = "preauth" => MonInv(a)
  PROVE  PairInv(Ask(s, type, a))
<1> DEFINE n == monitor_read(s.m, type, a)
<1>1. MonInv(n) BY monitor_readInv DEF PairInv
<1>2. Ask(s, type, a) = [s EXCEPT !.m = n] BY DEF Ask
<1> HIDE DEF n
<1> QED BY <1>1, <1>2 DEF PairInv

LEMMA FailureInv ==
  ASSUME NEW s, PairInv(s), NEW partial, NEW method
  PROVE  PairInv(Failure(s, partial, method))
<1> DEFINE n == IF partial \/ (s.c.attempt = 1 /\ method = "none") THEN s.c.failures
                ELSE s.c.failures + 1
           x == [s EXCEPT !.c.failures = n]
<1>1. PairInv(x)
  <2> HIDE DEF n
  <2>1. SameMonitor(x, s) BY DEF SameMonitor, PairInv
  <2> QED BY <2>1, SamePair
<1>2. PairInv(exit(x, "maxtries"))
  <2> HIDE DEF x
  <2> QED BY <1>1, exitInv
<1>3. Failure(s, partial, method) \in {x, exit(x, "maxtries")} BY Zenon DEF Failure
<1> HIDE DEF x
<1> QED BY <1>1, <1>2, <1>3

LEMMA userauth_finishInv ==
  ASSUME NEW s, PairInv(s), NEW method, NEW sub, NEW account
  PROVE  PairInv(userauth_finish(s, method, sub, account))
<1> DEFINE l == auth2_update_methods_lists(s.c.lists, method, sub).lists
           ok == s.ok /\ ~(IsRoot(s.c) /\ ~auth_root_allowed(s.c, method))
           several == ok /\ AuthenticationMethods # <<>>
           x == [s EXCEPT !.c.lists = l]
           s1 == IF several THEN x ELSE s
           y == [s1 EXCEPT !.m = mm_answer_pam_account(s1.m, account)]
           s2 == IF UsePAM THEN y ELSE s1
           z == [s2 EXCEPT !.c.phase = "success"]
<1>1. PairInv(s1)
  <2> HIDE DEF l
  <2>1. SameMonitor(x, s) BY DEF SameMonitor, PairInv
  <2>2. PairInv(x) BY <2>1, SamePair
  <2> HIDE DEF x, several
  <2> QED BY <2>2
<1>2. PairInv(y)
  <2> HIDE DEF s1
  <2> DEFINE n == mm_answer_pam_account(s1.m, account)
  <2>1. MonInv(n) BY <1>1, SimpleAnswers, SameInv DEF PairInv
  <2> HIDE DEF n
  <2>2. PairInv([s1 EXCEPT !.m = n]) BY <1>1, <2>1 DEF PairInv
  <2> QED BY <2>2 DEF n
<1>3. PairInv(s2)
  <2> HIDE DEF s1, y
  <2> QED BY <1>1, <1>2
<1>4. PairInv(z) /\ PairInv(exit(s2, "account"))
  <2> HIDE DEF s2
  <2>1. SameMonitor(z, s2) BY <1>3 DEF SameMonitor, PairInv
  <2> QED BY <1>3, <2>1, SamePair, exitInv
<1>5. \A why : PairInv(exit(s, why)) BY exitInv
<1>6. PairInv(Failure(s1, ok, method))
  <2> HIDE DEF s1, ok
  <2> QED BY <1>1, FailureInv
<1>7. userauth_finish(s, method, sub, account) \in
        {s, exit(s, "internal error"), exit(s, "null auth_opts"),
         exit(s, "method not in lists"), Failure(s1, ok, method), exit(s2, "account"), z}
  BY Zenon DEF userauth_finish
<1> HIDE DEF s1, s2, z, ok
<1> QED BY <1>4, <1>5, <1>6, <1>7

LEMMA auth2_challenge_stopInv ==
  ASSUME NEW s, PairInv(s) PROVE PairInv(auth2_challenge_stop(s))
<1> DEFINE x == Ask(s, "PAM_FREE_CTX", mm_answer_pam_free_ctx(Fresh(s.m)))
           y == [x EXCEPT !.c.kbdint = "none"]
<1>1. PairInv(x)
  <2>1. MonInv(mm_answer_pam_free_ctx(Fresh(s.m))) BY FreshInv, SimpleAnswers, SameInv
  <2> QED BY <2>1, AskInv
<1> HIDE DEF x
<1>2. SameMonitor(y, x) BY <1>1 DEF SameMonitor, PairInv
<1>3. PairInv(y) BY <1>1, <1>2, SamePair
<1>4. auth2_challenge_stop(s) \in {s, y} BY Zenon DEF auth2_challenge_stop, x
<1> HIDE DEF y
<1> QED BY <1>3, <1>4

LEMMA QueriedInv == ASSUME NEW s, PairInv(s), NEW says PROVE PairInv(Queried(s, says))
<1> DEFINE x == [s EXCEPT !.c = sshpam_set_maxtries_reached(s.c)]
           s1 == IF says = "maxtries" THEN x ELSE s
           k == IF says = "prompt" THEN "prompt" ELSE "no prompt"
           y == [s1 EXCEPT !.c.postponed = TRUE, !.c.kbdint = k]
<1>1. SameMonitor(x, s) BY DEF SameMonitor, PairInv, sshpam_set_maxtries_reached
<1>2. PairInv(s1) BY <1>1, SamePair
<1> HIDE DEF s1, k
<1>3. SameMonitor(y, s1) BY <1>2 DEF SameMonitor, PairInv
<1>4. PairInv(y) /\ PairInv(auth2_challenge_stop(s1))
  BY <1>2, <1>3, SamePair, auth2_challenge_stopInv
<1>5. Queried(s, says) \in {y, auth2_challenge_stop(s1)} BY Zenon DEF Queried, s1, k
<1> HIDE DEF y
<1> QED BY <1>4, <1>5

LEMMA send_userauth_info_requestInv ==
  ASSUME NEW s, PairInv(s), NEW says PROVE PairInv(send_userauth_info_request(s, says))
<1>1. MonInv(mm_answer_pam_query(Fresh(s.m), says)) BY FreshInv, mm_answer_pam_queryInv
<1>2. PairInv(Ask(s, "PAM_QUERY", mm_answer_pam_query(Fresh(s.m), says))) BY <1>1, AskInv
<1> QED BY <1>2, QueriedInv DEF send_userauth_info_request

LEMMA auth2_challengeInv ==
  ASSUME NEW s, PairInv(s), NEW says PROVE PairInv(auth2_challenge(s, says))
<1> DEFINE x == Ask(s, "PAM_INIT_CTX", mm_answer_pam_init_ctx(Fresh(s.m)))
           y == [x EXCEPT !.c.kbdint = "device"]
<1>1. MonInv(mm_answer_pam_init_ctx(Fresh(s.m))) BY FreshInv, SimpleAnswers, SameInv
<1>2. PairInv(x) BY <1>1, AskInv
<1> HIDE DEF x
<1>3. SameMonitor(y, x) BY <1>2 DEF SameMonitor, PairInv
<1>4. PairInv(y) BY <1>2, <1>3, SamePair
<1>5. auth2_challenge_start(x, says) \in {x, send_userauth_info_request(y, says)}
  BY Zenon DEF auth2_challenge_start
<1> HIDE DEF y
<1>6. PairInv(auth2_challenge_start(x, says)) BY <1>2, <1>4, <1>5, send_userauth_info_requestInv
<1>7. auth2_challenge(s, says) \in {s, auth2_challenge_start(x, says)}
  BY Zenon DEF auth2_challenge, x
<1> QED BY <1>6, <1>7

LEMMA mm_auth_passwordInv ==
  ASSUME NEW s, PairInv(s), NEW password, NEW exhausted
  PROVE  PairInv(mm_auth_password(s, password, exhausted))
<1> DEFINE a == mm_answer_authpassword(Fresh(s.m), password, exhausted)
           x == Ask(s, "AUTHPASSWORD", a)
           y == [x EXCEPT !.c = sshpam_set_maxtries_reached(x.c)]
           z == [x EXCEPT !.ok = x.m.ret]
<1>1. MonInv(a) BY FreshInv, mm_answer_authpasswordInv
<1>2. PairInv(x) BY <1>1, AskInv
<1> HIDE DEF x
<1>3. SameMonitor(y, x) /\ SameMonitor(z, x)
  BY <1>2 DEF SameMonitor, PairInv, sshpam_set_maxtries_reached
<1>4. PairInv(y) /\ PairInv(z) BY <1>2, <1>3, SamePair
<1>5. PasswordChecked(x, exhausted) \in {y, z} BY Zenon DEF PasswordChecked
<1> HIDE DEF y, z
<1> QED BY <1>4, <1>5 DEF mm_auth_password, x

LEMMA userauth_noneInv ==
  ASSUME NEW s, PairInv(s), NEW exhausted PROVE PairInv(userauth_none(s, exhausted))
<1> DEFINE x == [s EXCEPT !.c.none_enabled = FALSE]
<1>1. SameMonitor(x, s) BY DEF SameMonitor, PairInv
<1>2. PairInv(x) BY <1>1, SamePair
<1>3. userauth_none(s, exhausted) \in {x, mm_auth_password(x, "", exhausted)}
  BY Zenon DEF userauth_none
<1> HIDE DEF x
<1> QED BY <1>2, <1>3, mm_auth_passwordInv

LEMMA KeyAllowedInv ==
  ASSUME NEW s, PairInv(s), NEW type, NEW key PROVE PairInv(KeyAllowed(s, type, key))
<1>1. MonInv(mm_answer_keyallowed(Fresh(s.m), type, key))
  BY FreshInv, mm_answer_keyallowedInv
<1> QED BY <1>1, AskInv DEF KeyAllowed

LEMMA KeyVerifyInv ==
  ASSUME NEW s, PairInv(s), NEW key, NEW signed, NEW good \in BOOLEAN
  PROVE  PairInv(KeyVerify(s, key, signed, good))
<1> DEFINE x == Ask(s, "KEYVERIFY", mm_answer_keyverify(Fresh(s.m), key, signed, good))
           k == IF x.m.ret THEN x.c.prev_keys \cup {key} ELSE x.c.prev_keys
           y == [x EXCEPT !.ok = x.m.ret, !.c.prev_keys = k]
<1>1. s.m.phase = "preauth" => MonInv(mm_answer_keyverify(Fresh(s.m), key, signed, good))
  <2>1. Fresh(s.m).phase = s.m.phase BY DEF Fresh, PairInv, MonInv, Fields
  <2> QED BY <2>1, FreshInv, mm_answer_keyverifyInv
<1>2. PairInv(x) BY <1>1, AskInv
<1> HIDE DEF x
<1>3. SameMonitor(y, x)
  <2> HIDE DEF k
  <2> QED BY <1>2 DEF SameMonitor, PairInv
<1>4. KeyVerified(x, key) = y BY Zenon DEF KeyVerified
<1> HIDE DEF y
<1> QED BY <1>2, <1>3, <1>4, SamePair DEF KeyVerify, x

LEMMA userauth_pubkeyInv ==
  ASSUME NEW s, PairInv(s), NEW key, NEW have_sig, NEW good \in BOOLEAN
  PROVE  PairInv(userauth_pubkey(s, key, have_sig, good))
<1> DEFINE x == KeyAllowed(s, "publickey", key)
           y == [x EXCEPT !.c.postponed = TRUE]
           v == KeyVerify(x, key, <<x.c.user, x.c.style>>, good)
           o == sshauthopt_merge(v.c.auth_opts, KeyOptions[key])
           w == [v EXCEPT !.c.auth_opts = o, !.ok = o # NullOptions]
<1>1. PairInv(x) BY KeyAllowedInv
<1> HIDE DEF x
<1>2. SameMonitor(y, x) BY <1>1 DEF SameMonitor, PairInv
<1>3. PairInv(y) /\ PairInv(v) BY <1>1, <1>2, SamePair, KeyVerifyInv
<1> HIDE DEF v, y
<1>4. SameMonitor(w, v)
  <2> HIDE DEF o
  <2> QED BY <1>3 DEF SameMonitor, PairInv
<1>5. PairInv(w) /\ PairInv(exit(v, "null auth_opts")) BY <1>3, <1>4, SamePair, exitInv
<1>6. PubkeyVerified(v, key) \in {v, exit(v, "null auth_opts"), w}
  BY Zenon DEF PubkeyVerified
<1> HIDE DEF w
<1>7. PairInv(PubkeyVerified(v, key)) BY <1>3, <1>5, <1>6
<1>8. PubkeyAllowed(x, key, have_sig, good) \in {x, y, PubkeyVerified(v, key)}
  BY Zenon DEF PubkeyAllowed, y, v
<1>9. PairInv(PubkeyAllowed(x, key, have_sig, good)) BY <1>1, <1>3, <1>7, <1>8
<1>10. userauth_pubkey(s, key, have_sig, good) \in
         {s, PubkeyAllowed(x, key, have_sig, good)}
  BY Zenon DEF userauth_pubkey, x
<1> QED BY <1>9, <1>10

LEMMA userauth_hostbasedInv ==
  ASSUME NEW s, PairInv(s), NEW key, NEW good \in BOOLEAN
  PROVE  PairInv(userauth_hostbased(s, key, good))
<1> DEFINE x == KeyAllowed(s, "hostbased", key)
           v == KeyVerify(x, key, <<x.c.user, "">>, good)
<1>1. PairInv(x) BY KeyAllowedInv
<1>2. HostkeyAllowed(x, key, good) \in {x, v} BY Zenon DEF HostkeyAllowed
<1> HIDE DEF x
<1>3. PairInv(v) BY <1>1, KeyVerifyInv
<1> HIDE DEF v
<1>4. PairInv(HostkeyAllowed(x, key, good)) BY <1>1, <1>2, <1>3
<1>5. userauth_hostbased(s, key, good) \in {s, HostkeyAllowed(x, key, good)}
  BY Zenon DEF userauth_hostbased, x
<1> QED BY <1>4, <1>5

LEMMA SetupInv ==
  ASSUME NEW s, PairInv(s), NEW user, NEW service, NEW style
  PROVE  PairInv(Setup(s, user, service, style))
<1> DEFINE a == mm_getpwnamallow(s, user)
           b == mm_start_pam(a)
           c == mm_inform_authserv(b, style)
           l == auth2_setup_methods_lists(c.c.enabled)
           v == c.m.valid /\ service = "ssh-connection"
           x == [c EXCEPT !.c.attempt = 1, !.c.user = user, !.c.style = style,
                          !.c.service = service, !.c.lists = l, !.c.valid = v]
           y == [s EXCEPT !.c.attempt = 2]
<1>1. PairInv(a)
  <2>1. MonInv(mm_answer_pwnamallow(Fresh(s.m), user)) BY FreshInv, SimpleAnswers, SameInv
  <2> QED BY <2>1, AskInv DEF mm_getpwnamallow
<1> HIDE DEF a
<1>2. PairInv(b)
  <2>1. MonInv(mm_answer_pam_start(Fresh(a.m))) BY <1>1, FreshInv, SimpleAnswers, SameInv
  <2> QED BY <1>1, <2>1, AskInv DEF mm_start_pam
<1> HIDE DEF b
<1>3. PairInv(c)
  <2>1. MonInv(mm_answer_authserv(Fresh(b.m), style)) BY <1>2, FreshInv, SimpleAnswers, SameInv
  <2> QED BY <1>2, <2>1, AskInv DEF mm_inform_authserv
<1> HIDE DEF c
<1>4. SameMonitor(x, c)
  <2> HIDE DEF l, v
  <2> QED BY <1>3 DEF SameMonitor, PairInv
<1>5. PairInv(x) BY <1>3, <1>4, SamePair
<1>6. FirstRequest(c, user, service, style) \in {x, exit(x, "no methods")}
  BY Zenon DEF FirstRequest
<1> HIDE DEF x
<1>7. PairInv(FirstRequest(c, user, service, style)) BY <1>5, <1>6, exitInv
<1>8. SameMonitor(y, s) BY DEF SameMonitor, PairInv
<1>9. PairInv(y) BY <1>8, SamePair
<1>10. Setup(s, user, service, style) \in
         {FirstRequest(c, user, service, style), exit(s, "change of user"), y}
  BY Zenon DEF Setup, a, b, c
<1> HIDE DEF y
<1> QED BY <1>7, <1>9, <1>10, exitInv

LEMMA AttemptInv ==
  ASSUME NEW s, PairInv(s), NEW method \in Methods \cup {"none"}, NEW arg,
         method \in {"publickey", "hostbased"} => arg.good \in BOOLEAN
  PROVE  PairInv(Attempt(s, method, arg))
<1>1. PairInv(authmethods(s, method, arg))
  <2>1. CASE method = "none" BY <2>1, userauth_noneInv DEF authmethods
  <2>2. CASE method = "password" BY <2>2, mm_auth_passwordInv DEF authmethods
  <2>3. CASE method = "publickey" BY <2>3, userauth_pubkeyInv DEF authmethods
  <2>4. CASE method = "hostbased" BY <2>4, userauth_hostbasedInv DEF authmethods
  <2>5. CASE method = "keyboard-interactive" BY <2>5, auth2_challengeInv DEF authmethods
  <2> QED BY <2>1, <2>2, <2>3, <2>4, <2>5 DEF Methods
<1> QED BY <1>1 DEF Attempt

LEMMA input_userauth_requestInv ==
  ASSUME NEW s, PairInv(s), NEW r, r.method \in Methods \cup {"none"}, NEW arg,
         r.method \in {"publickey", "hostbased"} => arg.good \in BOOLEAN
  PROVE  PairInv(input_userauth_request(s, r, arg))
<1> DEFINE a == Setup(s, r.user, r.service, r.style)
           b == auth2_challenge_stop(a)
           c == [b EXCEPT !.c.postponed = FALSE]
           d == Attempt(c, r.method, arg)
<1>1. PairInv(a) BY SetupInv
<1> HIDE DEF a
<1>2. PairInv(b) BY <1>1, auth2_challenge_stopInv
<1> HIDE DEF b
<1>3. SameMonitor(c, b) BY <1>2 DEF SameMonitor, PairInv
<1>4. PairInv(c) BY <1>2, <1>3, SamePair
<1> HIDE DEF c
<1>5. PairInv(d) BY <1>4, AttemptInv
<1>6. input_userauth_request(s, r, arg) = userauth_finish(d, r.method, "", r.account)
  BY Zenon DEF input_userauth_request, a, b, c
<1> HIDE DEF d
<1> QED BY <1>5, <1>6, userauth_finishInv

LEMMA input_userauth_info_responseInv ==
  ASSUME NEW s, PairInv(s), NEW n, NEW right, NEW says, NEW account
  PROVE  PairInv(input_userauth_info_response(s, n, right, says, account))
<1> DEFINE a == [s EXCEPT !.c.postponed = FALSE]
           b == Ask(a, "PAM_RESPOND", mm_answer_pam_respond(Fresh(a.m), right))
           c == auth2_challenge_stop(b)
           x == [c EXCEPT !.ok = b.c.valid]
           res == sshpam_respond(s.m)
           d == Responded(b, res, says)
<1>1. SameMonitor(a, s) BY DEF SameMonitor, PairInv
<1>2. PairInv(a) BY <1>1, SamePair
<1> HIDE DEF a
<1>3. PairInv(b)
  <2>1. MonInv(mm_answer_pam_respond(Fresh(a.m), right)) BY <1>2, FreshInv, SimpleAnswers, SameInv
  <2> QED BY <1>2, <2>1, AskInv
<1> HIDE DEF b
<1>4. PairInv(c) BY <1>3, auth2_challenge_stopInv
<1>5. d \in {x, send_userauth_info_request(b, says), c} BY Zenon DEF Responded
<1> HIDE DEF c
<1>6. SameMonitor(x, c) BY <1>4 DEF SameMonitor, PairInv
<1>7. PairInv(x) BY <1>4, <1>6, SamePair
<1> HIDE DEF d, x
<1>8. PairInv(d) BY <1>3, <1>4, <1>5, <1>7, send_userauth_info_requestInv
<1>9. input_userauth_info_response(s, n, right, says, account) \in
        {exit(s, "wrong number of replies"),
         userauth_finish(d, "keyboard-interactive", "pam", account)}
  BY Zenon DEF input_userauth_info_response, a, b, d
<1> QED BY <1>8, <1>9, userauth_finishInv, exitInv
-----------------------------------------------------------------------------
(* The lists of methods. *)

Entry == [name : Methods \cup {"none"}, sub : {"", "pam"}]

\* The check e is one the entry r of a list asks for.
Meets(e, r) == e.name = r.name /\ r.sub \in {"", e.sub}

\* rest is what remains of list when its first entries have been met, in their order,
\* by some of the first n checks of v.
Reached(list, rest, v, n) ==
  /\ list \in Seq(Entry) /\ rest \in Seq(Entry) /\ Len(rest) <= Len(list)
  /\ \A j \in 1 .. Len(rest) : rest[j] = list[Len(list) - Len(rest) + j]
  /\ \E f \in [1 .. Len(list) - Len(rest) -> 1 .. n] :
       /\ \A k \in 1 .. Len(list) - Len(rest) : Meets(v[f[k]], list[k])
       /\ \A k, l \in 1 .. Len(list) - Len(rest) : k < l => f[k] < f[l]

LEMMA ReachedNone ==
  ASSUME NEW list \in Seq(Entry), NEW v, NEW n \in Nat PROVE Reached(list, list, v, n)
<1>1. Len(list) \in Nat OBVIOUS
<1>2. 1 .. Len(list) - Len(list) = {} BY <1>1
<1>3. [k \in {} |-> 1] \in [{} -> 1 .. n] OBVIOUS
<1>4. \A j \in 1 .. Len(list) : list[j] = list[Len(list) - Len(list) + j] BY <1>1
<1>5. Len(list) <= Len(list) BY <1>1
<1>6. \E f \in [{} -> 1 .. n] :
        /\ \A k \in {} : Meets(v[f[k]], list[k])
        /\ \A k, l \in {} : k < l => f[k] < f[l]
  BY <1>3
<1>7. \E f \in [1 .. Len(list) - Len(list) -> 1 .. n] :
        /\ \A k \in 1 .. Len(list) - Len(list) : Meets(v[f[k]], list[k])
        /\ \A k, l \in 1 .. Len(list) - Len(list) : k < l => f[k] < f[l]
  BY <1>2, <1>6
<1> QED BY <1>4, <1>5, <1>7 DEF Reached

LEMMA ReachedLater ==
  ASSUME NEW list, NEW rest, NEW v, NEW n \in Nat, Reached(list, rest, v, n),
         NEW w, NEW k \in Nat, n <= k, \A i \in 1 .. n : w[i] = v[i]
  PROVE  Reached(list, rest, w, k)
<1> DEFINE d == Len(list) - Len(rest)
<1>1. PICK f \in [1 .. d -> 1 .. n] :
        /\ \A j \in 1 .. d : Meets(v[f[j]], list[j])
        /\ \A j, l \in 1 .. d : j < l => f[j] < f[l]
  BY DEF Reached
<1> HIDE DEF d
<1>2. 1 .. n \subseteq 1 .. k OBVIOUS
<1>3. f \in [1 .. d -> 1 .. k] BY <1>2
<1>4. \A j \in 1 .. d : w[f[j]] = v[f[j]] OBVIOUS
<1>5. \A j \in 1 .. d : Meets(w[f[j]], list[j]) BY <1>1, <1>4
<1> QED BY <1>1, <1>3, <1>5 DEF Reached, d

LEMMA ReachedNext ==
  ASSUME NEW list, NEW rest, NEW v, NEW n \in Nat, Reached(list, rest, v, n),
         rest # <<>>, Meets(v[n + 1], Head(rest))
  PROVE  Reached(list, Tail(rest), v, n + 1)
<1> DEFINE d == Len(list) - Len(rest)
<1>1. PICK f \in [1 .. d -> 1 .. n] :
        /\ \A j \in 1 .. d : Meets(v[f[j]], list[j])
        /\ \A j, l \in 1 .. d : j < l => f[j] < f[l]
  BY DEF Reached
<1>2. /\ list \in Seq(Entry) /\ rest \in Seq(Entry) /\ Len(rest) <= Len(list)
      /\ \A j \in 1 .. Len(rest) : rest[j] = list[Len(list) - Len(rest) + j]
  BY DEF Reached
<1>3. /\ Tail(rest) \in Seq(Entry) /\ Len(Tail(rest)) = Len(rest) - 1
      /\ Len(rest) \in Nat \ {0} /\ Len(list) \in Nat
      /\ \A j \in 1 .. Len(rest) - 1 : Tail(rest)[j] = rest[j + 1]
      /\ Head(rest) = rest[1]
  BY <1>2
<1>4. Len(Tail(rest)) <= Len(list) /\ Len(list) - Len(Tail(rest)) = d + 1 /\ d \in Nat
  BY <1>2, <1>3
<1>5. \A j \in 1 .. Len(Tail(rest)) : Tail(rest)[j] = list[Len(list) - Len(Tail(rest)) + j]
  <2> TAKE j \in 1 .. Len(Tail(rest))
  <2>1. j + 1 \in 1 .. Len(rest) /\ Tail(rest)[j] = rest[j + 1] BY <1>3
  <2>2. rest[j + 1] = list[Len(list) - Len(rest) + (j + 1)] BY <1>2, <2>1
  <2>3. Len(list) - Len(rest) + (j + 1) = Len(list) - Len(Tail(rest)) + j BY <1>3
  <2> QED BY <2>1, <2>2, <2>3
<1>6. Head(rest) = list[d + 1]
  <2>1. 1 \in 1 .. Len(rest) BY <1>3
  <2> QED BY <1>2, <1>3, <2>1
<1> HIDE DEF d
<1> DEFINE g == [j \in 1 .. d + 1 |-> IF j <= d THEN f[j] ELSE n + 1]
<1>7. g \in [1 .. d + 1 -> 1 .. n + 1]
  <2> SUFFICES ASSUME NEW j \in 1 .. d + 1 PROVE (IF j <= d THEN f[j] ELSE n + 1) \in 1 .. n + 1
    OBVIOUS
  <2>1. CASE j <= d
    <3>1. j \in 1 .. d BY <1>4, <2>1
    <3>2. f[j] \in 1 .. n BY <3>1
    <3> QED BY <2>1, <3>2
  <2>2. CASE ~(j <= d) BY <2>2
  <2> QED BY <2>1, <2>2
<1>8. /\ \A j \in 1 .. d : g[j] = f[j] /\ f[j] \in 1 .. n
      /\ g[d + 1] = n + 1
      /\ \A j \in 1 .. d + 1 : j \in 1 .. d \/ j = d + 1
  BY <1>4
<1> HIDE DEF g
<1>9. \A j \in 1 .. d + 1 : Meets(v[g[j]], list[j]) BY <1>1, <1>6, <1>8
<1>10. \A j, l \in 1 .. d + 1 : j < l => g[j] < g[l]
  <2> SUFFICES ASSUME NEW j \in 1 .. d + 1, NEW l \in 1 .. d + 1, j < l PROVE g[j] < g[l]
    OBVIOUS
  <2>1. j \in 1 .. d BY <1>4
  <2>2. CASE l \in 1 .. d BY <1>1, <1>8, <2>1, <2>2
  <2>3. CASE l = d + 1 BY <1>8, <2>1, <2>3
  <2> QED BY <1>8, <2>2, <2>3
<1> QED BY <1>2, <1>3, <1>4, <1>5, <1>7, <1>9, <1>10 DEF Reached

\* A list is met by the checks in v, in its order.
Met(list, v) ==
  \E f \in [DOMAIN list -> DOMAIN v] :
    /\ \A i \in DOMAIN list : Meets(v[f[i]], list[i])
    /\ \A i, j \in DOMAIN list : i < j => f[i] < f[j]

LEMMA ReachedAll ==
  ASSUME NEW list, NEW rest, NEW v, IsSeq(v), Reached(list, rest, v, Len(v)), Len(rest) = 0
  PROVE  Met(list, v)
<1>1. DOMAIN list = 1 .. Len(list) /\ Len(list) \in Nat BY DEF Reached
<1>2. DOMAIN v = 1 .. Len(v)
  <2>1. PICK S : v \in Seq(S) BY DEF IsSeq
  <2> QED BY <2>1
<1>3. Len(list) - Len(rest) = Len(list) BY <1>1
<1> QED BY <1>1, <1>2, <1>3 DEF Reached, Met

LEMMA remove_methodHead ==
  ASSUME NEW list \in Seq(Entry), NEW method, NEW sub, remove_method(list, method, sub)
  PROVE  list # <<>> /\ Head(list).name = method /\ Head(list).sub \in {"", sub}
BY DEF remove_method, list_starts_with

\* u, the result of an update of lists, is where n checks bring them, and complete only
\* when one has been met.
Updated(am, lists, u, v, n) ==
  /\ DOMAIN u.lists = DOMAIN lists
  /\ \A i \in DOMAIN lists : Reached(am[i], u.lists[i], v, n)
  /\ u.complete => \E i \in DOMAIN lists : \E rest : Reached(am[i], rest, v, n) /\ Len(rest) = 0

LEMMA UpdateReached ==
  ASSUME NEW am, NEW lists, NEW v, NEW n \in Nat, NEW method, NEW sub,
         \A i \in DOMAIN lists : Reached(am[i], lists[i], v, n),
         v[n + 1].name = method, v[n + 1].sub = sub
  PROVE  Updated(am, lists, auth2_update_methods_lists(lists, method, sub), v, n + 1)
<1> DEFINE hit == {i \in DOMAIN lists : remove_method(lists[i], method, sub)}
           complete == {i \in hit : Len(lists[i]) = 1}
           reached == {i \in hit : \A j \in complete : i <= j}
           u == auth2_update_methods_lists(lists, method, sub)
<1>1. /\ u.lists = [i \in DOMAIN lists |-> IF i \in reached THEN Tail(lists[i]) ELSE lists[i]]
      /\ u.complete = (complete # {})
  BY DEF auth2_update_methods_lists
<1>2. ASSUME NEW i \in hit
      PROVE  /\ i \in DOMAIN lists /\ lists[i] \in Seq(Entry) /\ lists[i] # <<>>
             /\ Reached(am[i], Tail(lists[i]), v, n + 1)
  <2>1. i \in DOMAIN lists /\ remove_method(lists[i], method, sub) OBVIOUS
  <2> HIDE DEF hit
  <2>2. lists[i] \in Seq(Entry) BY <2>1 DEF Reached
  <2>3. /\ lists[i] # <<>> /\ Head(lists[i]).name = method
        /\ Head(lists[i]).sub \in {"", sub}
    <3> DEFINE l == lists[i]
    <3>1. l \in Seq(Entry) /\ remove_method(l, method, sub) BY <2>1, <2>2
    <3> HIDE DEF l
    <3>2. l # <<>> /\ Head(l).name = method /\ Head(l).sub \in {"", sub}
      BY <3>1, remove_methodHead
    <3> QED BY <3>2 DEF l
  <2>4. Meets(v[n + 1], Head(lists[i])) BY <2>3 DEF Meets
  <2> QED BY <2>1, <2>2, <2>3, <2>4, ReachedNext
<1>3. \A i \in DOMAIN lists : Reached(am[i], lists[i], v, n + 1)
  <2> TAKE i \in DOMAIN lists
  <2>1. Reached(am[i], lists[i], v, n) OBVIOUS
  <2> QED BY <2>1, ReachedLater
<1>4. \A i \in DOMAIN lists : Reached(am[i], u.lists[i], v, n + 1)
  <2> HIDE DEF hit, complete, u
  <2>1. reached \subseteq hit OBVIOUS
  <2> HIDE DEF reached
  <2> TAKE i \in DOMAIN lists
  <2>2. CASE i \in reached BY <1>1, <1>2, <2>1, <2>2
  <2>3. CASE i \notin reached BY <1>1, <1>3, <2>3
  <2> QED BY <2>2, <2>3
<1>5. ASSUME complete # {}
      PROVE  \E i \in DOMAIN lists : \E rest : Reached(am[i], rest, v, n + 1) /\ Len(rest) = 0
  <2>1. PICK i \in complete : TRUE BY <1>5
  <2>2. i \in hit /\ Len(lists[i]) = 1 BY <2>1
  <2> HIDE DEF hit
  <2>3. Len(Tail(lists[i])) = 0 BY <1>2, <2>2
  <2> QED BY <1>2, <2>2, <2>3
<1> HIDE DEF reached, complete, hit, u
<1>6. Updated(am, lists, u, v, n + 1) BY <1>1, <1>4, <1>5 DEF Updated
<1> QED BY <1>6 DEF u
-----------------------------------------------------------------------------
(* What the lists and the checks depend on, through the operators of the monitor. *)

\* Unless a has failed, it is b as far as checks, PAM and the result are concerned.
Held(a, b) ==
  a.phase # "fatal" =>
    /\ b.phase # "fatal"
    /\ a.verified = b.verified /\ a.pam = b.pam /\ a.ret = b.ret /\ a.key = b.key
    /\ a.phase = "session" => b.phase = "session"

\* The same for an answer that records no check and ends no conversation well.
Calm(a, b) ==
  a.phase # "fatal" =>
    /\ b.phase # "fatal"
    /\ a.verified = b.verified
    /\ a.pam = "success" => b.pam = "success"
    /\ a.phase = "session" => b.phase = "session"

LEMMA HeldTrans == ASSUME NEW a, NEW b, NEW c, Held(a, b), Held(b, c) PROVE Held(a, c)
BY DEF Held

LEMMA fatalPhase ==
  ASSUME NEW m, "phase" \in DOMAIN m, NEW why PROVE fatal(m, why).phase = "fatal"
BY DEF fatal

LEMMA FreshHeld ==
  ASSUME NEW m, Fields \subseteq DOMAIN m
  PROVE  /\ Fields \subseteq DOMAIN Fresh(m) /\ Fresh(m).phase = m.phase
         /\ Fresh(m).verified = m.verified /\ Fresh(m).pam = m.pam /\ Fresh(m).key = m.key
BY DEF Fresh, Fields

LEMMA AuthenticatedHeld ==
  ASSUME NEW m, Fields \subseteq DOMAIN m, m.phase # "fatal" PROVE Held(Authenticated(m), m)
BY DEF Authenticated, fatal, Held, Fields

LEMMA monitor_child_preauthHeld ==
  ASSUME NEW m, Fields \subseteq DOMAIN m, NEW type
  PROVE  Held(monitor_child_preauth(m, type), m)
<1> DEFINE l == auth2_update_methods_lists(m.lists, m.auth_method, m.auth_submethod).lists
           x == [m EXCEPT !.lists = l]
           y == [m EXCEPT !.phase = "account"]
           z == [x EXCEPT !.phase = "account"]
<1>1. \/ monitor_child_preauth(m, type) = m
      \/ /\ m.phase # "fatal"
         /\ monitor_child_preauth(m, type) \in
              {x, fatal(m, "method not in lists"), fatal(m, "unexpected authentication"),
               fatal(m, "null auth_opts"), y, z, Authenticated(m), Authenticated(x)}
  BY DEF monitor_child_preauth
<1>2. Fields \subseteq DOMAIN x /\ Held(x, m)
  <2> HIDE DEF l
  <2> QED BY DEF Held, Fields
<1>3. m.phase # "fatal" => Held(y, m) BY DEF Held, Fields
<1>4. m.phase # "fatal" => Held(z, m) /\ x.phase # "fatal"
  <2> HIDE DEF l
  <2> QED BY DEF Held, Fields
<1>5. \A why : Held(fatal(m, why), m) BY fatalPhase DEF Held, Fields
<1>6. m.phase # "fatal" => Held(Authenticated(m), m) BY AuthenticatedHeld
<1>7. m.phase # "fatal" => Held(Authenticated(x), m)
  <2> HIDE DEF x
  <2> QED BY <1>2, <1>4, AuthenticatedHeld, HeldTrans
<1>8. Held(m, m) BY DEF Held
<1> HIDE DEF x, y, z
<1> QED BY <1>1, <1>2, <1>3, <1>4, <1>5, <1>6, <1>7, <1>8

LEMMA monitor_readHeld ==
  ASSUME NEW m, Fields \subseteq DOMAIN m, NEW type, NEW a, Fields \subseteq DOMAIN a,
         monitor_read(m, type, a).phase # "fatal"
  PROVE  m.phase = "preauth" /\ Held(monitor_read(m, type, a), a)
<1> DEFINE p == IF type \in Once THEN a.permit \ {type} ELSE a.permit
           b == [a EXCEPT !.permit = p]
<1>1. Fields \subseteq DOMAIN b /\ Held(b, a)
  <2> HIDE DEF p
  <2> QED BY DEF Held, Fields
<1>2. \/ m.phase = "fatal" /\ monitor_read(m, type, a) = m
      \/ monitor_read(m, type, a) \in
           {fatal(m, "other request expected"), fatal(m, "unpermitted request")}
      \/ m.phase = "preauth" /\ monitor_read(m, type, a) = monitor_child_preauth(b, type)
  BY Zenon DEF monitor_read
<1>3. "phase" \in DOMAIN m BY DEF Fields
<1>4. m.phase = "preauth" /\ monitor_read(m, type, a) = monitor_child_preauth(b, type)
  BY <1>2, <1>3, fatalPhase
<1> HIDE DEF b
<1> QED BY <1>1, <1>4, monitor_child_preauthHeld, HeldTrans

LEMMA CalmAnswers ==
  ASSUME NEW m, Fields \subseteq DOMAIN m, NEW x, NEW key, NEW good
  PROVE  /\ Calm(mm_answer_pwnamallow(m, x), m)
         /\ Calm(mm_answer_authserv(m, x), m)
         /\ Calm(mm_answer_pam_start(m), m)
         /\ Calm(mm_answer_pam_init_ctx(m), m)
         /\ Calm(mm_answer_pam_respond(m, good), m)
         /\ Calm(mm_answer_pam_account(m, good), m)
         /\ Calm(mm_answer_keyallowed(m, x, key), m)
<1>1. Calm(mm_answer_pwnamallow(m, x), m)
  BY DEF mm_answer_pwnamallow, monitor_permit, Calm, Fields
<1>2. Calm(mm_answer_authserv(m, x), m)
  BY DEF mm_answer_authserv, monitor_permit, Calm, Fields
<1>3. Calm(mm_answer_pam_start(m), m)
  BY DEF mm_answer_pam_start, monitor_permit, Calm, Fields
<1>4. Calm(mm_answer_pam_init_ctx(m), m)
  BY DEF mm_answer_pam_init_ctx, monitor_permit, fatal, Calm, Fields
<1>5. Calm(mm_answer_pam_respond(m, good), m)
  BY DEF mm_answer_pam_respond, sshpam_respond, fatal, Calm, Fields
<1>6. Calm(mm_answer_pam_account(m, good), m)
  BY DEF mm_answer_pam_account, Authenticated, fatal, Calm, Fields
<1>7. Calm(mm_answer_keyallowed(m, x, key), m)
  BY DEF mm_answer_keyallowed, Calm, Fields
<1> QED BY <1>1, <1>2, <1>3, <1>4, <1>5, <1>6, <1>7

LEMMA mm_answer_pam_free_ctxCalm ==
  ASSUME NEW m, Fields \subseteq DOMAIN m, mm_answer_pam_free_ctx(m).phase # "fatal"
  PROVE  /\ Calm(mm_answer_pam_free_ctx(m), m)
         /\ mm_answer_pam_free_ctx(m).pam = "none"
BY DEF mm_answer_pam_free_ctx, monitor_permit, fatal, Calm, Fields

\* Nobody can log in with an empty password.
Given(password) == password # ""
PasswordNeeded == Given(RightPassword) \/ ~PermitEmptyPasswords

\* The answer a to a request for a check records it exactly when it is good.
Records(a, m, method, key) ==
  a.phase # "fatal" =>
    /\ a.phase = m.phase /\ a.pam = m.pam
    /\ a.ret => a.verified = Append(m.verified, [name |-> method, sub |-> "", key |-> key])
    /\ ~a.ret => a.verified = m.verified

LEMMA mm_answer_authpasswordRecords ==
  ASSUME NEW m, Fields \subseteq DOMAIN m, NEW password, NEW exhausted, PasswordNeeded
  PROVE  LET a == mm_answer_authpassword(m, password, exhausted)
         IN /\ Records(a, m, "password", "none")
            /\ a.phase # "fatal" /\ a.ret => Given(password)
<1> DEFINE ok == auth_password(m, password)
           w == IF password = "" /\ ~m.call_count THEN "none" ELSE "password"
           d == [m EXCEPT !.ret = ok, !.call_count = TRUE, !.auth_method = w]
           b == Verified(d, d.auth_method, "", "none")
           g == Guessed(d)
           c == IF ok THEN b ELSE IF MayUsePassword(m) THEN g ELSE d
           a == mm_answer_authpassword(m, password, exhausted)
<1>1. /\ Fields \subseteq DOMAIN d /\ d.phase = m.phase /\ d.pam = m.pam /\ d.ret = ok
      /\ d.verified = m.verified /\ d.auth_method = w
  <2> HIDE DEF ok, w
  <2> QED BY DEF Fields
<1>2. ok \in BOOLEAN /\ (ok => Given(password) /\ w = "password") BY DEF auth_password, PasswordNeeded, Given
<1> HIDE DEF d, ok, w
<1>3. /\ Fields \subseteq DOMAIN g /\ g.phase = d.phase /\ g.pam = d.pam /\ g.ret = d.ret
      /\ g.verified = d.verified
  BY <1>1 DEF Guessed, Fields
<1>4. /\ Fields \subseteq DOMAIN b /\ b.phase = d.phase /\ b.pam = d.pam /\ b.ret = d.ret
      /\ b.verified = Append(d.verified, [name |-> d.auth_method, sub |-> "", key |-> "none"])
  <2> DEFINE v == Append(d.verified, [name |-> d.auth_method, sub |-> "", key |-> "none"])
  <2>1. b = [d EXCEPT !.verified = v] BY DEF Verified
  <2> HIDE DEF v, b
  <2>2. b.verified = v BY <1>1, <2>1 DEF Fields
  <2>3. Fields \subseteq DOMAIN b /\ b.phase = d.phase /\ b.pam = d.pam /\ b.ret = d.ret
    BY <1>1, <2>1 DEF Fields
  <2> QED BY <2>2, <2>3 DEF v
<1> HIDE DEF b, g
<1>5. /\ Fields \subseteq DOMAIN c /\ c.phase = m.phase /\ c.pam = m.pam /\ c.ret = ok
      /\ ok => c.verified = Append(m.verified, [name |-> "password", sub |-> "", key |-> "none"])
      /\ ~ok => c.verified = m.verified
  BY <1>1, <1>2, <1>3, <1>4
<1>6. a \in {fatal(m, "password not enabled"), sshpam_set_maxtries_reached(c), c}
  BY Zenon DEF mm_answer_authpassword, c, b, g, d, ok, w
<1> HIDE DEF c
<1>7. /\ sshpam_set_maxtries_reached(c).phase = c.phase
      /\ sshpam_set_maxtries_reached(c).pam = c.pam
      /\ sshpam_set_maxtries_reached(c).ret = c.ret
      /\ sshpam_set_maxtries_reached(c).verified = c.verified
  BY <1>5 DEF sshpam_set_maxtries_reached, Fields
<1>8. fatal(m, "password not enabled").phase = "fatal" BY fatalPhase DEF Fields
<1> HIDE DEF a
<1>9. a.phase # "fatal" =>
        a.phase = c.phase /\ a.pam = c.pam /\ a.ret = c.ret /\ a.verified = c.verified
  BY <1>6, <1>7, <1>8
<1>10. Records(a, m, "password", "none") BY <1>2, <1>5, <1>9 DEF Records
<1>11. a.phase # "fatal" /\ a.ret => Given(password) BY <1>2, <1>5, <1>9
<1> QED BY <1>10, <1>11 DEF a

LEMMA VerifiedHeld ==
  ASSUME NEW m, Fields \subseteq DOMAIN m, NEW name, NEW sub, NEW key
  PROVE  LET r == Verified(m, name, sub, key)
         IN /\ Fields \subseteq DOMAIN r /\ r.phase = m.phase /\ r.pam = m.pam /\ r.ret = m.ret
            /\ r.verified = Append(m.verified, [name |-> name, sub |-> sub, key |-> key])
<1> DEFINE v == Append(m.verified, [name |-> name, sub |-> sub, key |-> key])
           r == Verified(m, name, sub, key)
<1>1. r = [m EXCEPT !.verified = v] BY DEF Verified
<1> HIDE DEF v, r
<1>2. r.verified = v BY <1>1 DEF Fields
<1>3. Fields \subseteq DOMAIN r /\ r.phase = m.phase /\ r.pam = m.pam /\ r.ret = m.ret
  BY <1>1 DEF Fields
<1> QED BY <1>2, <1>3 DEF v, r

LEMMA mm_answer_keyverifyRecords ==
  ASSUME NEW m, Fields \subseteq DOMAIN m, NEW key, NEW signed, NEW good \in BOOLEAN
  PROVE  LET a == mm_answer_keyverify(m, key, signed, good)
         IN Records(a, m, m.key.type, key) /\ Fields \subseteq DOMAIN a
<1> DEFINE t == m.key.type
           p == IF good THEN m.prev_keys \cup {key} ELSE m.prev_keys
           x == [m EXCEPT !.ret = good, !.auth_method = t, !.key = NoKey, !.prev_keys = p]
           u == sshauthopt_merge(x.auth_opts, KeyOptions[key])
           o == auth_activate_options(x, KeyOptions[key])
           y == [x EXCEPT !.auth_opts = u]
           b == IF t = "publickey" THEN o ELSE x
           a == mm_answer_keyverify(m, key, signed, good)
<1>1. /\ Fields \subseteq DOMAIN x /\ x.phase = m.phase /\ x.pam = m.pam /\ x.ret = good
      /\ x.verified = m.verified
  <2> HIDE DEF p, t
  <2> QED BY DEF Fields
<1> HIDE DEF x
<1>2. o \in {fatal(x, "null auth_opts"), y} BY Zenon DEF auth_activate_options
<1>3. /\ Fields \subseteq DOMAIN y /\ y.phase = x.phase /\ y.pam = x.pam /\ y.ret = x.ret
      /\ y.verified = x.verified
  <2> HIDE DEF u
  <2> QED BY <1>1 DEF Fields
<1> HIDE DEF y
<1>4. LET f == fatal(x, "null auth_opts")
      IN /\ Fields \subseteq DOMAIN f /\ f.phase = "fatal" /\ f.pam = x.pam /\ f.ret = x.ret
         /\ f.verified = x.verified
  BY <1>1 DEF fatal, Fields
<1>5. /\ Fields \subseteq DOMAIN b /\ b.pam = m.pam /\ b.ret = good
      /\ b.verified = m.verified /\ (b.phase = "fatal" \/ b.phase = m.phase)
  <2> HIDE DEF o
  <2> QED BY <1>1, <1>2, <1>3, <1>4
<1>6. \/ a = fatal(m, "key not allowed before")
      \/ a = fatal(m, "bad signature data")
      \/ good /\ a = Verified(b, t, "", key)
      \/ ~good /\ a = Guessed(b)
  BY Zenon DEF mm_answer_keyverify, x, p
<1> HIDE DEF b, t
<1>7. \A why : fatal(m, why).phase = "fatal" /\ Fields \subseteq DOMAIN fatal(m, why)
  BY fatalPhase DEF Fields, fatal
<1>8. LET r == Verified(b, t, "", key)
      IN /\ Fields \subseteq DOMAIN r /\ r.phase = b.phase /\ r.pam = b.pam /\ r.ret = b.ret
         /\ r.verified = Append(b.verified, [name |-> t, sub |-> "", key |-> key])
  <2>1. \A name, sub : LET r == Verified(b, name, sub, key)
        IN /\ Fields \subseteq DOMAIN r
           /\ r.phase = b.phase /\ r.pam = b.pam /\ r.ret = b.ret
           /\ r.verified = Append(b.verified, [name |-> name, sub |-> sub, key |-> key])
    BY <1>5, VerifiedHeld
  <2> QED BY <2>1, Zenon
<1>9. /\ Guessed(b).phase = b.phase /\ Guessed(b).pam = b.pam /\ Guessed(b).ret = b.ret
      /\ Guessed(b).verified = b.verified /\ Fields \subseteq DOMAIN Guessed(b)
  BY <1>5 DEF Guessed, Fields
<1> HIDE DEF a
<1>10. ASSUME good, a = Verified(b, t, "", key) PROVE Records(a, m, t, key)
  BY <1>5, <1>8, <1>10 DEF Records
<1>11. ASSUME ~good, a = Guessed(b) PROVE Records(a, m, t, key)
  BY <1>5, <1>9, <1>11 DEF Records
<1>12. ASSUME a.phase = "fatal" PROVE Records(a, m, t, key) BY <1>12 DEF Records
<1>13. Records(a, m, t, key) BY <1>6, <1>7, <1>10, <1>11, <1>12
<1>14. Fields \subseteq DOMAIN a BY <1>6, <1>7, <1>8, <1>9
<1> QED BY <1>13, <1>14 DEF a, t

LEMMA mm_answer_pam_queryRecords ==
  ASSUME NEW m, Fields \subseteq DOMAIN m, NEW says,
         mm_answer_pam_query(m, says).phase # "fatal"
  PROVE  LET a == mm_answer_pam_query(m, says)
         IN /\ m.phase # "fatal" /\ (a.phase = "session" => m.phase = "session")
            /\ IF says = "success"
               THEN a.verified = Append(m.verified, [name |-> "keyboard-interactive",
                                                     sub |-> "pam", key |-> "none"])
                    /\ a.pam = "success"
               ELSE a.verified = m.verified /\ a.pam # "success"
<1> DEFINE x == [m EXCEPT !.pam = "prompt"]
           y == [m EXCEPT !.pam = "success"]
           v == Verified(y, "keyboard-interactive", "pam", "none")
           h == IF MayUsePassword(m) THEN Guessed(m) ELSE m
           z == [h EXCEPT !.pam = "failed"]
           n == CASE says = "prompt" -> x [] says = "success" -> v [] OTHER -> z
           q == sshpam_query(m, says)
           b == [q EXCEPT !.authok = says \in {"success", "message"}]
           a == mm_answer_pam_query(m, says)
<1>1. /\ Fields \subseteq DOMAIN x /\ x.phase = m.phase /\ x.verified = m.verified
      /\ x.pam # "success"
  BY DEF Fields
<1>2. /\ Fields \subseteq DOMAIN y /\ y.phase = m.phase /\ y.verified = m.verified
      /\ y.pam = "success"
  BY DEF Fields
<1> HIDE DEF x, y
<1>3. /\ Fields \subseteq DOMAIN v /\ v.phase = m.phase /\ v.pam = "success"
      /\ v.verified = Append(m.verified, [name |-> "keyboard-interactive", sub |-> "pam",
                                          key |-> "none"])
  BY <1>2, VerifiedHeld
<1> HIDE DEF v
<1>4. /\ Fields \subseteq DOMAIN z /\ z.phase = m.phase /\ z.verified = m.verified
      /\ z.pam # "success"
  <2>1. Fields \subseteq DOMAIN h /\ h.phase = m.phase /\ h.verified = m.verified
    BY DEF Guessed, Fields
  <2> HIDE DEF h
  <2> QED BY <2>1 DEF Fields
<1> HIDE DEF z
<1>5. /\ Fields \subseteq DOMAIN n /\ n.phase = m.phase
      /\ IF says = "success"
         THEN n.verified = Append(m.verified, [name |-> "keyboard-interactive",
                                               sub |-> "pam", key |-> "none"])
              /\ n.pam = "success"
         ELSE n.verified = m.verified /\ n.pam # "success"
  BY <1>1, <1>3, <1>4
<1>6. q \in {[n EXCEPT !.account = 0], sshpam_set_maxtries_reached(n), n}
  BY Zenon DEF sshpam_query, x, y, v, z
<1> HIDE DEF n, q
<1>7. Fields \subseteq DOMAIN q /\ q.phase = n.phase /\ q.verified = n.verified /\ q.pam = n.pam
  BY <1>5, <1>6 DEF sshpam_set_maxtries_reached, Fields
<1>8. b.phase = q.phase /\ b.verified = q.verified /\ b.pam = q.pam /\ Fields \subseteq DOMAIN b
  BY <1>7 DEF Fields
<1> HIDE DEF b
<1>9. LET r == monitor_permit(b, {"PAM_RESPOND"})
      IN r.phase = b.phase /\ r.verified = b.verified /\ r.pam = b.pam
  BY <1>8 DEF monitor_permit, Fields
<1>10. a \in {fatal(m, "no context"), monitor_permit(b, {"PAM_RESPOND"})}
  BY Zenon DEF mm_answer_pam_query, b, q
<1>11. fatal(m, "no context").phase = "fatal" BY fatalPhase DEF Fields
<1> HIDE DEF a
<1>12. a.phase # "fatal" BY DEF a
<1>13. a.phase = n.phase /\ a.verified = n.verified /\ a.pam = n.pam
  BY <1>7, <1>8, <1>9, <1>10, <1>11, <1>12
<1> QED BY <1>5, <1>12, <1>13 DEF a
-----------------------------------------------------------------------------
(* The lists of the child against the checks of the monitor. *)

Live(s) == s.m.phase # "fatal" /\ s.c.phase # "gone"

\* Unless one of the processes has ended, t is s but for what has nothing to do with
\* the lists; a conversation that ended well is not forgotten by the child alone.
Kept(t, s) ==
  Live(t) =>
    /\ Live(s) /\ t.c.phase = s.c.phase /\ t.c.lists = s.c.lists /\ (t.ok => s.ok)
    /\ t.m.verified = s.m.verified
    /\ t.m.pam = "success" =>
         s.m.pam = "success" /\ (s.c.kbdint # "none" => t.c.kbdint # "none")
    /\ t.m.phase = "session" => s.m.phase = "session"

LastIs(v, method, sub) == v[Len(v)].name = method /\ v[Len(v)].sub = sub /\ Len(v) > 0

\* Every list of the child is where the first n checks of the monitor bring it.
ListsAt(am, s, n) ==
  \A i \in DOMAIN s.c.lists :
    i \in DOMAIN am /\ Reached(am[i], s.c.lists[i], s.m.verified, n)

\* A conversation that ended well has yet to be counted.
Counted(m) == IF m.pam = "success" THEN Len(m.verified) - 1 ELSE Len(m.verified)

Progress(am, s) ==
  Live(s) =>
    /\ s.m.phase # "session"
    /\ s.m.pam = "success" =>
         s.c.kbdint # "none" /\ LastIs(s.m.verified, "keyboard-interactive", "pam")
    /\ ListsAt(am, s, Counted(s.m))

\* What a method that says ok has to show: the last check, which no list has used yet.
Earned(am, s, method, sub) ==
  Live(s) /\ s.ok =>
    /\ s.m.pam # "success" /\ LastIs(s.m.verified, method, sub)
    /\ ListsAt(am, s, Len(s.m.verified) - 1)

LEMMA KeptTrans == ASSUME NEW r, NEW s, NEW t, Kept(r, s), Kept(s, t) PROVE Kept(r, t)
BY DEF Kept

LEMMA VerifiedLen ==
  ASSUME NEW s, PairInv(s)
  PROVE  Len(s.m.verified) \in Nat /\ IsSeq(s.m.verified)
<1>1. IsSeq(s.m.verified) BY DEF PairInv, MonInv, KeyInv
<1> QED BY <1>1, AppendSeq

LEMMA KeptProgress ==
  ASSUME NEW am, NEW s, NEW t, PairInv(s), Progress(am, s), Kept(t, s) PROVE Progress(am, t)
<1> SUFFICES ASSUME Live(t)
             PROVE  /\ t.m.phase # "session"
                    /\ t.m.pam = "success" =>
                         t.c.kbdint # "none" /\ LastIs(t.m.verified, "keyboard-interactive", "pam")
                    /\ ListsAt(am, t, Counted(t.m))
  BY DEF Progress
<1>1. /\ Live(s) /\ t.c.lists = s.c.lists /\ t.m.verified = s.m.verified
      /\ t.m.pam = "success" => s.m.pam = "success" /\ (s.c.kbdint # "none" => t.c.kbdint # "none")
      /\ t.m.phase = "session" => s.m.phase = "session"
  BY DEF Kept
<1>2. /\ s.m.phase # "session"
      /\ s.m.pam = "success" =>
           s.c.kbdint # "none" /\ LastIs(s.m.verified, "keyboard-interactive", "pam")
      /\ ListsAt(am, s, Counted(s.m))
  BY <1>1 DEF Progress
<1>3. Len(s.m.verified) \in Nat BY VerifiedLen
<1>4. /\ Counted(s.m) \in Nat /\ Counted(t.m) \in Nat /\ Counted(s.m) <= Counted(t.m)
  BY <1>1, <1>2, <1>3 DEF Counted, LastIs
<1>5. ListsAt(am, t, Counted(t.m))
  <2> SUFFICES ASSUME NEW i \in DOMAIN s.c.lists
               PROVE  i \in DOMAIN am /\ Reached(am[i], s.c.lists[i], s.m.verified, Counted(t.m))
    BY <1>1 DEF ListsAt
  <2>1. i \in DOMAIN am /\ Reached(am[i], s.c.lists[i], s.m.verified, Counted(s.m))
    BY <1>2 DEF ListsAt
  <2> QED BY <1>4, <2>1, ReachedLater
<1> QED BY <1>1, <1>2, <1>5

LEMMA AppendLast ==
  ASSUME NEW v, IsSeq(v), NEW e
  PROVE  Len(Append(v, e)) = Len(v) + 1 /\ Append(v, e)[Len(Append(v, e))] = e
<1> DEFINE k == Len(Append(v, e))
           n == Len(v)
<1>1. IsSeq(Append(v, e)) BY AppendSeq
<1>2. k \in Nat /\ n \in Nat /\ 1 .. k = 1 .. n + 1 /\ Append(v, e)[n + 1] = e
  BY <1>1, AppendSeq
<1> HIDE DEF k, n
<1>3. n + 1 \in 1 .. k BY <1>2
<1>4. k >= 1 /\ k \in 1 .. n + 1 BY <1>2, <1>3
<1>5. k = n + 1 BY <1>2, <1>3, <1>4
<1> QED BY <1>2, <1>5 DEF k, n

\* A check that was recorded in this step has not been used.
LEMMA AppendProgress ==
  ASSUME NEW am, NEW s, PairInv(s), Progress(am, s), Live(s), NEW t, NEW e,
         t.c.lists = s.c.lists, t.m.verified = Append(s.m.verified, e)
  PROVE  ListsAt(am, t, Len(s.m.verified))
<1> DEFINE v == s.m.verified
<1>1. IsSeq(v) /\ Len(v) \in Nat BY VerifiedLen
<1>2. \A i \in 1 .. Len(v) : Append(v, e)[i] = v[i]
  <2> HIDE DEF v
  <2> QED BY <1>1, AppendSeq
<1>4. /\ s.m.pam = "success" => Len(v) > 0
      /\ ListsAt(am, s, Counted(s.m))
  BY DEF Progress, LastIs
<1>5. Counted(s.m) \in Nat /\ Counted(s.m) <= Len(v) BY <1>1, <1>4 DEF Counted
<1> SUFFICES ASSUME NEW i \in DOMAIN s.c.lists
             PROVE  i \in DOMAIN am /\ Reached(am[i], s.c.lists[i], Append(v, e), Len(v))
  BY DEF ListsAt
<1>6. i \in DOMAIN am /\ Reached(am[i], s.c.lists[i], v, Counted(s.m))
  BY <1>4 DEF ListsAt
<1>7. \A j \in 1 .. Counted(s.m) : Append(v, e)[j] = v[j]
  BY <1>1, <1>2, <1>5
<1> HIDE DEF v
<1> QED BY <1>1, <1>5, <1>6, <1>7, ReachedLater

\* A request that was answered and did not end the monitor.
LEMMA AskHeld ==
  ASSUME NEW s, PairInv(s), NEW type, NEW a, Fields \subseteq DOMAIN a,
         Live(Ask(s, type, a))
  PROVE  LET t == Ask(s, type, a)
         IN /\ Live(s) /\ s.m.phase = "preauth" /\ a.phase # "fatal"
            /\ t.c = s.c /\ t.ok = s.ok
            /\ t.m.verified = a.verified /\ t.m.pam = a.pam /\ t.m.ret = a.ret
            /\ t.m.key = a.key
            /\ t.m.phase = "session" => a.phase = "session"
<1> DEFINE n == monitor_read(s.m, type, a)
           t == Ask(s, type, a)
<1>1. t = [s EXCEPT !.m = n] BY DEF Ask
<1>2. Fields \subseteq DOMAIN s.m BY DEF PairInv, MonInv
<1>3. n.phase # "fatal" => s.m.phase = "preauth" /\ Held(n, a) BY <1>2, monitor_readHeld
<1> HIDE DEF n, t
<1>4. t.c = s.c /\ t.ok = s.ok /\ t.m = n BY <1>1 DEF PairInv
<1>5. n.phase # "fatal" /\ s.c.phase # "gone" BY <1>4 DEF Live, t
<1> QED BY <1>3, <1>4, <1>5 DEF Held, Live, t

LEMMA AskCalm ==
  ASSUME NEW s, PairInv(s), NEW type, NEW a, Fields \subseteq DOMAIN a,
         Calm(a, Fresh(s.m))
  PROVE  Kept(Ask(s, type, a), s)
<1> SUFFICES ASSUME Live(Ask(s, type, a)) PROVE Kept(Ask(s, type, a), s)
  BY DEF Kept
<1>1. LET t == Ask(s, type, a)
      IN /\ Live(s) /\ a.phase # "fatal" /\ t.c = s.c /\ t.ok = s.ok
         /\ t.m.verified = a.verified /\ t.m.pam = a.pam
         /\ t.m.phase = "session" => a.phase = "session"
  BY AskHeld
<1>2. Fields \subseteq DOMAIN s.m BY DEF PairInv, MonInv
<1>3. /\ Fresh(s.m).phase = s.m.phase /\ Fresh(s.m).verified = s.m.verified
      /\ Fresh(s.m).pam = s.m.pam
  BY <1>2, FreshHeld
<1> QED BY <1>1, <1>3 DEF Calm, Kept

LEMMA RecordProgress ==
  ASSUME NEW am, NEW s, PairInv(s), Progress(am, s), Live(s), s.m.pam # "success",
         NEW t, NEW method, NEW sub, NEW key,
         t.c.lists = s.c.lists, t.m.pam = s.m.pam, t.m.phase # "session",
         t.m.verified = Append(s.m.verified, [name |-> method, sub |-> sub, key |-> key])
  PROVE  Progress(am, t) /\ Earned(am, t, method, sub)
<1> DEFINE e == [name |-> method, sub |-> sub, key |-> key]
           v == t.m.verified
<1>1. e.name = method /\ e.sub = sub OBVIOUS
<1>0. t.m.verified = Append(s.m.verified, e) OBVIOUS
<1> HIDE DEF e
<1>2. Len(s.m.verified) \in Nat BY VerifiedLen
<1>3. /\ ListsAt(am, t, Len(s.m.verified)) /\ Len(v) = Len(s.m.verified) + 1
      /\ v[Len(v)] = e
  <2>1. ListsAt(am, t, Len(s.m.verified)) BY <1>0, AppendProgress, Zenon
  <2>2. IsSeq(s.m.verified) BY VerifiedLen
  <2> QED BY <1>0, <2>1, <2>2, AppendLast
<1>4. ListsAt(am, t, Len(v))
  <2> SUFFICES ASSUME NEW i \in DOMAIN t.c.lists
               PROVE  i \in DOMAIN am /\ Reached(am[i], t.c.lists[i], v, Len(v))
    BY DEF ListsAt
  <2>1. i \in DOMAIN am /\ Reached(am[i], t.c.lists[i], v, Len(s.m.verified))
    BY <1>3 DEF ListsAt
  <2> HIDE DEF v
  <2> QED BY <1>2, <1>3, <2>1, ReachedLater
<1>5. LastIs(v, method, sub) BY <1>1, <1>2, <1>3 DEF LastIs
<1>6. Len(v) - 1 = Len(s.m.verified) BY <1>2, <1>3
<1> QED BY <1>3, <1>4, <1>5, <1>6 DEF Progress, Earned, Counted

LEMMA exitDead ==
  ASSUME NEW s, PairInv(s), NEW why
  PROVE  ~Live(exit(s, why)) /\ exit(s, why).c.phase = "gone"
BY DEF exit, Live, PairInv, ChildFields

LEMMA auth2_challenge_stopKept ==
  ASSUME NEW s, PairInv(s)
  PROVE  LET t == auth2_challenge_stop(s)
         IN Kept(t, s) /\ (Live(t) => t.c.kbdint = "none")
<1> DEFINE a == mm_answer_pam_free_ctx(Fresh(s.m))
           x == Ask(s, "PAM_FREE_CTX", a)
           y == [x EXCEPT !.c.kbdint = "none"]
           t == auth2_challenge_stop(s)
<1>1. /\ Fields \subseteq DOMAIN s.m /\ Fields \subseteq DOMAIN Fresh(s.m)
      /\ MonInv(Fresh(s.m))
  BY FreshHeld, FreshInv DEF PairInv, MonInv
<1>2. MonInv(a) BY <1>1, SimpleAnswers, SameInv
<1>3. Fields \subseteq DOMAIN a BY <1>2 DEF MonInv
<1>4. a.phase # "fatal" => Calm(a, Fresh(s.m)) /\ a.pam = "none"
  BY <1>1, mm_answer_pam_free_ctxCalm
<1>5. Calm(a, Fresh(s.m)) BY <1>4 DEF Calm
<1> HIDE DEF a
<1>6. PairInv(x) BY <1>2, AskInv
<1>7. Kept(x, s) BY <1>3, <1>5, AskCalm
<1>8. Live(x) => x.m.pam = "none" BY <1>3, <1>4, AskHeld
<1> HIDE DEF x
<1>9. y.m = x.m /\ y.ok = x.ok /\ y.c.phase = x.c.phase /\ y.c.lists = x.c.lists /\ y.c.kbdint = "none"
  BY <1>6 DEF PairInv, ChildFields
<1>10. \/ t = s /\ (s.c.kbdint = "none" \/ s.c.phase = "gone")
       \/ t = y
  BY Zenon DEF auth2_challenge_stop, x, a
<1> HIDE DEF y, t
<1>11. CASE t = s /\ (s.c.kbdint = "none" \/ s.c.phase = "gone")
  BY <1>11 DEF Kept, Live, t
<1>12. CASE t = y
  BY <1>7, <1>8, <1>9, <1>12 DEF Kept, Live, t
<1> QED BY <1>10, <1>11, <1>12

\* t is a state of the conversation after s: no method has said ok.
Waits(am, t, s) ==
  Progress(am, t) /\ (Live(t) => Live(s) /\ t.c.phase = s.c.phase /\ (t.ok => s.ok))

LEMMA KeptWaits ==
  ASSUME NEW am, NEW s, NEW t, PairInv(s), Progress(am, s), Kept(t, s) PROVE Waits(am, t, s)
BY KeptProgress DEF Waits, Kept

LEMMA QueriedWaits ==
  ASSUME NEW am, NEW s, PairInv(s), NEW says, Progress(am, s) PROVE Waits(am, Queried(s, says), s)
<1> DEFINE x == [s EXCEPT !.c = sshpam_set_maxtries_reached(s.c)]
           s1 == IF says = "maxtries" THEN x ELSE s
           k == IF says = "prompt" THEN "prompt" ELSE "no prompt"
           y == [s1 EXCEPT !.c.postponed = TRUE, !.c.kbdint = k]
<1>1. SameMonitor(x, s) /\ Kept(x, s)
  BY DEF SameMonitor, PairInv, sshpam_set_maxtries_reached, Kept, Live, ChildFields
<1>2. PairInv(s1) /\ Kept(s1, s) BY <1>1, SamePair DEF Kept
<1>3. k # "none" OBVIOUS
<1> HIDE DEF s1, k
<1>4. Kept(y, s1) BY <1>2, <1>3 DEF Kept, PairInv, Live, ChildFields
<1>5. Kept(auth2_challenge_stop(s1), s1) BY <1>2, auth2_challenge_stopKept
<1>6. Queried(s, says) \in {y, auth2_challenge_stop(s1)} BY Zenon DEF Queried, s1, k
<1> HIDE DEF y
<1>7. Kept(Queried(s, says), s) BY <1>2, <1>4, <1>5, <1>6, KeptTrans
<1> QED BY <1>7, KeptWaits

LEMMA QueriedSuccess ==
  ASSUME NEW s, PairInv(s)
  PROVE  LET t == Queried(s, "success")
         IN /\ t.m = s.m /\ t.ok = s.ok /\ t.c.phase = s.c.phase /\ t.c.lists = s.c.lists
            /\ t.c.kbdint # "none"
<1>1. Queried(s, "success") = [s EXCEPT !.c.postponed = TRUE, !.c.kbdint = "no prompt"]
  BY DEF Queried
<1> QED BY <1>1 DEF PairInv, ChildFields

LEMMA send_userauth_info_requestWaits ==
  ASSUME NEW am, NEW s, PairInv(s), NEW says, Progress(am, s)
  PROVE  Waits(am, send_userauth_info_request(s, says), s)
<1> DEFINE a == mm_answer_pam_query(Fresh(s.m), says)
           x == Ask(s, "PAM_QUERY", a)
           t == Queried(x, says)
<1>1. /\ Fields \subseteq DOMAIN s.m /\ Fields \subseteq DOMAIN Fresh(s.m)
      /\ MonInv(Fresh(s.m))
      /\ Fresh(s.m).phase = s.m.phase /\ Fresh(s.m).verified = s.m.verified
  BY FreshHeld, FreshInv DEF PairInv, MonInv
<1>2. MonInv(a) BY <1>1, mm_answer_pam_queryInv
<1>3. Fields \subseteq DOMAIN a BY <1>2 DEF MonInv
<1>4. a.phase # "fatal" =>
        /\ s.m.phase # "fatal" /\ (a.phase = "session" => s.m.phase = "session")
        /\ IF says = "success"
           THEN a.verified = Append(s.m.verified, [name |-> "keyboard-interactive",
                                                   sub |-> "pam", key |-> "none"])
                /\ a.pam = "success"
           ELSE a.verified = s.m.verified /\ a.pam # "success"
  BY <1>1, mm_answer_pam_queryRecords
<1> HIDE DEF a
<1>5. PairInv(x) BY <1>2, AskInv
<1>6. Live(x) =>
         /\ Live(s) /\ a.phase # "fatal" /\ x.c = s.c /\ x.ok = s.ok
         /\ x.m.verified = a.verified /\ x.m.pam = a.pam
         /\ x.m.phase = "session" => a.phase = "session"
  BY <1>3, AskHeld
<1>7. CASE says # "success"
  <2>1. Calm(a, Fresh(s.m)) BY <1>1, <1>4, <1>7 DEF Calm
  <2>2. Kept(x, s) BY <1>3, <2>1, AskCalm
  <2>3. Progress(am, x) BY <2>2, KeptProgress
  <2> HIDE DEF x
  <2>4. Waits(am, t, x) BY <1>5, <2>3, QueriedWaits
  <2>5. Waits(am, t, s) BY <2>2, <2>4 DEF Waits, Kept
  <2> QED BY <2>5 DEF send_userauth_info_request, x, a
<1>8. CASE says = "success"
  <2> HIDE DEF x
  <2>1. /\ t.m = x.m /\ t.ok = x.ok /\ t.c.phase = x.c.phase /\ t.c.lists = x.c.lists
        /\ t.c.kbdint # "none"
    BY <1>5, <1>8, QueriedSuccess
  <2> HIDE DEF t
  <2>2. ASSUME Live(t)
        PROVE  /\ Live(s) /\ t.c.phase = s.c.phase /\ (t.ok => s.ok)
               /\ t.m.phase # "session"
               /\ t.c.kbdint # "none" /\ LastIs(t.m.verified, "keyboard-interactive", "pam")
               /\ ListsAt(am, t, Counted(t.m))
    <3> DEFINE e == [name |-> "keyboard-interactive", sub |-> "pam", key |-> "none"]
    <3>1. /\ Live(s) /\ a.phase # "fatal" /\ x.c = s.c /\ x.ok = s.ok
          /\ t.m.verified = a.verified /\ t.m.pam = a.pam
          /\ t.m.phase = "session" => a.phase = "session"
      BY <1>6, <2>1, <2>2 DEF Live
    <3>2. t.m.verified = Append(s.m.verified, e) /\ t.m.pam = "success" BY <1>4, <1>8, <3>1
    <3>3. s.m.phase # "session" BY <3>1 DEF Progress
    <3>4. t.c.lists = s.c.lists BY <2>1, <3>1
    <3>5. e.name = "keyboard-interactive" /\ e.sub = "pam" OBVIOUS
    <3> HIDE DEF e
    <3>6. /\ ListsAt(am, t, Len(s.m.verified)) /\ Len(t.m.verified) = Len(s.m.verified) + 1
          /\ t.m.verified[Len(t.m.verified)] = e
      <4>1. ListsAt(am, t, Len(s.m.verified)) BY <3>1, <3>2, <3>4, AppendProgress, Zenon
      <4>2. IsSeq(s.m.verified) BY VerifiedLen
      <4> QED BY <3>2, <4>1, <4>2, AppendLast
    <3>7. Len(s.m.verified) \in Nat BY VerifiedLen
    <3>8. Counted(t.m) = Len(s.m.verified) BY <3>2, <3>6, <3>7 DEF Counted
    <3>9. LastIs(t.m.verified, "keyboard-interactive", "pam") BY <3>5, <3>6, <3>7 DEF LastIs
    <3> QED BY <1>4, <2>1, <3>1, <3>3, <3>6, <3>8, <3>9
  <2>3. Waits(am, t, s) BY <2>2 DEF Waits, Progress
  <2> QED BY <2>3 DEF send_userauth_info_request, t, x, a
<1> QED BY <1>7, <1>8

LEMMA auth2_challengeWaits ==
  ASSUME NEW am, NEW s, PairInv(s), NEW says, Progress(am, s)
  PROVE  Waits(am, auth2_challenge(s, says), s)
<1> DEFINE a == mm_answer_pam_init_ctx(Fresh(s.m))
           x == Ask(s, "PAM_INIT_CTX", a)
           y == [x EXCEPT !.c.kbdint = "device"]
<1>1. /\ Fields \subseteq DOMAIN s.m /\ Fields \subseteq DOMAIN Fresh(s.m)
      /\ MonInv(Fresh(s.m))
  BY FreshHeld, FreshInv DEF PairInv, MonInv
<1>2. MonInv(a) BY <1>1, SimpleAnswers, SameInv
<1>3. Fields \subseteq DOMAIN a BY <1>2 DEF MonInv
<1>4. Calm(a, Fresh(s.m)) BY <1>1, CalmAnswers
<1> HIDE DEF a
<1>5. PairInv(x) /\ Kept(x, s) BY <1>2, <1>3, <1>4, AskInv, AskCalm
<1> HIDE DEF x
<1>6. SameMonitor(y, x) /\ Kept(y, x)
  BY <1>5 DEF SameMonitor, PairInv, Kept, Live, ChildFields
<1>7. PairInv(y) /\ Kept(y, s) BY <1>5, <1>6, SamePair, KeptTrans
<1>8. auth2_challenge_start(x, says) \in {x, send_userauth_info_request(y, says)}
  BY Zenon DEF auth2_challenge_start
<1>9. Progress(am, y) /\ Waits(am, x, s) /\ Waits(am, s, s)
  BY <1>5, <1>7, KeptProgress, KeptWaits DEF Waits
<1> HIDE DEF y
<1>10. Waits(am, send_userauth_info_request(y, says), y)
  BY <1>7, <1>9, send_userauth_info_requestWaits
<1>11. Waits(am, send_userauth_info_request(y, says), s)
  BY <1>7, <1>10 DEF Waits, Kept
<1>12. auth2_challenge(s, says) \in {s, auth2_challenge_start(x, says)}
  BY Zenon DEF auth2_challenge, x, a
<1> QED BY <1>8, <1>9, <1>11, <1>12

\* After a method: the lists are where they were, and ok stands for the last check.
Tried(am, t, s, method) ==
  /\ Progress(am, t) /\ Earned(am, t, method, "")
  /\ Live(t) => Live(s) /\ t.c.phase = s.c.phase

\* Before a method: no conversation is open.
Ready(am, s) == Progress(am, s) /\ (Live(s) => s.m.pam # "success" /\ ~s.ok)

LEMMA WaitsTried ==
  ASSUME NEW am, NEW s, NEW t, NEW method, Ready(am, s), Waits(am, t, s)
  PROVE  Tried(am, t, s, method)
BY DEF Ready, Waits, Tried, Earned

\* s is asked about a check and answers a; t has the result for ok.
LEMMA CheckTried ==
  ASSUME NEW am, NEW s, PairInv(s), Ready(am, s), NEW t, NEW method, NEW key, NEW ret,
         Live(t) =>
           /\ Live(s) /\ t.c.phase = s.c.phase /\ t.c.lists = s.c.lists
           /\ t.m.pam = s.m.pam /\ (t.m.phase = "session" => s.m.phase = "session")
           /\ t.ok => ret
           /\ ret => t.m.verified = Append(s.m.verified, [name |-> method, sub |-> "",
                                                          key |-> key])
           /\ ~ret => t.m.verified = s.m.verified
  PROVE  Tried(am, t, s, method)
<1> SUFFICES ASSUME Live(t)
             PROVE  Progress(am, t) /\ Earned(am, t, method, "")
  BY DEF Tried, Progress, Earned
<1>1. Live(s) /\ s.m.pam # "success" /\ Progress(am, s) BY DEF Ready
<1>2. s.m.phase # "session" BY <1>1 DEF Progress
<1>3. t.m.phase # "session" BY <1>2
<1>4. CASE ret
  <2>1. t.m.verified = Append(s.m.verified, [name |-> method, sub |-> "", key |-> key])
    BY <1>4
  <2>2. t.c.lists = s.c.lists /\ t.m.pam = s.m.pam OBVIOUS
  <2> QED BY <1>1, <1>3, <2>1, <2>2, RecordProgress, Zenon
<1>5. CASE ~ret
  <2>1. ~t.ok BY <1>5
  <2>2. t.m.verified = s.m.verified BY <1>5
  <2>3. Kept(t, s) BY <1>1, <1>3, <2>1, <2>2 DEF Kept
  <2>4. Progress(am, t) BY <1>1, <2>3, KeptProgress
  <2> QED BY <2>1, <2>4 DEF Earned
<1> QED BY <1>4, <1>5

LEMMA mm_auth_passwordTried ==
  ASSUME NEW am, NEW s, PairInv(s), NEW password, NEW exhausted, Ready(am, s),
         PasswordNeeded
  PROVE  LET t == mm_auth_password(s, password, exhausted)
         IN Tried(am, t, s, "password") /\ (Live(t) /\ t.ok => Given(password))
<1> DEFINE f == Fresh(s.m)
           a == mm_answer_authpassword(f, password, exhausted)
           x == Ask(s, "AUTHPASSWORD", a)
           y == [x EXCEPT !.c = sshpam_set_maxtries_reached(x.c)]
           z == [x EXCEPT !.ok = x.m.ret]
           t == mm_auth_password(s, password, exhausted)
<1>1. /\ Fields \subseteq DOMAIN f /\ MonInv(f) /\ f.phase = s.m.phase
      /\ f.verified = s.m.verified /\ f.pam = s.m.pam
  BY FreshHeld, FreshInv DEF PairInv, MonInv
<1> HIDE DEF f
<1>2. MonInv(a) BY <1>1, mm_answer_authpasswordInv
<1>3. Fields \subseteq DOMAIN a BY <1>2 DEF MonInv
<1>4. Records(a, f, "password", "none") /\ (a.phase # "fatal" /\ a.ret => Given(password))
  BY <1>1, mm_answer_authpasswordRecords
<1> HIDE DEF a
<1>5. PairInv(x) BY <1>2, AskInv
<1>6. Live(x) =>
         /\ Live(s) /\ a.phase # "fatal" /\ x.c = s.c /\ x.ok = s.ok
         /\ x.m.verified = a.verified /\ x.m.pam = a.pam /\ x.m.ret = a.ret
         /\ x.m.phase = "session" => a.phase = "session"
  BY <1>3, AskHeld
<1> HIDE DEF x
<1>7. y.m = x.m /\ y.c.phase = x.c.phase /\ y.c.lists = x.c.lists /\ y.ok = x.ok
  BY <1>5 DEF PairInv, sshpam_set_maxtries_reached, ChildFields
<1>8. z.m = x.m /\ z.c = x.c /\ z.ok = x.m.ret BY <1>5 DEF PairInv
<1>9. t \in {y, z} BY Zenon DEF mm_auth_password, PasswordChecked, x, a, f
<1> HIDE DEF y, z, t
<1>10. Live(t) =>
         /\ Live(x) /\ t.m = x.m /\ t.c.phase = x.c.phase /\ t.c.lists = x.c.lists
         /\ t.ok => x.ok \/ x.m.ret
  BY <1>7, <1>8, <1>9 DEF Live
<1>11. Live(t) => ~s.ok BY <1>6, <1>10 DEF Ready
<1>12. Live(t) =>
           /\ Live(s) /\ t.c.phase = s.c.phase /\ t.c.lists = s.c.lists
           /\ t.m.pam = s.m.pam /\ (t.m.phase = "session" => s.m.phase = "session")
           /\ t.ok => a.ret
           /\ a.ret => Given(password)
           /\ a.ret => t.m.verified = Append(s.m.verified, [name |-> "password", sub |-> "",
                                                            key |-> "none"])
           /\ ~a.ret => t.m.verified = s.m.verified
  BY <1>1, <1>4, <1>6, <1>10, <1>11 DEF Records
<1>13. Tried(am, t, s, "password") BY <1>12, CheckTried
<1> QED BY <1>12, <1>13 DEF t

LEMMA userauth_noneTried ==
  ASSUME NEW am, NEW s, PairInv(s), NEW exhausted, Ready(am, s), PasswordNeeded
  PROVE  Tried(am, userauth_none(s, exhausted), s, "none")
<1> DEFINE x == [s EXCEPT !.c.none_enabled = FALSE]
           y == mm_auth_password(x, "", exhausted)
<1>1. SameMonitor(x, s) /\ Kept(x, s)
  BY DEF SameMonitor, PairInv, Kept, Live, ChildFields
<1>2. PairInv(x) BY <1>1, SamePair
<1>3. Waits(am, x, s) BY <1>1, KeptWaits DEF Ready
<1>4. Ready(am, x) BY <1>1, <1>3 DEF Ready, Waits, SameMonitor
<1> HIDE DEF x
<1>5. Tried(am, y, x, "password") /\ (Live(y) => ~y.ok) BY <1>2, <1>4, mm_auth_passwordTried DEF Given
<1>6. Tried(am, y, s, "none") BY <1>3, <1>5 DEF Tried, Earned, Waits
<1>7. userauth_none(s, exhausted) \in {x, y} BY Zenon DEF userauth_none, x
<1> QED BY <1>3, <1>6, <1>7, WaitsTried

LEMMA TriedSame ==
  ASSUME NEW am, NEW r, NEW s, NEW t, NEW method, Tried(am, s, r, method),
         t.m = s.m, t.c.phase = s.c.phase, t.c.lists = s.c.lists, t.c.kbdint = s.c.kbdint,
         Live(t) /\ t.ok => s.ok
  PROVE  Tried(am, t, r, method)
<1>1. Live(t) = Live(s) /\ \A n : ListsAt(am, t, n) = ListsAt(am, s, n)
  BY DEF Live, ListsAt
<1>2. Progress(am, t) BY <1>1 DEF Tried, Progress
<1>3. Earned(am, t, method, "") BY <1>1 DEF Tried, Earned
<1> QED BY <1>1, <1>2, <1>3 DEF Tried

LEMMA KeptReady ==
  ASSUME NEW am, NEW s, NEW t, PairInv(s), Ready(am, s), Kept(t, s)
  PROVE  Ready(am, t) /\ Waits(am, t, s)
<1>1. Progress(am, s) BY DEF Ready
<1>2. Waits(am, t, s) BY <1>1, KeptWaits
<1>3. Live(t) => Live(s) /\ (t.m.pam = "success" => s.m.pam = "success") /\ (t.ok => s.ok)
  BY DEF Kept
<1> QED BY <1>2, <1>3 DEF Ready, Waits

LEMMA KeyVerifyTried ==
  ASSUME NEW am, NEW s, PairInv(s), NEW key, NEW signed, NEW good \in BOOLEAN, Ready(am, s)
  PROVE  Tried(am, KeyVerify(s, key, signed, good), s, s.m.key.type)
<1> DEFINE f == Fresh(s.m)
           a == mm_answer_keyverify(f, key, signed, good)
           x == Ask(s, "KEYVERIFY", a)
           k == IF x.m.ret THEN x.c.prev_keys \cup {key} ELSE x.c.prev_keys
           y == [x EXCEPT !.ok = x.m.ret, !.c.prev_keys = k]
           method == s.m.key.type
<1>1. /\ Fields \subseteq DOMAIN f /\ MonInv(f) /\ f.phase = s.m.phase
      /\ f.verified = s.m.verified /\ f.pam = s.m.pam /\ f.key = s.m.key
  BY FreshHeld, FreshInv DEF PairInv, MonInv
<1> HIDE DEF f
<1>2. s.m.phase = "preauth" => MonInv(a) BY <1>1, mm_answer_keyverifyInv
<1>3. Records(a, f, method, key) /\ Fields \subseteq DOMAIN a
  BY <1>1, mm_answer_keyverifyRecords
<1> HIDE DEF a
<1>4. PairInv(x) BY <1>2, AskInv
<1>5. Live(x) =>
         /\ Live(s) /\ a.phase # "fatal" /\ x.c = s.c /\ x.ok = s.ok
         /\ x.m.verified = a.verified /\ x.m.pam = a.pam /\ x.m.ret = a.ret
         /\ x.m.phase = "session" => a.phase = "session"
  BY <1>3, AskHeld
<1>6. KeyVerify(s, key, signed, good) = y BY Zenon DEF KeyVerify, KeyVerified, a, f
<1> HIDE DEF x
<1>7. y.m = x.m /\ y.c.phase = x.c.phase /\ y.c.lists = x.c.lists /\ y.ok = x.m.ret
  <2> HIDE DEF k
  <2> QED BY <1>4 DEF PairInv, ChildFields
<1> HIDE DEF y, method
<1>8. Live(y) =>
           /\ Live(s) /\ y.c.phase = s.c.phase /\ y.c.lists = s.c.lists
           /\ y.m.pam = s.m.pam /\ (y.m.phase = "session" => s.m.phase = "session")
           /\ y.ok => a.ret
           /\ a.ret => y.m.verified = Append(s.m.verified, [name |-> method, sub |-> "",
                                                            key |-> key])
           /\ ~a.ret => y.m.verified = s.m.verified
  BY <1>1, <1>3, <1>5, <1>7 DEF Records, Live
<1>9. Tried(am, y, s, method) BY <1>8, CheckTried
<1> QED BY <1>6, <1>9 DEF method

LEMMA KeyAllowedKept ==
  ASSUME NEW s, PairInv(s), NEW type, NEW key PROVE Kept(KeyAllowed(s, type, key), s)
<1> DEFINE a == mm_answer_keyallowed(Fresh(s.m), type, key)
<1>1. Fields \subseteq DOMAIN Fresh(s.m) /\ MonInv(Fresh(s.m))
  BY FreshHeld, FreshInv DEF PairInv, MonInv
<1>2. MonInv(a) BY <1>1, mm_answer_keyallowedInv
<1>3. Fields \subseteq DOMAIN a /\ Calm(a, Fresh(s.m)) BY <1>1, <1>2, CalmAnswers DEF MonInv
<1> HIDE DEF a
<1>4. Kept(Ask(s, "KEYALLOWED", a), s) BY <1>3, AskCalm
<1> QED BY <1>4 DEF KeyAllowed, a

LEMMA userauth_pubkeyTried ==
  ASSUME NEW am, NEW s, PairInv(s), NEW key, NEW have_sig, NEW good \in BOOLEAN,
         Ready(am, s)
  PROVE  Tried(am, userauth_pubkey(s, key, have_sig, good), s, "publickey")
<1> DEFINE x == KeyAllowed(s, "publickey", key)
           y == [x EXCEPT !.c.postponed = TRUE]
           v == KeyVerify(x, key, <<x.c.user, x.c.style>>, good)
           o == sshauthopt_merge(v.c.auth_opts, KeyOptions[key])
           w == [v EXCEPT !.c.auth_opts = o, !.ok = o # NullOptions]
<1>1. PairInv(x) /\ Kept(x, s) BY KeyAllowedInv, KeyAllowedKept
<1> HIDE DEF x
<1>2. Ready(am, x) /\ Waits(am, x, s) BY <1>1, KeptReady
<1>3. Kept(y, x) BY <1>1 DEF Kept, Live, PairInv, ChildFields
<1>4. Kept(y, s) BY <1>1, <1>3, KeptTrans
<1> HIDE DEF y
<1>5. Waits(am, y, s) /\ Waits(am, s, s) BY <1>4, KeptReady DEF Waits, Ready
<1>6. PairInv(v) /\ Tried(am, v, x, x.m.key.type) BY <1>1, <1>2, KeyVerifyInv, KeyVerifyTried
<1> HIDE DEF v
<1>7. Tried(am, v, s, x.m.key.type) BY <1>2, <1>6 DEF Tried, Waits
<1>8. w.m = v.m /\ w.c.phase = v.c.phase /\ w.c.lists = v.c.lists /\ w.c.kbdint = v.c.kbdint
  <2> HIDE DEF o
  <2> QED BY <1>6 DEF PairInv, ChildFields
<1>9. ~Live(exit(v, "null auth_opts")) BY <1>6, exitDead
<1>10. \/ PubkeyVerified(v, key) = v
       \/ PubkeyVerified(v, key) = exit(v, "null auth_opts")
       \/ PubkeyVerified(v, key) = w /\ v.ok
  BY Zenon DEF PubkeyVerified
<1> HIDE DEF w
<1>11. v.ok => Tried(am, w, s, x.m.key.type) BY <1>7, <1>8, TriedSame
<1>12. Tried(am, PubkeyVerified(v, key), s, x.m.key.type)
  BY <1>7, <1>9, <1>10, <1>11 DEF Tried, Progress, Earned
<1>13. \/ PubkeyAllowed(x, key, have_sig, good) \in {x, y}
       \/ /\ x.m.key = [type |-> "publickey", key |-> key]
          /\ PubkeyAllowed(x, key, have_sig, good) = PubkeyVerified(v, key)
  BY Zenon DEF PubkeyAllowed, y, v
<1>14. Tried(am, PubkeyAllowed(x, key, have_sig, good), s, "publickey")
  BY <1>2, <1>5, <1>12, <1>13, WaitsTried
<1>15. userauth_pubkey(s, key, have_sig, good) \in
         {s, PubkeyAllowed(x, key, have_sig, good)}
  BY Zenon DEF userauth_pubkey, x
<1> QED BY <1>5, <1>14, <1>15, WaitsTried

LEMMA userauth_hostbasedTried ==
  ASSUME NEW am, NEW s, PairInv(s), NEW key, NEW good \in BOOLEAN, Ready(am, s)
  PROVE  Tried(am, userauth_hostbased(s, key, good), s, "hostbased")
<1> DEFINE x == KeyAllowed(s, "hostbased", key)
           v == KeyVerify(x, key, <<x.c.user, "">>, good)
<1>1. PairInv(x) /\ Kept(x, s) BY KeyAllowedInv, KeyAllowedKept
<1>2. \/ HostkeyAllowed(x, key, good) = x
      \/ /\ x.m.key = [type |-> "hostbased", key |-> key]
         /\ HostkeyAllowed(x, key, good) = v
  BY Zenon DEF HostkeyAllowed
<1> HIDE DEF x
<1>3. Ready(am, x) /\ Waits(am, x, s) /\ Waits(am, s, s) BY <1>1, KeptReady DEF Waits, Ready
<1>4. Tried(am, v, x, x.m.key.type) BY <1>1, <1>3, KeyVerifyTried
<1> HIDE DEF v
<1>5. Tried(am, v, s, x.m.key.type) BY <1>3, <1>4 DEF Tried, Waits
<1>6. Tried(am, HostkeyAllowed(x, key, good), s, "hostbased")
  BY <1>2, <1>3, <1>5, WaitsTried
<1>7. userauth_hostbased(s, key, good) \in {s, HostkeyAllowed(x, key, good)}
  BY Zenon DEF userauth_hostbased, x
<1> QED BY <1>3, <1>6, <1>7, WaitsTried

LEMMA AttemptTried ==
  ASSUME NEW am, NEW s, PairInv(s), NEW method \in Methods \cup {"none"}, NEW arg,
         method \in {"publickey", "hostbased"} => arg.good \in BOOLEAN,
         Ready(am, s), PasswordNeeded
  PROVE  Tried(am, Attempt(s, method, arg), s, method)
<1>1. Tried(am, authmethods(s, method, arg), s, method)
  <2>1. CASE method = "none" BY <2>1, userauth_noneTried DEF authmethods
  <2>2. CASE method = "password" BY <2>2, mm_auth_passwordTried DEF authmethods
  <2>3. CASE method = "publickey" BY <2>3, userauth_pubkeyTried DEF authmethods
  <2>4. CASE method = "hostbased" BY <2>4, userauth_hostbasedTried DEF authmethods
  <2>5. CASE method = "keyboard-interactive"
    <3>1. Waits(am, auth2_challenge(s, arg.says), s) BY auth2_challengeWaits DEF Ready
    <3> QED BY <2>5, <3>1, WaitsTried DEF authmethods
  <2> QED BY <2>1, <2>2, <2>3, <2>4, <2>5 DEF Methods
<1>2. Waits(am, s, s) BY DEF Waits, Ready
<1>3. Tried(am, s, s, method) BY <1>2, WaitsTried
<1> QED BY <1>1, <1>3 DEF Attempt

\* The lists of AuthenticationMethods.
IsLists(am) == am \in Seq(Seq(Entry) \ {<<>>})

LEMMA SetupWaits ==
  ASSUME NEW s, PairInv(s), NEW user, NEW service, NEW style,
         IsLists(AuthenticationMethods), Progress(AuthenticationMethods, s)
  PROVE  Waits(AuthenticationMethods, Setup(s, user, service, style), s)
<1> DEFINE am == AuthenticationMethods
           a == mm_getpwnamallow(s, user)
           b == mm_start_pam(a)
           c == mm_inform_authserv(b, style)
           l == auth2_setup_methods_lists(c.c.enabled)
           v == c.m.valid /\ service = "ssh-connection"
           x == [c EXCEPT !.c.attempt = 1, !.c.user = user, !.c.style = style,
                          !.c.service = service, !.c.lists = l, !.c.valid = v]
           y == [s EXCEPT !.c.attempt = 2]
<1> HIDE DEF am
<1>1. PairInv(a) /\ Kept(a, s)
  <2> DEFINE d == mm_answer_pwnamallow(Fresh(s.m), user)
  <2>1. MonInv(Fresh(s.m)) /\ Fields \subseteq DOMAIN Fresh(s.m) BY FreshInv DEF MonInv
  <2>2. MonInv(d) /\ Calm(d, Fresh(s.m)) BY <2>1, SimpleAnswers, SameInv, CalmAnswers
  <2> HIDE DEF d
  <2>3. Fields \subseteq DOMAIN d BY <2>2 DEF MonInv
  <2>4. PairInv(Ask(s, "PWNAM", d)) /\ Kept(Ask(s, "PWNAM", d), s)
    BY <2>2, <2>3, AskInv, AskCalm
  <2> QED BY <2>4 DEF mm_getpwnamallow, d
<1> HIDE DEF a
<1>2. PairInv(b) /\ Kept(b, a)
  <2> DEFINE d == mm_answer_pam_start(Fresh(a.m))
  <2>1. MonInv(Fresh(a.m)) /\ Fields \subseteq DOMAIN Fresh(a.m) BY <1>1, FreshInv DEF MonInv
  <2>2. MonInv(d) /\ Calm(d, Fresh(a.m)) BY <2>1, SimpleAnswers, SameInv, CalmAnswers
  <2> HIDE DEF d
  <2>3. Fields \subseteq DOMAIN d BY <2>2 DEF MonInv
  <2>4. PairInv(Ask(a, "PAM_START", d)) /\ Kept(Ask(a, "PAM_START", d), a)
    BY <1>1, <2>2, <2>3, AskInv, AskCalm
  <2>5. Kept(a, a) BY DEF Kept
  <2> QED BY <1>1, <2>4, <2>5 DEF mm_start_pam, d
<1> HIDE DEF b
<1>3. PairInv(c) /\ Kept(c, b)
  <2> DEFINE d == mm_answer_authserv(Fresh(b.m), style)
  <2>1. MonInv(Fresh(b.m)) /\ Fields \subseteq DOMAIN Fresh(b.m) BY <1>2, FreshInv DEF MonInv
  <2>2. MonInv(d) /\ Calm(d, Fresh(b.m)) BY <2>1, SimpleAnswers, SameInv, CalmAnswers
  <2> HIDE DEF d
  <2>3. Fields \subseteq DOMAIN d BY <2>2 DEF MonInv
  <2>4. PairInv(Ask(b, "AUTHSERV", d)) /\ Kept(Ask(b, "AUTHSERV", d), b)
    BY <1>2, <2>2, <2>3, AskInv, AskCalm
  <2> QED BY <2>4 DEF mm_inform_authserv, d
<1> HIDE DEF c
<1>4. Kept(c, s) BY <1>1, <1>2, <1>3, KeptTrans
<1>5. Waits(am, c, s) BY <1>4, KeptWaits DEF am
<1>6. /\ x.m = c.m /\ x.ok = c.ok /\ x.c.phase = c.c.phase /\ x.c.kbdint = c.c.kbdint
      /\ x.c.lists = l
  <2> HIDE DEF l, v
  <2> QED BY <1>3 DEF PairInv, ChildFields
<1>7. DOMAIN l \subseteq DOMAIN am /\ \A i \in DOMAIN l : l[i] = am[i]
  BY DEF auth2_setup_methods_lists, am
<1> HIDE DEF x, l
<1>8. Waits(am, x, s)
  <2> SUFFICES ASSUME Live(x)
               PROVE  /\ x.m.phase # "session" /\ Live(s) /\ x.c.phase = s.c.phase
                      /\ x.ok => s.ok
                      /\ x.m.pam = "success" =>
                           /\ x.c.kbdint # "none"
                           /\ LastIs(x.m.verified, "keyboard-interactive", "pam")
                      /\ ListsAt(am, x, Counted(x.m))
    BY DEF Waits, Progress
  <2>1. Live(c) BY <1>6 DEF Live
  <2>2. /\ c.m.phase # "session" /\ Live(s) /\ c.c.phase = s.c.phase
        /\ c.ok => s.ok
        /\ c.m.pam = "success" =>
             /\ c.c.kbdint # "none"
             /\ LastIs(c.m.verified, "keyboard-interactive", "pam")
    BY <1>5, <2>1 DEF Waits, Progress
  <2>3. Len(c.m.verified) \in Nat BY <1>3, VerifiedLen
  <2>4. Counted(c.m) \in Nat BY <2>2, <2>3 DEF Counted, LastIs
  <2>5. ASSUME NEW i \in DOMAIN l
        PROVE  i \in DOMAIN am /\ Reached(am[i], l[i], x.m.verified, Counted(c.m))
    <3>1. i \in DOMAIN am /\ l[i] = am[i] BY <1>7
    <3>2. am[i] \in Seq(Entry) BY <3>1 DEF IsLists, am
    <3> QED BY <2>4, <3>1, <3>2, ReachedNone
  <2>6. ListsAt(am, x, Counted(x.m)) BY <1>6, <2>5 DEF ListsAt
  <2> QED BY <1>6, <2>2, <2>6
<1>9. PairInv(x)
  <2>1. SameMonitor(x, c)
    <3> HIDE DEF v
    <3> QED BY <1>3 DEF SameMonitor, PairInv, x
  <2> QED BY <1>3, <2>1, SamePair
<1>10. FirstRequest(c, user, service, style) \in {x, exit(x, "no methods")}
  BY Zenon DEF FirstRequest, x, l
<1>11. ~Live(exit(x, "no methods")) /\ ~Live(exit(s, "change of user"))
  BY <1>9, exitDead
<1>12. Kept(y, s) BY DEF Kept, Live, PairInv, ChildFields
<1>13. Waits(am, y, s) BY <1>12, KeptWaits DEF am
<1>14. Setup(s, user, service, style) \in
         {FirstRequest(c, user, service, style), exit(s, "change of user"), y}
  BY Zenon DEF Setup, a, b, c
<1> HIDE DEF y
<1>15. Waits(am, Setup(s, user, service, style), s)
  BY <1>8, <1>10, <1>11, <1>13, <1>14 DEF Waits, Progress
<1> QED BY <1>15 DEF am

\* The checks in v are those of one of the lists, in its order, or any where there is none.
Done(am, v) ==
  IF am = <<>> THEN v # <<>> ELSE \E i \in DOMAIN am : Met(am[i], v)

\* After a request: the user is authenticated, or the child waits for the next request.
Finished(am, t, s) ==
  Live(t) =>
    \/ t.c.phase = "success" /\ t.m.phase # "session" /\ Done(am, t.m.verified)
    \/ Live(s) /\ t.c.phase = s.c.phase /\ Progress(am, t)

\* A method that says ok advances the lists by the check that was made for it.
LEMMA UpdateProgress ==
  ASSUME NEW am, NEW s, PairInv(s), Live(s), s.ok, NEW method, NEW sub,
         Progress(am, s), Earned(am, s, method, sub)
  PROVE  LET upd == auth2_update_methods_lists(s.c.lists, method, sub)
         IN /\ \A i \in DOMAIN upd.lists :
                 i \in DOMAIN am /\ Reached(am[i], upd.lists[i], s.m.verified, Len(s.m.verified))
            /\ upd.complete => \E i \in DOMAIN am : Met(am[i], s.m.verified)
<1> DEFINE upd == auth2_update_methods_lists(s.c.lists, method, sub)
           v == s.m.verified
           n == Len(v) - 1
           lists == s.c.lists
<1>1. IsSeq(v) /\ Len(v) \in Nat BY VerifiedLen
<1>2. LastIs(v, method, sub) /\ ListsAt(am, s, n) BY DEF Earned
<1>3. n \in Nat /\ n + 1 = Len(v) BY <1>1, <1>2 DEF LastIs
<1>4. \A i \in DOMAIN lists : i \in DOMAIN am /\ Reached(am[i], lists[i], v, n)
  BY <1>2 DEF ListsAt
<1>5. v[n + 1].name = method /\ v[n + 1].sub = sub BY <1>2, <1>3 DEF LastIs
<1> HIDE DEF n, v, lists
<1>6. Updated(am, lists, upd, v, n + 1)
  <2>1. Updated(am, lists, auth2_update_methods_lists(lists, method, sub), v, n + 1)
    BY <1>3, <1>4, <1>5, UpdateReached
  <2> QED BY <2>1 DEF lists
<1> HIDE DEF upd
<1>7. upd.complete => \E i \in DOMAIN am : Met(am[i], v)
  <2> SUFFICES ASSUME upd.complete PROVE \E i \in DOMAIN am : Met(am[i], v)
    OBVIOUS
  <2>1. PICK i \in DOMAIN lists : \E rest : Reached(am[i], rest, v, n + 1) /\ Len(rest) = 0
    BY <1>6 DEF Updated
  <2>2. Met(am[i], v) BY <1>1, <1>3, <2>1, ReachedAll
  <2> QED BY <1>4, <2>2
<1>8. \A i \in DOMAIN upd.lists : i \in DOMAIN am /\ Reached(am[i], upd.lists[i], v, Len(v))
  BY <1>3, <1>4, <1>6 DEF Updated
<1> QED BY <1>7, <1>8 DEF upd, v

LEMMA FailureProgress ==
  ASSUME NEW am, NEW s, PairInv(s), Progress(am, s), Live(s), NEW partial, NEW method
  PROVE  Finished(am, Failure(s, partial, method), s)
<1> DEFINE n == IF partial \/ (s.c.attempt = 1 /\ method = "none") THEN s.c.failures
                ELSE s.c.failures + 1
           x == [s EXCEPT !.c.failures = n]
<1>1. PairInv(x) /\ Kept(x, s)
  <2> HIDE DEF n
  <2>1. SameMonitor(x, s) /\ Kept(x, s)
    BY DEF SameMonitor, PairInv, Kept, Live, ChildFields
  <2> QED BY <2>1, SamePair
<1>2. Failure(s, partial, method) \in {x, exit(x, "maxtries")} BY Zenon DEF Failure
<1> HIDE DEF x
<1>3. ~Live(exit(x, "maxtries")) BY <1>1, exitDead
<1>4. Finished(am, x, s) BY <1>1, KeptProgress DEF Finished, Kept
<1> QED BY <1>2, <1>3, <1>4 DEF Finished

LEMMA userauth_finishDone ==
  ASSUME NEW s, PairInv(s), NEW method, NEW sub, NEW account,
         Progress(AuthenticationMethods, s), Earned(AuthenticationMethods, s, method, sub)
  PROVE  Finished(AuthenticationMethods, userauth_finish(s, method, sub, account), s)
<1> DEFINE am == AuthenticationMethods
           upd == auth2_update_methods_lists(s.c.lists, method, sub)
           l == upd.lists
           ok == s.ok /\ ~(IsRoot(s.c) /\ ~auth_root_allowed(s.c, method))
           several == ok /\ am # <<>>
           x == [s EXCEPT !.c.lists = l]
           s1 == IF several THEN x ELSE s
           y == [s1 EXCEPT !.m = mm_answer_pam_account(s1.m, account)]
           s2 == IF UsePAM THEN y ELSE s1
           z == [s2 EXCEPT !.c.phase = "success"]
           t == userauth_finish(s, method, sub, account)
<1>1. \/ t \in {s, exit(s, "internal error"), exit(s, "null auth_opts"),
                exit(s, "method not in lists"), exit(s2, "account")}
      \/ t = Failure(s1, ok, method) /\ s.c.phase # "gone"
      \/ t = z /\ ok /\ (several => upd.complete) /\ s.c.phase # "gone"
  BY Zenon DEF userauth_finish
<1>2. ok => s.ok OBVIOUS
<1>3. several <=> ok /\ am # <<>> OBVIOUS
<1> HIDE DEF am, ok, several, t, upd
<1>4. /\ x.m = s.m /\ x.ok = s.ok /\ x.c.phase = s.c.phase /\ x.c.kbdint = s.c.kbdint
      /\ x.c.lists = l /\ SameMonitor(x, s)
  <2> HIDE DEF l
  <2> QED BY DEF PairInv, ChildFields, SameMonitor
<1>5. PairInv(x) BY <1>4, SamePair
<1> HIDE DEF x
<1>6. PairInv(s1) /\ s1.m = s.m /\ s1.c.phase = s.c.phase BY <1>4, <1>5
<1>7. ASSUME Live(s), ok
      PROVE  /\ \A i \in DOMAIN l :
                  i \in DOMAIN am /\ Reached(am[i], l[i], s.m.verified, Len(s.m.verified))
             /\ upd.complete => \E i \in DOMAIN am : Met(am[i], s.m.verified)
  BY <1>2, <1>7, UpdateProgress DEF upd, am
<1>8. Progress(am, s1)
  <2>1. ASSUME Live(s), several PROVE Progress(am, x)
    <3>1. s.m.pam # "success" BY <1>2, <1>3, <2>1 DEF Earned
    <3>2. Counted(x.m) = Len(s.m.verified) BY <1>4, <3>1 DEF Counted
    <3>3. ListsAt(am, x, Counted(x.m)) BY <1>3, <1>4, <1>7, <2>1, <3>2 DEF ListsAt
    <3>4. s.m.phase # "session" BY <2>1 DEF Progress
    <3> QED BY <1>4, <3>1, <3>3, <3>4 DEF Progress
  <2>2. ~Live(s) => ~Live(x) BY <1>4 DEF Live
  <2>3. Progress(am, s) BY DEF am
  <2> QED BY <2>1, <2>2, <2>3 DEF Progress
<1>9. ASSUME Live(s), ok, several => upd.complete PROVE Done(am, s.m.verified)
  <2>1. CASE am = <<>>
    <3>1. LastIs(s.m.verified, method, sub) BY <1>2, <1>9 DEF Earned
    <3>2. s.m.verified # <<>> BY <3>1 DEF LastIs
    <3> QED BY <2>1, <3>2 DEF Done
  <2>2. CASE am # <<>> BY <1>3, <1>7, <1>9, <2>2 DEF Done
  <2> QED BY <2>1, <2>2
<1> HIDE DEF s1, l
<1>10. PairInv(y) /\ y.c = s1.c /\ (Live(y) =>
          /\ Live(s1) /\ y.m.verified = s1.m.verified
          /\ y.m.phase = "session" => s1.m.phase = "session")
  <2> DEFINE n == mm_answer_pam_account(s1.m, account)
  <2>1. MonInv(n) BY <1>6, SimpleAnswers, SameInv DEF PairInv
  <2>2. Calm(n, s1.m) BY <1>6, CalmAnswers DEF PairInv, MonInv
  <2>3. y = [s1 EXCEPT !.m = n] OBVIOUS
  <2> HIDE DEF n, y
  <2>4. PairInv(y) /\ y.c = s1.c /\ y.m = n BY <1>6, <2>1, <2>3 DEF PairInv
  <2> QED BY <2>2, <2>4 DEF Calm, Live
<1> HIDE DEF y
<1>11. PairInv(s2) /\ s2.c = s1.c /\ (Live(s2) =>
          /\ Live(s1) /\ s2.m.verified = s1.m.verified
          /\ s2.m.phase = "session" => s1.m.phase = "session")
  BY <1>6, <1>10
<1> HIDE DEF s2
<1>12. /\ ~Live(exit(s, "internal error")) /\ ~Live(exit(s, "null auth_opts"))
       /\ ~Live(exit(s, "method not in lists")) /\ ~Live(exit(s2, "account"))
  BY <1>11, exitDead
<1>13. z.m = s2.m /\ z.c.phase = "success" BY <1>11 DEF PairInv, ChildFields
<1> HIDE DEF z
<1>14. CASE t \in {s, exit(s, "internal error"), exit(s, "null auth_opts"),
                   exit(s, "method not in lists"), exit(s2, "account")}
  <2>1. Finished(am, s, s) BY DEF Finished, am
  <2>2. Finished(am, t, s) BY <1>12, <1>14, <2>1 DEF Finished
  <2> QED BY <2>2 DEF t, am
<1>15. CASE t = Failure(s1, ok, method) /\ s.c.phase # "gone"
  <2>1. Live(s1) => Finished(am, t, s1) BY <1>6, <1>8, <1>15, FailureProgress
  <2>2. ASSUME ~Live(s1) PROVE ~Live(t)
    <3>1. s1.m.phase = "fatal" BY <1>6, <1>15, <2>2 DEF Live
    <3>2. t.m = s1.m
      <4> DEFINE n == IF ok \/ (s1.c.attempt = 1 /\ method = "none") THEN s1.c.failures
                      ELSE s1.c.failures + 1
                 q == [s1 EXCEPT !.c.failures = n]
      <4>1. t \in {q, exit(q, "maxtries")} BY <1>15, Zenon DEF Failure
      <4>2. q.m = s1.m /\ DOMAIN q = DOMAIN s1
        <5> HIDE DEF n
        <5> QED BY <1>6 DEF PairInv
      <4> HIDE DEF q
      <4> QED BY <1>6, <4>1, <4>2 DEF exit, PairInv
    <3> QED BY <3>1, <3>2 DEF Live
  <2>3. Finished(am, t, s) BY <1>6, <2>1, <2>2 DEF Finished, Live
  <2> QED BY <2>3 DEF t, am
<1>16. CASE t = z /\ ok /\ (several => upd.complete) /\ s.c.phase # "gone"
  <2> SUFFICES ASSUME Live(t)
               PROVE  t.c.phase = "success" /\ t.m.phase # "session" /\ Done(am, t.m.verified)
    BY DEF Finished, t, am
  <2>1. s2.m.phase # "fatal" /\ s2.c.phase # "gone" BY <1>6, <1>11, <1>13, <1>16 DEF Live
  <2>2. Live(s1) /\ t.m.verified = s.m.verified /\ (t.m.phase = "session" => s1.m.phase = "session")
    BY <1>6, <1>11, <1>13, <1>16, <2>1 DEF Live
  <2>3. Live(s) BY <1>6, <2>2 DEF Live
  <2>4. s1.m.phase # "session" BY <1>8, <2>2 DEF Progress
  <2> QED BY <1>9, <1>13, <1>16, <2>2, <2>3, <2>4
<1> QED BY <1>1, <1>14, <1>15, <1>16

LEMMA input_userauth_requestDone ==
  ASSUME NEW s, PairInv(s), NEW r, r.method \in Methods \cup {"none"}, NEW arg,
         r.method \in {"publickey", "hostbased"} => arg.good \in BOOLEAN,
         IsLists(AuthenticationMethods), PasswordNeeded,
         Progress(AuthenticationMethods, s), ~s.ok
  PROVE  Finished(AuthenticationMethods, input_userauth_request(s, r, arg), s)
<1> DEFINE am == AuthenticationMethods
           a == Setup(s, r.user, r.service, r.style)
           b == auth2_challenge_stop(a)
           c == [b EXCEPT !.c.postponed = FALSE]
           d == Attempt(c, r.method, arg)
           t == input_userauth_request(s, r, arg)
<1> HIDE DEF am
<1>1. PairInv(a) /\ Waits(am, a, s) BY SetupInv, SetupWaits DEF am
<1> HIDE DEF a
<1>2. PairInv(b) /\ Kept(b, a) /\ (Live(b) => b.c.kbdint = "none")
  BY <1>1, auth2_challenge_stopInv, auth2_challenge_stopKept
<1> HIDE DEF b
<1>3. SameMonitor(c, b) /\ Kept(c, b) /\ c.m = b.m /\ c.c.kbdint = b.c.kbdint
  BY <1>2 DEF SameMonitor, PairInv, Kept, Live, ChildFields
<1>4. PairInv(c) BY <1>2, <1>3, SamePair
<1>5. Kept(c, a) BY <1>2, <1>3, KeptTrans
<1> HIDE DEF c
<1>6. Waits(am, c, a) BY <1>1, <1>5, KeptWaits DEF Waits
<1>7. Waits(am, c, s) BY <1>1, <1>6 DEF Waits
<1>8. Live(c) => c.c.kbdint = "none" BY <1>2, <1>3 DEF Kept
<1>9. Ready(am, c) BY <1>7, <1>8 DEF Ready, Waits, Progress
<1>10. PairInv(d) /\ Tried(am, d, c, r.method) BY <1>4, <1>9, AttemptInv, AttemptTried
<1>11. t = userauth_finish(d, r.method, "", r.account)
  BY Zenon DEF input_userauth_request, a, b, c
<1> HIDE DEF d, t
<1>12. Finished(am, t, d) BY <1>10, <1>11, userauth_finishDone DEF Tried, am
<1>13. Live(d) => Live(s) /\ d.c.phase = s.c.phase BY <1>7, <1>10 DEF Tried, Waits
<1>14. Finished(am, t, s) BY <1>12, <1>13 DEF Finished
<1> QED BY <1>14 DEF t, am

LEMMA input_userauth_info_responseDone ==
  ASSUME NEW s, PairInv(s), NEW n, NEW right, NEW says, NEW account,
         Progress(AuthenticationMethods, s), ~s.ok
  PROVE  Finished(AuthenticationMethods,
                  input_userauth_info_response(s, n, right, says, account), s)
<1> DEFINE am == AuthenticationMethods
           a == [s EXCEPT !.c.postponed = FALSE]
           q == mm_answer_pam_respond(Fresh(a.m), right)
           b == Ask(a, "PAM_RESPOND", q)
           c == auth2_challenge_stop(b)
           x == [c EXCEPT !.ok = b.c.valid]
           res == sshpam_respond(s.m)
           d == Responded(b, res, says)
           t == input_userauth_info_response(s, n, right, says, account)
<1>1. SameMonitor(a, s) /\ Kept(a, s) BY DEF SameMonitor, PairInv, Kept, Live, ChildFields
<1>2. PairInv(a) BY <1>1, SamePair
<1> HIDE DEF a, am
<1>3. MonInv(q) /\ Fields \subseteq DOMAIN q /\ Calm(q, Fresh(a.m))
  <2>1. MonInv(Fresh(a.m)) /\ Fields \subseteq DOMAIN Fresh(a.m) BY <1>2, FreshInv DEF MonInv
  <2> QED BY <2>1, SimpleAnswers, SameInv, CalmAnswers DEF MonInv
<1> HIDE DEF q
<1>4. PairInv(b) /\ Kept(b, s) BY <1>1, <1>2, <1>3, AskInv, AskCalm, KeptTrans
<1> HIDE DEF b
<1>5. PairInv(c) /\ Kept(c, b) /\ (Live(c) => c.c.kbdint = "none")
  BY <1>4, auth2_challenge_stopInv, auth2_challenge_stopKept
<1>6. Kept(c, s) BY <1>4, <1>5, KeptTrans
<1>7. \/ res = 0 /\ d = x
      \/ d \in {send_userauth_info_request(b, says), c}
  <2> HIDE DEF res
  <2>1. ASSUME res = 0 PROVE d = x BY <2>1 DEF Responded
  <2>2. ASSUME res # 0 PROVE d \in {send_userauth_info_request(b, says), c}
    BY <2>2 DEF Responded
  <2> QED BY <2>1, <2>2
<1> HIDE DEF c
<1>8. Waits(am, b, s) /\ Waits(am, c, s) BY <1>4, <1>6, KeptWaits DEF am
<1>9. Waits(am, send_userauth_info_request(b, says), s)
  BY <1>4, <1>8, send_userauth_info_requestWaits DEF Waits
<1>10. \A u : Waits(am, u, s) => Earned(am, u, "keyboard-interactive", "pam")
  BY DEF Waits, Earned
<1>11. ASSUME res = 0
       PROVE  /\ Progress(am, x) /\ Earned(am, x, "keyboard-interactive", "pam")
              /\ Live(x) => Live(s) /\ x.c.phase = s.c.phase
  <2>1. s.m.pam = "success" BY <1>11 DEF sshpam_respond
  <2>2. x.m = c.m /\ x.c = c.c BY <1>5 DEF PairInv
  <2> HIDE DEF x
  <2>3. Progress(am, x) BY <1>8, <2>2 DEF Waits, Progress, Live, ListsAt
  <2>4. Live(x) => Live(c) BY <2>2 DEF Live
  <2>5. ASSUME Live(c)
        PROVE  /\ c.m.pam # "success" /\ LastIs(c.m.verified, "keyboard-interactive", "pam")
               /\ ListsAt(am, c, Len(c.m.verified) - 1)
    <3>1. c.m.pam # "success" BY <1>5, <1>8, <2>5 DEF Waits, Progress
    <3>2. Live(s) /\ c.m.verified = s.m.verified /\ c.c.lists = s.c.lists
      BY <1>6, <2>5 DEF Kept
    <3>3. LastIs(s.m.verified, "keyboard-interactive", "pam") /\ ListsAt(am, s, Counted(s.m))
      BY <2>1, <3>2 DEF Progress, am
    <3> QED BY <2>1, <3>1, <3>2, <3>3 DEF Counted, ListsAt
  <2>6. Earned(am, x, "keyboard-interactive", "pam")
    BY <2>2, <2>4, <2>5 DEF Earned, ListsAt
  <2> QED BY <1>8, <2>2, <2>3, <2>4, <2>6 DEF Waits
<1>12. PairInv(x)
  <2>1. SameMonitor(x, c) BY <1>5 DEF SameMonitor, PairInv
  <2> QED BY <1>5, <2>1, SamePair
<1> HIDE DEF x, res, d
<1>13. /\ PairInv(d) /\ Progress(am, d) /\ Earned(am, d, "keyboard-interactive", "pam")
       /\ Live(d) => Live(s) /\ d.c.phase = s.c.phase
  <2>1. CASE res = 0 /\ d = x BY <1>11, <1>12, <2>1
  <2>2. CASE d \in {send_userauth_info_request(b, says), c}
    <3>1. PairInv(d) BY <1>4, <1>5, <2>2, send_userauth_info_requestInv
    <3>2. Waits(am, d, s) BY <1>8, <1>9, <2>2
    <3> QED BY <1>10, <3>1, <3>2 DEF Waits
  <2> QED BY <1>7, <2>1, <2>2
<1>14. t \in {exit(s, "wrong number of replies"),
              userauth_finish(d, "keyboard-interactive", "pam", account)}
  BY Zenon DEF input_userauth_info_response, a, b, d, q, res
<1> HIDE DEF t
<1>15. Finished(am, userauth_finish(d, "keyboard-interactive", "pam", account), d)
  BY <1>13, userauth_finishDone DEF am
<1>16. ~Live(exit(s, "wrong number of replies")) BY exitDead
<1>17. Finished(am, t, s) BY <1>13, <1>14, <1>15, <1>16 DEF Finished
<1> QED BY <1>17 DEF t, am
-----------------------------------------------------------------------------
(* The actions. *)

LEMMA StepInv ==
  ASSUME NEW s, PairInv(s), Step(s), ChildFields \subseteq DOMAIN child
  PROVE  MonInv(monitor') /\ ChildFields \subseteq DOMAIN child'
<1> DEFINE ph == IF s.c.phase = "gone" /\ s.m.phase # "fatal" THEN "gone" ELSE s.m.phase
           n == [s.m EXCEPT !.phase = ph, !.ret = FALSE, !.auth_method = "unknown",
                            !.auth_submethod = ""]
<1>1. monitor' = n BY Zenon DEF Step
<1>2. ph = "session" => s.m.phase = "session" OBVIOUS
<1>3. MonInv(s.m) BY DEF PairInv
<1>4. "phase" \in DOMAIN s.m BY <1>3 DEF MonInv, Fields
<1> HIDE DEF ph
<1>5. Same(n, s.m) BY <1>2, <1>4 DEF Same
<1>6. ChildFields \subseteq DOMAIN child'
  <2>1. child' \in {[child EXCEPT !.phase = "gone", !.why = "monitor"], s.c} BY Zenon DEF Step
  <2> QED BY <2>1 DEF PairInv
<1> QED BY <1>1, <1>3, <1>5, <1>6, SameInv

BothInv == MonInv(monitor) /\ ChildFields \subseteq DOMAIN child

LEMMA StateInv == ASSUME BothInv PROVE PairInv(State)
BY DEF BothInv, PairInv, State

LEMMA InitInv == Init => BothInv
<1> SUFFICES ASSUME Init PROVE BothInv
  OBVIOUS
<1>0. ChildFields \subseteq DOMAIN child BY DEF Init, ChildFields
<1>1. /\ Fields \subseteq DOMAIN monitor
      /\ monitor.key = NoKey /\ monitor.verified = <<>> /\ monitor.phase = "preauth"
      /\ monitor.auth_opts = sshauthopt_new_with_keys_defaults
  BY DEF Init, Fields
<1>2. <<>> \in Seq({}) /\ DOMAIN <<>> = {} OBVIOUS
<1>3. KeyInv(monitor) BY <1>1, <1>2 DEF KeyInv, IsSeq, NoKey
<1>4. OptInv(monitor)
  <2>1. IsOpts(sshauthopt_new_with_keys_defaults)
    BY DEF IsOpts, sshauthopt_new_with_keys_defaults
  <2> QED BY <1>1, <1>2, <2>1 DEF OptInv, NoKey
<1> QED BY <1>0, <1>1, <1>3, <1>4 DEF MonInv, BothInv

LEMMA NextInv == BothInv /\ [Next]_vars => BothInv'
<1> SUFFICES ASSUME BothInv, [Next]_vars PROVE MonInv(monitor') /\ ChildFields \subseteq DOMAIN child'
  BY DEF BothInv
<1>0. PairInv(State) /\ ChildFields \subseteq DOMAIN child BY StateInv DEF BothInv
<1>1. CASE request_none
  <2>1. PICK r \in Request("none"), arg \in [exhausted : Exhausted] :
          Step(input_userauth_request(State, r, arg))
    BY <1>1 DEF request_none
  <2>2. r.method = "none" BY DEF Request
  <2> QED BY <1>0, <2>1, <2>2, input_userauth_requestInv, StepInv
<1>2. CASE request_password
  <2>1. PICK r \in Request("password"),
            arg \in [password : Passwords, exhausted : Exhausted] :
          Step(input_userauth_request(State, r, arg))
    BY <1>2 DEF request_password
  <2>2. r.method = "password" BY DEF Request
  <2> QED BY <1>0, <2>1, <2>2, input_userauth_requestInv, StepInv DEF Methods
<1>3. CASE request_publickey
  <2>1. PICK r \in Request("publickey"),
            arg \in [key : Keys, have_sig : BOOLEAN, good : BOOLEAN] :
          Step(input_userauth_request(State, r, arg))
    BY <1>3 DEF request_publickey
  <2>2. r.method = "publickey" /\ arg.good \in BOOLEAN BY DEF Request
  <2> QED BY <1>0, <2>1, <2>2, input_userauth_requestInv, StepInv DEF Methods
<1>4. CASE request_hostbased
  <2>1. PICK r \in Request("hostbased"), arg \in [key : Keys, good : BOOLEAN] :
          Step(input_userauth_request(State, r, arg))
    BY <1>4 DEF request_hostbased
  <2>2. r.method = "hostbased" /\ arg.good \in BOOLEAN BY DEF Request
  <2> QED BY <1>0, <2>1, <2>2, input_userauth_requestInv, StepInv DEF Methods
<1>5. CASE request_kbdint
  <2>1. PICK r \in Request("keyboard-interactive"),
            arg \in [says : {"prompt", "failure", "message"}] :
          Step(input_userauth_request(State, r, arg))
    BY <1>5 DEF request_kbdint
  <2>2. r.method = "keyboard-interactive" BY DEF Request
  <2> QED BY <1>0, <2>1, <2>2, input_userauth_requestInv, StepInv DEF Methods
<1>6. CASE info_response
  <2>1. PICK n, right, account, says :
          Step(input_userauth_info_response(State, n, right, says, account))
    BY <1>6 DEF info_response
  <2> QED BY <1>0, <2>1, input_userauth_info_responseInv, StepInv
<1>7. CASE mm_send_keystate
  <2>0. ChildFields \subseteq DOMAIN child' BY <1>7 DEF mm_send_keystate, BothInv
  <2>1. CASE monitor' = [monitor EXCEPT !.phase = "session"] /\ monitor.auth_opts # NullOptions
    BY <2>0, <2>1 DEF BothInv, MonInv, Fields, KeyInv, OptInv
  <2>2. CASE \E why : monitor' = fatal(monitor, why)
    BY <2>0, <2>2, fatalSame, SameInv DEF BothInv
  <2> QED BY <1>7, <2>1, <2>2 DEF mm_send_keystate
<1>8. CASE UNCHANGED vars BY <1>8 DEF vars, BothInv
<1> QED BY <1>1, <1>2, <1>3, <1>4, <1>5, <1>6, <1>7, <1>8 DEF Next

(* No key is accepted twice on a connection, by publickey or hostbased,    *)
(* whatever is configured and whatever the client sends: with a list such  *)
(* as publickey,publickey two keys are needed                              *)
(* (auth2-pubkey.c:auth2_key_already_used, monitor.c:mm_answer_keyallowed). *)
THEOREM NoKeyTwice == Spec => []KeysUsedOnce
<1>1. BothInv => KeysUsedOnce BY DEF BothInv, MonInv, KeyInv, KeysUsedOnce
<1> QED BY InitInv, NextInv, <1>1, PTL DEF Spec

(* Once the session has started, the forced command and the restrictions   *)
(* of every key that was used are in force, however many keys were needed: *)
(* options that disagree end the connection instead                        *)
(* (auth-options.c:sshauthopt_merge, auth.c:auth_activate_options).        *)
THEOREM OptionsInForce == Spec => []OptionsEnforced
<1>1. BothInv => OptionsEnforced
  BY DEF BothInv, MonInv, OptInv, Enforces, OptionsEnforced
<1> QED BY InitInv, NextInv, <1>1, PTL DEF Spec
-----------------------------------------------------------------------------
(* What a session has to show. *)

LoginInv ==
  /\ options \in Configs
  /\ child.phase = "run" => Progress(AuthenticationMethods, State)
  /\ child.phase \in {"success", "exported"} => Done(AuthenticationMethods, monitor.verified)
  /\ monitor.phase = "session" => child.phase = "exported"

LEMMA ConfigLists == ASSUME options \in Configs PROVE IsLists(AuthenticationMethods)
<1>1. options \in ServerOptions BY ConfigAssumption
<1> QED BY <1>1 DEF ServerOptions, AuthenticationMethods, IsLists, Entry

LEMMA StepLogin ==
  ASSUME NEW t, PairInv(t), Step(t), BothInv, LoginInv, child.phase = "run",
         Finished(AuthenticationMethods, t, State)
  PROVE  LoginInv'
<1> DEFINE am == AuthenticationMethods
           ph == IF t.c.phase = "gone" /\ t.m.phase # "fatal" THEN "gone" ELSE t.m.phase
<1>1. options' = options /\ am' = am BY DEF Step, AuthenticationMethods
<1>2. /\ monitor'.phase = ph /\ monitor'.verified = t.m.verified /\ monitor'.pam = t.m.pam
  <2>1. monitor' = [t.m EXCEPT !.phase = ph, !.ret = FALSE, !.auth_method = "unknown",
                               !.auth_submethod = ""]
    BY Zenon DEF Step
  <2>2. Fields \subseteq DOMAIN t.m BY DEF PairInv, MonInv
  <2> HIDE DEF ph
  <2> QED BY <2>1, <2>2 DEF Fields
<1>3. /\ t.m.phase = "fatal" => child'.phase = "gone"
      /\ t.m.phase # "fatal" => child' = t.c
  <2>1. /\ t.m.phase = "fatal" => child' = [child EXCEPT !.phase = "gone", !.why = "monitor"]
        /\ t.m.phase # "fatal" => child' = t.c
    BY Zenon DEF Step
  <2>2. "phase" \in DOMAIN child BY DEF BothInv, ChildFields
  <2> QED BY <2>1, <2>2
<1> HIDE DEF am
<1>4. CASE ~Live(t)
  <2>1. child'.phase = "gone" /\ monitor'.phase # "session"
    BY <1>2, <1>3, <1>4 DEF Live
  <2> QED BY <1>1, <2>1 DEF LoginInv
<1>5. CASE Live(t)
  <2>1. child' = t.c /\ monitor'.phase = t.m.phase BY <1>2, <1>3, <1>5 DEF Live
  <2>2. \/ t.c.phase = "success" /\ t.m.phase # "session" /\ Done(am, t.m.verified)
        \/ t.c.phase = "run" /\ Progress(am, t)
    BY <1>5 DEF Finished, State, am
  <2>3. CASE t.c.phase = "success" /\ t.m.phase # "session" /\ Done(am, t.m.verified)
    BY <1>1, <1>2, <2>1, <2>3 DEF LoginInv, am
  <2>4. CASE t.c.phase = "run" /\ Progress(am, t)
    <3>1. State'.c = t.c /\ State'.m = monitor' BY <2>1 DEF State
    <3>2. t.m.phase # "session" BY <1>5, <2>4 DEF Progress
    <3>3. Live(State') = Live(t) /\ Counted(State'.m) = Counted(t.m)
      BY <1>2, <2>1, <3>1 DEF Live, Counted
    <3>4. \A n : ListsAt(am, State', n) = ListsAt(am, t, n) BY <1>2, <3>1 DEF ListsAt
    <3>5. Progress(am, State') BY <1>2, <2>1, <2>4, <3>1, <3>3, <3>4 DEF Progress
    <3>6. Progress(AuthenticationMethods, State)' BY <1>1, <3>5 DEF am
    <3> QED BY <1>1, <2>1, <2>4, <3>2, <3>6 DEF LoginInv
  <2> QED BY <2>2, <2>3, <2>4
<1> QED BY <1>4, <1>5

LEMMA InitLogin == Init => LoginInv
<1> SUFFICES ASSUME Init PROVE LoginInv
  OBVIOUS
<1>1. State.c.lists = <<>> /\ State.m.phase = "preauth" /\ State.m.pam = "none"
  BY DEF Init, State
<1>2. DOMAIN State.c.lists = {} BY <1>1
<1>3. Progress(AuthenticationMethods, State) BY <1>1, <1>2 DEF Progress, ListsAt
<1> QED BY <1>3 DEF Init, LoginInv

LEMMA RequestLogin ==
  ASSUME BothInv, LoginInv, PasswordNeeded, child.phase = "run", NEW r, NEW arg,
         r.method \in Methods \cup {"none"},
         r.method \in {"publickey", "hostbased"} => arg.good \in BOOLEAN,
         Step(input_userauth_request(State, r, arg))
  PROVE  LoginInv'
<1> DEFINE t == input_userauth_request(State, r, arg)
<1>1. PairInv(State) /\ ~State.ok BY StateInv DEF State
<1>2. Progress(AuthenticationMethods, State) /\ IsLists(AuthenticationMethods)
  BY ConfigLists DEF LoginInv
<1>3. PairInv(t) /\ Finished(AuthenticationMethods, t, State)
  BY <1>1, <1>2, input_userauth_requestInv, input_userauth_requestDone
<1> HIDE DEF t
<1> QED BY <1>3, StepLogin DEF t

LEMMA NextLogin == BothInv /\ LoginInv /\ PasswordNeeded /\ [Next]_vars => LoginInv'
<1> SUFFICES ASSUME BothInv, LoginInv, PasswordNeeded, [Next]_vars PROVE LoginInv'
  OBVIOUS
<1>1. CASE request_none
  <2>1. PICK r \in Request("none"), arg \in [exhausted : Exhausted] :
          child.phase = "run" /\ Step(input_userauth_request(State, r, arg))
    BY <1>1 DEF request_none
  <2>2. r.method = "none" BY DEF Request
  <2> QED BY <2>1, <2>2, RequestLogin
<1>2. CASE request_password
  <2>1. PICK r \in Request("password"),
            arg \in [password : Passwords, exhausted : Exhausted] :
          child.phase = "run" /\ Step(input_userauth_request(State, r, arg))
    BY <1>2 DEF request_password
  <2>2. r.method = "password" BY DEF Request
  <2> QED BY <2>1, <2>2, RequestLogin DEF Methods
<1>3. CASE request_publickey
  <2>1. PICK r \in Request("publickey"),
            arg \in [key : Keys, have_sig : BOOLEAN, good : BOOLEAN] :
          child.phase = "run" /\ Step(input_userauth_request(State, r, arg))
    BY <1>3 DEF request_publickey
  <2>2. r.method = "publickey" /\ arg.good \in BOOLEAN BY DEF Request
  <2> QED BY <2>1, <2>2, RequestLogin DEF Methods
<1>4. CASE request_hostbased
  <2>1. PICK r \in Request("hostbased"), arg \in [key : Keys, good : BOOLEAN] :
          child.phase = "run" /\ Step(input_userauth_request(State, r, arg))
    BY <1>4 DEF request_hostbased
  <2>2. r.method = "hostbased" /\ arg.good \in BOOLEAN BY DEF Request
  <2> QED BY <2>1, <2>2, RequestLogin DEF Methods
<1>5. CASE request_kbdint
  <2>1. PICK r \in Request("keyboard-interactive"),
            arg \in [says : {"prompt", "failure", "message"}] :
          child.phase = "run" /\ Step(input_userauth_request(State, r, arg))
    BY <1>5 DEF request_kbdint
  <2>2. r.method = "keyboard-interactive" BY DEF Request
  <2> QED BY <2>1, <2>2, RequestLogin DEF Methods
<1>6. CASE info_response
  <2>1. PICK n, right, account, says :
          /\ child.phase = "run"
          /\ Step(input_userauth_info_response(State, n, right, says, account))
    BY <1>6 DEF info_response
  <2> DEFINE t == input_userauth_info_response(State, n, right, says, account)
  <2>2. PairInv(State) /\ ~State.ok BY StateInv DEF State
  <2>3. Progress(AuthenticationMethods, State) BY <2>1 DEF LoginInv
  <2>4. PairInv(t) /\ Finished(AuthenticationMethods, t, State)
    BY <2>2, <2>3, input_userauth_info_responseInv, input_userauth_info_responseDone
  <2> HIDE DEF t
  <2> QED BY <2>1, <2>4, StepLogin DEF t
<1>7. CASE mm_send_keystate
  <2>1. /\ child.phase = "success" /\ child'.phase = "exported" /\ options' = options
        /\ monitor'.verified = monitor.verified
    <3>1. "phase" \in DOMAIN child /\ Fields \subseteq DOMAIN monitor
      BY DEF BothInv, ChildFields, MonInv
    <3>2. child' = [child EXCEPT !.phase = "exported"] /\ child.phase = "success"
          /\ options' = options
      BY <1>7 DEF mm_send_keystate
    <3>3. monitor' \in {fatal(monitor, "other request expected"),
                        fatal(monitor, "null auth_opts"), [monitor EXCEPT !.phase = "session"]}
      BY <1>7 DEF mm_send_keystate
    <3>4. monitor'.verified = monitor.verified BY <3>1, <3>3 DEF fatal, Fields
    <3> QED BY <3>1, <3>2, <3>4
  <2> QED BY <2>1 DEF LoginInv, AuthenticationMethods
<1>8. CASE UNCHANGED vars
  BY <1>8 DEF vars, LoginInv, State, AuthenticationMethods
<1> QED BY <1>1, <1>2, <1>3, <1>4, <1>5, <1>6, <1>7, <1>8 DEF Next

(* A session starts only for a user who passed every method of one of the  *)
(* lists of AuthenticationMethods, in its order, or any method where none  *)
(* is configured: whatever the lists, the keys and the root policy are,    *)
(* however the client mixes methods, and whatever PAM says                 *)
(* (auth2.c:auth2_update_methods_lists, userauth_finish).  Nobody may be   *)
(* able to log in with an empty password: otherwise the monitor may take   *)
(* for "none" a check that the child counts as "password"                  *)
(* (monitor.c:mm_answer_authpassword).                                     *)
THEOREM LoginFollows ==
  RightPassword # "" \/ (\A o \in Configs : ~o.permit_empty_passwd)
    => (Spec => []LoginFollowsList)
<1> SUFFICES ASSUME RightPassword # "" \/ (\A o \in Configs : ~o.permit_empty_passwd)
             PROVE  Spec => []LoginFollowsList
  OBVIOUS
<1>1. LoginInv => LoginFollowsList
  BY DEF LoginInv, LoginFollowsList, Done, Met, Meets, Follows
<1>2. LoginInv => PasswordNeeded
  BY DEF LoginInv, PasswordNeeded, Given, PermitEmptyPasswords
<1>3. BothInv /\ LoginInv /\ [Next]_vars => LoginInv' BY <1>2, NextLogin
<1> QED BY InitInv, NextInv, InitLogin, <1>1, <1>3, PTL DEF Spec
=============================================================================
