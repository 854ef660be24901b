------------------------------ MODULE Userauth ------------------------------
(***************************************************************************)
(* User authentication in sshd with privilege separation: the process that *)
(* talks to the client (auth2.c, auth2-*.c, monitor_wrap.c) and the        *)
(* privileged monitor (monitor.c), from the first USERAUTH_REQUEST to the  *)
(* start of the session.                                                   *)
(*                                                                         *)
(* The child asks and waits for the answer, so the handling of one client  *)
(* message, with all the requests it makes to the monitor, is one step.    *)
(* Both processes decide for themselves when the user is authenticated;    *)
(* the session starts when both have.  A function of the C code is an      *)
(* operator from the record of a process to the record after the call, or, *)
(* where the child calls the monitor, on the pair s of both.  What the     *)
(* client sends, what a signature or a password is worth and what the PAM  *)
(* modules answer is chosen by the actions.                                *)
(***************************************************************************)
EXTENDS Integers, Sequences, FiniteSets

CONSTANTS
  Configs,                \* configurations of sshd
  Users, KnownUsers,      \* names a client may ask for, those getpwnamallow() returns
  Services, Styles,       \* what else the first request may carry
  RightPassword,          \* of every known user
  Keys,                   \* keys a client may offer
  AuthorizedKeys,         \* in every known user's authorized_keys ...
  KeyOptions,             \* ... with these options
  HostKeys                \* of hosts allowed for hostbased

Methods == {"publickey", "hostbased", "password", "keyboard-interactive"}
Passwords == {"", "secret", "guess"}

\* The fields of ServerOptions that matter here; auth_methods is <<>> for none or "any".
ServerOptions ==
  [auth_methods : Seq(Seq([name : Methods \cup {"none"}, sub : {"", "pam"}]) \ {<<>>}),
   enabled : SUBSET Methods, max_authtries : Nat \ {0},
   permit_root_login : {"yes", "prohibit-password", "forced-commands-only", "no"},
   permit_empty_passwd : BOOLEAN, use_pam : BOOLEAN]

ASSUME ConfigAssumption ==
  /\ Configs \subseteq ServerOptions
  /\ KnownUsers \subseteq Users
  /\ RightPassword \in Passwords
  /\ AuthorizedKeys \subseteq Keys /\ HostKeys \subseteq Keys
  /\ KeyOptions \in [AuthorizedKeys -> [command : STRING, pty : BOOLEAN]]

(***************************************************************************)
(* What the processes keep.  NoKey and NullOptions stand for NULL.         *)
(***************************************************************************)
Requests == {"PWNAM", "AUTHSERV", "AUTHPASSWORD", "KEYALLOWED", "KEYVERIFY",
             "PAM_START", "PAM_INIT_CTX", "PAM_QUERY", "PAM_RESPOND", "PAM_FREE_CTX"}

\* Mutant: KEYALLOWED may be asked only once.
once_keyallowed == {"PWNAM", "AUTHSERV", "KEYALLOWED", "PAM_START", "PAM_INIT_CTX",
                    "PAM_RESPOND", "PAM_FREE_CTX"}

\* The flags of mon_dispatch_proto20.
Once == {"PWNAM", "AUTHSERV", "PAM_START", "PAM_INIT_CTX", "PAM_RESPOND", "PAM_FREE_CTX"}
AuthDecide == {"AUTHPASSWORD", "KEYVERIFY", "PAM_FREE_CTX"}
Auth == AuthDecide \cup {"KEYALLOWED"}

NoKey == [type |-> "none", key |-> "none"]
NullOptions == [command |-> "NULL", pty |-> FALSE]
sshauthopt_new_with_keys_defaults == [command |-> "", pty |-> TRUE]

VARIABLES
  options,  \* what both processes read from sshd_config
  child,    \* struct Authctxt, auth_opts and switches of the unprivileged process
  monitor   \* the same of the monitor, its permissions, key and PAM context; verified
            \* and guesses record what it found right and wrong

vars == <<options, child, monitor>>

AuthenticationMethods == options.auth_methods
MaxAuthTries == options.max_authtries
PermitRootLogin == options.permit_root_login
PermitEmptyPasswords == options.permit_empty_passwd
UsePAM == options.use_pam

(***************************************************************************)
(* Method lists: a list is the sequence of the methods still required.     *)
(***************************************************************************)
list_starts_with(list, method, submethod) ==
  CASE list = <<>> \/ (list # <<>> /\ Head(list).name # method) -> "NONE"
    [] OTHER -> IF Head(list).sub = "" THEN "METHOD"
                ELSE IF submethod = "" THEN "PARTIAL"
                ELSE IF Head(list).sub = submethod THEN "BOTH" ELSE "NONE"

remove_method(list, method, submethod) ==
  list_starts_with(list, method, submethod) \in {"METHOD", "BOTH"}

auth2_method_allowed(lists, method, submethod) ==
  \/ AuthenticationMethods = <<>>
  \/ \E i \in DOMAIN lists : list_starts_with(lists[i], method, submethod) # "NONE"

\* Mutant: one method completes a list.
update_lists_first_completes(lists, method, submethod) ==
  LET hit == {i \in DOMAIN lists : remove_method(lists[i], method, submethod)}
  IN [found |-> hit # {}, complete |-> hit # {},
      lists |-> [i \in DOMAIN lists |-> IF i \in hit THEN Tail(lists[i]) ELSE lists[i]]]

\* Each list that starts with the method loses it, up to the first that becomes empty.
auth2_update_methods_lists(lists, method, submethod) ==
  LET hit == {i \in DOMAIN lists : remove_method(lists[i], method, submethod)}
      complete == {i \in hit : Len(lists[i]) = 1}
      reached == {i \in hit : \A j \in complete : i <= j}
  IN [found |-> hit # {}, complete |-> complete # {},
      lists |-> [i \in DOMAIN lists |-> IF i \in reached THEN Tail(lists[i]) ELSE lists[i]]]

\* Lists that name a method that is switched off are left out; "none" is on at that time.
\* The others keep the number they have in the configuration, so their order.
auth2_setup_methods_lists(enabled) ==
  LET on == {i \in DOMAIN AuthenticationMethods :
               \A j \in DOMAIN AuthenticationMethods[i] :
                 AuthenticationMethods[i][j].name \in enabled \cup {"none"}}
  IN [i \in on |-> AuthenticationMethods[i]]

(***************************************************************************)
(* Decisions both processes make.                                          *)
(***************************************************************************)
auth_root_allowed(p, method) ==
  \/ PermitRootLogin = "yes"
  \/ PermitRootLogin = "prohibit-password" /\ method \in {"publickey", "hostbased"}
  \/ PermitRootLogin = "forced-commands-only" /\ p.auth_opts.command # ""

IsRoot(p) == p.valid /\ p.user = "root"

\* auth_root_allowed() follows auth_opts, NULL after options that did not agree.
ReadsNullOptions(p) ==
  IsRoot(p) /\ PermitRootLogin = "forced-commands-only" /\ p.auth_opts = NullOptions

\* Mutant: a permission either key grants is granted.
merge_flags_or(primary, additional) ==
  IF /\ primary.command # "" /\ additional.command # ""
     /\ primary.command # additional.command
  THEN NullOptions
  ELSE [command |-> IF primary.command # "" THEN primary.command ELSE additional.command,
        pty |-> primary.pty \/ additional.pty]

\* pty stands for every permission that both must grant.
sshauthopt_merge(primary, additional) ==
  IF /\ primary.command # "" /\ additional.command # ""
     /\ primary.command # additional.command
  THEN NullOptions
  ELSE [command |-> IF primary.command # "" THEN primary.command ELSE additional.command,
        pty |-> primary.pty /\ additional.pty]

\* sshpam_set_maxtries_reached()
PasswordMethods == {"password", "keyboard-interactive"}
sshpam_set_maxtries_reached(p) == [p EXCEPT !.enabled = @ \ PasswordMethods]

(***************************************************************************)
(* The monitor.                                                            *)
(***************************************************************************)
fatal(m, why) == [m EXCEPT !.phase = "fatal", !.why = why]

monitor_permit(m, types) == [m EXCEPT !.permit = @ \cup types]

auth_activate_options(m, opts) ==
  IF m.auth_opts = NullOptions THEN fatal(m, "null auth_opts")
  ELSE [m EXCEPT !.auth_opts = sshauthopt_merge(m.auth_opts, opts)]

\* The loop is left: the child's state is awaited next.
Authenticated(m) ==
  IF ~m.valid THEN fatal(m, "invalid user")
  ELSE IF m.auth_method = "unknown" THEN fatal(m, "unknown method")
  ELSE [m EXCEPT !.phase = "keystate"]

\* The body of the loop, after the answer to a request.
monitor_child_preauth(m, type) ==
  LET several == m.ret /\ AuthenticationMethods # <<>>
      upd == auth2_update_methods_lists(m.lists, m.auth_method, m.auth_submethod)
      m1 == IF several THEN [m EXCEPT !.lists = upd.lists] ELSE m
  IN IF m.phase = "fatal" \/ ~m.ret THEN m
     ELSE IF several /\ ~upd.found THEN fatal(m, "method not in lists")
     ELSE IF several /\ ~upd.complete THEN m1
     ELSE IF type \notin AuthDecide THEN fatal(m, "unexpected authentication")
     ELSE IF ReadsNullOptions(m) THEN fatal(m, "null auth_opts")
     ELSE IF IsRoot(m) /\ ~auth_root_allowed(m, m.auth_method) THEN m1
     ELSE IF UsePAM THEN [m1 EXCEPT !.phase = "account"]
     ELSE Authenticated(m1)

\* The loop starts afresh with every request.
Fresh(m) == [m EXCEPT !.auth_method = "unknown", !.auth_submethod = "", !.ret = FALSE]

\* One request: refused unless permitted, answered with the result a, its permission
\* used up if ONCE.
monitor_read(m, type, a) ==
  IF m.phase = "fatal" THEN m
  ELSE IF m.phase # "preauth" THEN fatal(m, "other request expected")
  ELSE IF type \notin m.permit THEN fatal(m, "unpermitted request")
  ELSE monitor_child_preauth(
         [a EXCEPT !.permit = IF type \in Once THEN @ \ {type} ELSE @], type)

mm_answer_pwnamallow(m, user) ==
  monitor_permit([m EXCEPT !.user = user, !.valid = user \in KnownUsers,
                           !.lists = auth2_setup_methods_lists(m.enabled)],
                 {"AUTHSERV"} \cup (IF UsePAM THEN {"PAM_START"} ELSE {}))

mm_answer_authserv(m, style) == monitor_permit([m EXCEPT !.style = style], Auth)

\* The user exists and is not root where root may not use passwords.
MayUsePassword(m) == m.valid /\ ~(IsRoot(m) /\ PermitRootLogin # "yes")

\* A check that succeeded is recorded, one that failed is counted.
Verified(m, method, sub, key) ==
  [m EXCEPT !.verified = Append(@, [name |-> method, sub |-> sub, key |-> key])]
Guessed(m) == [m EXCEPT !.guesses = @ + 1]

auth_password(m, password) ==
  /\ MayUsePassword(m)
  /\ password = "" => PermitEmptyPasswords
  /\ password = RightPassword

\* exhausted: PAM answered PAM_MAXTRIES.
mm_answer_authpassword(m, password, exhausted) ==
  LET ok == auth_password(m, password)
      m1 == [m EXCEPT !.ret = ok, !.call_count = TRUE,
                      !.auth_method = IF password = "" /\ ~m.call_count
                                      THEN "none" ELSE "password"]
      m2 == IF ok THEN Verified(m1, m1.auth_method, "", "none") ELSE IF MayUsePassword(m) THEN Guessed(m1) ELSE m1
  IN IF "password" \notin m.enabled THEN fatal(m, "password not enabled")
     ELSE IF UsePAM /\ exhausted /\ ~ok THEN sshpam_set_maxtries_reached(m2)
     ELSE m2

\* Mutant: a key that was used is allowed again.
keyallowed_again(m, type, key) ==
  LET allowed == /\ m.valid /\ type \in m.enabled
                 /\ key \in (IF type = "publickey" THEN AuthorizedKeys ELSE HostKeys)
  IN [m EXCEPT !.key = IF allowed THEN [type |-> type, key |-> key] ELSE NoKey]

mm_answer_keyallowed(m, type, key) ==
  LET allowed == /\ m.valid /\ type \in m.enabled /\ key \notin m.prev_keys
                 /\ key \in (IF type = "publickey" THEN AuthorizedKeys ELSE HostKeys)
  IN [m EXCEPT !.key = IF allowed THEN [type |-> type, key |-> key] ELSE NoKey]

\* signed: the user, with the style, in the data the child says was signed.
monitor_valid_userblob(m, signed) == signed = <<m.user, m.style>>

mm_answer_keyverify(m, key, signed, good) ==
  LET type == m.key.type
      m1 == [m EXCEPT !.ret = good, !.auth_method = type, !.key = NoKey,
                      !.prev_keys = IF good THEN @ \cup {key} ELSE @]
      m2 == IF type = "publickey" THEN auth_activate_options(m1, KeyOptions[key]) ELSE m1
  IN IF m.key.key # key THEN fatal(m, "key not allowed before")
     ELSE IF ~monitor_valid_userblob(m, signed) THEN fatal(m, "bad signature data")
     ELSE IF good THEN Verified(m2, type, "", key) ELSE Guessed(m2)

mm_answer_pam_start(m) ==
  monitor_permit(m, IF "keyboard-interactive" \in m.enabled THEN {"PAM_INIT_CTX"} ELSE {})

\* The context is refused once the account is known to be unusable.
mm_answer_pam_init_ctx(m) ==
  IF "keyboard-interactive" \notin m.enabled THEN fatal(m, "kbdint not enabled")
  ELSE IF m.pam # "none" THEN fatal(m, "already called")
  ELSE IF m.account = 0 THEN m
  ELSE monitor_permit([m EXCEPT !.pam = "start", !.authok = FALSE],
                      {"PAM_FREE_CTX", "PAM_QUERY"})

\* What PAM modules may say next: they ask at least once, and a wrong answer
\* does not turn into success.  "message": failure after a message to the user.
PamAnswers(m) ==
  CASE m.pam = "start" -> {"prompt", "failure", "message"}
    [] m.pam = "right" -> {"prompt", "success", "expired"}
    [] OTHER -> {"failure", "message", "maxtries"}

sshpam_query(m, says) ==
  LET m1 == CASE says = "prompt" -> [m EXCEPT !.pam = "prompt"]
              [] says = "success" ->
                   Verified([m EXCEPT !.pam = "success"], "keyboard-interactive", "pam", "none")
              [] OTHER -> [(IF MayUsePassword(m) THEN Guessed(m) ELSE m) EXCEPT !.pam = "failed"]
  IN IF says = "expired" THEN [m1 EXCEPT !.account = 0]
     ELSE IF says = "maxtries" THEN sshpam_set_maxtries_reached(m1)
     ELSE m1

\* Mutant: only what PAM calls success counts.
pam_query_success_only(m, says) ==
  IF m.pam = "none" THEN fatal(m, "no context")
  ELSE monitor_permit([sshpam_query(m, says) EXCEPT !.authok = (says = "success")],
                      {"PAM_RESPOND"})

\* ret == 0 && num == 0 is taken for success, whatever PAM said.
mm_answer_pam_query(m, says) ==
  IF m.pam = "none" THEN fatal(m, "no context")
  ELSE monitor_permit([sshpam_query(m, says) EXCEPT !.authok = says \in {"success", "message"}],
                      {"PAM_RESPOND"})

\* The result: 0 success, 1 more to come, -1 failure.
sshpam_respond(m) == CASE m.pam = "success" -> 0 [] m.pam = "failed" -> -1 [] OTHER -> 1

\* An answer from an invalid user, or from root where refused, is replaced by a wrong one.
mm_answer_pam_respond(m, right) ==
  LET ret == sshpam_respond(m)
      real == right /\ MayUsePassword(m)
  IN IF m.pam = "none" THEN fatal(m, "no context")
     ELSE [m EXCEPT !.authok = (ret = 0),
                    !.pam = IF ret # 1 THEN @ ELSE IF real THEN "right" ELSE "wrong"]

mm_answer_pam_free_ctx(m) ==
  IF m.pam = "none" THEN fatal(m, "no context")
  ELSE monitor_permit([m EXCEPT !.ret = m.authok, !.pam = "none", !.authok = FALSE,
                                !.auth_method = "keyboard-interactive",
                                !.auth_submethod = "pam"], {"PAM_INIT_CTX"})

\* Expected after a successful authentication; a refusal resumes the loop.
mm_answer_pam_account(m, good) ==
  LET status == IF m.account # -1 THEN m.account ELSE IF good THEN 1 ELSE 0
      m1 == [m EXCEPT !.account = status]
  IN CASE m.phase = "account" /\ status = 1 -> Authenticated(m1)
       [] m.phase = "account" /\ status = 0 -> [m1 EXCEPT !.phase = "preauth"]
       [] m.phase = "preauth" /\ status = 1 -> fatal(m, "unexpected authentication")
       [] m.phase = "preauth" /\ status = 0 -> m1
       [] m.phase = "keystate" -> fatal(m, "other request expected")
       [] OTHER -> m

(***************************************************************************)
(* The child.  ok is what a method returns; an operator that calls the     *)
(* monitor takes and returns s = [c |-> child, m |-> monitor, ok |-> ...]. *)
(***************************************************************************)
exit(s, why) == [s EXCEPT !.c.phase = "gone", !.c.why = why]

Ask(s, type, answer) == [s EXCEPT !.m = monitor_read(@, type, answer)]

\* Mutant: one failure more than allowed.
failure_off_by_one(s, partial, method) ==
  LET n == IF partial \/ (s.c.attempt = 1 /\ method = "none") THEN s.c.failures
           ELSE s.c.failures + 1
      s1 == [s EXCEPT !.c.failures = n]
  IN IF n > MaxAuthTries THEN exit(s1, "maxtries") ELSE s1

\* What userauth_finish() does when the user is not authenticated.
Failure(s, partial, method) ==
  LET n == IF partial \/ (s.c.attempt = 1 /\ method = "none") THEN s.c.failures
           ELSE s.c.failures + 1
      s1 == [s EXCEPT !.c.failures = n]
  IN IF n >= MaxAuthTries THEN exit(s1, "maxtries") ELSE s1

userauth_finish(s, method, submethod, accountGood) ==
  LET c == s.c
      ok == s.ok /\ ~(IsRoot(c) /\ ~auth_root_allowed(c, method))
      several == ok /\ AuthenticationMethods # <<>>
      upd == auth2_update_methods_lists(c.lists, method, submethod)
      authenticated == ok /\ (several => upd.complete)
      s1 == IF several THEN [s EXCEPT !.c.lists = upd.lists] ELSE s
      s2 == IF UsePAM THEN [s1 EXCEPT !.m = mm_answer_pam_account(@, accountGood)] ELSE s1
  IN IF c.phase = "gone" \/ (~s.ok /\ c.postponed) THEN s
     ELSE IF s.ok /\ (~c.valid \/ c.postponed) THEN exit(s, "internal error")
     ELSE IF s.ok /\ ReadsNullOptions(c) THEN exit(s, "null auth_opts")
     ELSE IF several /\ ~upd.found THEN exit(s, "method not in lists")
     ELSE IF ~authenticated THEN Failure(s1, ok, method)
     ELSE IF UsePAM /\ s2.m.account = 0 THEN exit(s2, "account")
     ELSE [s2 EXCEPT !.c.phase = "success"]

\* auth2_challenge_stop(), through kbdint_free() and mm_sshpam_free_ctx()
auth2_challenge_stop(s) ==
  IF s.c.kbdint = "none" \/ s.c.phase = "gone" THEN s
  ELSE [Ask(s, "PAM_FREE_CTX", mm_answer_pam_free_ctx(Fresh(s.m))) EXCEPT !.c.kbdint = "none"]

\* The reply to PAM_QUERY carries maxtries; without anything to show the conversation ends.
Queried(s, says) ==
  LET s1 == IF says = "maxtries" THEN [s EXCEPT !.c = sshpam_set_maxtries_reached(@)] ELSE s
  IN IF says \notin {"prompt", "success", "message"} THEN auth2_challenge_stop(s1)
     ELSE [s1 EXCEPT !.c.postponed = TRUE,
                     !.c.kbdint = IF says = "prompt" THEN "prompt" ELSE "no prompt"]

send_userauth_info_request(s, says) ==
  Queried(Ask(s, "PAM_QUERY", mm_answer_pam_query(Fresh(s.m), says)), says)

\* With the one device there is.
auth2_challenge_start(s, says) ==
  IF s.m.pam # "start" THEN s
  ELSE send_userauth_info_request([s EXCEPT !.c.kbdint = "device"], says)

auth2_challenge(s, says) ==
  IF ~UsePAM \/ ~auth2_method_allowed(s.c.lists, "keyboard-interactive", "pam") THEN s
  ELSE auth2_challenge_start(
         Ask(s, "PAM_INIT_CTX", mm_answer_pam_init_ctx(Fresh(s.m))), says)

PasswordChecked(s, exhausted) ==
  IF UsePAM /\ exhausted /\ ~s.m.ret
  THEN [s EXCEPT !.c = sshpam_set_maxtries_reached(@)]
  ELSE [s EXCEPT !.ok = s.m.ret]

mm_auth_password(s, password, exhausted) ==
  PasswordChecked(
    Ask(s, "AUTHPASSWORD", mm_answer_authpassword(Fresh(s.m), password, exhausted)), exhausted)

\* An empty password, once, where they are permitted.
userauth_none(s, exhausted) ==
  LET s1 == [s EXCEPT !.c.none_enabled = FALSE]
  IN IF PermitEmptyPasswords /\ "password" \in s.c.enabled
     THEN mm_auth_password(s1, "", exhausted) ELSE s1

\* The monitor must allow the key and then accept the signature.
KeyAllowed(s, type, key) ==
  Ask(s, "KEYALLOWED", mm_answer_keyallowed(Fresh(s.m), type, key))

\* Mutant: any answer of the monitor is taken for a good signature.
key_verified_any(s, key) == [s EXCEPT !.ok = TRUE, !.c.prev_keys = @ \cup {key}]

KeyVerified(s, key) ==
  [s EXCEPT !.ok = s.m.ret, !.c.prev_keys = IF s.m.ret THEN @ \cup {key} ELSE @]

KeyVerify(s, key, signed, good) ==
  KeyVerified(Ask(s, "KEYVERIFY", mm_answer_keyverify(Fresh(s.m), key, signed, good)), key)

\* The options of the key come into force.
PubkeyVerified(s, key) ==
  LET opts == sshauthopt_merge(s.c.auth_opts, KeyOptions[key])
  IN IF ~s.ok THEN s
     ELSE IF s.c.auth_opts = NullOptions THEN exit(s, "null auth_opts")
     ELSE [s EXCEPT !.c.auth_opts = opts, !.ok = opts # NullOptions]

\* A request without signature only asks whether the key would do.
PubkeyAllowed(s, key, have_sig, good) ==
  IF s.m.key # [type |-> "publickey", key |-> key] THEN s
  ELSE IF ~have_sig THEN [s EXCEPT !.c.postponed = TRUE]
  ELSE PubkeyVerified(KeyVerify(s, key, <<s.c.user, s.c.style>>, good), key)

userauth_pubkey(s, key, have_sig, good) ==
  IF key \in s.c.prev_keys \/ ~s.c.valid THEN s
  ELSE PubkeyAllowed(KeyAllowed(s, "publickey", key), key, have_sig, good)

HostkeyAllowed(s, key, good) ==
  IF s.m.key # [type |-> "hostbased", key |-> key] THEN s
  ELSE KeyVerify(s, key, <<s.c.user, "">>, good)

userauth_hostbased(s, key, good) ==
  IF ~s.c.valid THEN s ELSE HostkeyAllowed(KeyAllowed(s, "hostbased", key), key, good)

authmethod_lookup(c, method) ==
  /\ IF method = "none" THEN c.none_enabled ELSE method \in c.enabled
  /\ auth2_method_allowed(c.lists, method, "")

\* The requests to the monitor that the first request of the client brings about.
mm_getpwnamallow(s, user) == Ask(s, "PWNAM", mm_answer_pwnamallow(Fresh(s.m), user))
mm_start_pam(s) ==
  IF UsePAM THEN Ask(s, "PAM_START", mm_answer_pam_start(Fresh(s.m))) ELSE s
mm_inform_authserv(s, style) == Ask(s, "AUTHSERV", mm_answer_authserv(Fresh(s.m), style))

FirstRequest(s, user, service, style) ==
  LET lists == auth2_setup_methods_lists(s.c.enabled)
      s1 == [s EXCEPT !.c.attempt = 1, !.c.user = user, !.c.style = style,
                      !.c.service = service, !.c.lists = lists,
                      !.c.valid = s.m.valid /\ service = "ssh-connection"]
  IN IF AuthenticationMethods # <<>> /\ lists = <<>> THEN exit(s1, "no methods") ELSE s1

\* The first request sets up both processes; later ones must not change the user.
Setup(s, user, service, style) ==
  IF s.c.attempt = 0
  THEN FirstRequest(mm_inform_authserv(mm_start_pam(mm_getpwnamallow(s, user)), style),
                    user, service, style)
  ELSE IF user # s.c.user \/ service # s.c.service THEN exit(s, "change of user")
  ELSE [s EXCEPT !.c.attempt = 2]

\* The table of methods; arg holds what the request of each carries.
authmethods(s, method, arg) ==
  CASE method = "none" -> userauth_none(s, arg.exhausted)
    [] method = "password" -> mm_auth_password(s, arg.password, arg.exhausted)
    [] method = "publickey" -> userauth_pubkey(s, arg.key, arg.have_sig, arg.good)
    [] method = "hostbased" -> userauth_hostbased(s, arg.key, arg.good)
    [] method = "keyboard-interactive" -> auth2_challenge(s, arg.says)

Attempt(s, method, arg) ==
  IF /\ s.c.phase # "gone"
     /\ authmethod_lookup(s.c, method) /\ s.c.failures < MaxAuthTries
  THEN authmethods(s, method, arg) ELSE s

input_userauth_request(s, r, arg) ==
  LET s1 == Setup(s, r.user, r.service, r.style)
  IN userauth_finish(
       Attempt([auth2_challenge_stop(s1) EXCEPT !.c.postponed = FALSE], r.method, arg),
       r.method, "", r.account)

\* res: what sshpam_respond() returned.
Responded(s, res, says) ==
  CASE res = 0 -> [auth2_challenge_stop(s) EXCEPT !.ok = s.c.valid]
    [] res = 1 -> send_userauth_info_request(s, says)
    [] OTHER -> auth2_challenge_stop(s)

\* Another number of answers than asked for ends the connection.
input_userauth_info_response(s, n, right, says, account) ==
  LET s1 == [s EXCEPT !.c.postponed = FALSE]
  IN IF n # (IF s.c.kbdint = "prompt" THEN 1 ELSE 0) THEN exit(s, "wrong number of replies")
     ELSE userauth_finish(
            Responded(Ask(s1, "PAM_RESPOND", mm_answer_pam_respond(Fresh(s1.m), right)),
                      sshpam_respond(s.m), says),
            "keyboard-interactive", "pam", account)

(***************************************************************************)
(* Init and the actions.                                                   *)
(***************************************************************************)
\* After the key exchange: the signature of the host key has permitted PWNAM.
Init ==
  /\ options \in Configs
  /\ child = [phase |-> "run", why |-> "", attempt |-> 0, user |-> "", service |-> "",
              style |-> "", valid |-> FALSE, lists |-> <<>>, enabled |-> options.enabled,
              none_enabled |-> TRUE, failures |-> 0, postponed |-> FALSE,
              kbdint |-> "none", prev_keys |-> {},
              auth_opts |-> sshauthopt_new_with_keys_defaults]
  /\ monitor = [phase |-> "preauth", why |-> "", permit |-> {"PWNAM"}, user |-> "",
                style |-> "", valid |-> FALSE, lists |-> <<>>, enabled |-> options.enabled,
                call_count |-> FALSE, key |-> NoKey, prev_keys |-> {},
                auth_opts |-> sshauthopt_new_with_keys_defaults,
                pam |-> "none", authok |-> FALSE, account |-> -1,
                ret |-> FALSE, auth_method |-> "unknown", auth_submethod |-> "",
                verified |-> <<>>, guesses |-> 0]

\* One process that ends takes the other with it; the monitor's loop starts afresh.
Step(s) ==
  /\ child' = IF s.m.phase = "fatal" THEN [child EXCEPT !.phase = "gone", !.why = "monitor"]
              ELSE s.c
  /\ monitor' = [s.m EXCEPT
       !.phase = IF s.c.phase = "gone" /\ @ # "fatal" THEN "gone" ELSE @,
       !.ret = FALSE, !.auth_method = "unknown", !.auth_submethod = ""]
  /\ UNCHANGED options

State == [c |-> child, m |-> monitor, ok |-> FALSE]

\* The parts of a request every method has; account: what pam_acct_mgmt() would say.
Request(method) ==
  [user : Users, service : Services, style : Styles, method : {method},
   account : IF UsePAM THEN BOOLEAN ELSE {TRUE}]

Exhausted == IF UsePAM THEN BOOLEAN ELSE {FALSE}

request_none ==
  /\ child.phase = "run"
  /\ \E r \in Request("none"), arg \in [exhausted : Exhausted] :
       Step(input_userauth_request(State, r, arg))

request_password ==
  /\ child.phase = "run"
  /\ \E r \in Request("password"), arg \in [password : Passwords, exhausted : Exhausted] :
       Step(input_userauth_request(State, r, arg))

request_publickey ==
  /\ child.phase = "run"
  /\ \E r \in Request("publickey"), arg \in [key : Keys, have_sig : BOOLEAN, good : BOOLEAN] :
       Step(input_userauth_request(State, r, arg))

request_hostbased ==
  /\ child.phase = "run"
  /\ \E r \in Request("hostbased"), arg \in [key : Keys, good : BOOLEAN] :
       Step(input_userauth_request(State, r, arg))

request_kbdint ==
  /\ child.phase = "run"
  /\ \E r \in Request("keyboard-interactive"),
        arg \in [says : {"prompt", "failure", "message"}] :
       Step(input_userauth_request(State, r, arg))

info_response ==
  /\ child.phase = "run" /\ child.kbdint # "none"
  /\ \E n \in 0..1, right \in BOOLEAN, account \in BOOLEAN :
       \E says \in PamAnswers(mm_answer_pam_respond(monitor, right)) :
         Step(input_userauth_info_response(State, n, right, says, account))

\* The child hands over its state and exits; the monitor starts the session, where it
\* reads auth_opts.
mm_send_keystate ==
  /\ child.phase = "success"
  /\ child' = [child EXCEPT !.phase = "exported"]
  /\ monitor' = IF monitor.phase # "keystate" THEN fatal(monitor, "other request expected")
                ELSE IF monitor.auth_opts = NullOptions THEN fatal(monitor, "null auth_opts")
                ELSE [monitor EXCEPT !.phase = "session"]
  /\ UNCHANGED options

Next ==
  \/ request_none
  \/ request_password
  \/ request_publickey
  \/ request_hostbased
  \/ request_kbdint
  \/ info_response
  \/ mm_send_keystate

Spec == Init /\ [][Next]_vars

(***************************************************************************)
(* Properties.                                                             *)
(***************************************************************************)
\* What a process shares with the other: Authctxt and options.
CommonOK(p) ==
  /\ p.user \in Users \cup {""} /\ p.style \in Styles \cup {""} /\ p.valid \in BOOLEAN
  /\ DOMAIN p.lists \subseteq DOMAIN AuthenticationMethods
  /\ \A i \in DOMAIN p.lists : Len(p.lists[i]) <= Len(AuthenticationMethods[i])
  /\ p.enabled \in {options.enabled, options.enabled \ PasswordMethods}
  /\ p.prev_keys \subseteq Keys

\* Types, the attempts still to be had while the child waits for a request, and a PAM
\* context in the monitor exactly while the child holds one.
TypeOK ==
  /\ options \in Configs
  /\ CommonOK(child) /\ CommonOK(monitor)
  /\ child.phase \in {"run", "success", "exported", "gone"}
  /\ child.attempt \in 0..2 /\ child.failures \in 0..MaxAuthTries
  /\ child.kbdint \in {"none", "prompt", "no prompt"}
  /\ child.phase = "run" => child.failures < MaxAuthTries
  /\ monitor.phase \in {"preauth", "account", "keystate", "session", "fatal", "gone"}
  /\ monitor.permit \subseteq Requests
  /\ monitor.key \in {NoKey} \cup [type : {"publickey", "hostbased"}, key : Keys]
  /\ monitor.pam \in {"none", "start", "prompt", "right", "wrong", "success", "failed"}
  /\ monitor.account \in {-1, 0, 1} /\ monitor.guesses \in Nat
  /\ child.phase = "run" => (child.kbdint = "none" <=> monitor.pam = "none")

\* list is met by the checks that succeeded, in its order.
Follows(list) ==
  LET v == monitor.verified
  IN \E f \in [DOMAIN list -> DOMAIN v] :
       /\ \A i \in DOMAIN list :
            /\ v[f[i]].name = list[i].name
            /\ list[i].sub \in {"", v[f[i]].sub}
       /\ \A i, j \in DOMAIN list : i < j => f[i] < f[j]

\* A session starts only for a user who passed every method of one of the lists of
\* AuthenticationMethods, in its order, or any method where none is configured
\* (auth2.c:auth2_update_methods_lists).
LoginFollowsList ==
  monitor.phase = "session" =>
    IF AuthenticationMethods = <<>> THEN monitor.verified # <<>>
    ELSE \E i \in DOMAIN AuthenticationMethods : Follows(AuthenticationMethods[i])

\* USERAUTH_SUCCESS is sent only when the monitor, which checked for itself, has also
\* authenticated the same, valid user, under the same remaining lists and with the root
\* and account policy met, or is ending the connection for want of options
\* (auth2.c:userauth_finish, monitor.c:monitor_child_preauth).
SuccessAgreed ==
  child.phase \in {"success", "exported"} =>
    \/ /\ monitor.phase \in {"keystate", "session"}
       /\ monitor.user = child.user /\ monitor.valid /\ monitor.lists = child.lists
       /\ IsRoot(monitor) => PermitRootLogin # "no"
       /\ UsePAM => monitor.account = 1
    \/ monitor.why = "null auth_opts"

\* No key serves twice, so "publickey,publickey" takes two keys
\* (auth2-pubkey.c:auth2_key_already_used).
KeysUsedOnce ==
  \A i, j \in DOMAIN monitor.verified :
    /\ monitor.verified[i].key = monitor.verified[j].key
    /\ monitor.verified[i].key # "none"
    => i = j

\* The options of every key that was used are in force in the session
\* (auth-options.c:sshauthopt_merge).
OptionsEnforced ==
  monitor.phase = "session" =>
    \A i \in DOMAIN monitor.verified :
      monitor.verified[i].name = "publickey" =>
        LET o == KeyOptions[monitor.verified[i].key]
        IN /\ o.command # "" => monitor.auth_opts.command = o.command
           /\ monitor.auth_opts.pty => o.pty

\* Two keys of the user run different commands.
CommandsDiffer ==
  \E j, k \in AuthorizedKeys :
    /\ "" \notin {KeyOptions[j].command, KeyOptions[k].command}
    /\ KeyOptions[j].command # KeyOptions[k].command

\* Root under forced-commands-only, where the monitor strikes a method off its lists before
\* it checks the root policy and the child after it (auth2.c:userauth_finish).
ListsMayPart == IsRoot(monitor) /\ PermitRootLogin = "forced-commands-only"

\* Without PAM the monitor ends the connection over what the client sends for three reasons
\* only: a hostbased request of a user with a style, whose signed data the child puts
\* together without the style; where the user has keys with different commands, that the
\* options of two used ones could not be merged; and a method that only the monitor had struck off its lists
\* (monitor.c:monitor_read, mm_answer_keyverify, monitor_valid_hostbasedblob).
RefusedOnlyFor ==
  ~UsePAM /\ monitor.phase = "fatal" =>
    \/ /\ monitor.why = "bad signature data"
       /\ monitor.key.type = "hostbased" /\ monitor.style # ""
    \/ /\ monitor.why \in {"null auth_opts", "other request expected"}
       /\ monitor.auth_opts = NullOptions /\ CommandsDiffer
    \/ monitor.why = "method not in lists" /\ ListsMayPart

\* No more wrong secrets or signatures are checked for a user who could get in by them
\* than MaxAuthTries allows, however the client mixes methods and abandons
\* conversations; the first "none" is free (auth2.c:userauth_finish).
TriesBounded ==
  monitor.guesses <= MaxAuthTries + (IF PermitEmptyPasswords THEN 1 ELSE 0)

\* auth2.c: a method that succeeded is in a list: "This should not happen, but would be
\* bad if it did".
MethodInLists == monitor.why # "method not in lists"

\* sshd.8: a command= is for sessions in which "this key is used for authentication".
OptionsOfUsedKeys ==
  monitor.phase = "session" /\ monitor.auth_opts.command # "" =>
    \E i \in DOMAIN monitor.verified :
      /\ monitor.verified[i].name = "publickey"
      /\ KeyOptions[monitor.verified[i].key].command = monitor.auth_opts.command

(* Both processes agree on success, without PAM the monitor ends the connection for the three
   known reasons only, and a client cannot buy more guesses than it is allowed. *)
LoginSound == SuccessAgreed /\ RefusedOnlyFor /\ TriesBounded
=============================================================================
