---------------------------- MODULE MCPrograms ----------------------------
(***************************************************************************)
(* More parts of the programs, each from its own initial states.           *)
(***************************************************************************)
EXTENDS SftpBatch, Negotiate, Keys, Keygen, Login, Connect, Packet, Buffer, Text, ClientLoop

VARIABLE part

----------------------------------------------------------------------------
(* SftpBatch: scripts of two commands on small trees; all words of three characters. *)

DirsAnd(dirs, others) ==
    [p \in dirs \cup others |->
        IF p \in dirs THEN Entry("dir", "") ELSE Entry(IF Last(p) = "l" THEN "link" ELSE "file", Last(p))]
MCRemoteFiles ==
    DirsAnd({<<"/">>, <<"/", "d">>, <<"/", "d", "e">>},
            {<<"/", "d", "e", "f">>, <<"/", "d", "x">>, <<"/", "g">>, <<"/", "d", "l">>})
MCLocalFiles ==
    DirsAnd({<<"/">>, <<"/", "t">>, <<"/", "t", "u">>},
            {<<"/", "t", "u", "v">>, <<"/", "t", "w">>, <<"/", "t", "l">>, <<"/", "g">>})
Cmd1(op, dash, a) == Command_s(op, dash, a, <<>>, FALSE)
Cmd2(op, dash, a, b, r) == Command_s(op, dash, a, b, r)
MCCommands ==
    {Cmd2("get", FALSE, <<"d">>, <<>>, TRUE), Cmd2("get", TRUE, <<"d", "*">>, <<"t">>, FALSE),
     Cmd2("get", FALSE, <<"*">>, <<"g">>, TRUE), Cmd2("get", FALSE, <<"*">>, <<"t">>, TRUE),
     Cmd2("get", FALSE, <<"d">>, <<"g">>, TRUE), Cmd2("put", FALSE, <<"t">>, <<"d">>, TRUE),
     Cmd2("put", FALSE, <<"t", "*">>, <<>>, TRUE), Cmd2("put", TRUE, <<"g">>, <<"d", "x">>, FALSE),
     Cmd2("put", FALSE, <<"t", "*">>, <<"g">>, FALSE), Cmd2("rename", FALSE, <<"g">>, <<"d", "x">>, FALSE),
     Cmd2("ln", FALSE, <<"g">>, <<"d", "h">>, FALSE), Cmd1("rm", FALSE, <<"d", "*">>), Cmd1("rm", TRUE, <<"*">>),
     Cmd1("chown", FALSE, <<"*">>), Cmd1("chown", TRUE, <<"*">>), Cmd1("chmod", FALSE, <<"/", "g">>),
     Cmd1("mkdir", FALSE, <<"m">>), Cmd1("rmdir", TRUE, <<"d">>), Cmd1("cd", FALSE, <<"d">>),
     Cmd1("ls", FALSE, <<>>), Cmd1("ls", FALSE, <<"d">>), Cmd1("ls", FALSE, <<"*">>), Cmd1("df", FALSE, <<>>),
     Cmd1("lcd", FALSE, <<"t">>), Cmd1("lmkdir", FALSE, <<"t">>), Cmd1("quit", FALSE, <<>>),
     Cmd1("bad", FALSE, <<>>), Cmd1("blank", FALSE, <<>>)}
MCScripts == {<<a, b>> : a \in MCCommands, b \in MCCommands}
MCDestinations == {<< <<"/", "d">>, <<>> >>, << <<"/", "g">>, <<>> >>, << <<"/", "*">>, <<"t">> >>}
MCTypedWords == UNION {[1..n -> {"a", " ", "'", "\"", "\\", "*", "#"}] : n \in 0..3}
NoSftpBatch == SftpBatchStart(FALSE, <<>>, <<>>, <<>>)

----------------------------------------------------------------------------
(* Negotiate: one dimension of the configuration varied at a time.         *)

Pat(ns) == [neg |-> FALSE, names |-> ns]
ListSpec(op, pats) == [op |-> op, pats |-> pats]
Plain(alg) == [plain |-> alg, cert |-> FALSE]
MCKeyTypeOf ==
    [n \in {"rsa", "rsa256", "x509rsa", "ed", "rsa256cert", "edcert"} |->
        CASE n \in {"rsa", "rsa256", "x509rsa"} -> Plain("rsa") [] n = "ed" -> Plain("ed")
          [] n = "rsa256cert" -> [plain |-> "rsa", cert |-> TRUE]
          [] OTHER -> [plain |-> "ed", cert |-> TRUE]]
MCCertAlgs == [t \in {"rsa", "ed"} |-> IF t = "rsa" THEN <<"rsa256cert">> ELSE <<"edcert">>]
MCKexDefault == <<"curve", "gex">>
MCKexAll == <<"curve", "gex", "ecdh">>
MCHostDefault == <<"edcert", "rsa256cert", "ed", "rsa256">>
MCHostAll == MCHostDefault \o <<"rsa", "x509rsa">>
HKey(type, algs, priv, cert) == [type |-> type, algs |-> algs, priv |-> priv, cert |-> cert]
RsaKey(priv, cert) == HKey("rsa", <<"rsa256", "rsa">>, priv, cert)
XKey(priv) == HKey("rsa", <<"x509rsa", "rsa256", "rsa">>, priv, FALSE)
EdKey(priv, cert) == HKey("ed", <<"ed">>, priv, cert)
Two(a, b) == [client |-> a, server |-> b]
Ways(l) == [ctos |-> l, stoc |-> l]
BaseConfig == Config_s(Two(<<"ssh2">>, <<"ssh2">>), Two({}, {}), Two(ListSpec("", <<>>), ListSpec("", <<>>)),
    ListSpec("", <<>>), {}, <<EdKey(TRUE, FALSE)>>, <<Pat(DOMAIN MCKeyTypeOf)>>,
    Two(Ways(<<"aead">>), Ways(<<"aead">>)), Two(Ways(<<"m1">>), Ways(<<"m1">>)),
    Two(<<"none">>, <<"none">>), FALSE)
KexPatterns == {Pat({"curve"}), Pat({"gex", "ecdh"}), Pat({"ecdh"}), [neg |-> TRUE, names |-> {"gex"}]}
KexSpecs == {ListSpec("", <<>>)}
    \cup {ListSpec(op, <<p>>) : op \in {"+", "-", "^", "="}, p \in KexPatterns}
    \cup {ListSpec(op, <<p, q>>) : op \in {"+", "-", "^", "="}, p \in KexPatterns, q \in KexPatterns}
LineKinds == {"text", "ssh2", "ssh1.99", "ssh1", "bad", "garbage", "scanner", "silence"}
MCLines == {<<a>> : a \in LineKinds} \cup {<<"text", a>> : a \in LineKinds} \cup {<<"text", "text", "ssh2">>}
Orders(S) == UNION {{s \in [1..n -> S] : \A i, j \in 1..n : i # j => s[i] # s[j]} : n \in 1..Cardinality(S)}
HostkeySets ==
    Orders({RsaKey(TRUE, TRUE), EdKey(TRUE, TRUE), XKey(TRUE), RsaKey(FALSE, FALSE), EdKey(FALSE, TRUE)})
MCConfigs ==
    {[BaseConfig EXCEPT !.lines = Two(c, s)] : c \in MCLines, s \in MCLines}
    \cup {[BaseConfig EXCEPT !.kex = Two(c, s), !.guess = g, !.bugs = Two(b, {})] :
            c \in KexSpecs, s \in {ListSpec("", <<>>), ListSpec("=", <<Pat({"ecdh"}), Pat({"gex"})>>)},
            g \in BOOLEAN, b \in {{}, {"CURVE25519PAD"}, {"OLD_DHGEX"}}}
    \cup {[BaseConfig EXCEPT !.keys = ks, !.host = h, !.known = kn, !.hostpats = hp, !.guess = g] :
            ks \in {k \in HostkeySets : Len(k) <= 2}, kn \in {{}, {"rsa"}}, g \in BOOLEAN,
            h \in {ListSpec("", <<>>), ListSpec("^", <<Pat({"rsa", "x509rsa"})>>), ListSpec("+", <<Pat({"x509rsa"})>>)},
            hp \in {<<Pat(DOMAIN MCKeyTypeOf)>>, <<Pat({"ed", "rsa"}), Pat({"edcert"})>>}}
    \cup {[BaseConfig EXCEPT !.enc = Two(ce, se), !.mac = Two(Ways(cm), Ways(<<"m2", "m1">>)), !.comps = Two(cc, sc)] :
            ce \in {[ctos |-> a, stoc |-> b] : a, b \in {<<"aead", "ctr">>, <<"ctr">>}},
            se \in {[ctos |-> a, stoc |-> b] : a, b \in {<<"ctr">>, <<"aead">>}}, cm \in {<<"m1">>, <<"m3">>},
            cc \in {<<"none", "zlib@", "zlib">>, <<"zlib@", "zlib", "none">>, <<"zlib">>},
            sc \in {<<"none", "zlib@">>, <<"zlib", "none">>, <<"none">>}}
NoNegotiate == NegotiateStart(BaseConfig)

----------------------------------------------------------------------------
(* Keys.                                                                   *)

KT(base, curve, cert, sigonly, sigalg) ==
    [base |-> base, curve |-> curve, cert |-> cert, sigonly |-> sigonly, sigalg |-> sigalg]
MCKeyTypes ==
    "ed" :> KT("ed", "", FALSE, FALSE, "") @@ "ed-cert" :> KT("ed", "", TRUE, FALSE, "")
    @@ "rsa" :> KT("rsa", "", FALSE, FALSE, "") @@ "rsa256" :> KT("rsa", "", FALSE, TRUE, "")
    @@ "rsa-cert" :> KT("rsa", "", TRUE, FALSE, "") @@ "rsa256-cert" :> KT("rsa", "", TRUE, TRUE, "rsa256")
    @@ "ec256" :> KT("ec", "p256", FALSE, FALSE, "") @@ "ec384" :> KT("ec", "p384", FALSE, FALSE, "")
    @@ "ec256-cert" :> KT("ec", "p256", TRUE, FALSE, "")
XA(name, base, curve, chain, big, sig, md) ==
    [name |-> name, base |-> base, curve |-> curve, chain |-> chain, big |-> big, sig |-> sig, md |-> md]
MCXAlgs ==
    <<XA("x-ec256", "ec", "p256", TRUE, TRUE, "ec256", "sha256"), XA("x-sign-rsa", "rsa", "", FALSE, FALSE, "x-sign-rsa", "sha1"),
      XA("x-sign-rsa", "rsa", "", FALSE, FALSE, "x-sign-rsa", "md5"), XA("x-ssh-rsa", "rsa", "", TRUE, FALSE, "rsa", "sha1"),
      XA("x-rsa2048", "rsa", "", TRUE, TRUE, "rsa2048", "sha256")>>
MCKinds == {[base |-> "rsa", curve |-> "", pub |-> 1], [base |-> "rsa", curve |-> "", pub |-> 2],
            [base |-> "ec", curve |-> "p256", pub |-> 1]}
MCPassphrases == {<<"", 0>>, <<"secret", 6>>}
MCAuthorities == {Sshkey("rsa", "", 6, 6)}
CertBody(kind, who) == [kind |-> kind, principals |-> who, after |-> 0, before |-> 9]
MCCertBodies == {CertBody("user", {"u"})}
MCIssuers == <<[subject |-> "ca", base |-> "rsa", curve |-> "", pub |-> 7]>>
MCRevokedLists ==
    {<<CommentLine, KeyLine("rsa", Blob("rsa", "", 8)), KeyLine("rsa", Blob("rsa", "", 6))>>,
     <<JunkLine, KeyLine("rsa", Blob("rsa", "", 1))>>,
     <<KeyLine("ec256", Blob("ec256", "p256", 1)), KeyLine("ec384", Blob("ec256", "p256", 1))>>,
     <<SubjectLine("x-sign-rsa", "dn")>>}
NoKeys == KeysStart([base |-> "ed", curve |-> "", pub |-> 1])

----------------------------------------------------------------------------
(* ssh-keygen and ssh-add.                                                 *)

HostLine(host, invalid, hashed, wild, marker) ==
    [host |-> host, invalid |-> invalid, hashed |-> hashed, wild |-> wild, marker |-> marker]
MCKnownHosts ==
    {<<HostLine("h1", FALSE, FALSE, FALSE, FALSE), HostLine("h2", FALSE, TRUE, FALSE, FALSE)>>,
     <<HostLine("h1", FALSE, FALSE, FALSE, TRUE), HostLine("h1", FALSE, FALSE, FALSE, FALSE), HostLine("h3", FALSE, FALSE, TRUE, FALSE)>>,
     <<HostLine("h1", FALSE, FALSE, FALSE, FALSE), HostLine("h2", TRUE, FALSE, FALSE, FALSE)>>}
MCInvocations == {{}, {"s"}, {"s", "+"}, {"R"}, {"H"}, {"p"}, {"c"}, {"A"}, {"A", "p", "c"}, {"H", "l"}}
MCHostkeyNames == <<"rsa", "ed">>
NoKeygen == KeygenStart(<<>>)

----------------------------------------------------------------------------
(* Login: accounts and cases                                               *)

MCAccounts ==
    [n \in {"root", "sshd", "cmd", "u"} |->
        CASE n = "root" -> [uid |-> 0, gid |-> 0, groups |-> {"wheel"}]
          [] n = "sshd" -> [uid |-> 74, gid |-> 74, groups |-> {"sshd"}]
          [] n = "cmd"  -> [uid |-> 90, gid |-> 90, groups |-> {"cmd"}]
          [] n = "u"    -> [uid |-> 1000, gid |-> 100, groups |-> {"users", "audio"}]]
PlainCase ==
    [user |-> "u", runas |-> "root", inherited |-> {"wheel", "disk"}, use_pam |-> FALSE, pam_session |-> TRUE,
     account |-> [exists |-> TRUE, expired |-> FALSE, locked |-> FALSE, shell |-> "ok"],
     chroot |-> FALSE, jail_safe |-> TRUE,
     deny_users |-> <<>>, allow_users |-> <<>>, deny_groups |-> <<>>, allow_groups |-> <<>>,
     keyfiles |-> <<[priv |-> TRUE, pub |-> TRUE], [priv |-> FALSE, pub |-> TRUE]>>, agent |-> FALSE, certs |-> <<1, 2>>,
     client_env |-> {"LANG", "HOME", "SSH_CONNECTION"}, pam_env |-> {"SSH_CONNECTION", "KRB5CCNAME", "MAIL"},
     key_env |-> {"LANG", "USER", "X"}, file_env |-> {"PATH", "X", "Y"}, setenv |-> {"X", "SSH_CLIENT"},
     permit_user_env |-> FALSE, whitelist |-> {},
     request |-> "shell", adm_forced |-> "none", key_forced |-> "none",
     permit_user_rc |-> TRUE, user_rc |-> TRUE, sys_rc |-> TRUE, xauth |-> FALSE,
     tty |-> FALSE, force_pwchange |-> FALSE, nologin |-> FALSE, expose |-> TRUE,
     keys_command |-> "none", keys_command_user |-> "none", methods_possible |-> TRUE,
     test |-> 0, testspec |-> FALSE, rexec |-> TRUE, privsep_dir |-> TRUE]
LoginVariants(c) ==
    {c} \union {[c EXCEPT !.user = "root"], [c EXCEPT !.user = "root", !.tty = TRUE], [c EXCEPT !.runas = "u"], [c EXCEPT !.runas = "cmd"],
     [c EXCEPT !.use_pam = TRUE], [c EXCEPT !.use_pam = TRUE, !.pam_session = FALSE, !.nologin = TRUE],
     [c EXCEPT !.account.exists = FALSE], [c EXCEPT !.account.locked = TRUE], [c EXCEPT !.account.shell = "missing"],
     [c EXCEPT !.chroot = TRUE, !.account.shell = "missing"], [c EXCEPT !.chroot = TRUE, !.jail_safe = FALSE],
     [c EXCEPT !.chroot = TRUE, !.runas = "u"], [c EXCEPT !.chroot = TRUE, !.user = "root"],
     [c EXCEPT !.deny_users = <<{"cmd"}, {"u"}>>], [c EXCEPT !.allow_users = <<{"u"}>>, !.deny_groups = <<{"audio"}>>],
     [c EXCEPT !.allow_groups = <<{"wheel"}>>], [c EXCEPT !.allow_groups = <<{"wheel", "users"}>>],
     [c EXCEPT !.permit_user_env = TRUE], [c EXCEPT !.permit_user_env = TRUE, !.whitelist = {"X", "LANG"}],
     [c EXCEPT !.force_pwchange = TRUE], [c EXCEPT !.force_pwchange = TRUE, !.tty = TRUE],
     [c EXCEPT !.nologin = TRUE], [c EXCEPT !.nologin = TRUE, !.user = "root"],
     [c EXCEPT !.user_rc = FALSE, !.tty = TRUE], [c EXCEPT !.user_rc = FALSE, !.sys_rc = FALSE, !.xauth = TRUE],
     [c EXCEPT !.keys_command = "ok", !.keys_command_user = "cmd"],
     [c EXCEPT !.keys_command = "unsafe", !.keys_command_user = "cmd"], [c EXCEPT !.keys_command = "ok"],
     [c EXCEPT !.keys_command = "ok", !.keys_command_user = "cmd", !.runas = "u"],
     [c EXCEPT !.keyfiles = <<[priv |-> FALSE, pub |-> TRUE]>>], [c EXCEPT !.keyfiles = <<[priv |-> FALSE, pub |-> TRUE]>>, !.agent = TRUE],
     [c EXCEPT !.test = 1], [c EXCEPT !.testspec = TRUE], [c EXCEPT !.rexec = FALSE], [c EXCEPT !.privsep_dir = FALSE]}
MCLoginCases ==
    UNION {LoginVariants([PlainCase EXCEPT !.request = r[1], !.adm_forced = r[2], !.key_forced = r[3]]) :
           r \in {<<"shell", "none", "none">>, <<"command", "none", "cmd">>, <<"sftp", "none", "none">>,
                  <<"ext", "cmd", "cmd">>, <<"command", "internal-sftp", "none">>, <<"sftp", "none", "internal-sftp">>}}
NoLogin == LoginStart(PlainCase)

----------------------------------------------------------------------------
(* Connect: names, proxies and sessions are varied in turn.                *)

MCCanonical == [x \in {"::1", "0:0:1"} |-> "::1"]
DnsCase ==
    [n \in {<<"h">>, <<"h", "a", "">>, <<"h", "b", "">>, <<"h", "a">>, <<"h", "x", "b">>, <<"h", "x", "b", "">>} |->
        [addrs |-> IF Len(n) = 1 THEN <<[a |-> "a1", fam |-> "inet6"], [a |-> "a2", fam |-> "inet"]>>
                   ELSE IF n[2] = "a" THEN <<[a |-> "a2", fam |-> "inet"]>>
                   ELSE <<[a |-> "a3", fam |-> "inet6"], [a |-> "a4", fam |-> "inet"]>>,
         cname |-> IF Len(n) = 1 THEN <<"evil">> ELSE IF n[2] = "b" THEN <<"srv", "b">> ELSE <<>>]]
PlainInvocation ==
    [args |-> <<>>, dest |-> [host |-> <<"h">>, user |-> "unset", port |-> "unset"], command |-> FALSE,
     config |-> [user |-> "u"], again |-> [port |-> "2222"], final |-> FALSE, dns |-> DnsCase,
     isatty |-> TRUE, ctl |-> "none", other |-> FALSE, forwards |-> 0, local_fails |-> FALSE,
     token |-> <<"t1">>, keys |-> [f \in {"k1", "k2", "c1"} |-> [pub |-> IF f = "c1" THEN "cert" ELSE IF f = "k1" THEN "key" ELSE "none",
                                                                cert |-> IF f = "k1" THEN "cert" ELSE "none"]]]
Arg(x) == [o |-> x, v |-> ""]
Hop_c(n, p) == [h |-> n, p |-> p]
Canon_yes == [canon |-> "yes", domains |-> <<"b", "a">>, cnames |-> <<[from |-> {<<"h", "b">>}, to |-> {<<"srv", "b">>}]>>]
Canon_always == [canon |-> "always", domains |-> <<"c", "a", "b">>, max_dots |-> 0]
Persist == [control_path |-> "ctl", control_master |-> "auto", persist |-> "yes"]
NameCases ==
    {[PlainInvocation EXCEPT !.config = c, !.again = a, !.dest.host = h, !.final = f] :
        c \in {[user |-> "u"], Canon_yes, Canon_always, [Canon_yes EXCEPT !.cnames = <<>>], Canon_yes @@ [proxy |-> "cmd"],
               Canon_yes @@ [jump |-> <<NoJump>>], Canon_always @@ [proxy |-> "cmd"], Canon_yes @@ [fallback |-> "no"],
               [hostname |-> <<"%h", "x">>], Canon_yes @@ [hostname |-> <<"%h", "x">>, port |-> "44"],
               [cnames |-> <<[from |-> {<<"h">>}, to |-> {<<"evil">>}]>>], [family |-> "inet", attempts |-> 2]},
        a \in {[port |-> "2222"], [proxy |-> "cmd"], [jump |-> <<Hop_c(<<"j">>, "22")>>]},
        h \in {<<"h">>, <<"h", "x">>, <<"h", "a", "">>, <<"0:0:1">>, <<"fe80%x">>, <<"q">>},
        f \in BOOLEAN}
ProxyCases ==
    {[PlainInvocation EXCEPT !.args = a, !.config = c] :
        a \in {<<>>, <<[o |-> "J", v |-> <<Hop_c(<<"j">>, "22"), Hop_c(<<"k">>, "23")>>]>>, <<[o |-> "J", v |-> <<Hop_c(<<"h">>, "22")>>]>>,
               <<[o |-> "p", v |-> "24"], [o |-> "J", v |-> <<Hop_c(<<"h">>, "22")>>], [o |-> "p", v |-> "25"]>>},
        c \in {[proxy |-> "cmd"], [proxy |-> "-"], [proxy |-> "-", fdpass |-> "yes"], [proxy |-> "cmd", fdpass |-> "yes"],
               [jump |-> <<Hop_c(<<"k">>, "23")>>, proxy |-> "cmd"],
               [attempts |-> 0], Persist @@ [proxy |-> "cmd"]}}
SessionCases ==
    {[PlainInvocation EXCEPT !.args = a, !.config = c, !.command = w, !.ctl = l, !.other = (l = "none"), !.forwards = f] :
        a \in {<<>>, <<Arg("f")>>, <<Arg("N"), Arg("f")>>, <<Arg("t"), Arg("t"), Arg("n")>>, <<Arg("W")>>, <<Arg("W"), Arg("f")>>, <<Arg("M"), Arg("M")>>,
               <<[o |-> "O", v |-> "check"], Arg("W")>>, <<[o |-> "O", v |-> "check"]>>, <<[o |-> "O", v |-> "proxy"]>>, <<Arg("T"), Arg("4"), [o |-> "l", v |-> "u"]>>},
        c \in {[user |-> "u"], Persist, Persist @@ [exit_on_failure |-> "yes", identities |-> <<"k2", "k1", "none">>],
               [Persist EXCEPT !.persist = "no"] @@ [identities |-> <<"k1", "k2">>, certificates |-> <<"c1", "k1">>],
               [Persist EXCEPT !.control_master = "no"], Persist @@ [remote_command |-> "cmd"]},
        w \in BOOLEAN, l \in {"none", "stale", "other"}, f \in {0, 2}}
    \union {[PlainInvocation EXCEPT !.local_fails = TRUE, !.config = [exit_on_failure |-> e], !.isatty = FALSE] : e \in {"yes", "no"}}
    \union {[PlainInvocation EXCEPT !.dest.host = <<>>], [PlainInvocation EXCEPT !.args = <<Arg("6"), [o |-> "S", v |-> "none"]>>]}
MCInvocations_c == NameCases \union ProxyCases \union SessionCases
NoConnect == ConnectStart(PlainInvocation)

----------------------------------------------------------------------------
(* Packet: every suite, with hand-over, faults and many packets.           *)

Message_p(type, size, after, pad) == [type |-> type, size |-> size, after |-> after, pad |-> pad]
\* each side's first two packets received are KEXINIT and NEWKEYS
LoginScript ==
    [client |-> <<Message_p("request", 3, 2, 64), Message_p("ignore", 2, 3, 0), Message_p("data", 12, 3, 0)>>,
     server |-> <<Message_p("success", 1, 3, 0), Message_p("data", 9, 3, 0), Message_p("disconnect", 2, 4, 0)>>]
EagerScript == [LoginScript EXCEPT !.client = <<Message_p("request", 3, 2, 0), Message_p("ignore", 2, 2, 0), Message_p("data", 12, 3, 0)>>]
LongScript ==
    [client |-> <<Message_p("request", 3, 2, 0)>> \o [i \in 1..8 |-> Message_p("data", 1, 3, 0)],
     server |-> <<Message_p("success", 1, 3, 0), Message_p("data", 1, 4, 0)>>]
MuxScript ==
    [client |-> <<Message_p("data", 4, 0, 0), Message_p("ignore", 3, 0, 0), Message_p("data", 6, 0, 0)>>, server |-> <<Message_p("data", 5, 1, 0)>>]
MCSuites ==
    {Suite("cbc", 8, 0, MacLength, FALSE), Suite("cbc", 16, 0, MacLength, TRUE), Suite("ctr", 16, 0, MacLength, FALSE),
     Suite("ctr", 16, 0, MacLength, TRUE), Suite("gcm", 16, MacLength, 0, FALSE), Suite("chacha", 8, MacLength, 0, FALSE)}
PlainPacketCase ==
    [suite |-> Suite("ctr", 16, 0, MacLength, FALSE), comp |-> "none", script |-> LoginScript, mux |-> FALSE, privsep |-> TRUE,
     norekey |-> FALSE, limit |-> 0, fault |-> FALSE, chunks |-> {100}]
MCPacketCases ==
    {[PlainPacketCase EXCEPT !.suite = k, !.comp = c, !.privsep = (c # "zlib"), !.chunks = {23}] : k \in MCSuites, c \in {"none", "delayed", "zlib"}}
    \union {[PlainPacketCase EXCEPT !.suite = k, !.chunks = {9, 100}] : k \in {Suite("cbc", 8, 0, MacLength, FALSE), Suite("gcm", 16, MacLength, 0, FALSE)}}
    \union {[PlainPacketCase EXCEPT !.suite = k, !.fault = TRUE, !.chunks = {19}] : k \in MCSuites}
    \union {[PlainPacketCase EXCEPT !.suite = k, !.script = LongScript, !.privsep = p] : k \in MCSuites, p \in BOOLEAN}
    \union {[PlainPacketCase EXCEPT !.suite = k, !.script = EagerScript] : k \in MCSuites}
    \union {[PlainPacketCase EXCEPT !.script = LongScript, !.limit = 20, !.comp = "delayed"]}
    \union {[PlainPacketCase EXCEPT !.norekey = TRUE, !.limit = 20]}
    \union {[PlainPacketCase EXCEPT !.mux = TRUE, !.script = MuxScript, !.suite = cipher_none, !.chunks = {3, 100}]}
NoPacket == PacketStart(PlainPacketCase)

----------------------------------------------------------------------------
(* Buffer: a buffer in use, partly emptied, or holding strings.            *)

Bytes_(n) == [i \in 1..n |-> i]
BufferStart_(p, g, m) == [put |-> p, got |-> g, made |-> m]
MCBufferStarts ==
    {BufferStart_(Bytes_(12), 5, 0), BufferStart_(Bytes_(20), 5, 1), BufferStart_(<<0, 0, 0, 2, 7, 128, 0, 0, 0, 1, 7>>, 0, 1),
     BufferStart_(<<1, 0, 0, 0, 3, 0, 128, 7, 5>>, 1, 1), BufferStart_(<<0, 0, 0, 5, 0, 0, 0, 1, 7>>, 0, 1)}
MCByteStrings == {<<>>, <<0, 128>>, <<7, 7, 7, 7, 7, 7, 7, 7, 7>>}
NoBuffers == BufferStart(BufferStart_(<<>>, 0, 0))

----------------------------------------------------------------------------
(* Text: short strings over the characters that matter, every mask.        *)

Address_t(af, words, scope) == [af |-> af, words |-> words, scope |-> scope]
V4 == {Address_t("v4", <<w>>, 0) : w \in 0..3}
V6 == {Address_t("v6", w, 0) : w \in {<<0, 0, 0, 0>>, <<1, 0, 0, 0>>, <<2, 0, 0, 0>>, <<2, 3, 0, 0>>, <<2, 3, 2, 0>>, <<2, 3, 2, 1>>, <<2, 3, 3, 0>>, <<3, 0, 0, 1>>}}
MCHostAddresses == V4 \cup V6 \cup {Address_t("v6", <<2, 3, 0, 0>>, 1)}
Entry_t(neg, form, net, bits, like) == [neg |-> neg, form |-> form, net |-> net, bits |-> bits, like |-> like, strange |-> net.scope # 0]
NetEntries ==
    {Entry_t(n, "net", a, b, {}) : n \in BOOLEAN, a \in V4, b \in {<<>>} \cup {<<l>> : l \in 0..3}}
    \cup {Entry_t(n, "net", a, b, {}) : n \in {FALSE}, a \in V6 \cup {Address_t("v6", <<2, 3, 0, 0>>, 1)}, b \in {<<>>} \cup {<<l>> : l \in 0..9}}
SomeEntries ==
    {Entry_t(n, "net", Address_t("v4", <<2>>, 0), <<1>>, {}) : n \in BOOLEAN}
    \cup {Entry_t(n, "pattern", Address_t("v4", <<0>>, 0), <<>>, {Address_t("v4", <<1>>, 0), Address_t("v4", <<2>>, 0)}) : n \in BOOLEAN}
    \cup {Entry_t(FALSE, "net", Address_t("v4", <<3>>, 0), <<1>>, {}), Entry_t(FALSE, "empty", Address_t("v4", <<0>>, 0), <<>>, {}),
          Entry_t(FALSE, "net", Address_t("v6", <<2, 3, 0, 0>>, 1), <<>>, {}), Entry_t(FALSE, "net", Address_t("v6", <<2, 0, 0, 0>>, 0), <<2>>, {})}
Texts(S, n) == UNION {[1..k -> S] : k \in 0..n}
MCAddressLists == {<<e>> : e \in NetEntries} \cup Texts(SomeEntries, 2) \cup {s \in [1..3 -> SomeEntries] : s[1].neg # s[2].neg}
MCMatchStrings == Texts({"a", "h"}, 3)
MCMatchPatterns == Texts({"a", "h", "*", "?"}, 4)
MCPatternLists ==
    Texts({[neg |-> e.neg, pattern |-> p, entry |-> e] :
            e \in {x \in SomeEntries : x.form # "empty" /\ ~x.strange}, p \in {<<"a">>, <<"*">>}}, 2)
MCWords == Texts({"a", " ", "'", "\"", "\\"}, 3)
MCNextWords == {<<>>, <<"a">>, <<"\"">>, <<"\\">>}
MCArgumentLists == {<<a>> : a \in MCWords} \cup {<<a, b>> : a, b \in Texts({"a", " ", "\"", "\\"}, 2)}
MCFormatStrings == Texts({"a", "%", "h"}, 3)
MCTimeStrings ==
    LET one == {[secs |-> n, unit |-> u] : n \in {0, 1, 2, 1000}, u \in {"", "s", "m", "h", "d", "w", "x"}} IN
    {<<>>} \cup {<<a>> : a \in one} \cup {<<a, b>> : a \in {x \in one : x.unit # ""}, b \in one}
MCWrittenDestinations ==
    {[ok |-> TRUE, user |-> u, host |-> h, port |-> p, path |-> d] :
        u \in {NotGiven, <<"u">>, <<"u", "@", "a">>, <<"u", "%">>}, h \in {<<"h">>, <<"a", ":", "1">>, <<"h", ".", "a">>}, p \in {Unset_port, 1, 22},
        d \in {NotGiven, <<"p">>, <<"p", "@">>, <<"p", "/", "p">>, <<"%">>, <<"p", ":">>}}
MCRawDestinations == Texts({"a", "@", ":", "[", "]", "/", "1"}, 4)
Terminal_t(o, i, c, f) == [ospeed |-> o, ispeed |-> i, cc |-> c, flags |-> f]
MCTerminals ==
    {Terminal_t(38400, i, [VINTR |-> c, VERASE |-> 0], f) : i \in {9600, 460800}, c \in {0, 3}, f \in SUBSET {"ECHO", "IUTF8", "cs0", "cs1"}}
MCModeMessages == Texts({<<53, 1>>, <<53, 0>>, <<53>>, <<0>>, <<7, 1>>, <<200>>, <<200, 1>>}, 3)
NoText == TextInit

----------------------------------------------------------------------------
(* ClientLoop: typing, signals and resizes; timers.                        *)

LoopCase(name, typed, events) == [name |-> name, typed |-> typed, events |-> events]
MCLoopCases ==
    {LoopCase("tty", 3, 0), LoopCase("tty", 2, 1), LoopCase("tty", 0, 2), LoopCase("alive", 1, 1), LoopCase("persist", 1, 2)}
NoClientLoop == ClientLoopStart(LoopCase("alive", 0, 0))

----------------------------------------------------------------------------
MCInit ==
    /\ part \in {"sftp", "negotiate", "keys", "keygen", "login", "connect",
                "packet", "buffer", "text", "loop"}
    /\ IF part = "sftp" THEN SftpBatchInit ELSE NoSftpBatch
    /\ IF part = "negotiate" THEN NegotiateInit ELSE NoNegotiate
    /\ IF part = "keys" THEN KeysInit ELSE NoKeys
    /\ IF part = "keygen" THEN KeygenInit ELSE NoKeygen
    /\ IF part = "login" THEN LoginInit ELSE NoLogin
    /\ IF part = "connect" THEN ConnectInit ELSE NoConnect
    /\ IF part = "packet" THEN PacketInit ELSE NoPacket
    /\ IF part = "buffer" THEN BufferInit ELSE NoBuffers
    /\ IF part = "text" THEN TextInit ELSE NoText
    /\ IF part = "loop" THEN ClientLoopInit ELSE NoClientLoop

MCNext ==
    /\ \/ part = "sftp" /\ SftpBatchNext
       \/ part # "sftp" /\ UNCHANGED sftpbatchVars
    /\ \/ part = "negotiate" /\ NegotiateNext
       \/ part # "negotiate" /\ UNCHANGED negotiateVars
    /\ \/ part = "keys" /\ KeysNext
       \/ part # "keys" /\ UNCHANGED keysVars
    /\ \/ part = "keygen" /\ KeygenNext
       \/ part # "keygen" /\ UNCHANGED keygenVars
    /\ \/ part = "login" /\ LoginNext
       \/ part # "login" /\ UNCHANGED lvars
    /\ \/ part = "connect" /\ ConnectNext
       \/ part # "connect" /\ UNCHANGED connectVars
    /\ \/ part = "packet" /\ PacketNext
       \/ part # "packet" /\ UNCHANGED packetVars
    /\ \/ part = "buffer" /\ BufferNext
       \/ part # "buffer" /\ UNCHANGED bufferVars
    /\ \/ part = "text" /\ TextNext
       \/ part # "text" /\ UNCHANGED textVars
    /\ \/ part = "loop" /\ ClientLoopNext
       \/ part # "loop" /\ UNCHANGED loopVars
    /\ UNCHANGED part

MCSpec == MCInit /\ [][MCNext]_<<part, sftpbatchVars, negotiateVars, keysVars, keygenVars, lvars, connectVars, packetVars, bufferVars, textVars, loopVars>>

(* Keys keep their parts together in memory, on the wire, with the agent and in
   files (KeysSound), looked at while the part that models them runs. *)
KeysHold == part = "keys" => KeysSound

(* Programs, helpers and processes hold exactly the rights they are meant to
   and a login leaves nothing behind (LoginSound), while the part runs. *)
LoginHolds == part = "login" => LoginSound

(* The client connects where the user asked it to, goes into the background
   only when it may and leaves nothing behind (ConnectSound), while the part
   that models it runs. *)
ConnectHolds == part = "connect" => ConnectSound

(* What is received is what was sent, whatever the reads, the suite and the
   hand-over, and no nonce is used twice (PacketSound), while the part runs. *)
PacketHolds == part = "packet" => PacketSound

(* A buffer is a queue of bytes with a limit, however its memory moves and
   whoever else looks into it (BufferSound), while the part runs. *)
BufferHolds == part = "buffer" => BufferSound

(* Each conversion computes what it is meant to, or is undone by its inverse
   (TextSound), while the part runs. *)
TextHolds == part = "text" => TextSound

(* Typed characters, terminal, window size and timers of the client's main
   loop (ClientLoopSound), while the part runs. *)
ClientLoopHolds == part = "loop" => ClientLoopSound

(* Buffers hold their bytes and conversions of text compute what they are meant to. *)
LibraryHolds == BufferHolds /\ TextHolds
=============================================================================
