---------------------------- MODULE MCDecisions ----------------------------
(***************************************************************************)
(* Parts of the programs that decide and do not wait for one another, each *)
(* from its own initial states.                                            *)
(***************************************************************************)
EXTENDS Hostkeys, ReadConf, ServConf, Krl, SftpServer, X509Store, Scp,
        AuthKeys, Xmss, Moduli, Dynamic, Proxy, ClientAuth

VARIABLE part

----------------------------------------------------------------------------
(* Krl: lines of ssh-keygen -k.                                            *)

Revokes(ca, lo, hi) == [kind |-> "serial", ca |-> ca, lo |-> lo, hi |-> hi]
KeyLine(kind, k) == [kind |-> kind, k |-> k]
Cert(serial, id) == [key |-> "b", ca |-> "ca1", serial |-> serial, id |-> id]

\* Ranges that overlap and touch, with gaps that suit each of the forms, up to MaxSerial.
MCKrlLines ==
    {Revokes("ca1", 1, 1), Revokes("ca1", 3, 3), Revokes("ca1", 2, 9), Revokes("ca1", 40, 40),
     Revokes("ca1", 60, 200), Revokes("ca1", 250, 399), Revokes("ca1", 397, 398),
     Revokes("ca1", 0, 2), Revokes("any", 396, 399),
     [kind |-> "id", ca |-> "ca1", id |-> "x"], KeyLine("key", Plain("a")),
     KeyLine("sha1", Plain("ca1")), KeyLine("sha256", Plain("b")), KeyLine("file", Plain("b")),
     KeyLine("file", Cert(0, "y")), KeyLine("file", Cert(10, "y"))}
MCKrlStarts == {{}, {Range_k(1, 1), Range_k(90, 90), Range_k(200, 200)},
                {Range_k(390, 390), Range_k(397, 398)}}
NoKrl == KrlStart({}, 0)

----------------------------------------------------------------------------
(* Hostkeys: lines, keys and options; k2 is revoked for the host.          *)

MCKnownHosts ==
    {{Line({"host"}, "none", "k1"), Line({"host"}, "revoked", "k2"), Line({"ip"}, "none", "k3")},
     {Line({"host"}, "ca", "ca"), Line({"ip"}, "none", "k1"),
      Line({"host", "host:port"}, "revoked", "k2")},
     {Line({"ip", "ip:port"}, "none", "k3")}}
O(cert, k, valid) == [cert |-> cert, key |-> k, ca |-> "ca", valid |-> valid]
MCOffers == {O(FALSE, "k1", TRUE), O(FALSE, "k2", TRUE), O(TRUE, "k1", TRUE)}
H(name, strict, ip, update, dns) ==
    [name |-> name, strict |-> strict, check_host_ip |-> ip, update |-> update, dns |-> dns]
MCHostOptions ==
    {H("host", "ask", TRUE, "yes", FALSE), H("host:port", "ask", TRUE, "ask", FALSE),
     H("host", "off", FALSE, "yes", FALSE), H("host:port", "new", TRUE, "yes", FALSE),
     H("host", "yes", TRUE, "yes", FALSE), H("host", "ask", TRUE, "no", TRUE)}
NoHostkeys == HostkeysStart({}, [p \in Procs |-> O(FALSE, "k1", TRUE)],
                            [p \in Procs |-> H("host", "yes", FALSE, "no", FALSE)])

----------------------------------------------------------------------------
(* ReadConf: all files of three lines; two files to include, one of them   *)
(* without end.                                                            *)

Words(k, w) == [k |-> "option", opt |-> k, val |-> w]
Opt(k, v) == Words(k, <<v>>)
HostLine(h, n) == [k |-> "host", hosts |-> h, negated |-> n]
Criterion(a, v, n) == [attrib |-> a, values |-> v, negate |-> n]
MatchLine(c) == [k |-> "match", criteria |-> c]
Incl == [k |-> "include", file |-> "a"]
Loop == [k |-> "include", file |-> "loop"]
ClientLines ==
    {Opt("user", "a"), Opt("timeout", "none"), Opt("identity", "i"), Opt("facility", "f"),
     HostLine({"h"}, {}), HostLine({"c", "x"}, {"x"}), HostLine({"h", "c"}, {"c"}),
     MatchLine({Criterion("final", {}, FALSE), Criterion("user", {"b"}, TRUE)}),
     Opt("hostname", "x"), Opt("canonicalize", "yes"), Incl, Loop, [k |-> "bad"]}
ClientLinesOf(k) ==
    CASE k \in {"sendenv", "environ", "hostfiles", "command", "mask", "ipqos"} ->
            {Opt(k, "1"), Opt(k, "none"), Words(k, <<"2", "3">>), Words(k, <<"4", "5", "bad">>)}
      [] k \in {"identity", "forward"} ->
            {Opt(k, "1"), Opt(k, "2"), Opt("forward", "bad"), Opt("clear", "yes")}
      [] k = "agent" -> {Opt(k, "yes"), Opt(k, "no"), Opt(k, "path"), Opt(k, "bad")}
      [] k = "rekeylimit" -> {Opt(k, "1"), Words(k, <<"2", "t">>), Words(k, <<"3", "none">>),
                              Opt(k, "bad")}
      [] k = "proxy" -> {Opt(k, "1"), Opt(k, "none"), Opt("jump", "2"), Opt("jump", "none")}
      [] k = "persist" -> {Opt(k, "yes"), Opt(k, "no"), Opt(k, "9"), Opt(k, "bad")}
      [] k = "timeout" -> {Opt(k, "1"), Opt(k, "none"), Opt(k, "bad"), Opt("jump", "bad")}
MCUserFiles ==
    {<<a, b, c>> : a \in ClientLines, b \in ClientLines, c \in ClientLines}
    \cup UNION {{<<a, c, HostLine({"c"}, {}), b, HostLine({"h", "c"}, {}), d>> :
                    a \in ClientLinesOf(k), b \in ClientLinesOf(k), d \in ClientLinesOf(k),
                    c \in {Opt("user", "a"), Opt("canonicalize", "yes")}} :
                k \in {"sendenv", "environ", "hostfiles", "command", "mask", "ipqos", "identity",
                       "forward", "agent", "rekeylimit", "proxy", "persist", "timeout"}}
MCSystemFile ==
    <<HostLine({"h"}, {}), Incl, Opt("user", "s"), Opt("timeout", "9"), Opt("facility", "g"),
      Opt("mask", "m"), Opt("identity", "1"), HostLine({"x", "c"}, {}), Opt("ipqos", "q"), Opt("ipqos", "r"), Incl,
      Opt("mask", "n")>>
MCIncludedFiles ==
    [a |-> <<Opt("user", "b"), Opt("sendenv", "e"),
             MatchLine({Criterion("originalhost", {"h"}, FALSE), Criterion("all", {}, FALSE)}),
             Opt("identity", "k"), MatchLine({Criterion("host", {"c"}, FALSE)}),
             Opt("identity", "j"), Opt("user", "d")>>,
     loop |-> <<HostLine({"h"}, {}), Loop>>]
MCCommandLines == {<<>>, << <<"user", <<"z">> >>, <<"identity", <<"1">> >> >>}
NoReadConf == ReadConfStart(<<>>, <<>>)

----------------------------------------------------------------------------
(* ServConf: files of four lines that nest blocks and files, and files of  *)
(* three lines of one keyword around the first line of a block.            *)

ServerMatch(u) == [k |-> "match", users |-> u]
ServerLines ==
    {Opt("root", "1"), Opt("root", "2"), Opt("grace", "1"), Opt("mask", "1"), Opt("allow", "1"),
     ServerMatch("u"), ServerMatch("v"), ServerMatch("all"), Incl, Loop}
LinesOf(k) ==
    CASE k \in {"root", "grace", "ca", "port", "keysfile", "mask", "startups"} ->
            {Opt(k, "1"), Opt(k, "2"), Opt(k, "bad")}
      [] k \in {"allow", "setenv"} -> {Opt(k, "1"), Words(k, <<"2", "3">>), Opt(k, "bad")}
      [] k = "opens" -> {Opt(k, "any"), Words(k, <<"2", "3">>), Opt(k, "none"), Opt(k, "bad")}
      [] k = "listen" -> {Opt(k, "1"), Words(k, <<"2", "9">>), Opt("port", "8"), Opt(k, "bad")}
      [] k \in {"hostkey", "pidfile", "force", "banner", "akcommand", "pubkeyalgs", "accepted"} ->
            {Opt(k, "1"), Opt(k, "none"), Opt(k, "bad")}
      [] k = "subsystem" -> {Opt(k, "1"), Opt(k, "2"), Opt(k, "3")}
      [] k = "userenv" -> {Opt(k, "yes"), Opt(k, "no"), Opt(k, "names")}
      [] k = "rekey" -> {Opt(k, "1"), Words(k, <<"2", "t">>), Words(k, <<"3", "none">>), Opt(k, "bad")}
      [] k = "methods" -> {Opt(k, "1"), Opt(k, "any"), Words(k, <<"1", "any">>), Opt(k, "bad")}
MCConfigFiles ==
    {<<a, b, c, d>> : a \in ServerLines, c \in ServerLines, d \in ServerLines,
                      b \in {ServerMatch("u"), ServerMatch("all"), Incl}}
    \cup UNION {{<<a, b, c, d>> : a \in LinesOf(k), c \in LinesOf(k), d \in LinesOf(k),
                                 b \in {ServerMatch("u"), ServerMatch("all")}} :
                    k \in ServerKeywords \ {"whitelist", "interval"}}
MCConfigIncludes ==
    [a |-> <<Opt("root", "3"), ServerMatch("u"), Opt("root", "4"), Opt("allow", "2"),
             ServerMatch("v"), Opt("opens", "3")>>,
     loop |-> <<ServerMatch("u"), Loop>>]
NoServConf == ServConfStart(<<>>)

----------------------------------------------------------------------------
(* SftpServer: a file, a directory and a free name.                        *)

Named(op, n) == [op |-> op, name |-> n]
Named2(op, a, b) == [op |-> op, name |-> a, name2 |-> b]
On(op, h) == [op |-> op, handle |-> h]
Open(n, flags) == [op |-> "open", name |-> n, flags |-> flags]
MCSftpRequests ==
    {Open("f", {"read"}), Open("f", {"read", "trunc"}), Open("g", {"write", "creat", "excl"}),
     Named("opendir", "d"), On("close", 1), On("close", 2), On("write", 1), On("fsetstat", 2),
     On("read", 1), Named("setstat", "f"), Named("remove", "f"), Named("mkdir", "g"),
     Named("rmdir", "d"), Named2("rename", "f", "g"), Named2("rename", "d", "f"),
     Named2("rename", "d", "g"), Named2("posix-rename", "f", "g"), Named2("hardlink", "f", "g"),
     Named2("symlink", "f", "g"), [op |-> "unknown extended"], [op |-> "unknown"]}
MCFiles == [f |-> [type |-> "file", ino |-> 1], d |-> [type |-> "dir", ino |-> 2], g |-> Nothing_f]
Mode(r, denied, allowed) == [readonly |-> r, denied |-> denied, allowed |-> allowed]
MCSftpModes ==
    {Mode(FALSE, {}, {}), Mode(TRUE, {}, {}),
     Mode(FALSE, {"remove"}, {"open", "close", "remove", "rename"})}
NoSftpServer == SftpServerStart(MCFiles, Mode(TRUE, {}, {}))

----------------------------------------------------------------------------
(* X509Store: a root, an authority below it and a certificate of either.   *)

XCert(subject, issuer, key, by, crlSign, cdp, from, to, aia) ==
    [subject |-> subject, issuer |-> issuer, key |-> key, by |-> by, crlSign |-> crlSign,
     cdp |-> cdp, from |-> from, to |-> to, aia |-> aia]
Root == XCert("root", "root", "kr", "kr", TRUE, FALSE, 1, 3, <<>>)
OldRoot == XCert("root", "root", "ko", "ko", TRUE, FALSE, 1, 1, <<>>)
Sub(crlSign, cdp) == XCert("sub", "root", "ks", "kr", crlSign, cdp, 1, 2, <<>>)
User(issuer, by, cdp, from, aia) == XCert("user", issuer, "ku", by, TRUE, cdp, from, 3, aia)
MCLeaves ==
    {User("root", "kr", FALSE, 1, <<>>), User("sub", "ks", FALSE, 1, <<"ldap", "a", "b">>),
     User("sub", "ks", TRUE, 2, <<"a">>), User("user", "ku", FALSE, 1, <<>>),
     User("root", "ko", FALSE, 2, <<"ldap">>)}
MCCrls ==
    {{}, {Crl("root", "kr", 1, 2, {}), Crl("sub", "ks", 1, 3, {"user"})},
     {Crl("root", "kr", 1, 1, {"sub"})}, {Crl("sub", "ks", 1, 2, {})}, {Crl("root", "kx", 1, 3, {}), Crl("user", "ku", 2, 3, {})}}
MCStores == {{Root}, {Root, OldRoot}, {Root, Sub(TRUE, TRUE)}, {Sub(TRUE, FALSE)}}
XLocations(certs, dir, crlFile) ==
    [certificate_path |-> Location(FALSE, FALSE, {}), certificate_file |-> Location(TRUE, TRUE, certs),
     revocation_path |-> Location(dir, FALSE, {}), revocation_file |-> Location(TRUE, crlFile # {}, crlFile)]
MCXSetups ==
    {[leaf |-> l, presented |-> p, locations |-> XLocations(s, d, c),
      flags |-> [selfissued |-> i, mandatory_crl |-> m, va |-> v]] :
        l \in MCLeaves, p \in {{}, {Sub(TRUE, FALSE)}, {Sub(FALSE, TRUE)}}, s \in MCStores,
        d \in BOOLEAN, c \in MCCrls, i \in BOOLEAN, m \in BOOLEAN, v \in {"none", "cert", "spec"}}
MCArrivals == {Crl("root", "kr", 1, 3, {"sub"}), Crl("sub", "kx", 1, 3, {"user"})}
NoX509 == X509Start([leaf |-> Root, presented |-> {}, locations |-> XLocations({}, FALSE, {}),
                     flags |-> [selfissued |-> FALSE, mandatory_crl |-> FALSE, va |-> "none"]])

----------------------------------------------------------------------------
(* Scp: a tree and a file, from two hosts or to one.                       *)

Tree == <<FileItem("a"), DirItem("d"), FileItem("b"), DirEnd>>
MCScpJobs ==
    {[tolocal |-> t, pflag |-> p, sources |-> <<Tree, <<FileItem("c")>>>>] : t \in BOOLEAN, p \in BOOLEAN}
NoScp == ScpStart([tolocal |-> FALSE, pflag |-> FALSE, sources |-> <<Tree>>])

----------------------------------------------------------------------------
(* AuthKeys: a plain key, OpenSSH and X.509 certificates.                  *)

O1(o) == [o |-> o]
OV(o, v) == [o |-> o, v |-> v]
ON(o, s) == [o |-> o, names |-> s]
OI(o, n) == [o |-> o, n |-> n]
FlagOption(f, on) == [o |-> "flag", v |-> f, on |-> on]
MCCritical ==
    {<<>>, <<OV("command", "c1")>>, <<ON("source-address", {"far"})>>, <<ON("source-address", {"here"})>>,
     <<O1("unknown")>>, <<OV("command", "c1"), OV("command", "c1")>>}
OsshCert(type, to, principals, critical, extensions) ==
    [kind |-> "cert", key |-> "k1", ca |-> "ca", type |-> type, from |-> 1, to |-> to,
     principals |-> principals, critical |-> critical, extensions |-> extensions]
MCOffered ==
    {[kind |-> "plain", key |-> "k1"]}
    \cup {[kind |-> "x509", key |-> "k1", subject |-> "dn", selfissued |-> s, from |-> f, to |-> 2] :
            s \in BOOLEAN, f \in {1, 2}}
    \cup {OsshCert("user", 3, p, c, <<FlagOption("pty", TRUE), O1("unknown")>>) :
            p \in {{}, {"user"}, {"p"}}, c \in MCCritical}
    \cup {OsshCert("host", 3, {"user"}, <<>>, <<>>), OsshCert("user", 2, {"p", "user"}, <<>>, <<FlagOption("x11", TRUE)>>)}
AkLine(options, key, subject) == [options |-> options, key |-> key, subject |-> subject]
MCKeyLines ==
    {AkLine(<<>>, "k1", ""), AkLine(<<O1("cert-authority"), OV("command", "c2")>>, "k1", ""),
     AkLine(<<O1("cert-authority"), FlagOption("pty", FALSE)>>, "ca", ""),
     AkLine(<<O1("cert-authority"), ON("principals", {"p", "q"}), OV("command", "c1")>>, "ca", ""),
     AkLine(<<O1("cert-authority"), OI("expiry-time", 2), OI("expiry-time", 1), OV("command", "c2")>>, "ca", ""),
     AkLine(<<FlagOption("x11", TRUE), O1("restrict"), FlagOption("pty", TRUE)>>, "k1", ""),
     AkLine(<<ON("from", {"here"}), OI("expiry-time", 1)>>, "k1", ""), AkLine(<<ON("from", {"far"})>>, "k1", ""),
     AkLine(<<OI("permitopen", 1), OI("permitopen", 2), OI("permitopen", 3)>>, "k1", ""),
     AkLine(<<ON("principals", {"p"})>>, "k1", ""), AkLine(<<O1("unknown")>>, "k1", ""),
     AkLine(<<OV("command", "c1")>>, "", "dn"), AkLine(<<O1("restrict")>>, "k1", "dn"),
     AkLine(<<>>, "k2", "other")}
PrincipalLine(options, n) == [options |-> options, name |-> n]
MCPrincipals ==
    {NoList, Holds(<<PrincipalLine(<<OV("command", "c1")>>, "p"), PrincipalLine(<<>>, "p")>>),
     Holds(<<PrincipalLine(<<OI("expiry-time", 1), OI("permitopen", 1)>>, "p")>>),
     Holds(<<PrincipalLine(<<O1("cert-authority")>>, "user")>>)}
Site(fs, ca, p, command, keys, revoked, first, selfissued) ==
    [files |-> fs, ca_keys |-> ca, principals_file |-> p, principals_command |-> command,
     keys_command |-> keys, revoked |-> revoked, validate_first |-> first,
     key_allow_selfissued |-> selfissued]
MCSites ==
    {Site(<<<<a, b>>, <<c>>>>, {}, NoList, NoList, NoList, {}, v, i) :
        a \in MCKeyLines, b \in MCKeyLines, v \in BOOLEAN, i \in BOOLEAN, c \in {AkLine(<<>>, "k1", "dn")}}
    \cup {Site(<<<<AkLine(<<>>, "k2", "")>>>>, {"ca"}, p, c, k, r, TRUE, FALSE) :
        p \in MCPrincipals, c \in MCPrincipals, r \in {{}, {"k1"}, {"ca"}},
        k \in {NoList, Holds(<<AkLine(<<>>, "k1", "")>>)}}
NoAuthKeys == AuthKeysStart([kind |-> "plain", key |-> "k1"],
                            Site(<<>>, {}, NoList, NoList, NoList, {}, TRUE, FALSE))

----------------------------------------------------------------------------
(* Candidates of 7 before 9 bits, and of 9 before 8 bits.                  *)

SieveOf(base, power) == [base |-> base, power |-> power]
MCSieveStarts == {<<SieveOf(101, 7), SieveOf(257, 9)>>, <<SieveOf(257, 9), SieveOf(161, 8)>>}
MCScreenOptions ==
    {[start |-> 0, lines |-> 0, generator |-> 0], [start |-> 1, lines |-> 3, generator |-> 0],
     [start |-> 0, lines |-> 0, generator |-> 5]}
MCDhRequests == {[min |-> 8, want |-> 8, max |-> 10], [min |-> 8, want |-> 9, max |-> 10],
                 [min |-> 9, want |-> 9, max |-> 9]}

----------------------------------------------------------------------------
(* SOCKS requests of every kind, permissions, X11 packets.                 *)

SocksRequest(k, c, m, u, h) ==
    [kind |-> k, command |-> c, methods |-> m, user |-> u, host |-> h, port |-> <<0, 7>>]
MCSocksRequests ==
    {SocksRequest("4", 1, <<>>, <<9>>, <<1, 0, 0, 4>>), SocksRequest("4", 1, <<>>, <<>>, <<0, 0, 0, 0>>),
     SocksRequest("4a", 1, <<>>, <<>>, <<9, 8>>), SocksRequest("4a", 1, <<>>, <<9, 9>>, <<9>>),
     SocksRequest("4", 2, <<>>, <<>>, <<1, 2, 3, 4>>),
     SocksRequest("4", 1, <<>>, <<9, 9, 9, 9, 9, 9>>, <<1, 2, 3, 4>>),
     SocksRequest("5ip", 1, <<0>>, <<>>, <<1, 0, 0, 4>>), SocksRequest("5name", 1, <<2, 0>>, <<>>, <<9, 8>>),
     SocksRequest("5name", 1, <<2>>, <<>>, <<9>>), SocksRequest("5ip", 3, <<0>>, <<>>, <<1, 0, 0, 4>>),
     SocksRequest("5ip6", 1, <<0>>, <<>>, [i \in 1..16 |-> i % 3]), SocksRequest("bad", 1, <<>>, <<>>, <<>>)}
PermHost == [host |-> <<9, 8>>, port |-> ANY]
PermPort == [host |-> ANY, port |-> <<0, 7>>]
MCPermissions ==
    {[forwarding |-> TRUE, all |-> TRUE, user |-> {}, admin |-> {}],
     [forwarding |-> FALSE, all |-> TRUE, user |-> {}, admin |-> {}],
     [forwarding |-> TRUE, all |-> FALSE, user |-> {PermHost}, admin |-> {}],
     [forwarding |-> TRUE, all |-> TRUE, user |-> {}, admin |-> {PermHost}],
     [forwarding |-> TRUE, all |-> FALSE, user |-> {PermPort}, admin |-> {PermHost}]}
MCSocksData == <<4, 0>>
X11Request(o, p, c) == [order |-> o, protocol |-> p, cookie |-> c]
MCX11Requests ==
    {X11Request(66, <<7>>, <<3, 2>>), X11Request(108, <<7>>, <<3, 2>>), X11Request(108, <<7>>, <<3, 2, 0>>),
     X11Request(66, <<7, 7>>, <<3, 2>>), X11Request(1, <<7>>, <<3, 2>>), X11Request(66, <<7>>, <<5, 6>>)}
MCSavedProtocol == <<7>>
MCFakeCookie == <<3, 2>>
MCRealCookie == <<5, 6>>

----------------------------------------------------------------------------
(* ClientAuth: every combination of the options that matter.               *)

UserFile(k, kind, public, ext) == [key |-> k, kind |-> kind, public |-> public, ext |-> ext]
AgentKey(k, kind) == [key |-> k, kind |-> kind]
AllAlgs == {"rsa-sha2-256", "ssh-ed25519", "x509v3-sign-rsa", "rsa-sha2-256-cert"}
UserSetup ==
    [files |-> <<UserFile("k1", "rsa", TRUE, FALSE), UserFile("k2", "ed25519", FALSE, FALSE),
                 UserFile("k3", "ed25519", TRUE, FALSE), UserFile("k5", "ed25519", TRUE, TRUE),
                 UserFile("k5", "ed25519", TRUE, FALSE), UserFile("k6", "rsa", TRUE, TRUE)>>,
     certs |-> <<"c1">>, plain |-> [c \in {"c1"} |-> "k1"],
     agent |-> <<AgentKey("k4", "x509"), AgentKey("k3", "ed25519")>>, identities_only |-> FALSE,
     prompts |-> 2, batch_mode |-> FALSE,
     preferred |-> <<"hostbased", "publickey", "keyboard-interactive", "password">>,
     pubkey_algorithms |-> AllAlgs, announced |-> TRUE, pkalgs |-> AllAlgs,
     hostkeys |-> 1, hostok |-> TRUE, lists |-> {}, authorized |-> {},
     asks |-> TRUE, expired |-> FALSE, clumsy |-> FALSE]
MCLists == {{<<"publickey", "publickey">>, <<"password", "publickey">>},
            {<<"password", "publickey">>, <<"hostbased", "keyboard-interactive", "password">>},
            {<<"keyboard-interactive", "publickey">>}}
MCSetups ==
    {[UserSetup EXCEPT !.clumsy = c, !.lists = l, !.identities_only = i, !.batch_mode = b,
                  !.announced = a, !.expired = x, !.authorized = k] :
        c \in BOOLEAN, i \in BOOLEAN, b \in BOOLEAN, a \in BOOLEAN, x \in BOOLEAN,
        k \in {{"k2", "k3"}, {"c1", "k5"}}, l \in MCLists}
NoClientAuth == ClientAuthStart([UserSetup EXCEPT !.lists = {<<"password">>}])

----------------------------------------------------------------------------
MCInit ==
    /\ part \in {"hostkeys", "client", "server", "krl", "sftpd", "x509",
                "scp", "authkeys", "xmss", "moduli", "dynamic", "proxy",
                "auth"}
    /\ IF part = "hostkeys" THEN HostkeysInit ELSE NoHostkeys
    /\ IF part = "client" THEN ReadConfInit ELSE NoReadConf
    /\ IF part = "server" THEN ServConfInit ELSE NoServConf
    /\ IF part = "krl" THEN KrlInit ELSE NoKrl
    /\ IF part = "sftpd" THEN SftpServerInit ELSE NoSftpServer
    /\ IF part = "x509" THEN X509Init ELSE NoX509
    /\ IF part = "scp" THEN ScpInit ELSE NoScp
    /\ IF part = "authkeys" THEN AuthKeysInit ELSE NoAuthKeys
    /\ XmssStart
    /\ IF part = "moduli" THEN ModuliInit ELSE NoModuli
    /\ IF part = "dynamic" THEN DynamicInit ELSE NoDynamic
    /\ IF part = "proxy" THEN ProxyInit ELSE NoProxy
    /\ IF part = "auth" THEN ClientAuthInit ELSE NoClientAuth

MCNext ==
    /\ \/ part = "hostkeys" /\ HostkeysNext
       \/ part # "hostkeys" /\ UNCHANGED hostkeysVars
    /\ \/ part = "client" /\ ReadConfNext
       \/ part # "client" /\ UNCHANGED readconfVars
    /\ \/ part = "server" /\ ServConfNext
       \/ part # "server" /\ UNCHANGED servconfVars
    /\ \/ part = "krl" /\ KrlNext
       \/ part # "krl" /\ UNCHANGED krlVars
    /\ \/ part = "sftpd" /\ SftpServerNext
       \/ part # "sftpd" /\ UNCHANGED sftpdVars
    /\ \/ part = "x509" /\ X509Next
       \/ part # "x509" /\ UNCHANGED x509Vars
    /\ \/ part = "scp" /\ ScpNext
       \/ part # "scp" /\ UNCHANGED scpVars
    /\ \/ part = "authkeys" /\ AuthKeysNext
       \/ part # "authkeys" /\ UNCHANGED authkeysVars
    /\ \/ part = "xmss" /\ XmssNext
       \/ part # "xmss" /\ UNCHANGED xmssVars
    /\ \/ part = "moduli" /\ ModuliNext
       \/ part # "moduli" /\ UNCHANGED moduliVars
    /\ \/ part = "dynamic" /\ DynamicNext
       \/ part # "dynamic" /\ UNCHANGED dynVars
    /\ \/ part = "proxy" /\ ProxyNext
       \/ part # "proxy" /\ UNCHANGED proxyVars
    /\ \/ part = "auth" /\ ClientAuthNext
       \/ part # "auth" /\ UNCHANGED clientauthVars
    /\ UNCHANGED part

MCSpec == MCInit /\ [][MCNext]_<<part, hostkeysVars, readconfVars, servconfVars, krlVars, sftpdVars,
                              x509Vars, scpVars, authkeysVars, xmssVars, moduliVars, dynVars, proxyVars, clientauthVars>>

(* Both readers of configuration files: lines are in force exactly where they should be, the
   first value of an option counts, a Match block overrides what stands outside and ends no
   connection, and what the server prints of its configuration is what is in force. *)
ConfigSound ==
    /\ ActiveExact /\ FirstObtained /\ ProxyFirst
    /\ BlocksExact /\ MatchOverrides /\ ListensAsAsked /\ AcceptedAtStart /\ DumpFaithful

(* What is revoked stays revoked: a revocation list read back revokes exactly what was put
   in (krl.c), and a chain of X.509 certificates is trusted only if it was valid as a whole
   and no list or responder named one of it (x509store.c). *)
RevocationSound == KrlSound /\ TrustedSound
=============================================================================
