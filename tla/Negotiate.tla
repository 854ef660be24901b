----------------------------- MODULE Negotiate -----------------------------
(***************************************************************************)
(* What the two ends of a connection agree on: the protocol version        *)
(* (kex_exchange_identification), the algorithms of every key exchange     *)
(* (kex_choose_conf and the lists it is given by configuration, by the     *)
(* bugs of the peer's version and by known_hosts), the host key that signs *)
(* it, a guessed first message, EXT_INFO, and from which packet on each    *)
(* direction is compressed.  The order and the queue of packets while      *)
(* keys are exchanged belong to module Transport.                          *)
(*                                                                         *)
(* An algorithm is a name; a pattern is the set of the names it matches.   *)
(* The client may be another implementation that guesses; everything else  *)
(* it does is what this client does.                                       *)
(***************************************************************************)
EXTENDS Integers, Sequences, SequencesExt, FiniteSets

CONSTANTS
    Configs,        \* the configurations of both ends, see Config_s
    KexDefault, KexAll,          \* the default and the supported key exchanges
    HostDefault, HostAll,        \* the same for host key algorithms
    Aead,           \* ciphers with cipher_authlen() > 0
    KeyTypeOf,      \* sshkey_type_from_name(), a function of the names
    CertAlgs,       \* key type -> the algorithms of its OpenSSH certificate
    MaxProp,        \* MAX_PROP: names of the server's list that are looked at
    MaxPreBanner,   \* SSH_MAX_PRE_BANNER_LINES
    MaxRekeys       \* bound: key re-exchanges

VARIABLES
    cfg,        \* the configuration of this connection
    phase,      \* where each end is
    wire,       \* wire[e]: packets on their way to e
    props,      \* the proposals of each end, kex->my
    conf,       \* what each end has chosen, kex->newkeys and names
    skip,       \* the server's dispatch_skip_packets
    comp,       \* per end: what is compressed, after_authentication
    initial,    \* KEX_INITIAL, per end
    signed,     \* history: host keys presented and signing, and methods taken
    pkalgs,     \* the client's kex->pkalgs, from EXT_INFO
    queue,      \* per end: packets that wait for NEWKEYS, state->outgoing
    rekeys

negotiateVars ==
    <<cfg, phase, wire, props, conf, skip, comp, initial, signed, pkalgs, queue, rekeys>>

End == {"client", "server"}
Peer(e) == IF e = "client" THEN "server" ELSE "client"
NoConf == [err |-> "unset", kex |-> "", hostkey |-> "", ctos |-> <<>>, stoc |-> <<>>]
-----------------------------------------------------------------------------
(* Lists of names.                                                         *)

(* match_pattern_list(): -1 when a negated pattern matches, else 1 when a  *)
(* positive one does.                                                      *)
match_pattern_list(name, patterns) ==
    IF \E i \in DOMAIN patterns : patterns[i].neg /\ name \in patterns[i].names THEN -1
    ELSE IF \E i \in DOMAIN patterns : name \in patterns[i].names THEN 1 ELSE 0

match_filter_blacklist(list, patterns) ==
    SelectSeq(list, LAMBDA n : match_pattern_list(n, patterns) # 1)
match_filter_whitelist(list, patterns) ==
    SelectSeq(list, LAMBDA n : match_pattern_list(n, patterns) = 1)

(* kex_names_cat(): append the names that are not there yet. *)
kex_names_cat(a, b) ==
    FoldLeft(LAMBDA acc, n : IF Contains(acc, n) THEN acc ELSE Append(acc, n), a, b)

Literal(n) == [neg |-> FALSE, names |-> {n}]
Literals(list) == [i \in DOMAIN list |-> Literal(list[i])]

(* kex_assemble_names(): a configured list [op, pats], op one of           *)
(* "" (not set), "+", "-", "^", "=".  <<>> is the error of an empty or     *)
(* negated list; '-' alone may leave an empty list, which is no error.     *)
kex_assemble_names(spec, def, all) ==
    LET list == CASE spec.op = "+" -> kex_names_cat(Literals(def), spec.pats)
                  [] spec.op = "^" -> kex_names_cat(spec.pats, Literals(def))
                  [] OTHER -> spec.pats
    IN  CASE spec.op = "" -> def
          [] spec.op = "-" -> match_filter_blacklist(def, spec.pats)
          [] \E i \in DOMAIN list : list[i].neg -> <<>>
          [] OTHER -> FoldLeft(LAMBDA acc, p : kex_names_cat(acc, match_filter_whitelist(all, <<p>>)),
                               <<>>, list)

(* match_list(): the first name of the client's list among the first       *)
(* MAX_PROP of the server's; "" when there is none.                        *)
match_list(client, server) ==
    LET seen == SubSeq(server, 1, IF Len(server) < MaxProp THEN Len(server) ELSE MaxProp)
        both == SelectSeq(client, LAMBDA n : Contains(seen, n))
    IN  IF both = <<>> THEN "" ELSE Head(both)
-----------------------------------------------------------------------------
(* The proposals.                                                          *)

(* A configuration.  The lines each end sends first are kinds: "text",     *)
(* "ssh2", "ssh1.99", "ssh1", "bad" (no version after SSH-), "garbage" (a  *)
(* NUL, a CR that no LF follows or a line too long), "scanner", "probe",   *)
(* "silence".  bugs: what compat_datafellows() knows of the peer's         *)
(* version.  keys: the server's host keys [type, algs, priv, cert].        *)
Config_s(lines, bugs, kex, host, known, keys, hostpats, enc, mac, comps, guess) ==
    [lines |-> lines, bugs |-> bugs, kex |-> kex, host |-> host, known |-> known, keys |-> keys,
     hostpats |-> hostpats, enc |-> enc, mac |-> mac, comps |-> comps, guess |-> guess]

(* compat_kex_proposal(): without the methods the peer has wrong.  fatal() *)
(* on an empty list is proposal <<>>, refused in Propose.                  *)
compat_kex_proposal(e, list) ==
    LET pad == IF "CURVE25519PAD" \in cfg.bugs[e]
               THEN match_filter_blacklist(list, <<Literal("curve")>>) ELSE list
    IN  IF "OLD_DHGEX" \in cfg.bugs[e]
        THEN match_filter_blacklist(pad, <<Literal("gex")>>) ELSE pad

(* order_hostkeyalgs(): what known_hosts has a key for comes first. *)
order_hostkeyalgs(list) ==
    LET known(n) == KeyTypeOf[n].plain \in cfg.known
        new(n)   == ~known(n)
    IN  SelectSeq(list, known) \o SelectSeq(list, new)

(* list_hostkey_types(): for each host key the algorithms of               *)
(* Xkey_algoriths() and of its certificate that HostkeyAlgorithms permits. *)
add_hostkey_algoritms(k) ==
    match_filter_whitelist(cfg.keys[k].algs, cfg.hostpats)
list_hostkey_types ==
    FlattenSeq([k \in DOMAIN cfg.keys |->
        add_hostkey_algoritms(k)
            \o IF cfg.keys[k].cert
               THEN match_filter_whitelist(CertAlgs[cfg.keys[k].type], cfg.hostpats) ELSE <<>>])

KexList(e, ext) ==
    LET opt == kex_assemble_names(cfg.kex[e], KexDefault, KexAll)
    IN  compat_kex_proposal(e, IF ext THEN kex_names_cat(opt, <<"ext-info-c">>) ELSE opt)
HostkeyList(e) ==
    LET opt == kex_assemble_names(cfg.host, HostDefault, HostAll)
    IN  IF e = "server" THEN list_hostkey_types
        ELSE IF cfg.host.op = "^" THEN opt ELSE order_hostkeyalgs(opt)

(* ssh_kex2() and do_ssh2_kex(). *)
Proposal(e, ext) ==
    [kex |-> KexList(e, ext), hostkey |-> HostkeyList(e),
     enc |-> cfg.enc[e], mac |-> cfg.mac[e], comp |-> cfg.comps[e],
     follows |-> e = "client" /\ cfg.guess]
-----------------------------------------------------------------------------
(* Host keys, by their index in the configuration; 0 is NULL.              *)

FirstKey(P(_)) ==
    LET is == {i \in DOMAIN cfg.keys : P(i)} IN IF is = {} THEN 0 ELSE CHOOSE i \in is : \A j \in is : i <= j

get_hostkey_by_alg(alg, need_private) ==
    FirstKey(LAMBDA i : (cfg.keys[i].priv \/ ~need_private) /\ Contains(cfg.keys[i].algs, alg))

(* A certificate is found by its type; its private key may be NULL. *)
get_hostkey_by_type(type, need_private) ==
    IF type.cert
    THEN LET i == FirstKey(LAMBDA k : cfg.keys[k].cert /\ cfg.keys[k].type = type.plain)
         IN  IF need_private /\ i # 0 /\ ~cfg.keys[i].priv THEN 0 ELSE i
    ELSE FirstKey(LAMBDA k : (cfg.keys[k].priv \/ ~need_private) /\ cfg.keys[k].type = type.plain)

Hostkey(alg, need_private) ==
    LET i == get_hostkey_by_alg(alg, need_private)
    IN  IF i # 0 THEN i ELSE get_hostkey_by_type(KeyTypeOf[alg], need_private)

(* Xsshd_hostkey_sign(), mm_answer_sign(): sign with the private key, or   *)
(* let the agent sign with the one whose public part is given.             *)
Signer(public, private) == IF private # 0 THEN private ELSE public

(* notify_hostkeys(): every key in every format, RSA's once. *)
rsa_patern == {"rsa", "rsa256", "rsa512"}
Notified ==
    FlattenSeq([k \in DOMAIN cfg.keys |->
        LET fmt(n) == IF n \in rsa_patern THEN "rsa" ELSE n
            fmts   == [i \in DOMAIN cfg.keys[k].algs |-> fmt(cfg.keys[k].algs[i])]
        IN  [i \in DOMAIN kex_names_cat(<<>>, fmts) |-> [key |-> k, alg |-> kex_names_cat(<<>>, fmts)[i]]]])
-----------------------------------------------------------------------------
(* kex_choose_conf() at end e, with the client's and the server's lists.   *)

Way(enc, commonMac, cmp) ==
    LET mac  == IF enc \in Aead THEN "implicit" ELSE commonMac
        err  == CASE enc = "" -> "cipher" [] mac = "" -> "mac" [] cmp = "" -> "comp" [] OTHER -> ""
    IN  [err |-> err, enc |-> enc, mac |-> mac, comp |-> cmp]
ChooseWay(cp, sp, w) ==
    Way(match_list(cp.enc[w], sp.enc[w]), match_list(cp.mac[w], sp.mac[w]), match_list(cp.comp, sp.comp))

ChosenAs(kex, hostkey, ctos, stoc, firstway) ==
    LET ways    == IF firstway = "ctos" THEN <<ctos.err, stoc.err>> ELSE <<stoc.err, ctos.err>>
    IN  [err |-> CASE kex = "" -> "kex" [] hostkey = "" -> "hostkey" [] ways[1] # "" -> ways[1]
                   [] OTHER -> ways[2],
         kex |-> kex, hostkey |-> hostkey, ctos |-> ctos, stoc |-> stoc]
ChooseConf(cp, sp, firstway) ==
    ChosenAs(match_list(cp.kex, sp.kex), match_list(cp.hostkey, sp.hostkey),
           ChooseWay(cp, sp, "ctos"), ChooseWay(cp, sp, "stoc"), firstway)

(* proposals_match(): a guess was right when the first names are the same. *)
proposals_match(my, peer) ==
    /\ SubSeq(my.kex, 1, 1) = SubSeq(peer.kex, 1, 1)
    /\ SubSeq(my.hostkey, 1, 1) = SubSeq(peer.hostkey, 1, 1)

Failed(e) == phase' = [phase EXCEPT ![e] = "dead"]
Msg(t, a) == [t |-> t, a |-> a, z |-> FALSE]

(* ssh_packet_send2_wrapped() compresses by the state of this direction. *)
Packets(e, ms) == [i \in DOMAIN ms |-> [ms[i] EXCEPT !.z = comp[e].out]]
Send(e, ms) == wire' = [wire EXCEPT ![Peer(e)] = @ \o Packets(e, ms)]
(* Receive the first packet, and send. *)
Reply(e, ms) ==
    wire' = [wire EXCEPT ![e] = Tail(@), ![Peer(e)] = @ \o Packets(e, ms)]
(* The same for the layers above: while keys are exchanged it is queued. *)
Upper(e) == phase[e] = "up" \/ (phase[e] = "init" /\ ~initial[e])
ReplyUpper(e, ms) ==
    IF phase[e] = "up" THEN Reply(e, ms) /\ UNCHANGED queue
    ELSE Reply(e, <<>>) /\ queue' = [queue EXCEPT ![e] = @ \o ms]
(* uncompress_buffer() of what is not compressed, or the reverse. *)
Garbled(e) == wire[e] # <<>> /\ Head(wire[e]).z # comp[e].in
Readable(e, t) ==
    /\ wire[e] # <<>> /\ Head(wire[e]).t = t /\ ~Garbled(e)
    /\ e = "server" => skip = 0
-----------------------------------------------------------------------------
(* The version exchange.                                                   *)

(* What is decided of the peer's version; a server admits no scanner and no probe. *)
VersionAccepted(e, line) ==
    CASE line \in {"ssh2", "ssh1.99"} -> "ok"
      [] line = "ssh1" -> "mismatch"
      [] line = "silence" -> "timeout"
      [] line \in {"scanner", "probe"} -> IF e = "server" THEN "closed" ELSE "ok"
      [] OTHER -> "invalid"

(* kex_exchange_identification(): the outcome of the lines of the peer. *)
Identification(e, lines) ==
    LET ends  == {i \in DOMAIN lines : lines[i] # "text" \/ e = "server"}
        n     == IF ends = {} THEN 0 ELSE CHOOSE i \in ends : \A j \in ends : i <= j
    IN  IF n = 0 \/ n > MaxPreBanner THEN IF Len(lines) >= MaxPreBanner THEN "invalid" ELSE "closed"
        ELSE VersionAccepted(e, lines[n])

(* The end starts its key exchange: ssh_kex2(), do_ssh2_kex().  compat_*() *)
(* is fatal when it filtered a list to nothing, kex_assemble_names() when  *)
(* a configured list is bad.                                               *)
Propose(e) ==
    /\ phase[e] = "ident"
    /\ LET how  == Identification(e, cfg.lines[Peer(e)])
           p    == Proposal(e, e = "client")
           none == \/ e = "client" /\ HostkeyList(e) = <<>> /\ cfg.host.op \in {"+", "^", "="}
                   \/ cfg.bugs[e] \cap {"CURVE25519PAD", "OLD_DHGEX"} # {} /\ p.kex = <<>>
       IN  IF how # "ok" \/ none
           THEN Failed(e) /\ UNCHANGED <<wire, props>>
           ELSE /\ phase' = [phase EXCEPT ![e] = "init"]
                /\ props' = [props EXCEPT ![e] = p]
                /\ Send(e, <<Msg("KEXINIT", p)>>
                             \o IF p.follows THEN <<Msg("KEX_INIT", SubSeq(p.kex, 1, 1))>> ELSE <<>>)
    /\ UNCHANGED <<cfg, conf, skip, comp, initial, signed, pkalgs, queue, rekeys>>

(* kex_start_rekex(): past authentication; the client's list is without    *)
(* ext-info-c now.                                                         *)
kex_start_rekex(e) ==
    /\ phase[e] = "up" /\ comp[e].auth /\ rekeys < MaxRekeys
    /\ LET p == [Proposal(e, FALSE) EXCEPT !.follows = FALSE]
       IN  /\ props' = [props EXCEPT ![e] = p]
           /\ Send(e, <<Msg("KEXINIT", p)>>)
    /\ phase' = [phase EXCEPT ![e] = "init"]
    /\ rekeys' = rekeys + 1
    /\ UNCHANGED <<cfg, conf, skip, comp, initial, signed, pkalgs, queue>>

(* kex_input_kexinit(): answer with our own KEXINIT if it is not sent yet, *)
(* choose, start the method.  On no match of the key exchange or of the    *)
(* host key the peer's list is given away before proposals_match() reads   *)
(* it: with a guess the server dies there, without a word, unless the      *)
(* first key exchanges differ and the host keys are not read.              *)
kex_input_kexinit(e) ==
    /\ phase[e] \in {"init", "up"}
    /\ Readable(e, "KEXINIT")
    /\ \E peer \in {Head(wire[e]).a},
          my \in {IF phase[e] = "up" THEN [Proposal(e, FALSE) EXCEPT !.follows = FALSE] ELSE props[e]} :
       \E c \in {IF e = "client" THEN ChooseConf(my, peer, "stoc") ELSE ChooseConf(peer, my, "ctos")} :
       LET mine == IF phase[e] = "up" THEN <<Msg("KEXINIT", my)>> ELSE <<>>
           lost == e = "server" /\ peer.follows
                   /\ (c.err = "kex" \/ (c.err = "hostkey" /\ Head(my.kex) = Head(peer.kex)))
           init == IF my.follows /\ proposals_match(my, peer) THEN <<>> ELSE <<Msg("KEX_INIT", <<c.kex>>)>>
       IN  /\ conf' = [conf EXCEPT ![e] = IF lost THEN [c EXCEPT !.err = "crash"] ELSE c]
           /\ props' = [props EXCEPT ![e] = my]
           /\ skip' = IF e = "server" /\ ~lost /\ peer.follows /\ ~proposals_match(my, peer) THEN 1 ELSE skip
           /\ pkalgs' = IF e = "server" /\ initial[e]
                        THEN [pkalgs EXCEPT !.ext_info_c = match_list(<<"ext-info-c">>, peer.kex) # ""]
                        ELSE pkalgs
           /\ IF c.err # ""
              THEN Failed(e) /\ Reply(e, mine)
              ELSE /\ phase' = [phase EXCEPT ![e] = "kex"]
                   /\ Reply(e, mine \o IF e = "client" THEN init ELSE <<>>)
    /\ UNCHANGED <<cfg, comp, initial, signed, queue, rekeys>>

(* ssh_dispatch_run(): the wrong guess is dropped unread. *)
SkipPacket ==
    /\ skip > 0 /\ wire["server"] # <<>>
    /\ skip' = skip - 1
    /\ wire' = [wire EXCEPT !["server"] = Tail(@)]
    /\ UNCHANGED <<cfg, phase, props, conf, comp, initial, signed, pkalgs, queue, rekeys>>

(* ssh_set_newkeys(): compression of one direction under the new keys. *)
Compressed(e, w) ==
    conf[e][w].comp = "zlib" \/ (conf[e][w].comp = "zlib@" /\ comp[e].auth)
OutWay(e) == IF e = "client" THEN "ctos" ELSE "stoc"

(* kex_send_newkeys(): the rest is sent under the new keys; EXT_INFO from  *)
(* the server when the client asked for it in the first exchange.          *)
NewkeysSent(e, before) ==
    LET out == Compressed(e, OutWay(e))
        rest == [i \in DOMAIN queue[e] |-> [queue[e][i] EXCEPT !.z = out]]
        ext == IF e = "server" /\ pkalgs.ext_info_c /\ initial[e]
               THEN <<[Msg("EXT_INFO", cfg.keys[1].algs) EXCEPT !.z = out]>> ELSE <<>>
    IN  /\ wire' = [wire EXCEPT ![e] = Tail(@),
                                ![Peer(e)] = @ \o Packets(e, before \o <<Msg("NEWKEYS", <<>>)>>) \o rest \o ext]
        /\ comp' = [comp EXCEPT ![e].out = out]
        /\ phase' = [phase EXCEPT ![e] = "newkeys"]
        /\ queue' = [queue EXCEPT ![e] = <<>>]

(* input_kex_gen_init(): kex_load_host_keys(), Xsshd_hostkey_sign(). *)
input_kex_gen_init ==
    /\ phase["server"] = "kex" /\ Readable("server", "KEX_INIT")
    /\ LET alg == conf["server"].hostkey
           pub == Hostkey(alg, FALSE)
           by  == Signer(pub, Hostkey(alg, TRUE))
       IN  /\ signed' = Append(signed, [method |-> Head(wire["server"]).a, key |-> pub, by |-> by])
           /\ IF pub = 0
              THEN Failed("server") /\ Reply("server", <<>>) /\ UNCHANGED <<comp, queue>>
              ELSE NewkeysSent("server", <<Msg("KEX_REPLY", [key |-> pub, by |-> by, alg |-> alg])>>)
    /\ UNCHANGED <<cfg, props, conf, skip, initial, pkalgs, rekeys>>

(* input_kex_gen_reply(): the key must be of the algorithm agreed on, and  *)
(* the signature be made with it.                                          *)
input_kex_gen_reply ==
    /\ phase["client"] = "kex" /\ Readable("client", "KEX_REPLY")
    /\ LET r == Head(wire["client"]).a
       IN  IF r.alg = conf["client"].hostkey /\ r.by = r.key
           THEN NewkeysSent("client", <<>>)
           ELSE Failed("client") /\ Reply("client", <<>>) /\ UNCHANGED <<comp, queue>>
    /\ UNCHANGED <<cfg, props, conf, skip, initial, signed, pkalgs, rekeys>>

kex_input_newkeys(e) ==
    /\ phase[e] = "newkeys" /\ Readable(e, "NEWKEYS")
    /\ comp' = [comp EXCEPT ![e].in = Compressed(e, OutWay(Peer(e)))]
    /\ phase' = [phase EXCEPT ![e] = "up"]
    /\ initial' = [initial EXCEPT ![e] = FALSE]
    /\ Reply(e, <<>>)
    /\ UNCHANGED <<cfg, props, conf, skip, signed, pkalgs, queue, rekeys>>

(* kex_input_ext_info(), preset_pkalgs(): the algorithms this client has. *)
kex_input_ext_info ==
    /\ phase["client"] = "up" /\ Readable("client", "EXT_INFO")
    /\ pkalgs' = [pkalgs EXCEPT !.known = SelectSeq(Head(wire["client"]).a, LAMBDA n : n \in DOMAIN KeyTypeOf)]
    /\ Reply("client", <<>>)
    /\ UNCHANGED <<cfg, phase, props, conf, skip, comp, initial, signed, queue, rekeys>>
-----------------------------------------------------------------------------
(* Authentication, and delayed compression.                                *)

(* Mutant: only what is sent is compressed from now on. *)
enable_delayed_out(e) ==
    [comp EXCEPT ![e] = [auth |-> TRUE, in |-> @.in, out |-> @.out \/ conf[e][OutWay(e)].comp = "zlib@"]]

(* ssh_packet_enable_delayed_compress(): both directions at once, for the  *)
(* keys now in use.                                                        *)
ssh_packet_enable_delayed_compress(e) ==
    [comp EXCEPT ![e] = [auth |-> TRUE,
                         in   |-> @.in \/ conf[e][OutWay(Peer(e))].comp = "zlib@",
                         out  |-> @.out \/ conf[e][OutWay(e)].comp = "zlib@"]]

(* One authentication request at a time. *)
UserauthRequest ==
    /\ phase["client"] = "up" /\ ~comp["client"].auth
    /\ \A i \in DOMAIN wire["server"] : wire["server"][i].t # "REQUEST"
    /\ \A i \in DOMAIN wire["client"] : wire["client"][i].t \notin {"SUCCESS", "FAILURE", "EXT_INFO"}
    /\ Send("client", <<Msg("REQUEST", <<>>)>>)
    /\ UNCHANGED <<cfg, phase, props, conf, skip, comp, initial, signed, pkalgs, queue, rekeys>>

(* userauth_finish(); then server_loop2() starts with notify_hostkeys(). *)
UserauthFinish(ok) ==
    /\ phase["server"] = "up" /\ Readable("server", "REQUEST")
    /\ IF ok
       THEN LET c == ssh_packet_enable_delayed_compress("server")
            IN  /\ wire' = [wire EXCEPT !["server"] = Tail(@), !["client"] = @
                               \o Packets("server", <<Msg("SUCCESS", <<>>)>>)
                               \o <<[Msg("HOSTKEYS", Notified) EXCEPT !.z = c["server"].out]>>]
                /\ comp' = c
       ELSE Reply("server", <<Msg("FAILURE", <<>>)>>) /\ UNCHANGED comp
    /\ UNCHANGED <<cfg, phase, props, conf, skip, initial, signed, pkalgs, queue, rekeys>>

UserauthReply ==
    /\ phase["client"] = "up"
    /\ \/ /\ Readable("client", "SUCCESS")
          /\ comp' = ssh_packet_enable_delayed_compress("client")
       \/ Readable("client", "FAILURE") /\ UNCHANGED comp
    /\ Reply("client", <<>>)
    /\ UNCHANGED <<cfg, phase, props, conf, skip, initial, signed, pkalgs, queue, rekeys>>

(* The client asks for a proof of each key it was told of. *)
HostkeysReceived ==
    /\ Upper("client") /\ Readable("client", "HOSTKEYS")
    /\ ReplyUpper("client", <<Msg("PROVE", Head(wire["client"]).a)>>)
    /\ UNCHANGED <<cfg, phase, props, conf, skip, comp, initial, signed, pkalgs, rekeys>>

(* server_input_hostkeys_prove(): by index, the first equal key. *)
server_input_hostkeys_prove ==
    /\ Upper("server") /\ Readable("server", "PROVE")
    /\ LET asked == Head(wire["server"]).a
       IN  signed' = signed \o [i \in DOMAIN asked |->
                         [method |-> <<>>, key |-> asked[i].key, by |-> Signer(asked[i].key, asked[i].key)]]
    /\ ReplyUpper("server", <<Msg("DATA", <<>>)>>)
    /\ UNCHANGED <<cfg, phase, props, conf, skip, comp, initial, pkalgs, rekeys>>

Data(e) ==
    /\ Upper(e) /\ Readable(e, "DATA")
    /\ ReplyUpper(e, <<>>)
    /\ UNCHANGED <<cfg, phase, props, conf, skip, comp, initial, signed, pkalgs, rekeys>>
-----------------------------------------------------------------------------
NegotiateStart(c) ==
    /\ cfg = c
    /\ phase = [e \in End |-> "ident"]
    /\ wire = [e \in End |-> <<>>]
    /\ props = [e \in End |-> <<>>]
    /\ conf = [e \in End |-> NoConf]
    /\ skip = 0
    /\ comp = [e \in End |-> [in |-> FALSE, out |-> FALSE, auth |-> FALSE]]
    /\ initial = [e \in End |-> TRUE]
    /\ signed = <<>>
    /\ pkalgs = [ext_info_c |-> FALSE, known |-> <<>>]
    /\ queue = [e \in End |-> <<>>]
    /\ rekeys = 0

NegotiateInit == \E c \in Configs : NegotiateStart(c)

NegotiateNext ==
    \/ \E e \in End : Propose(e) \/ kex_start_rekex(e) \/ kex_input_kexinit(e) \/ kex_input_newkeys(e)
                      \/ Data(e)
    \/ SkipPacket \/ input_kex_gen_init \/ input_kex_gen_reply \/ kex_input_ext_info
    \/ UserauthRequest \/ UserauthReply \/ HostkeysReceived \/ server_input_hostkeys_prove
    \/ \E ok \in BOOLEAN : UserauthFinish(ok)
-----------------------------------------------------------------------------
(* Properties.                                                             *)

Chosen(e) == conf[e].err # "unset"

(* RFC 4253 7.1, which match_list() implements: the first name of the      *)
(* client that the server (in its first MAX_PROP) has.                     *)
Reference(n, cl, sl) ==
    IF n = "" THEN \A i \in DOMAIN cl : \A j \in DOMAIN sl : j <= MaxProp => cl[i] # sl[j]
    ELSE \E i \in DOMAIN cl : /\ cl[i] = n
                              /\ \E j \in DOMAIN sl : j <= MaxProp /\ sl[j] = n
                              /\ \A h \in 1..(i - 1) : \A j \in DOMAIN sl : j <= MaxProp => cl[h] # sl[j]

(* Both ends come to the same choice, that of the RFC, or both to none.    *)
ChoicesAgree ==
    /\ (/\ Chosen("client") /\ Chosen("server") /\ conf["server"].err # "crash"
        /\ {phase[e] : e \in End} \cap {"ident", "init"} = {})
        => /\ (conf["client"].err = "") = (conf["server"].err = "")
           /\ conf["client"].err = "" =>
                [conf["client"] EXCEPT !.err = ""] = [conf["server"] EXCEPT !.err = ""]
    /\ \A e \in End : Chosen(e) /\ props["client"] # <<>> /\ props["server"] # <<>> =>
        /\ Reference(conf[e].kex, props["client"].kex, props["server"].kex)
        /\ Reference(conf[e].hostkey, props["client"].hostkey, props["server"].hostkey)

(* The server has a key for what was agreed on and it signs with the key   *)
(* it presents, unless it has both a key that only the agent holds and one *)
(* of its own for the same algorithm; it takes no key exchange message but *)
(* the one of the method agreed on.                                        *)
MixedKeys ==
    \E i, j \in DOMAIN cfg.keys : /\ ~cfg.keys[i].priv /\ cfg.keys[j].priv
                                  /\ Range(cfg.keys[i].algs) \cap Range(cfg.keys[j].algs) # {}
HostkeyRight ==
    \A i \in DOMAIN signed :
        /\ signed[i].key # 0
        /\ ~MixedKeys => signed[i].by = signed[i].key
        /\ signed[i].method # <<>> => signed[i].method = <<conf["server"].kex>>

(* Nothing is uncompressed that was not compressed, and the reverse.       *)
CompressionAgrees == \A e \in End : ~Garbled(e)

(* The lists are as configured: supported names, each once, the default    *)
(* ones in their order, those of '^' first and those of '+' last.          *)
Count(s, n) == Cardinality({i \in DOMAIN s : s[i] = n})
ListsRight ==
    LET l == kex_assemble_names(cfg.kex["client"], KexDefault, KexAll)
        s == cfg.kex["client"]
    IN  /\ \A n \in Range(l) : n \in Range(KexAll) /\ Count(l, n) = 1
        /\ s.op \in {"+", "^"} /\ l # <<>> => Range(KexDefault) \subseteq Range(l)
        /\ s.op = "+" /\ l # <<>> => SubSeq(l, 1, Len(KexDefault)) = KexDefault
        /\ s.op = "^" /\ l # <<>> /\ s.pats # <<>> =>
               \A n \in Range(l) : match_pattern_list(n, s.pats) = 1 <=>
                   \E k \in 1..Len(l) : l[k] = n /\ \A j \in 1..k : match_pattern_list(l[j], s.pats) = 1

(* The negotiation is sound. *)
NegotiationSound == ChoicesAgree /\ HostkeyRight /\ CompressionAgrees /\ ListsRight
=============================================================================
