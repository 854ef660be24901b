----------------------------- MODULE Dynamic ------------------------------
(***************************************************************************)
(* Connections made on demand (channels.c): the SOCKS decoder of ssh -D    *)
(* (channel_pre_dynamic) and of ssh -R port                                *)
(* (channel_before_prepare_select_rdynamic), the permissions of the        *)
(* server (channel_connect_to_port), the attempts at the addresses of a    *)
(* name (connect_next, channel_post_connecting), and the exchange of the   *)
(* cookie of an X11 connection (x11_open_helper).                          *)
(*                                                                         *)
(* Bytes are small numbers and come in pieces of any of the given sizes.   *)
(***************************************************************************)
EXTENDS Naturals, Sequences, SequencesExt, FiniteSets

CONSTANTS
    SocksRequests,  \* [kind, command, methods, user, host, port]
    Directions,     \* "local" (ssh -D), "remote" (ssh -R)
    Permissions,    \* [forwarding, all, user, admin]: sets of [host, port]
    SocksData,      \* what the application sends behind its request
    Pieces,         \* sizes of the pieces that arrive
    MaxSocks4,      \* the limit of channel_decode_socks4(), 1024 in the code
    Addresses,      \* addresses a name may have
    X11Requests,    \* [order, protocol, cookie]
    SavedProtocol, FakeCookie, RealCookie

VARIABLES
    socks,      \* the channel: dir, req, stream, at, type, in, reply, authdone, host, port
    server,     \* the connection: perms, type, list, left, now, failed
    toldApp,    \* what the application was told: replies in their order
    passed,     \* what arrived at the target
    x11         \* an X11 connection: stream, at, type, buf, late, display

dynVars == <<socks, server, toldApp, passed, x11>>

ANY == <<>>
Prefix(s, n) == SubSeq(s, 1, IF n > Len(s) THEN Len(s) ELSE n)
Rest(s, n) == SubSeq(s, n + 1, Len(s))
\* Where the first 0 is, counting from 0.
Nul(s, from) == CHOOSE i \in from..(Len(s) - 1) : s[i + 1] = 0 /\ \A j \in from..(i - 1) : s[j + 1] # 0
HasNul(s, from) == \E i \in from..(Len(s) - 1) : s[i + 1] = 0
Nuls(s, from) == Cardinality({i \in from..(Len(s) - 1) : s[i + 1] = 0})

----------------------------------------------------------------------------
(* The application.                                                        *)

\* A request as an application writes it.
Encode(r) ==
    CASE r.kind = "4" -> <<4, r.command>> \o r.port \o r.host \o r.user \o <<0>>
      [] r.kind = "4a" -> <<4, r.command>> \o r.port \o <<0, 0, 0, 1>> \o r.user \o <<0>> \o r.host \o <<0>>
      [] r.kind \in {"5ip", "5ip6", "5name"} ->
            <<5, Len(r.methods)>> \o r.methods \o <<5, r.command, 0>>
            \o (CASE r.kind = "5ip" -> <<1>> [] r.kind = "5ip6" -> <<4>>
                  [] r.kind = "5name" -> <<3, Len(r.host)>>) \o r.host \o r.port
      [] OTHER -> <<9, 9, 9>>
GoodRequest(r) ==
    /\ r.kind # "bad" /\ r.command = 1
    /\ r.kind \in {"5ip", "5ip6", "5name"} => 0 \in ToSet(r.methods)
    /\ r.kind = "4" => Len(r.user) + 8 <= MaxSocks4 + 1
    /\ r.kind = "4a" => Len(r.user) + Len(r.host) + 9 <= MaxSocks4 + 1

----------------------------------------------------------------------------
(* The decoder: what it makes of the channel c, and its result: -1 for a   *)
(* refusal, 0 for more data, 1 for a request.                              *)

DecodedTo(c, result) == [chan |-> c, result |-> result]

channel_decode_socks4(c) ==
    LET need == IF SubSeq(c.in, 5, 7) = <<0, 0, 0>> /\ c.in[8] # 0 THEN 2 ELSE 1
        first == Nul(c.in, 8)
        last == IF need = 1 THEN first ELSE Nul(c.in, first + 1)
        host == IF need = 1 THEN SubSeq(c.in, 5, 8) ELSE SubSeq(c.in, first + 2, last)
        d == [c EXCEPT !.in = Rest(c.in, last + 1), !.host = host, !.port = SubSeq(c.in, 3, 4)]
    IN CASE Len(c.in) < 8 -> DecodedTo(c, 0)
         [] Len(c.in) >= 8 /\ Nuls(Prefix(c.in, MaxSocks4 + 2), 8) < need
                           /\ Len(c.in) > MaxSocks4 + 1 -> DecodedTo(c, -1)
         [] Len(c.in) >= 8 /\ Nuls(c.in, 8) < need /\ Len(c.in) <= MaxSocks4 + 1 -> DecodedTo(c, 0)
         [] OTHER -> IF c.in[2] # 1 THEN DecodedTo(d, -1)
                     ELSE DecodedTo([d EXCEPT !.reply = @ \o <<"granted">>], 1)

Greeted(c) == [c EXCEPT !.in = Rest(@, c.in[2] + 2), !.reply = @ \o <<"noauth">>, !.authdone = TRUE]

channel_decode_socks5(c) ==
    LET have == Len(c.in)
        addrlen == CASE c.in[4] = 1 -> 4 [] c.in[4] = 3 -> c.in[5] [] c.in[4] = 4 -> 16
        skip == IF c.in[4] = 3 THEN 5 ELSE 4
        d == [c EXCEPT !.in = Rest(@, skip + addrlen + 2), !.host = SubSeq(c.in, skip + 1, skip + addrlen),
                       !.port = SubSeq(c.in, skip + addrlen + 1, skip + addrlen + 2),
                       !.reply = @ \o <<"granted">>]
    IN IF ~c.authdone
       THEN CASE c.in[1] # 5 -> DecodedTo(c, -1)
              [] c.in[1] = 5 /\ have < c.in[2] + 2 -> DecodedTo(c, 0)
              [] OTHER -> IF 0 \in ToSet(SubSeq(c.in, 3, c.in[2] + 2)) THEN DecodedTo(Greeted(c), 0)
                          ELSE DecodedTo(c, -1)
       ELSE CASE have < 5 -> DecodedTo(c, 0)
              [] have >= 5 /\ (c.in[2] # 1 \/ c.in[3] # 0 \/ c.in[4] \notin {1, 3, 4}) -> DecodedTo(c, -1)
              [] OTHER -> IF have < skip + addrlen + 2 THEN DecodedTo(c, 0) ELSE DecodedTo(d, 1)

DecodeSocks(c) ==
    CASE c.in[1] = 4 -> channel_decode_socks4(c)
      [] c.in[1] = 5 -> channel_decode_socks5(c)
      [] OTHER -> DecodedTo(c, -1)

----------------------------------------------------------------------------
(* The channel the application is connected to.                            *)

Larval == {"DYNAMIC", "RDYNAMIC_OPEN"}

SocksArrives(n) ==
    /\ socks.type \in Larval \cup {"OPEN"}
    /\ socks.at < Len(socks.stream)
    /\ LET to == IF socks.at + n > Len(socks.stream) THEN Len(socks.stream) ELSE socks.at + n
       IN socks' = [socks EXCEPT !.at = to, !.in = @ \o SubSeq(socks.stream, socks.at + 1, to)]
    /\ UNCHANGED <<server, toldApp, passed, x11>>

\* rdynamic_close(), chan_mark_dead(): what was buffered is gone.
Closed(c) == [c EXCEPT !.type = "closed", !.in = <<>>, !.reply = <<>>]

\* The application closes before its request was complete.
SocksCloses ==
    /\ socks.type \in Larval
    /\ socks' = Closed(socks)
    /\ UNCHANGED <<server, toldApp, passed, x11>>

\* getaddrinfo(): an external resolver.
Lists == {l \in SeqOf(Addresses, Cardinality(Addresses)) : IsInjective(l)}

\* connect_next(): the attempts that fail at once are over, the next one is in progress.
Trying(s, list, n) ==
    IF n = 0 THEN [s EXCEPT !.failed = @ \o list, !.left = <<>>, !.now = <<>>]
    ELSE [s EXCEPT !.failed = @ \o Prefix(list, n - 1), !.now = <<list[n]>>, !.left = Rest(list, n)]

OpenMatch(perm, host, port) == perm.port \in {ANY, port} /\ perm.host \in {ANY, host}
Permitted(p, host, port) ==
    /\ p.forwarding
    /\ p.all \/ \E perm \in p.user : OpenMatch(perm, host, port)
    /\ p.admin # {} => \E perm \in p.admin : OpenMatch(perm, host, port)

\* The side that connects looks the name up and starts with the first address.
ConnectTo(s, list, n) ==
    LET t == Trying([s EXCEPT !.list = list], list, n)
    IN [t EXCEPT !.type = IF n = 0 THEN "failed" ELSE "CONNECTING"]

\* What is decoded before the next select().
channel_pre_dynamic ==
    /\ socks.type = "DYNAMIC" /\ Len(socks.in) >= 3
    /\ LET d == DecodeSocks(socks)
       IN CASE d.result = 0 -> d.chan # socks /\ socks' = d.chan /\ UNCHANGED server
            [] d.result = 1 -> /\ socks' = [d.chan EXCEPT !.type = "OPENING"]
                               /\ server' = [server EXCEPT !.type = "asked"]
            [] OTHER -> socks' = Closed(socks) /\ UNCHANGED server
    /\ UNCHANGED <<toldApp, passed, x11>>

\* For a reverse forwarding the same process connects.
channel_before_prepare_select_rdynamic ==
    /\ socks.type = "RDYNAMIC_OPEN" /\ Len(socks.in) >= 3
    /\ LET d == DecodeSocks(socks)
       IN CASE d.result = 0 -> d.chan # socks /\ socks' = d.chan /\ UNCHANGED server
            [] d.result = 1 -> \E list \in Lists : \E n \in 0..Len(list) :
                  /\ server' = ConnectTo(server, list, n)
                  /\ socks' = IF n = 0 THEN Closed(d.chan) ELSE [d.chan EXCEPT !.type = "RDYNAMIC_FINISH"]
            [] OTHER -> socks' = Closed(socks) /\ UNCHANGED server
    /\ UNCHANGED <<toldApp, passed, x11>>

\* Mistake: replies go out while the channel is being opened.
RepliesSent_opening(type) == type \in Larval \cup {"OPEN", "OPENING", "RDYNAMIC_FINISH"}
RepliesSent(type) == type \in Larval \cup {"OPEN"}
ReplyOut ==
    /\ RepliesSent(socks.type) /\ socks.reply # <<>>
    /\ toldApp' = toldApp \o socks.reply
    /\ socks' = [socks EXCEPT !.reply = <<>>]
    /\ UNCHANGED <<server, passed, x11>>

DataOut ==
    /\ socks.type = "OPEN" /\ socks.in # <<>>
    /\ passed' = passed \o socks.in
    /\ socks' = [socks EXCEPT !.in = <<>>]
    /\ UNCHANGED <<server, toldApp, x11>>

----------------------------------------------------------------------------
(* The server: a request for a connection, and its outcome.                *)

channel_connect_to_port ==
    /\ server.type = "asked"
    /\ IF ~Permitted(server.perms, socks.host, socks.port)
       THEN server' = [server EXCEPT !.type = "prohibited"] /\ socks' = Closed(socks)
       ELSE \E list \in Lists : \E n \in 0..Len(list) :
               /\ server' = ConnectTo(server, list, n)
               /\ socks' = IF n = 0 THEN Closed(socks) ELSE socks
    /\ UNCHANGED <<toldApp, passed, x11>>

channel_post_connecting ==
    /\ server.type = "CONNECTING"
    /\ \/ /\ server' = [server EXCEPT !.type = "OPEN"]
          /\ socks' = [socks EXCEPT !.type = "OPEN"]
       \/ \E n \in 0..Len(server.left) :
             LET s == [server EXCEPT !.failed = @ \o server.now]
             IN /\ server' = [Trying(s, server.left, n) EXCEPT !.type = IF n = 0 THEN "failed" ELSE @]
                /\ socks' = IF n = 0 THEN Closed(socks) ELSE socks
    /\ UNCHANGED <<toldApp, passed, x11>>

----------------------------------------------------------------------------
(* X11: the first packet has 12 bytes, the protocol and the cookie, each   *)
(* filled up to a multiple of 4.                                           *)

Pad(n) == ((n + 3) \div 4) * 4
Zeros(n) == [i \in 1..n |-> 0]
Padded(s) == s \o Zeros(Pad(Len(s)) - Len(s))
X11Packet(r) ==
    LET len(n) == IF r.order = 66 THEN <<0, n>> ELSE <<n, 0>>
    IN <<r.order, 0, 0, 0, 0, 0>> \o len(Len(r.protocol)) \o len(Len(r.cookie)) \o <<0, 0>>
       \o Padded(r.protocol) \o Padded(r.cookie)

X11Arrives(n) ==
    /\ x11.type # "closed" /\ x11.at < Len(x11.stream)
    /\ LET to == IF x11.at + n > Len(x11.stream) THEN Len(x11.stream) ELSE x11.at + n
       IN x11' = [x11 EXCEPT !.at = to, !.buf = @ \o SubSeq(x11.stream, x11.at + 1, to)]
    /\ UNCHANGED <<socks, server, toldApp, passed>>

\* ForwardX11Timeout passes.
X11TimePasses ==
    /\ x11.type # "none" /\ ~x11.late
    /\ x11' = [x11 EXCEPT !.late = TRUE]
    /\ UNCHANGED <<socks, server, toldApp, passed>>

X11Decoded(b) ==
    LET big == b[1] = 66
        proto_len == IF big THEN b[8] ELSE b[7]
        data_len == IF big THEN b[10] ELSE b[9]
        at == 12 + Pad(proto_len)
    IN CASE Len(b) < 12 -> [result |-> 0, buf |-> b]
         [] Len(b) >= 12 /\ b[1] \notin {66, 108} -> [result |-> -1, buf |-> b]
         [] OTHER ->
              IF Len(b) < at + Pad(data_len) THEN [result |-> 0, buf |-> b]
              ELSE IF SubSeq(b, 13, 12 + proto_len) # SavedProtocol
                      \/ SubSeq(b, at + 1, at + data_len) # FakeCookie
                      \/ Len(FakeCookie) # Len(RealCookie)
              THEN [result |-> -1, buf |-> b]
              ELSE [result |-> 1, buf |-> Prefix(b, at) \o RealCookie \o Rest(b, at + Len(RealCookie))]


x11_open_helper ==
    /\ x11.type = "X11_OPEN"
    /\ LET d == X11Decoded(x11.buf)
       IN IF x11.late \/ d.result = -1
          THEN x11' = [x11 EXCEPT !.type = "closed", !.buf = <<>>]
          ELSE d.result = 1 /\ x11' = [x11 EXCEPT !.type = "OPEN", !.buf = d.buf]
    /\ UNCHANGED <<socks, server, toldApp, passed>>

X11Out ==
    /\ x11.type = "OPEN" /\ x11.buf # <<>>
    /\ x11' = [x11 EXCEPT !.display = @ \o x11.buf, !.buf = <<>>]
    /\ UNCHANGED <<socks, server, toldApp, passed>>

----------------------------------------------------------------------------
NoX11 == [type |-> "none", req |-> <<>>, stream |-> <<>>, at |-> 0, buf |-> <<>>, late |-> FALSE, display |-> <<>>]
NoServer(p) == [perms |-> p, type |-> "none", list |-> <<>>, left |-> <<>>, now |-> <<>>, failed |-> <<>>]
SocksOf(dir, r) ==
    [dir |-> dir, req |-> r, stream |-> Encode(r) \o SocksData, at |-> 0,
     type |-> IF dir = "local" THEN "DYNAMIC" ELSE "RDYNAMIC_OPEN",
     in |-> <<>>, reply |-> <<>>, authdone |-> FALSE, host |-> <<>>, port |-> <<>>]
X11Of(r) ==
    [type |-> "X11_OPEN", req |-> <<r>>, stream |-> X11Packet(r) \o SocksData, at |-> 0, buf |-> <<>>,
     late |-> FALSE, display |-> <<>>]

NoDynamic ==
    /\ socks = [type |-> "none"] /\ server = [type |-> "none"] /\ toldApp = <<>> /\ passed = <<>>
    /\ x11 = NoX11
DynamicInit ==
    /\ toldApp = <<>> /\ passed = <<>>
    /\ \/ /\ \E dir \in Directions, r \in SocksRequests : socks = SocksOf(dir, r)
          /\ \E p \in Permissions : server = NoServer(p)
          /\ x11 = NoX11
       \/ /\ socks = [type |-> "none"] /\ server = [type |-> "none"]
          /\ \E r \in X11Requests : x11 = X11Of(r)
DynamicNext ==
    \/ \E n \in Pieces : SocksArrives(n) \/ X11Arrives(n)
    \/ SocksCloses \/ ReplyOut \/ DataOut
    \/ channel_pre_dynamic \/ channel_before_prepare_select_rdynamic
    \/ channel_connect_to_port \/ channel_post_connecting
    \/ X11TimePasses \/ x11_open_helper \/ X11Out

----------------------------------------------------------------------------
\* However the bytes come in, the connection is made to the host and port the application asked
\* for, what it sent behind its request arrives there and nothing of the request does; a complete
\* request does not wait for more (channels.c:channel_decode_socks4, channel_decode_socks5).
SocksFaithful ==
    socks.type # "none" =>
        /\ server.type # "none" => /\ GoodRequest(socks.req)
                                   /\ socks.host = socks.req.host /\ socks.port = socks.req.port
        /\ IsPrefix(passed, SocksData)
        /\ socks.type = "OPEN" => passed \o socks.in = Prefix(SocksData, socks.at - Len(Encode(socks.req)))
        /\ socks.type \in Larval /\ socks.at = Len(socks.stream) /\ GoodRequest(socks.req) =>
              Len(socks.in) >= 3 /\ DecodeSocks(socks) # DecodedTo(socks, 0)

\* The success SOCKS reports is queued before the connection is tried, and must not be seen before
\* it was made: to an address of the list, after all those before it have failed, and only if
\* both the user's and the administrator's permissions allow it (channels.c:channel_connect_to_port,
\* connect_next, channel_post_connecting).
SuccessMeansConnected ==
    socks.type # "none" /\ "granted" \in ToSet(toldApp) =>
        /\ server.type = "OPEN"
        /\ server.failed \o server.now \o server.left = server.list
        /\ socks.dir = "local" => Permitted(server.perms, socks.req.host, socks.req.port)

\* The display sees only connections that showed the fake cookie, with the real one in
\* its place and everything else as it was sent (channels.c:x11_open_helper).
CookieExchanged ==
    LET r == x11.req[1]
        whole == X11Packet([r EXCEPT !.cookie = RealCookie]) \o SocksData
    IN x11.display # <<>> =>
          /\ r.cookie = FakeCookie /\ r.protocol = SavedProtocol
          /\ IsPrefix(x11.display, whole)

ConnectedAsAsked == SocksFaithful /\ SuccessMeansConnected /\ CookieExchanged
=============================================================================
