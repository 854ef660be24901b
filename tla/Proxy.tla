------------------------------- MODULE Proxy -------------------------------
(***************************************************************************)
(* The proxy mode of connection multiplexing (ssh -O proxy): mux clients   *)
(* speak the channel protocol themselves and the master translates their   *)
(* channel numbers (channels.c:channel_proxy_downstream,                   *)
(* channel_proxy_upstream), remembers the CLOSE messages of both sides,    *)
(* and takes over the channels of a client that is gone (channel_free).    *)
(*                                                                         *)
(* A client handles a message when the master passes it on; the two        *)
(* directions between master and server are queues.  The server is sshd.   *)
(***************************************************************************)
EXTENDS Naturals, Sequences, FiniteSets

CONSTANTS
    ProxyClients,   \* mux clients in proxy mode
    DownIds,        \* the numbers a client uses for its channels
    ProxySlots,     \* bound: 0..ProxySlots are the numbers of the master
    ServerSlots,    \* bound: 0..ServerSlots are the numbers of the server
    PlainMux,       \* whether an ordinary mux client has a session, too
    MaxOpens,       \* bound: how many channels are asked for
    MaxQueue        \* bound: messages under way in one direction

VARIABLES
    chans,      \* the master's channels
    alive,      \* clients that are connected
    held,       \* a client's view of its channels: [c, id] -> record
    listening,  \* clients with a remote forwarding
    upstream,   \* messages to the server
    fromServer, \* messages of the server
    remote,     \* the server's channels
    opens,      \* how many channels were asked for
    master,     \* "up", or why it ended
    misrouted   \* whether a message reached another channel than the one it was meant for

proxyVars == <<chans, alive, held, listening, upstream, fromServer, remote, opens, master, misrouted>>

None == [type |-> "none"]
Free == {s \in 0..ProxySlots : chans[s].type = "none"}
LowestFree == CHOOSE s \in Free : \A t \in Free : s <= t
ServerFree == {s \in 0..ServerSlots : remote[s].type = "none"}
LowestServer == CHOOSE s \in ServerFree : \A t \in ServerFree : s <= t

\* A proxied channel; who is the [client, number] it stands for.
ProxyChannel(who) ==
    [type |-> "MUX_PROXY", who |-> who, have_remote_id |-> FALSE, remote_id |-> 0, sent |-> FALSE, rcvd |-> FALSE]
NoView == [state |-> "none", id |-> 0, sent |-> FALSE]

Up == master = "up"
\* channel_prepare_select() collects dead channels before the clients are read again.
Collected == \A s \in 0..ProxySlots : chans[s].type = "OPEN" => ~(chans[s].sent /\ chans[s].rcvd)
FromClient(c) == Up /\ c \in alive /\ Collected
Put(m) == /\ Len(upstream) < MaxQueue
          /\ upstream' = Append(upstream, m)

----------------------------------------------------------------------------
(* Messages of the clients: channel_proxy_downstream().                    *)

ProxyOpen(c, id) ==
    /\ FromClient(c) /\ held[c, id].state = "none" /\ opens < MaxOpens /\ Free # {}
    /\ opens' = opens + 1
    /\ chans' = [chans EXCEPT ![LowestFree] = ProxyChannel(<<c, id>>)]
    /\ held' = [held EXCEPT ![c, id].state = "opening"]
    /\ Put([t |-> "open", id |-> LowestFree, who |-> <<c, id>>])
    /\ UNCHANGED <<alive, listening, fromServer, remote, master, misrouted>>

\* The client takes a connection to its forwarded port.
ProxyConfirm(c, id) ==
    /\ FromClient(c) /\ held[c, id].state = "asked" /\ Free # {}
    /\ chans' = [chans EXCEPT ![LowestFree] =
                   [ProxyChannel(<<c, id>>) EXCEPT !.have_remote_id = TRUE, !.remote_id = held[c, id].id]]
    /\ held' = [held EXCEPT ![c, id].state = "open"]
    /\ Put([t |-> "confirm", id |-> held[c, id].id, peer |-> LowestFree, who |-> <<c, id>>])
    /\ UNCHANGED <<alive, listening, fromServer, remote, opens, master, misrouted>>
ProxyRefuse(c, id) ==
    /\ FromClient(c) /\ held[c, id].state = "asked"
    /\ held' = [held EXCEPT ![c, id] = NoView]
    /\ Put([t |-> "failure", id |-> held[c, id].id, who |-> <<c, id>>])
    /\ UNCHANGED <<chans, alive, listening, fromServer, remote, opens, master, misrouted>>

ProxyForward(c) ==
    /\ FromClient(c) /\ c \notin listening /\ opens < MaxOpens
    /\ opens' = opens + 1
    /\ listening' = listening \cup {c}
    /\ UNCHANGED <<chans, alive, held, upstream, fromServer, remote, master, misrouted>>

ByRemoteId(ss) == CHOOSE s \in ss : \A t \in ss : s <= t
\* channel_by_remote_id(): all channels are looked at, those of other kinds too.
WithRemoteId(id) ==
    {s \in 0..ProxySlots : /\ chans[s].type # "none" /\ chans[s].have_remote_id
                           /\ chans[s].remote_id = id}
NoteClose(id) ==
    LET s == ByRemoteId(WithRemoteId(id))
    IN IF WithRemoteId(id) = {} THEN chans
       ELSE IF chans[s].rcvd THEN [chans EXCEPT ![s] = None]
       ELSE [chans EXCEPT ![s].sent = TRUE]

ProxyClose(c, id) ==
    /\ FromClient(c) /\ held[c, id].state \in {"open", "closed"} /\ ~held[c, id].sent
    /\ chans' = NoteClose(held[c, id].id)
    /\ held' = [held EXCEPT ![c, id] = IF @.state = "closed" THEN NoView ELSE [@ EXCEPT !.sent = TRUE]]
    /\ Put([t |-> "close", id |-> held[c, id].id, who |-> <<c, id>>])
    /\ UNCHANGED <<alive, listening, fromServer, remote, opens, master, misrouted>>

\* Its control channel is freed: the channels are detached, the forwardings cancelled.
ProxyGone(c) ==
    /\ FromClient(c)
    /\ alive' = alive \ {c}
    /\ listening' = listening \ {c}
    /\ chans' = [s \in DOMAIN chans |->
                   IF chans[s].type = "MUX_PROXY" /\ chans[s].who[1] = c
                   THEN [chans[s] EXCEPT !.type = "OPEN"] ELSE chans[s]]
    /\ held' = [x \in DOMAIN held |-> IF x[1] = c THEN NoView ELSE held[x]]
    /\ UNCHANGED <<upstream, fromServer, remote, opens, master, misrouted>>

\* chan_is_dead(): a detached channel is closed on both sides.
channel_garbage_collect(s) ==
    /\ Up /\ chans[s].type = "OPEN"
    /\ CASE ~chans[s].sent /\ ~chans[s].have_remote_id ->
              master' = "fatal: no remote_id" /\ UNCHANGED <<chans, upstream>>
         [] ~chans[s].sent /\ chans[s].have_remote_id ->
              /\ Put([t |-> "close", id |-> chans[s].remote_id, who |-> chans[s].who])
              /\ chans' = [chans EXCEPT ![s] = IF @.rcvd THEN None ELSE [@ EXCEPT !.sent = TRUE]]
              /\ UNCHANGED master
         [] OTHER -> chans[s].rcvd /\ chans' = [chans EXCEPT ![s] = None] /\ UNCHANGED <<master, upstream>>
    /\ UNCHANGED <<alive, held, listening, fromServer, remote, opens, misrouted>>

----------------------------------------------------------------------------
(* Messages of the server: channel_proxy_upstream().                       *)

\* What the client makes of it.
Seen(v, m) ==
    CASE m.t = "confirm" -> [v EXCEPT !.state = "open", !.id = m.peer]
      [] m.t = "failure" -> NoView
      [] m.t = "close" -> IF v.sent THEN NoView ELSE [v EXCEPT !.state = "closed"]
      [] OTHER -> v

\* Mistake: the channel is kept although the client has closed it.
CloseRcvd_kept(ch) == [ch EXCEPT !.rcvd = TRUE]
CloseRcvd(ch) == IF ch.sent THEN None ELSE [ch EXCEPT !.rcvd = TRUE]

ProxyUpdate(ch, m) ==
    CASE m.t = "confirm" -> [ch EXCEPT !.have_remote_id = TRUE, !.remote_id = m.peer]
      [] m.t = "close" -> CloseRcvd(ch)
      [] OTHER -> ch

channel_proxy_upstream ==
    /\ Up /\ fromServer # <<>> /\ Head(fromServer).t # "fopen"
    /\ LET m == Head(fromServer)
           ch == chans[m.id]
       IN /\ fromServer' = Tail(fromServer)
          /\ CASE ch.type = "none" ->
                    master' = "nonexistent channel" /\ UNCHANGED <<chans, held, misrouted>>
               [] ch.type = "MUX_PROXY" ->
                    /\ misrouted' = (misrouted \/ ch.who # m.who)
                    /\ held' = [held EXCEPT ![ch.who] = Seen(@, m)]
                    /\ chans' = [chans EXCEPT ![m.id] = ProxyUpdate(ch, m)]
                    /\ UNCHANGED master
               [] ch.type = "OPEN" /\ m.t \in {"confirm", "failure"} ->
                    master' = "not opening" /\ UNCHANGED <<chans, held, misrouted>>
               [] OTHER ->
                    /\ misrouted' = (misrouted \/ (ch.type = "OPEN" /\ ch.who # m.who))
                    /\ chans' = IF m.t = "close" THEN [chans EXCEPT ![m.id].rcvd = TRUE] ELSE chans
                    /\ UNCHANGED <<held, master>>
    /\ UNCHANGED <<alive, listening, upstream, remote, opens>>

\* A connection to a forwarded port; it is refused if the permission is gone.
client_request_forwarded_tcpip ==
    /\ Up /\ fromServer # <<>> /\ Head(fromServer).t = "fopen"
    /\ LET m == Head(fromServer)
           ids == {id \in DownIds : held[m.c, id].state = "none"}
       IN /\ fromServer' = Tail(fromServer)
          /\ IF m.c \in listening /\ ids # {}
             THEN /\ held' = [held EXCEPT ![m.c, CHOOSE id \in ids : TRUE] =
                                [NoView EXCEPT !.state = "asked", !.id = m.peer]]
                  /\ UNCHANGED upstream
             ELSE /\ Put([t |-> "failure", id |-> m.peer, who |-> <<>>])
                  /\ UNCHANGED held
    /\ UNCHANGED <<chans, alive, listening, remote, opens, master, misrouted>>

----------------------------------------------------------------------------
(* The server.                                                             *)

Say(m) == /\ Len(fromServer) < MaxQueue
          /\ fromServer' = Append(fromServer, m)
ServerChannel(type, peer, who) ==
    [type |-> type, peer |-> peer, who |-> who, sent |-> FALSE, rcvd |-> FALSE]

ServerTakesOpen ==
    /\ Up /\ upstream # <<>> /\ Head(upstream).t = "open"
    /\ LET m == Head(upstream)
       IN /\ upstream' = Tail(upstream)
          /\ \/ /\ ServerFree # {}
                /\ remote' = [remote EXCEPT ![LowestServer] = ServerChannel("open", m.id, m.who)]
                /\ Say([t |-> "confirm", id |-> m.id, peer |-> LowestServer, who |-> m.who])
             \/ Say([t |-> "failure", id |-> m.id, who |-> m.who]) /\ UNCHANGED remote
    /\ UNCHANGED <<chans, alive, held, listening, opens, master, misrouted>>

ServerTakesReply ==
    /\ Up /\ upstream # <<>> /\ Head(upstream).t \in {"confirm", "failure"}
    /\ LET m == Head(upstream)
       IN /\ upstream' = Tail(upstream)
          /\ remote' = [remote EXCEPT ![m.id] =
                          IF m.t = "confirm" THEN ServerChannel("open", m.peer, m.who) ELSE None]
    /\ UNCHANGED <<chans, alive, held, listening, fromServer, opens, master, misrouted>>

ServerTakesClose ==
    /\ Up /\ upstream # <<>> /\ Head(upstream).t = "close"
    /\ LET m == Head(upstream)
           ch == remote[m.id]
       IN /\ upstream' = Tail(upstream)
          /\ IF ch.type # "open" \/ ch.rcvd
             THEN master' = "disconnected by the server" /\ UNCHANGED <<remote, misrouted>>
             ELSE /\ misrouted' = (misrouted \/ ch.who # m.who)
                  /\ remote' = [remote EXCEPT ![m.id] = IF ch.sent THEN None ELSE [ch EXCEPT !.rcvd = TRUE]]
                  /\ UNCHANGED master
    /\ UNCHANGED <<chans, alive, held, listening, fromServer, opens>>

\* Data, or its CLOSE, at any time after the channel is open.
ServerSends(s) ==
    /\ Up /\ remote[s].type = "open" /\ ~remote[s].sent
    /\ \/ Say([t |-> "data", id |-> remote[s].peer, who |-> remote[s].who]) /\ UNCHANGED remote
       \/ /\ Say([t |-> "close", id |-> remote[s].peer, who |-> remote[s].who])
          /\ remote' = [remote EXCEPT ![s] = IF @.rcvd THEN None ELSE [@ EXCEPT !.sent = TRUE]]
    /\ UNCHANGED <<chans, alive, held, listening, upstream, opens, master, misrouted>>

ServerConnection(c) ==
    /\ Up /\ c \in listening /\ ServerFree # {} /\ opens < MaxOpens
    /\ opens' = opens + 1
    /\ remote' = [remote EXCEPT ![LowestServer] = ServerChannel("opening", 0, <<>>)]
    /\ Say([t |-> "fopen", peer |-> LowestServer, c |-> c])
    /\ UNCHANGED <<chans, alive, held, listening, upstream, master, misrouted>>

----------------------------------------------------------------------------
\* The control channel of an ordinary mux client names its session's channel in remote_id.
PlainControl == [type |-> "MUX_CLIENT", have_remote_id |-> TRUE, remote_id |-> 1, sent |-> FALSE, rcvd |-> FALSE]
PlainSession == [type |-> "session", have_remote_id |-> TRUE, remote_id |-> 0, sent |-> FALSE, rcvd |-> FALSE]

ProxyStart(clients, plain) ==
    /\ chans = [s \in 0..ProxySlots |->
                  IF plain /\ s = 0 THEN PlainControl ELSE IF plain /\ s = 1 THEN PlainSession ELSE None]
    /\ remote = [s \in 0..ServerSlots |-> IF plain /\ s = 0 THEN ServerChannel("session", 1, <<>>) ELSE None]
    /\ alive = clients /\ listening = {}
    /\ held = [x \in ProxyClients \X DownIds |-> NoView]
    /\ upstream = <<>> /\ fromServer = <<>> /\ opens = 0 /\ master = "up" /\ misrouted = FALSE
NoProxy == ProxyStart({}, FALSE)
ProxyInit == ProxyStart(ProxyClients, PlainMux)

ProxyNext ==
    \/ \E c \in ProxyClients : ProxyForward(c) \/ ProxyGone(c) \/ ServerConnection(c)
    \/ \E c \in ProxyClients, id \in DownIds :
          ProxyOpen(c, id) \/ ProxyConfirm(c, id) \/ ProxyRefuse(c, id) \/ ProxyClose(c, id)
    \/ \E s \in 0..ProxySlots : channel_garbage_collect(s)
    \/ channel_proxy_upstream \/ client_request_forwarded_tcpip
    \/ ServerTakesOpen \/ ServerTakesReply \/ ServerTakesClose
    \/ \E s \in 0..ServerSlots : ServerSends(s)

ProxySpec == ProxyInit /\ [][ProxyNext]_proxyVars

----------------------------------------------------------------------------
\* Clients may use the same numbers and channels come and go on both sides, but every message
\* reaches the channel it was sent for, and the connection ends for one reason at most: a client
\* left whose channel the server had not confirmed (channels.c:channel_proxy_downstream,
\* channel_proxy_upstream, channel_free).
ProxyRouted ==
    /\ ~misrouted
    /\ master \in {"up", "fatal: no remote_id", "not opening"}
    /\ \A c \in alive, id \in DownIds :
          held[c, id].state = "open" => \E s \in DOMAIN chans :
             /\ chans[s].type = "MUX_PROXY" /\ chans[s].who = <<c, id>>
             /\ chans[s].have_remote_id /\ chans[s].remote_id = held[c, id].id

\* "The SSH_CHANNEL_MUX_PROXY channels also need to closed when the downstream mux client are
\* removed" (channels.c:2724): that a client leaves does not end the connection of the others.
MasterSurvives == master = "up"
=============================================================================
