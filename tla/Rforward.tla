------------------------------ MODULE Rforward ------------------------------
(***************************************************************************)
(* Remote forwardings (-R) as the client keeps them: the list of options,  *)
(* the permissions of channels.c, and the queue of callbacks for replies   *)
(* to global requests, which carry no number and are told apart by their   *)
(* order alone.  Forwardings are asked for at the start, by clients of the *)
(* control socket (mux.c) and on the command line of the escape character  *)
(* (~C), and are cancelled while other requests are under way.  On the     *)
(* other side, the listeners of sshd and programs that use its ports.      *)
(*                                                                         *)
(* All forwardings listen on the loopback address, so that a port names a  *)
(* listener; port 0 asks the server for a free one.                        *)
(***************************************************************************)
EXTENDS Naturals, Sequences, SequencesExt, FiniteSets, FiniteSetsExt, Folds

CONSTANTS
    MaxMuxers,          \* number of clients of the control socket, each with one request
    FixedPorts,         \* ports that forwardings name
    DynamicPorts,       \* ports that the server may allocate
    Dests,              \* where connections are forwarded to
    AtStart,            \* the forwardings in the options, a sequence of Forwards
    Addresses,          \* number of addresses a destination has
    Ask,                \* ControlMaster ask: the user may refuse
    MaxOpens, MaxTurns  \* bounds of the model

Forwards == [listen : FixedPorts \cup {0}, dest : Dests]
NoDest == "none"

ASSUME RforwardAssumption ==
    /\ FixedPorts \cup DynamicPorts \subseteq Nat \ {0}
    /\ AtStart \in Seq(Forwards) /\ NoDest \notin Dests
    /\ {MaxMuxers, Addresses, MaxOpens, MaxTurns} \subseteq Nat
    /\ Addresses > 0
    /\ Ask \in BOOLEAN

VARIABLES
    remote_forwards,    \* options: [listen, dest, allocated_port, handle], cleared or not
    permitted_user,     \* local_perms: [listen_port, dest], cleared or not
    global_confirms,    \* [cb, fid, who, ref_count]
    mux,                \* a client of the control socket: [st, fwd, answer]
    toServer, toClient, \* packets under way
    listeners,          \* at the server: the request that a port listens for, or 0
    busy,               \* at the server: ports of other programs
    opens,              \* connections that were made to listeners
    asked,              \* per request: who made it, for what, and what became of it
    used,               \* turns that keepalives, ~C and other programs have had
    ssh                 \* the state of the client program

rforwardVars == <<remote_forwards, permitted_user, global_confirms, mux, toServer, toClient,
                  listeners, busy, opens, asked, used, ssh>>
serverVars_r == <<listeners, busy, opens>>

Muxers == 1 .. MaxMuxers
Ports == FixedPorts \cup DynamicPorts
Unknown == Len(permitted_user) + 1

RforwardInit ==
    /\ remote_forwards = <<>> /\ permitted_user = <<>> /\ global_confirms = <<>>
    /\ mux = [c \in Muxers |-> [st |-> "idle", answer |-> <<"none", 0>>]]
    /\ toServer = <<>> /\ toClient = <<>>
    /\ listeners = [p \in Ports |-> 0] /\ busy = {} /\ opens = <<>> /\ asked = <<>>
    /\ used = 0 /\ ssh = "start"

Turn == used < MaxTurns /\ used' = used + 1
\* The clients of the control socket are alike: they come in the order of their numbers.
Comes(c) == mux[c].st = "idle" /\ \A d \in 1 .. c - 1 : mux[d].st # "idle"

----------------------------------------------------------------------------
(* Permissions and callbacks.                                              *)

\* Each request for a forwarding adds a permission: its index is the request's number.
permission_set_add(f) == Append(permitted_user, [listen_port |-> f.listen, dest |-> f.dest])
fwd_perm_clear(i) == [permitted_user EXCEPT ![i] = [listen_port |-> 0, dest |-> NoDest]]

channel_update_permission(i, newport) ==
    IF newport = 0 THEN fwd_perm_clear(i)
    ELSE [permitted_user EXCEPT ![i].listen_port = newport]

\* The first permission that a cancellation or a forwarded connection matches.
open_listen_match_tcpip(port) ==
    SelectInSeq(permitted_user, LAMBDA p : p.dest # NoDest /\ p.listen_port = port)

\* Equal callbacks in a row are merged.
client_register_global_confirm(gc) ==
    LET n == Len(global_confirms)
        last == global_confirms[n]
    IN IF n > 0 /\ last.cb = gc.cb /\ last.fid = gc.fid /\ last.who = gc.who
       THEN [global_confirms EXCEPT ![n].ref_count = @ + 1]
       ELSE Append(global_confirms, gc)

Confirm(cb, fid, who) == [cb |-> cb, fid |-> fid, who |-> who, ref_count |-> 1]
Request(f, typed) == [typed |-> typed, fwd |-> f, state |-> "sent"]
ForwardPacket(f, r) == [t |-> "tcpip-forward", port |-> f.listen, req |-> r]

----------------------------------------------------------------------------
(* Requests.                                                               *)

\* All the forwardings of the options are asked for before the first reply is read.
ssh_init_forwarding ==
    LET n == Len(AtStart) IN
    /\ ssh = "start" /\ ssh' = "running"
    /\ remote_forwards' = [i \in 1 .. n |->
            [listen |-> AtStart[i].listen, dest |-> AtStart[i].dest,
             allocated_port |-> 0, handle |-> i]]
    /\ permitted_user' = [i \in 1 .. n |->
            [listen_port |-> AtStart[i].listen, dest |-> AtStart[i].dest]]
    /\ asked' = [i \in 1 .. n |-> Request(AtStart[i], FALSE)]
    /\ toServer' = [i \in 1 .. n |-> ForwardPacket(AtStart[i], i)]
    /\ global_confirms' = [i \in 1 .. n |-> Confirm("start", i, 0)]
    /\ UNCHANGED <<mux, toClient, serverVars_r, used>>

channel_request_remote_forwarding(f, typed) ==
    /\ permitted_user' = permission_set_add(f)
    /\ asked' = Append(asked, Request(f, typed))
    /\ toServer' = Append(toServer, ForwardPacket(f, Unknown))

Answer_r(c, a) == mux' = [mux EXCEPT ![c] = [st |-> "answered", answer |-> a]]

compare_forward(f) ==
    SelectInSeq(remote_forwards, LAMBDA x : x.listen = f.listen /\ x.dest = f.dest)

\* A forwarding of the list is there already, whether or not the server has accepted it.
mux_master_process_open_fwd(c, f) ==
    /\ ssh = "running" /\ Comes(c)
    /\ IF compare_forward(f) # 0
       THEN /\ Answer_r(c, IF f.listen = 0
                     THEN <<"port", remote_forwards[compare_forward(f)].allocated_port>>
                     ELSE <<"ok", 0>>)
            /\ UNCHANGED <<remote_forwards, permitted_user, asked, toServer, global_confirms>>
       ELSE \/ /\ Ask /\ Answer_r(c, <<"denied", 0>>)
               /\ UNCHANGED <<remote_forwards, permitted_user, asked, toServer,
                              global_confirms>>
            \/ /\ channel_request_remote_forwarding(f, FALSE)
               /\ remote_forwards' = Append(remote_forwards,
                    [listen |-> f.listen, dest |-> f.dest, allocated_port |-> 0,
                     handle |-> Unknown])
               /\ global_confirms' = client_register_global_confirm(
                    Confirm("mux", Len(remote_forwards) + 1, c))
               /\ mux' = [mux EXCEPT ![c].st = "waiting"]
    /\ UNCHANGED <<toClient, serverVars_r, used, ssh>>

Cancelled(state) ==
    CASE state = "sent" -> "withdrawn" [] state = "active" -> "cancelled" [] OTHER -> state

\* Mistake: the server is asked to cancel, the permission is kept.
rforward_cancel_keeping(port) ==
    LET i == open_listen_match_tcpip(port) IN
    /\ i # 0
    /\ toServer' = Append(toServer, [t |-> "cancel", port |-> port, req |-> 0])
    /\ asked' = [asked EXCEPT ![i].state = Cancelled(@)]
    /\ UNCHANGED permitted_user

\* The permission that matches is cleared at once; the server is not asked for a reply.
channel_request_rforward_cancel_tcpip(port) ==
    LET i == open_listen_match_tcpip(port) IN
    /\ i # 0
    /\ toServer' = Append(toServer, [t |-> "cancel", port |-> port, req |-> 0])
    /\ permitted_user' = fwd_perm_clear(i)
    /\ asked' = [asked EXCEPT ![i].state = Cancelled(@)]

\* The port of a list entry: the one asked for, or the one allocated.
CancelPort(x) == IF x.listen # 0 THEN x.listen ELSE x.allocated_port
Cleared(x) == [x EXCEPT !.listen = 0, !.dest = NoDest]

mux_master_process_close_fwd(c, f) ==
    LET found == compare_forward(f) IN
    /\ ssh = "running" /\ Comes(c)
    /\ IF found = 0 \/ open_listen_match_tcpip(CancelPort(remote_forwards[found])) = 0
       THEN Answer_r(c, <<"failure", 0>>)
            /\ UNCHANGED <<remote_forwards, permitted_user, asked, toServer>>
       ELSE /\ channel_request_rforward_cancel_tcpip(CancelPort(remote_forwards[found]))
            /\ remote_forwards' = [remote_forwards EXCEPT ![found] = Cleared(@)]
            /\ Answer_r(c, <<"ok", 0>>)
    /\ UNCHANGED <<global_confirms, toClient, serverVars_r, used, ssh>>

\* ~C: the list of options is not kept up to date, and nothing waits for the reply.
process_cmdline ==
    /\ ssh = "running" /\ Turn
    /\ \/ \E f \in Forwards : channel_request_remote_forwarding(f, TRUE)
       \/ \E p \in Ports : channel_request_rforward_cancel_tcpip(p)
    /\ UNCHANGED <<remote_forwards, global_confirms, mux, toClient, serverVars_r, ssh>>

\* Mistake: no placeholder in the queue of callbacks.
alive_check_unordered ==
    /\ ssh = "running" /\ Turn
    /\ toServer' = Append(toServer, [t |-> "keepalive", port |-> 0, req |-> 0])
    /\ UNCHANGED <<remote_forwards, permitted_user, global_confirms, mux, toClient,
                   serverVars_r, asked, ssh>>

server_alive_check ==
    /\ ssh = "running" /\ Turn
    /\ toServer' = Append(toServer, [t |-> "keepalive", port |-> 0, req |-> 0])
    /\ global_confirms' = client_register_global_confirm(Confirm("none", 0, 0))
    /\ UNCHANGED <<remote_forwards, permitted_user, mux, toClient, serverVars_r, asked, ssh>>

----------------------------------------------------------------------------
(* The server.                                                             *)

Free == {p \in Ports : listeners[p] = 0} \ busy
Reply(t, port, r) == toClient' = Append(toClient, [t |-> t, port |-> port, req |-> r])

\* The listener of a request; the reply names a port only if the server chose it.
channel_setup_fwd_listener_tcpip(m) ==
    LET choices == IF m.port = 0 THEN DynamicPorts \cap Free ELSE {m.port} \cap Free IN
    IF choices = {}
    THEN Reply("failure", 0, m.req) /\ UNCHANGED listeners
    ELSE \E p \in choices :
            /\ listeners' = [listeners EXCEPT ![p] = m.req]
            /\ Reply("success", IF m.port = 0 THEN p ELSE 0, m.req)

channel_cancel_rport_listener(port) ==
    listeners' = [p \in Ports |-> IF p = port THEN 0 ELSE listeners[p]]

server_input_global_request ==
    /\ toServer # <<>> /\ ssh = "running"
    /\ toServer' = Tail(toServer)
    /\ LET m == Head(toServer) IN
       CASE m.t = "tcpip-forward" -> channel_setup_fwd_listener_tcpip(m)
         [] m.t = "cancel" -> channel_cancel_rport_listener(m.port) /\ UNCHANGED toClient
         [] m.t = "keepalive" -> Reply("failure", 0, 0) /\ UNCHANGED listeners
    /\ UNCHANGED <<remote_forwards, permitted_user, global_confirms, mux, busy, opens, asked,
                   used, ssh>>

\* A program connects to a listener: the channel is opened with the listener's port.
channel_post_port_listener(p) ==
    /\ ssh = "running" /\ listeners[p] # 0 /\ Len(opens) < MaxOpens
    /\ opens' = Append(opens, [state |-> "sent", left |-> 0, for |-> listeners[p],
                               dest |-> NoDest])
    /\ Reply("open", p, Len(opens) + 1)
    /\ UNCHANGED <<remote_forwards, permitted_user, global_confirms, mux, toServer, listeners,
                   busy, asked, used, ssh>>

\* Other programs take a port of the server and give it back.
OtherProgram(p) ==
    /\ ssh = "running" /\ Turn
    /\ busy' = IF p \in busy THEN busy \ {p} ELSE busy \cup {p}
    /\ listeners[p] = 0
    /\ UNCHANGED <<remote_forwards, permitted_user, global_confirms, mux, toServer, toClient,
                   listeners, opens, asked, ssh>>

----------------------------------------------------------------------------
(* Replies.                                                                *)

\* Mistake: a permission whose request was refused is kept.
update_when_accepted(x, m) ==
    IF x.listen # 0 \/ m.t = "failure" THEN UNCHANGED permitted_user
    ELSE permitted_user' = channel_update_permission(x.handle, m.port)

\* The port is in the packet, or the program ends; a failure clears the permission of a
\* forwarding whose port the server should have chosen, and only that.
UpdatePermission(x, m) ==
    IF x.listen # 0 THEN UNCHANGED permitted_user
    ELSE permitted_user' =
        channel_update_permission(x.handle, IF m.t = "success" THEN m.port ELSE 0)

ssh_confirm_remote_forward(gc, m) ==
    LET x == remote_forwards[gc.fid] IN
    /\ ssh' = IF m.t = "success" /\ x.listen = 0 /\ m.port = 0 THEN "fatal" ELSE "running"
    /\ UpdatePermission(x, m)
    /\ remote_forwards' = IF m.t = "success" /\ x.listen = 0
                          THEN [remote_forwards EXCEPT ![gc.fid].allocated_port = m.port]
                          ELSE remote_forwards
    /\ UNCHANGED mux

\* Mistake: nothing is said to the client if the forwarding is gone.
confirm_silently(gc, m) ==
    LET x == remote_forwards[gc.fid] IN
    IF x.dest = NoDest THEN UNCHANGED <<ssh, permitted_user, remote_forwards, mux>>
    ELSE /\ ssh' = "running" /\ UpdatePermission(x, m)
         /\ remote_forwards' =
              IF m.t = "failure" THEN [remote_forwards EXCEPT ![gc.fid] = Cleared(@)]
              ELSE [remote_forwards EXCEPT ![gc.fid].allocated_port = m.port]
         /\ Answer_r(gc.who, IF m.t = "failure" THEN <<"failure", 0>> ELSE <<"ok", 0>>)

\* The answer to the client.  The forwarding may have been cancelled meanwhile.
mux_confirm_remote_forward(gc, m) ==
    LET x == remote_forwards[gc.fid] IN
    IF x.dest = NoDest
    THEN Answer_r(gc.who, <<"failure", 0>>) /\ UNCHANGED <<ssh, permitted_user, remote_forwards>>
    ELSE /\ ssh' = IF m.t = "success" /\ x.listen = 0 /\ m.port = 0 THEN "fatal" ELSE "running"
         /\ UpdatePermission(x, m)
         /\ remote_forwards' =
              IF m.t = "failure" THEN [remote_forwards EXCEPT ![gc.fid] = Cleared(@)]
              ELSE IF x.listen = 0
                   THEN [remote_forwards EXCEPT ![gc.fid].allocated_port = m.port]
                   ELSE remote_forwards
         /\ Answer_r(gc.who, IF m.t = "failure" THEN <<"failure", 0>>
                             ELSE IF x.listen = 0 THEN <<"port", m.port>> ELSE <<"ok", 0>>)

\* What the reply says becomes known of its own request.
Settled(m) ==
    IF m.req = 0 \/ (asked[m.req].state # "sent" /\ m.t = "success") THEN asked
    ELSE [asked EXCEPT ![m.req].state = IF m.t = "success" THEN "active" ELSE "refused"]

client_global_request_reply(m) ==
    LET gc == Head(global_confirms) IN
    /\ asked' = Settled(m)
    /\ IF global_confirms = <<>>
       THEN UNCHANGED <<global_confirms, permitted_user, remote_forwards, mux, ssh>>
       ELSE /\ global_confirms' = IF gc.ref_count > 1
                    THEN [global_confirms EXCEPT ![1].ref_count = @ - 1]
                    ELSE Tail(global_confirms)
            /\ CASE gc.cb = "start" -> ssh_confirm_remote_forward(gc, m)
                 [] gc.cb = "mux" -> mux_confirm_remote_forward(gc, m)
                 [] gc.cb = "none" -> UNCHANGED <<permitted_user, remote_forwards, mux, ssh>>
    /\ UNCHANGED opens

----------------------------------------------------------------------------
(* Forwarded connections.                                                  *)

channel_connect_by_listen_address(m) ==
    LET i == open_listen_match_tcpip(m.port) IN
    /\ opens' = [opens EXCEPT ![m.req] =
            IF i = 0 THEN [@ EXCEPT !.state = "refused"]
            ELSE [@ EXCEPT !.state = "connecting", !.left = Addresses,
                           !.dest = permitted_user[i].dest]]
    /\ UNCHANGED <<global_confirms, permitted_user, remote_forwards, mux, ssh, asked>>

client_input ==
    /\ toClient # <<>> /\ ssh = "running"
    /\ toClient' = Tail(toClient)
    /\ LET m == Head(toClient) IN
       IF m.t = "open" THEN channel_connect_by_listen_address(m)
       ELSE client_global_request_reply(m)
    /\ UNCHANGED <<toServer, listeners, busy, used>>

\* connect() to one address after the other, until one succeeds.
channel_post_connecting(k) ==
    /\ opens[k].state = "connecting"
    /\ \/ opens' = [opens EXCEPT ![k].state = "confirmed"]
       \/ opens' = [opens EXCEPT ![k].left = @ - 1,
                                 ![k].state = IF opens[k].left > 1 THEN "connecting"
                                              ELSE "failed"]
    /\ UNCHANGED <<remote_forwards, permitted_user, global_confirms, mux, toServer, toClient,
                   listeners, busy, asked, used, ssh>>

----------------------------------------------------------------------------
RforwardNext ==
    \/ ssh_init_forwarding
    \/ \E c \in Muxers, f \in Forwards :
           mux_master_process_open_fwd(c, f) \/ mux_master_process_close_fwd(c, f)
    \/ process_cmdline \/ server_alive_check
    \/ server_input_global_request
    \/ \E p \in Ports : channel_post_port_listener(p) \/ OtherProgram(p)
    \/ client_input
    \/ \E k \in DOMAIN opens : channel_post_connecting(k)

\* Both programs handle the packets they receive, and connect() ends: while there is such a
\* step one is taken, of whichever program.
RforwardFairness ==
    WF_rforwardVars(\/ server_input_global_request \/ client_input
                    \/ \E k \in DOMAIN opens : channel_post_connecting(k))

RforwardFairSpec == RforwardInit /\ [][RforwardNext]_rforwardVars /\ RforwardFairness

----------------------------------------------------------------------------
(* Properties.                                                             *)

Typed == \E i \in DOMAIN asked : asked[i].typed
\* The requests that callbacks and packets stand for, in their order.
Expected == FoldSeq(LAMBDA gc, ids :
        [n \in 1 .. gc.ref_count |->
            IF gc.cb = "none" THEN 0 ELSE remote_forwards[gc.fid].handle] \o ids,
    <<>>, global_confirms)
Outstanding ==
    LET numbers(s) == [n \in DOMAIN s |-> s[n].req] IN
    numbers(SelectSeq(toClient, LAMBDA m : m.t # "open"))
        \o numbers(SelectSeq(toServer, LAMBDA m : m.t # "cancel"))

\* Replies have no number (client_global_request_reply() takes the first callback): the
\* queue of callbacks stands for the requests under way, in their order, keepalives
\* included.  Unless a forwarding was asked for with ~C, which see RepliesInOrder.
RepliesMatched == ssh = "running" /\ ~Typed => Expected = Outstanding

\* The same of every history, as the comment in server_alive_check() has it: "Insert an
\* empty placeholder to maintain ordering" (clientloop.c).
RepliesInOrder == ssh = "running" => Expected = Outstanding

\* What the client does not survive: a request with ~C; a refused request for a port that is
\* named, whose permission stays; a request for any port that is cancelled while it waits.
Clean ==
    /\ ~Typed
    /\ \A i \in DOMAIN asked :
        IF asked[i].fwd.listen # 0 THEN asked[i].state # "refused"
        ELSE asked[i].state # "withdrawn"

\* A connection to the listener of a forwarding that is not cancelled is accepted and goes
\* where that forwarding says, also after other forwardings of the port or with a port that
\* the server chose (channel_connect_by_listen_address()).
ForwardsReach ==
    \A k \in DOMAIN opens :
        LET r == opens[k].for IN
        opens[k].state # "sent" /\ asked[r].state = "active" /\ Clean
            => opens[k].dest = asked[r].fwd.dest

\* When no packet is under way, the server listens for a forwarding if and only if the
\* client has the permission for it, with the same port: cancellations and refusals have
\* left neither alone (channel_request_rforward_cancel(), channel_update_permission()).
ListenersKnown ==
    toServer = <<>> /\ toClient = <<>> /\ ssh = "running" /\ Clean
    => \A i \in DOMAIN asked :
        LET ports == {p \in Ports : listeners[p] = i} IN
        IF ports = {} THEN permitted_user[i].dest = NoDest
        ELSE ports = {permitted_user[i].listen_port}
                /\ permitted_user[i].dest = asked[i].fwd.dest

Connecting(k) == k \in DOMAIN opens /\ opens[k].state = "connecting"

\* A client of the control socket whose request waits for the server is answered, whatever
\* else is asked for or cancelled meanwhile, and a connection that the client tries to
\* make for a forwarding is confirmed or fails: addresses are tried once.
RequestsEnd ==
    /\ \A c \in Muxers : mux[c].st = "waiting" ~> mux[c].st # "waiting" \/ ssh = "fatal"
    /\ \A k \in 1 .. MaxOpens : Connecting(k) ~> ~Connecting(k)
=============================================================================
