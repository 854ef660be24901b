-------------------------------- MODULE Mux --------------------------------
(***************************************************************************)
(* The master of a shared connection, mux.c with the parts of channels.c   *)
(* and clientloop.c behind it: a control channel per client of the control *)
(* socket and a session channel for what the client asked for, each with   *)
(* the number of the other, in a table whose numbers are reused.  A client *)
(* may be killed at any time; the sessions' ends, and the replies to their *)
(* requests, come when the server sends them.                              *)
(*                                                                         *)
(* A request is read with the descriptors that follow it.  Forwardings are *)
(* in module Rforward; the proxy mode and questions to the user are left   *)
(* out.                                                                    *)
(***************************************************************************)
EXTENDS Naturals, Sequences, SequencesExt, FiniteSets, FiniteSetsExt

CONSTANTS
    Clients,        \* clients of the control socket
    Commands,       \* what the clients may be run for: a set of functions from Clients
    MaxChannels     \* numbers of the channel table

ASSUME MuxAssumption ==
    /\ Commands \subseteq [Clients -> {"session", "tty", "stdio", "stop", "terminate"}]
    /\ MaxChannels \in Nat \ {0}

VARIABLES
    chan,           \* the channel table
    cli,            \* a client: [st, cmd, sid, exitval]
    ctlin, ctlout,  \* what a control socket holds, by client
    fromRemote,     \* packets of the server under way
    remote,         \* the server's side of a session, by our channel number
    exited,         \* clients whose command has ended, and the server has said so
    master,         \* running, quit, or how it died
    muxserver_sock  \* the control socket is there

muxVars == <<chan, cli, ctlin, ctlout, fromRemote, remote, exited, master, muxserver_sock>>
netVars == <<fromRemote, remote, exited>>

Ids == 1 .. MaxChannels
NoChannel == 0
Free_c == [kind |-> "free", client |-> "none", other |-> 0, st |-> "none", pause |-> FALSE,
           confirms |-> <<>>, sent |-> FALSE, rcvd |-> FALSE]
\* other: the session of a control channel, or the control channel of a session.
Control(c) == [Free_c EXCEPT !.kind = "control", !.client = c, !.st = "open"]
Session(c, id) == [Free_c EXCEPT !.kind = "session", !.client = c, !.other = id,
                                 !.st = "opening"]
ControlOf(c) == {id \in Ids : chan[id].kind = "control" /\ chan[id].client = c}
FreeIds == {id \in Ids : chan[id].kind = "free"}

MuxInit ==
    /\ chan = [id \in Ids |-> Free_c]
    /\ \E cmds \in Commands :
        cli = [c \in Clients |-> [st |-> "new", cmd |-> cmds[c], sid |-> 0, exitval |-> "none"]]
    /\ ctlin = [c \in Clients |-> <<>>] /\ ctlout = [c \in Clients |-> <<>>]
    /\ fromRemote = <<>> /\ remote = [id \in Ids |-> "none"]
    /\ exited = {} /\ master = "running" /\ muxserver_sock = TRUE

\* A message to a client, into the output of its control channel.
Put(c, m) == ctlout' = [ctlout EXCEPT ![c] = Append(@, m)]
Msg(t, id, val) == [t |-> t, id |-> id, val |-> val]

----------------------------------------------------------------------------
(* The server.  It handles a packet when it is sent: its answers wait with *)
(* the packets it sent before, so that a later receipt would not differ.   *)
(* rest: the packets still under way.                                      *)

ServerOpens(rest, id, c) ==
    \/ /\ fromRemote' = Append(rest, Msg("confirm", id, c))
       /\ remote' = [remote EXCEPT ![id] = IF cli[c].cmd = "stdio" THEN "running" ELSE "open"]
    \/ fromRemote' = Append(rest, Msg("open-failure", id, c)) /\ UNCHANGED remote

\* The requests of a session are granted or refused one by one; the last starts its command.
ServerRequests(rest, id, requests) ==
    \E replies \in [DOMAIN requests -> {"success", "failure"}] :
        /\ fromRemote' = rest \o [n \in DOMAIN requests |-> Msg(replies[n], id, "none")]
        /\ remote' = IF requests # <<>> /\ Last(replies) = "success"
                     THEN [remote EXCEPT ![id] = "running"] ELSE remote

\* A close is answered unless the server has sent its own.
ServerCloses(rest, id) ==
    /\ fromRemote' = IF remote[id] # "closed" THEN Append(rest, Msg("close", id, "none"))
                     ELSE rest
    /\ remote' = [remote EXCEPT ![id] = "none"]

\* The command of a session ends: its status, then the close.  A forwarding has no status.
ServerEnds(id) ==
    LET c == chan[id].client
        status == IF cli[c].cmd = "stdio" THEN <<>> ELSE <<Msg("exit-status", id, c)>>
    IN
    /\ remote[id] = "running" /\ remote' = [remote EXCEPT ![id] = "closed"]
    /\ fromRemote' = fromRemote \o status \o <<Msg("close", id, "none")>>
    /\ exited' = IF cli[c].cmd = "stdio" THEN exited ELSE exited \cup {c}
    /\ UNCHANGED <<chan, cli, ctlin, ctlout, master, muxserver_sock>>

----------------------------------------------------------------------------
(* The clients.                                                            *)

\* The first request of a command: sessions first ask if the master is alive.
FirstRequest(cmd) == IF cmd \in {"session", "tty", "stdio"} THEN "alive" ELSE cmd

\* connect() and the exchange of hellos.
channel_post_mux_listener(c) ==
    /\ master = "running" /\ muxserver_sock /\ cli[c].st = "new" /\ FreeIds # {}
    /\ chan' = [chan EXCEPT ![Min(FreeIds)] = Control(c)]
    /\ cli' = [cli EXCEPT ![c].st = "waiting"]
    /\ ctlin' = [ctlin EXCEPT ![c] = <<FirstRequest(cli[c].cmd)>>]
    /\ UNCHANGED <<ctlout, netVars, master, muxserver_sock>>

End(c, val) == cli' = [cli EXCEPT ![c].st = "done", ![c].exitval = val]

\* What a client does with a message: exit messages must be for its session, and one only.
mux_client_read_packet(c) ==
    LET m == Head(ctlout[c]) IN
    /\ ctlout[c] # <<>> /\ cli[c].st \in {"waiting", "session"}
    /\ ctlout' = [ctlout EXCEPT ![c] = Tail(@)]
    /\ CASE m.t = "alive" ->
              ctlin' = [ctlin EXCEPT ![c] = Append(@, cli[c].cmd)] /\ UNCHANGED cli
         [] m.t = "ok" -> End(c, "ok") /\ UNCHANGED ctlin
         [] m.t = "failure" -> End(c, "failed") /\ UNCHANGED ctlin
         [] m.t = "opened" /\ cli[c].st = "waiting" ->
              /\ cli' = [cli EXCEPT ![c].st = "session", ![c].sid = m.id]
              /\ UNCHANGED ctlin
         [] m.t = "tty_alloc_fail" /\ m.id = cli[c].sid -> UNCHANGED <<cli, ctlin>>
         [] m.t = "exit" /\ m.id = cli[c].sid /\ cli[c].exitval = "none"
                         /\ cli[c].cmd # "stdio" ->
              cli' = [cli EXCEPT ![c].exitval = m.val] /\ UNCHANGED ctlin
         [] OTHER -> cli' = [cli EXCEPT ![c].st = "confused"] /\ UNCHANGED ctlin
    /\ UNCHANGED <<chan, netVars, master, muxserver_sock>>

\* The control socket was closed.
mux_client_read_eof(c) ==
    /\ cli[c].st \in {"waiting", "session"} /\ ctlout[c] = <<>>
    /\ ControlOf(c) = {} \/ master # "running"
    /\ cli' = [cli EXCEPT ![c].st = "done"]
    /\ UNCHANGED <<chan, ctlin, ctlout, netVars, master, muxserver_sock>>

Killed(c) ==
    /\ cli[c].st \in {"waiting", "session"} /\ cli' = [cli EXCEPT ![c].st = "dead"]
    /\ UNCHANGED <<chan, ctlin, ctlout, netVars, master, muxserver_sock>>

----------------------------------------------------------------------------
(* Requests of clients.                                                    *)

\* Mistake: more requests, and the end of the client, are read before the open is confirmed.
new_session_without_pause(id, c) ==
    LET nc == Min(FreeIds) IN
    /\ chan' = [chan EXCEPT ![nc] = Session(c, id), ![id].other = nc]
    /\ ServerOpens(fromRemote, nc, c) /\ UNCHANGED ctlout

\* One session for each control channel, and nothing is read until its open is confirmed.
mux_master_process_new_session(id, c) ==
    LET nc == Min(FreeIds) IN
    IF chan[id].other # NoChannel
    THEN Put(c, Msg("failure", 0, "none")) /\ UNCHANGED <<chan, fromRemote, remote>>
    ELSE /\ chan' = [chan EXCEPT ![nc] = Session(c, id), ![id].other = nc,
                                 ![id].pause = TRUE]
         /\ ServerOpens(fromRemote, nc, c) /\ UNCHANGED ctlout

\* The hello of the client, the first message, is part of channel_post_mux_listener.
mux_master_read_cb(id) ==
    LET c == chan[id].client
        m == Head(ctlin[c])
    IN
    /\ master = "running" /\ chan[id].kind = "control" /\ chan[id].st = "open"
    /\ ~chan[id].pause /\ ctlin[c] # <<>>
    /\ ctlin' = [ctlin EXCEPT ![c] = Tail(@)]
    /\ CASE m = "alive" -> /\ Put(c, Msg("alive", 0, "none"))
                           /\ UNCHANGED <<chan, fromRemote, remote, master, muxserver_sock>>
         [] m \in {"session", "tty", "stdio"} ->
                /\ FreeIds # {} /\ mux_master_process_new_session(id, c)
                /\ UNCHANGED <<master, muxserver_sock>>
         [] m = "stop" -> /\ muxserver_sock' = FALSE /\ Put(c, Msg("ok", 0, "none"))
                          /\ UNCHANGED <<chan, fromRemote, remote, master>>
         [] m = "terminate" -> /\ master' = "quit" /\ ctlout' = [d \in Clients |-> <<>>]
                               /\ UNCHANGED <<chan, fromRemote, remote, muxserver_sock>>
    /\ UNCHANGED <<cli, exited>>

\* A client that is gone: its end is read when all it wrote was, or a write fails.
channel_post_mux_client(id) ==
    LET c == chan[id].client IN
    /\ master = "running" /\ chan[id].kind = "control" /\ chan[id].st = "open"
    /\ cli[c].st \in {"dead", "done", "confused"}
    /\ \/ ctlin[c] = <<>> /\ ~chan[id].pause
       \/ ctlout[c] # <<>>
    /\ chan' = [chan EXCEPT ![id].st = "closed"]
    /\ ctlout' = [ctlout EXCEPT ![c] = <<>>]
    /\ UNCHANGED <<cli, ctlin, netVars, master, muxserver_sock>>

----------------------------------------------------------------------------
(* The end of channels.                                                    *)

\* chan_read_failed() and chan_write_failed() of a session: a close, if none was sent.
CloseSession(t, rest, id) ==
    /\ chan' = [t EXCEPT ![id].sent = TRUE]
    /\ IF chan[id].sent THEN fromRemote' = rest /\ UNCHANGED remote ELSE ServerCloses(rest, id)

\* Mistake: the session still names its control channel.
control_cleanup_keeping(id) ==
    LET freed == [chan EXCEPT ![id] = Free_c] IN
    /\ IF chan[id].other = NoChannel THEN chan' = freed /\ UNCHANGED <<fromRemote, remote>>
       ELSE CloseSession(freed, fromRemote, chan[id].other)
    /\ UNCHANGED master

\* The session is closed, unless its open failed.
mux_master_control_cleanup_cb(id) ==
    LET sc == chan[id].other
        freed == [chan EXCEPT ![id] = Free_c]
    IN
    IF sc = NoChannel
    THEN chan' = freed /\ UNCHANGED <<fromRemote, remote, master>>
    ELSE IF chan[sc].kind # "session"
    THEN master' = "fatal" /\ UNCHANGED <<chan, fromRemote, remote>>
    ELSE /\ IF chan[sc].st \in {"open", "opening"}
            THEN CloseSession([freed EXCEPT ![sc].other = NoChannel], fromRemote, sc)
            ELSE /\ chan' = [freed EXCEPT ![sc].other = NoChannel]
                 /\ UNCHANGED <<fromRemote, remote>>
         /\ UNCHANGED master

\* The control channel gets no more input, and closes when its output is written.
mux_master_session_cleanup_cb(id) ==
    LET cc == chan[id].other IN
    IF cc = NoChannel
    THEN chan' = [chan EXCEPT ![id] = Free_c] /\ UNCHANGED master
    ELSE IF chan[cc].kind # "control"
    THEN master' = "fatal" /\ UNCHANGED chan
    ELSE /\ chan' = [chan EXCEPT ![cc].other = NoChannel, ![cc].st = "closed",
                                 ![id] = Free_c]
         /\ UNCHANGED master

\* Channels that are dead: zombies, sessions closed from both sides, control channels with
\* no more input whose output was written.
channel_garbage_collect(id) ==
    /\ master = "running"
    /\ \/ /\ chan[id].kind = "control" /\ chan[id].st = "closed"
          /\ mux_master_control_cleanup_cb(id)
       \/ /\ chan[id].kind = "session"
          /\ chan[id].st = "zombie" \/ (chan[id].sent /\ chan[id].rcvd)
          /\ mux_master_session_cleanup_cb(id) /\ UNCHANGED <<fromRemote, remote>>
    /\ UNCHANGED <<cli, ctlin, ctlout, exited, muxserver_sock>>

----------------------------------------------------------------------------
(* Packets from the server.                                                *)

\* The requests of a session, and the callbacks for their replies.
client_session2_setup(c) ==
    IF cli[c].cmd = "stdio" THEN <<>>
    ELSE IF cli[c].cmd = "tty" THEN <<"pty-req", "shell">> ELSE <<"shell">>

mux_session_confirm(rest, id, success) ==
    LET c == chan[id].client
        cc == chan[id].other
        requests == IF success THEN client_session2_setup(c) ELSE <<>>
    IN
    IF cc = NoChannel THEN master' = "fatal" /\ UNCHANGED <<chan, ctlout, fromRemote, remote>>
    ELSE /\ chan' = [chan EXCEPT ![cc].pause = FALSE,
                                 ![id].st = IF success THEN "open" ELSE "zombie",
                                 ![id].confirms = requests]
         /\ ServerRequests(rest, id, requests)
         /\ Put(c, Msg(IF success THEN "opened" ELSE "failure", id, "none"))
         /\ UNCHANGED master

\* The reply to the first request that waits for one.  A terminal that was refused is told
\* to the client, a shell that was refused closes the session.
client_status_confirm(rest, id, success) ==
    LET cc == chan[id].other
        request == Head(chan[id].confirms)
        popped == [chan EXCEPT ![id].confirms = Tail(@)]
    IN
    IF ~success /\ request = "shell"
    THEN CloseSession(popped, rest, id) /\ UNCHANGED <<ctlout, master>>
    ELSE /\ fromRemote' = rest /\ UNCHANGED remote
         /\ IF success THEN chan' = popped /\ UNCHANGED <<ctlout, master>>
            ELSE IF cc = NoChannel
            THEN master' = "fatal_tty" /\ UNCHANGED <<chan, ctlout>>
            ELSE /\ chan' = popped /\ UNCHANGED master
                 /\ Put(chan[cc].client, Msg("tty_alloc_fail", id, "none"))

\* Mistake: the exit status goes to the client that was last given the channel number.
exit_message_to_first(id, val) ==
    LET cc == Min({k \in Ids : chan[k].kind = "control"}) IN
    IF chan[id].other # NoChannel THEN Put(chan[cc].client, Msg("exit", id, val))
    ELSE UNCHANGED ctlout
mux_exit_message(id, val) ==
    IF chan[id].other # NoChannel THEN Put(chan[chan[id].other].client, Msg("exit", id, val))
    ELSE UNCHANGED ctlout

client_input_packet ==
    LET p == Head(fromRemote)
        rest == Tail(fromRemote)
    IN
    /\ master = "running" /\ fromRemote # <<>>
    /\ CASE p.t = "confirm" -> mux_session_confirm(rest, p.id, TRUE)
         [] p.t = "open-failure" -> mux_session_confirm(rest, p.id, FALSE)
         [] p.t = "success" -> client_status_confirm(rest, p.id, TRUE)
         [] p.t = "failure" -> client_status_confirm(rest, p.id, FALSE)
         [] p.t = "exit-status" -> /\ mux_exit_message(p.id, p.val) /\ fromRemote' = rest
                                   /\ UNCHANGED <<chan, remote, master>>
         [] p.t = "close" -> /\ CloseSession([chan EXCEPT ![p.id].rcvd = TRUE], rest, p.id)
                             /\ UNCHANGED <<ctlout, master>>
    /\ UNCHANGED <<cli, ctlin, exited, muxserver_sock>>

----------------------------------------------------------------------------
MuxNext ==
    \/ \E c \in Clients :
        \/ channel_post_mux_listener(c) \/ mux_client_read_packet(c)
        \/ mux_client_read_eof(c) \/ Killed(c)
    \/ \E id \in Ids :
        \/ mux_master_read_cb(id) \/ channel_post_mux_client(id)
        \/ channel_garbage_collect(id) \/ ServerEnds(id)
    \/ client_input_packet

\* While a program has something received to handle, or the loop a dead channel to collect,
\* one of them does.  Commands need not end, and nobody need be killed.
MuxFairness ==
    WF_muxVars(\/ \E c \in Clients : mux_client_read_packet(c) \/ mux_client_read_eof(c)
               \/ \E id \in Ids : \/ mux_master_read_cb(id) \/ channel_post_mux_client(id)
                                 \/ channel_garbage_collect(id)
               \/ client_input_packet)
MuxFairSpec == MuxInit /\ [][MuxNext]_muxVars /\ MuxFairness

----------------------------------------------------------------------------
(* Properties.                                                             *)

\* A session and its control channel name each other, or neither does, also when numbers of
\* channels are used again; so no callback finds its channel missing, which would end the
\* connection of all clients (the checks of the cleanup callbacks and of
\* mux_session_confirm()).
LinksSound ==
    /\ master # "fatal"
    /\ \A id \in Ids : chan[id].other # NoChannel =>
        /\ {chan[id].kind, chan[chan[id].other].kind} = {"session", "control"}
        /\ chan[chan[id].other].other = id
        /\ chan[chan[id].other].client = chan[id].client

\* A client whose command has ended, and that was not killed, ends with the exit status of
\* its own command, told once; no client gets a message for another session
\* (mux_exit_message(), and the checks in mux_client_request_session()).
ExitStatusOwn ==
    \A c \in Clients :
        /\ cli[c].st # "confused"
        /\ cli[c].exitval \in {"none", "ok", "failed", c}
        /\ cli[c].st = "done" /\ c \in exited /\ master = "running" => cli[c].exitval = c

\* The master does not end because of one client.  mux_tty_alloc_failed() takes for granted
\* that a session whose terminal is refused has its control channel: fatal("channel %d
\* missing mux channel %d").
MasterSurvives == master \notin {"fatal", "fatal_tty"}

\* A client that was killed leaves nothing behind: its channels are freed, the session at
\* the server is closed (mux_master_control_cleanup_cb()).
KilledFreed ==
    \A c \in Clients : cli[c].st = "dead"
        ~> master # "running" \/ \A id \in Ids : chan[id].client # c
=============================================================================
