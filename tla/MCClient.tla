------------------------------ MODULE MCClient ------------------------------
(* The client's program as the master of a shared connection, each part in behaviours of  *)
(* its own: the clients of the control socket and their sessions, and the forwardings     *)
(* asked for by the options, by two such clients and by the escape command line.          *)
EXTENDS Rforward, Mux, TLC

VARIABLE part   \* which of the two moves
clientVars == <<rforwardVars, muxVars, part>>

\* A session with a terminal and a forwarding; and each other command beside a session.
MCCommands == {"x" :> "tty" @@ "y" :> "stdio", "x" :> "session" @@ "y" :> "stop",
               "x" :> "session" @@ "y" :> "terminate"}
MCAtStart == <<[listen |-> 1, dest |-> "a"]>>

MCInit ==
    \/ RforwardInit /\ MuxInit /\ cli["x"].cmd = "tty" /\ part = "forwarding"
    \/ RforwardInit /\ MuxInit /\ part = "mux"
MCNext ==
    \/ part = "forwarding" /\ RforwardNext /\ UNCHANGED <<muxVars, part>>
    \/ part = "mux" /\ MuxNext /\ UNCHANGED <<rforwardVars, part>>

MCSpec ==
    /\ MCInit /\ [][MCNext]_clientVars
    /\ part = "forwarding" => RforwardFairness
    /\ part = "mux" => MuxFairness

(* Forwardings and mux clients: each reply goes to the request it answers, forwarded
   connections reach where the user asked, every listener is known, and the links between
   the channels of the master stay right (RepliesMatched, ForwardsReach, ListenersKnown,
   LinksSound, ExitStatusOwn). *)
ClientSound ==
    /\ part = "forwarding" => RepliesMatched /\ ForwardsReach /\ ListenersKnown
    /\ part = "mux" => LinksSound /\ ExitStatusOwn

(* A request of a mux client is answered, and a killed one is freed. *)
ClientLive == RequestsEnd /\ KilledFreed
=============================================================================
