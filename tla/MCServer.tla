------------------------------ MODULE MCServer ------------------------------
(* The server's two tables, each in behaviours of its own: the listener's processes, and *)
(* the sessions of one connection.  Two sessions, terminals and process numbers, so that *)
(* numbers are reused; three connections for two startup slots.                          *)
EXTENDS Session, Listener

VARIABLE part   \* which of the two moves
serverVars == <<sessionVars, listenerVars, part>>

MCInit == SessionInit /\ ListenerInit /\ part \in {"session", "listener"}
MCNext ==
    \/ part = "session" /\ SessionNext /\ UNCHANGED <<listenerVars, part>>
    \/ part = "listener" /\ ListenerNext /\ UNCHANGED <<sessionVars, part>>

MCSpec ==
    /\ MCInit /\ [][MCNext]_serverVars
    /\ part = "session" => SessionFairness
    /\ part = "listener" => ListenerFairness

(* The tables of the listener and of the sessions describe the processes there are
   (StartupsExact, RestartSafe; FreeListSound, LookupsSucceed, OwnProcess). *)
ServerSound ==
    /\ part = "listener" => StartupsExact /\ RestartSafe
    /\ part = "session" => FreeListSound /\ LookupsSucceed /\ OwnProcess

(* A session whose program has ended is freed, and a listener told to restart lets the
   clients of the old one go. *)
ServerLive == SessionFreed /\ LameduckEnds
=============================================================================
