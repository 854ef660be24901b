------------------------------ MODULE Terminal ------------------------------
(* What the sessions of a connection promise about pseudo terminals: each has one owner  *)
(* at a time, and goes to its next owner only after the monitor has released it (owner   *)
(* and mode reset, logout recorded).                                                     *)
CONSTANTS Terminals, Owners, Nobody, Releasing
VARIABLE owner

Init == owner = [t \in Terminals |-> Nobody]

Acquire(t, o) ==
    /\ owner[t] = Nobody /\ \A u \in Terminals : owner[u] # o
    /\ owner' = [owner EXCEPT ![t] = o]
GiveUp(t) == owner[t] \in Owners /\ owner' = [owner EXCEPT ![t] = Releasing]
Release(t) == owner[t] = Releasing /\ owner' = [owner EXCEPT ![t] = Nobody]

\* The connection is lost: every owner is gone at once, and all is released.
GiveUpAll ==
    owner' = [t \in Terminals |-> IF owner[t] \in Owners THEN Releasing ELSE owner[t]]
ReleaseAll ==
    /\ \A t \in Terminals : owner[t] \notin Owners
    /\ owner' = [t \in Terminals |-> Nobody]

Next ==
    \/ \E t \in Terminals : (\E o \in Owners : Acquire(t, o)) \/ GiveUp(t) \/ Release(t)
    \/ GiveUpAll \/ ReleaseAll

Spec == Init /\ [][Next]_owner
=============================================================================
