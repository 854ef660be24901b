----------------------------- MODULE MCChannel -----------------------------
(***************************************************************************)
(* Bounds for the runs of Channel: a session with stderr, a multiplexed    *)
(* session with requests, and a forwarded connection that moves more data  *)
(* than its window holds.                                                  *)
(***************************************************************************)
EXTENDS Channel

ByKind(session, mux, tcpip) ==
  [k \in AllKinds |-> CASE k = "session" -> session [] k = "mux" -> mux [] k = "tcpip" -> tcpip]

Read == ByKind(1, 1, 2)
Data == ByKind(1, 1, 3)
Ext == ByKind(1, 0, 0)
Req == ByKind(0, 1, 1)

\* Under fairness.
LiveRead == ByKind(1, 1, 1)
NoRequests == ByKind(0, 0, 0)

\* Nothing but stderr.
NoData == ByKind(0, 0, 0)
StderrOnly == ByKind(2, 2, 2)
=============================================================================
