------------------------------ MODULE MCAgent ------------------------------
(* Two clients; a plain key and one with a certificate in files; a token with a     *)
(* certificate of the same subject for the plain key, and both public keys on their  *)
(* own.                                                                              *)
EXTENDS Agent
MCFileKeys == {Key("a", NoCert), Key("b", "subject")}
MCCardKeys == [p \in Providers |-> <<Key("a", "subject"), Key("a", NoCert), Key("b", NoCert)>>]
MCConstraints == {[life |-> 0, confirm |-> FALSE], [life |-> 1, confirm |-> TRUE]}
=============================================================================
