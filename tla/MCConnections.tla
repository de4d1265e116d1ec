----------------------------- MODULE MCConnections -----------------------------
(* Instance of Connections for TLC. *)
EXTENDS Connections, TLC

CONSTANTS c1, c2, c3, p1, p2

\* The second connection replaces the first, the third competes for a place.
MCPlayerOf == c1 :> p1 @@ c2 :> p1 @@ c3 :> p2
=============================================================================
