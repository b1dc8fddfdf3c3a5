--------------------------- MODULE MCNodeTraffic ---------------------------
(* A node with two inbounds that carry the client.                         *)
EXTENDS NodeTraffic, TLC

CONSTANTS n1, up, down

Directions == Permutations(Dirs)
TwoInbounds == n1 :> 2
=============================================================================
