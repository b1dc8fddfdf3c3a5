----------------------------- MODULE MCNodeAgent -----------------------------
(* NodeAgent for TLC: quotas that the traffic of a run can reach, of an       *)
(* account and of the inbound, and expiry times that the clock can reach.     *)
EXTENDS NodeAgent, TLC

CONSTANTS a1

BothQuotas == (a1 :> 1) @@ (Inbound :> 2) @@ [k \in Keys |-> 0]
AnyTerm == {-1, 0, 1}
Never == {0}
=============================================================================
