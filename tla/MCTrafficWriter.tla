--------------------------- MODULE MCTrafficWriter ---------------------------
(* The traffic writer with a queue of one and a few restarts.              *)
EXTENDS TrafficWriter, TLC

Interchangeable == Permutations(Callers)
=============================================================================
