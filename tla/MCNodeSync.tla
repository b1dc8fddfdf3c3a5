----------------------------- MODULE MCNodeSync -----------------------------
(* One inbound, its client and a client of the node, and two editors.      *)
EXTENDS NodeSync, TLC

Interchangeable == Permutations(Editors)
=============================================================================
