----------------------------- MODULE MCNodeStore -----------------------------
(* NodeStore for TLC: four saves are enough for a first save without a       *)
(* backup, a second that makes the first backup, a third that replaces it and *)
(* a fourth after a restart.                                                 *)
EXTENDS NodeStore
=============================================================================
