------------------------------ MODULE MCNodeCore ------------------------------
(* NodeCore for TLC: an empty inbound list and one more structure, two        *)
(* accounts, so that a hot update can stop half way with one of two RPCs done. *)
EXTENDS NodeCore
=============================================================================
