------------------------ MODULE MCXraySupervision --------------------------
(* XraySupervision on a small instance: the restarts look at the users one *)
(* by one, so one user shows what can happen to it.                        *)
EXTENDS XraySupervision

CONSTANT u1
=============================================================================
