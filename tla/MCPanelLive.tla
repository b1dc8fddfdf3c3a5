---------------------------- MODULE MCPanelLive -----------------------------
(* PanelLive with one handler besides the tab's own, and a queue that the  *)
(* third signal overflows.                                                 *)
EXTENDS PanelLive

CONSTANT a
=============================================================================
