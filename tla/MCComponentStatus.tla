------------------------- MODULE MCComponentStatus -------------------------
(* Small instance of ComponentStatus for TLC.                              *)
EXTENDS ComponentStatus

CONSTANTS p1, p2

MCPod1 == {p1}
MCPod2 == {p1, p2}

=============================================================================
