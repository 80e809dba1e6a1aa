------------------------- MODULE MCCompDefController -------------------------
(* Small instances of CompDefController for TLC.                           *)
EXTENDS CompDefController

CONSTANTS k1, k2

MCComp == {k1, k2}
====
