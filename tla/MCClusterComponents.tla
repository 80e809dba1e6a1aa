------------------------- MODULE MCClusterComponents -------------------------
(* Small instances of ClusterComponents for TLC.                           *)
EXTENDS ClusterComponents

CONSTANTS c1, c2

MCCompOrder == <<c1, c2>>
MCDefComps == {c1}
====
