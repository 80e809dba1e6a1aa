---------------------------- MODULE MCUpgradeTo07 ----------------------------
(* Small instances of UpgradeTo07 for TLC.                                 *)
EXTENDS UpgradeTo07

CONSTANTS p1, p2, b1, b2

MCPolicy == {p1}
MCBackup == {b1, b2}
====
