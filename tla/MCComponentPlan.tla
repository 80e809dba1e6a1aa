--------------------------- MODULE MCComponentPlan ---------------------------
(* Small instances of ComponentPlan for TLC.                               *)
EXTENDS ComponentPlan

CONSTANTS a1, a2, pw1, pw2, m1, m2, pdb, compFin, defFin

\* One account with a SecretRef and one with a generated password.
MCAccountSeq == <<a1, a2>>
MCRefAccounts == {a1}
MCPassword == {pw1, pw2}
MCMinAvail == {m1, m2}
====
