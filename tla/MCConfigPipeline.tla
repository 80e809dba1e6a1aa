-------------------------- MODULE MCConfigPipeline --------------------------
(* Small instances of ConfigPipeline for TLC.                              *)
EXTENDS ConfigPipeline

CONSTANTS t1, t2

MCTpl == {t1, t2}
====
