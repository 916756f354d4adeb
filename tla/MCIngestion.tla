---------------------------- MODULE MCIngestion ----------------------------
(* Ingestion for TLC: one transcript whose first record takes two pages.  *)
EXTENDS Ingestion

CONSTANTS s1, w1, w2

MCSources == {s1}
MCWorkers == {w1, w2}
MCPages   == [r \in 1 .. MaxRecords |-> IF r = 1 THEN 2 ELSE 1]
=============================================================================
