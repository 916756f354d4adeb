---------------------------- MODULE MCWorkerPool ----------------------------
(* WorkerPool for TLC: fewer workers than the code's four, more items than *)
(* the queue holds.                                                        *)
EXTENDS WorkerPool

CONSTANTS w1, w2, k1, k2

MCWorkers == {w1, w2}
MCKeys    == {k1, k2}
=============================================================================
