---------------------------- MODULE MCKeyedQueue ----------------------------
(* KeyedQueue for TLC: four sources compete for three slots.               *)
EXTENDS KeyedQueue

CONSTANTS k1, k2, k3, k4

MCKeys    == {k1, k2, k3, k4}
MCOffsets == 0 .. 1
=============================================================================
