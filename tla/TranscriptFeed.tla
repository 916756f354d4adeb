--------------------------- MODULE TranscriptFeed ---------------------------
(***************************************************************************)
(* What ingestion promises to the readers of the store: each transcript    *)
(* arrives as a growing prefix of its pages, each once, and only pages of  *)
(* records that are complete.  Ingestion implements it.                    *)
(***************************************************************************)
EXTENDS Integers

CONSTANTS Sources, MaxRecords, MaxPages, Pages

VARIABLES
  file,  \* size of each transcript, two units per record
  fed    \* the pages delivered of each transcript

AllPages == {x \in (1 .. MaxRecords) \X (1 .. MaxPages) : x[2] <= Pages[x[1]]}

Earlier(x, y) == x[1] < y[1] \/ (x[1] = y[1] /\ x[2] <= y[2])

Prefixes == {p \in SUBSET AllPages :
               \A y \in p, x \in AllPages : Earlier(x, y) => x \in p}

Complete(s) == {x \in AllPages : 2 * x[1] <= file[s]}

Init ==
  /\ file = [s \in Sources |-> 0]
  /\ fed = [s \in Sources |-> {}]

Grow(s) ==
  /\ file' = [file EXCEPT ![s] = @ + 1]
  /\ UNCHANGED fed

Deliver(s) ==
  /\ \E p \in Prefixes :
       /\ fed[s] \subseteq p
       /\ p \subseteq Complete(s)
       /\ fed' = [fed EXCEPT ![s] = p]
  /\ UNCHANGED file

Next == \E s \in Sources : Grow(s) \/ Deliver(s)

Spec == Init /\ [][Next]_<<file, fed>>
=============================================================================
