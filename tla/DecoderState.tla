---------------------------- MODULE DecoderState ----------------------------
(***************************************************************************)
(* What the two transcript decoders have in common: a parser state made of *)
(* bounded queues of entries with an id, and the work of one decode call.  *)
(***************************************************************************)
EXTENDS Integers, Sequences, FiniteSets, SequencesExt

CONSTANTS
  MaxEvents,   \* MAX_EVENTS_PER_RECORD
  StateBound,  \* MAX_DECODER_STATE_BYTES, in entries
  MaxLines,    \* bound: lines of the transcript
  None

Smaller(a, b) == IF a <= b THEN a ELSE b
Larger(a, b)  == IF a >= b THEN a ELSE b

Has(q, x)    == \E i \in DOMAIN q : q[i].id = x
Entry(q, x)  == q[CHOOSE i \in DOMAIN q : q[i].id = x]
Drop(q, x)   == SelectSeq(q, LAMBDA e : e.id # x)
Newest(q, n) == SubSeq(q, Larger(1, Len(q) - n + 1), Len(q))

(* The state and output a call has built so far, or the error that ends it. *)
Start(st, ord) ==
  [st |-> st, events |-> <<>>, ord |-> ord, starts |-> <<>>, ends |-> <<>>, error |-> None]

Fail(w, class) == IF w.error # None THEN w ELSE [w EXCEPT !.error = class]

Push(w, e) ==
  IF w.error # None THEN w
  ELSE IF Len(w.events) >= MaxEvents THEN Fail(w, "oversized")
  ELSE [w EXCEPT !.events = Append(@, e)]

(* LifecycleCandidates::finalize: agents' starts go in front and their     *)
(* finishes last, given only for what the final state still knows.         *)
Finalized(w, starts, ends) ==
  LET all == starts \o w.events \o ends
  IN  IF w.error # None THEN w
      ELSE IF Len(all) > MaxEvents THEN Fail(w, "oversized")
      ELSE [w EXCEPT !.events = all]

Ids(q, kind) == {q[i].id : i \in {j \in DOMAIN q : q[j].kind = kind}}
Ords(q)      == {q[i].ord : i \in DOMAIN q}
=============================================================================
