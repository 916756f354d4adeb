---------------------------- MODULE PriorityLine ----------------------------
(***************************************************************************)
(* What the source work queue promises: a bounded waiting line in which    *)
(* each key stands at most once, sorted by urgency and first come first    *)
(* served within one urgency, and the keys that were served but have not   *)
(* come back yet.  KeyedQueue implements it with two maps and three lanes. *)
(***************************************************************************)
EXTENDS Integers, FiniteSets, SequencesExt

CONSTANTS Keys, Offsets, Capacity, None

VARIABLES
  line,  \* sequence of [key, work]
  out    \* the work of each served key, or None

Max2(a, b) == IF a >= b THEN a ELSE b

Merge(w, t, p) ==
  [target |-> Max2(w.target, t), priority |-> Max2(w.priority, p)]

Waiting == {line[i].key : i \in DOMAIN line}
Served  == {k \in Keys : out[k] # None}

(* The line with one more entry, behind everything as urgent as it is and  *)
(* before everything else: there is such a place as long as it is sorted.  *)
Enters(ln, k, w, after) ==
  \E n \in 1 .. Len(ln) + 1 :
    /\ \A i \in DOMAIN ln : i < n <=> ln[i].work.priority >= w.priority
    /\ after = InsertAt(ln, n, [key |-> k, work |-> w])

Init == line = <<>> /\ out = [k \in Keys |-> None]

(* A further signal for a waiting key: it keeps its place unless it        *)
(* became more urgent.                                                     *)
Urge(k, t, p) ==
  \E i \in DOMAIN line :
    LET w == Merge(line[i].work, t, p)
    IN  /\ line[i].key = k
        /\ IF w.priority = line[i].work.priority
             THEN line' = [line EXCEPT ![i].work = w]
             ELSE Enters(RemoveAt(line, i), k, w, line')
        /\ UNCHANGED out

UrgeServed(k, t, p) ==
  /\ out[k] # None
  /\ out' = [out EXCEPT ![k] = Merge(@, t, p)]
  /\ UNCHANGED line

Admit(k, t, p) ==
  /\ k \notin Waiting \cup Served
  /\ Len(line) + Cardinality(Served) < Capacity
  /\ Enters(line, k, [target |-> t, priority |-> p], line')
  /\ UNCHANGED out

(* The head of the line is served, and owes its slot until it comes back. *)
Serve ==
  /\ line # <<>>
  /\ out' = [out EXCEPT ![Head(line).key] = Head(line).work]
  /\ line' = Tail(line)

Discard == line # <<>> /\ line' = Tail(line) /\ UNCHANGED out

Return(k) ==
  /\ out[k] # None
  /\ Enters(line, k, out[k], line')
  /\ out' = [out EXCEPT ![k] = None]

Close(k) ==
  /\ out[k] # None
  /\ out' = [out EXCEPT ![k] = None]
  /\ UNCHANGED line

Next ==
  \/ \E k \in Keys, t \in Offsets, p \in 0 .. 2 :
       Urge(k, t, p) \/ UrgeServed(k, t, p) \/ Admit(k, t, p)
  \/ Serve
  \/ Discard
  \/ \E k \in Keys : Return(k) \/ Close(k)

Spec == Init /\ [][Next]_<<line, out>>
=============================================================================
