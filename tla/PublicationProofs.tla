-------------------------- MODULE PublicationProofs -------------------------
(***************************************************************************)
(* Proofs about Publication for every set of projects and publishers and   *)
(* any bounds on events, pages, retries, corrections and forgetting: what  *)
(* concurrent publishers, corrections and the forgetting of projects leave *)
(* in the store hangs together.                                            *)
(***************************************************************************)
EXTENDS Publication, FiniteSetTheorems, SequenceTheorems, WellFoundedInduction, TLAPS

-----------------------------------------------------------------------------
(* The durable sequence and the watermarks. *)
TablesOK ==
  /\ events \in Seq(Events) /\ Len(events) <= MaxEvents
  /\ gone \subseteq 1 .. Len(events)
  /\ graph \in 0 .. Len(events)
  /\ vis \in [Projects -> 0 .. Len(events)]
  /\ VisibilityFollowsTheGraph
  /\ corrections \in 0 .. MaxCorrections /\ forgets \in 0 .. MaxForgets

(* Two graph batches never overlap, together they reach the watermark, and *)
(* what they reduced is in the graph unless it was forgotten.              *)
GraphOK ==
  /\ \A g \in graphBatch :
       /\ g \in [from : 0 .. graph, hi : 1 .. graph, facts : SUBSET (1 .. graph)]
       /\ \A n \in g.facts : g.from < n /\ n <= g.hi /\ events[n].fact
  /\ \A g, h \in graphBatch : g = h \/ g.hi <= h.from \/ h.hi <= g.from
  /\ \A n \in 1 .. graph : \E g \in graphBatch : g.from < n /\ n <= g.hi
  /\ graphFacts = Facts(1 .. graph) \ gone

OfProject(p, facts) == {n \in facts : events[n].project = p}

(* Facts handed to apply_work: those of one project in one graph batch. *)
Handed(p, facts) ==
  /\ p \in Projects /\ facts # {}
  /\ \E g \in graphBatch : facts = OfProject(p, g.facts)

(* A batch on its way to apply_work, or applied. *)
BatchOK(b) ==
  /\ Handed(b.project, b.facts)
  /\ b.through \in b.facts /\ \A n \in b.facts : n <= b.through
  /\ b.work \in Works /\ b.work[1] = b.project
  /\ b.contract.revision \in Nat \ {0}
  /\ b.contract.body \in Bodies(b.work)

(* An applied batch: its revision is stored, its facts are visible, and    *)
(* while it is the project's last one only corrections followed it.        *)
AppliedOK(b) ==
  /\ BatchOK(b)
  /\ Stored(b)
  /\ b.facts \cap gone = {}
  /\ b.through <= vis[b.project]
  /\ b.through = vis[b.project] =>
       \A i \in (b.contract.revision + 1) .. Len(contract[b.work]) : contract[b.work][i].last = {}

WorkOK ==
  /\ \A b \in workBatch : AppliedOK(b)
  /\ \A a, b \in workBatch : a.project = b.project /\ a.through = b.through => a = b

(* The revisions of a work item. *)
ContractOK(w) ==
  /\ contract[w] \in Seq(Bodies(w))
  /\ Len(contract[w]) <= vis[w[1]] + corrections
  /\ search[w] \in 0 .. Len(contract[w])
  /\ \A i \in DOMAIN contract[w] :
       /\ contract[w][i].material \cap gone = {}
       /\ \A n \in contract[w][i].material \cap Nat :
            n \in 1 .. Len(events) /\ events[n] = [project |-> w[1], fact |-> TRUE] /\ n <= vis[w[1]]
  /\ \A i \in 1 .. (Len(contract[w]) - 1) : contract[w][i].material \subseteq contract[w][i + 1].material
  /\ \A i \in (search[w] + 1) .. Len(contract[w]) : contract[w][i].last = {}

(* What the revision of a pending batch was built from is still there. *)
Continues(b) ==
  \/ Stored(b)
  \/ /\ b.contract.revision <= Len(contract[b.work]) + 1
     /\ b.contract.body.material =
          b.facts \cup (IF b.contract.revision = 1 THEN {}
                        ELSE contract[b.work][b.contract.revision - 1].material)

(* A pending batch, unless its project was forgotten meanwhile. *)
PendingOK(b) ==
  /\ BatchOK(b)
  /\ b.expected \in 0 .. vis[b.project]
  /\ b.facts \cap gone = {} =>
       /\ Continues(b)
       /\ vis[b.project] = b.expected =>
            \A i \in (b.contract.revision + 1) .. Len(contract[b.work]) : contract[b.work][i].last = {}

(* A page still to be reduced: what it leaves out was deleted. *)
PageOK(rows, from) ==
  /\ rows # {} /\ rows \subseteq 1 .. Len(events)
  /\ \A n \in rows : n > from
  /\ \A m \in rows : \A n \in 1 .. m : from < n => n \in rows \cup gone

(* A reduced page: its facts are those of one graph batch. *)
ReducedOK(rows, todo) ==
  /\ rows \subseteq 1 .. graph
  /\ \E g \in graphBatch : Facts(rows) = g.facts
  /\ todo # {} /\ todo \subseteq Projects
  /\ \A p \in todo : FactsOf(p, rows) # {}

PubOK(u) ==
  \/ pub[u] = Idle
  \/ pub[u].pc = "again" /\ pub[u].try \in 1 .. Tries
  \/ pub[u].pc = "mark" /\ pub[u].try \in 1 .. Tries /\ pub[u].from \in Nat
  \/ pub[u].pc = "page" /\ pub[u].try \in 1 .. Tries /\ pub[u].from \in Nat /\ PageOK(pub[u].rows, pub[u].from)
  \/ /\ pub[u].pc \in {"publish", "seen", "chosen", "built"}
     /\ ReducedOK(pub[u].rows, pub[u].todo)
     /\ pub[u].pc \in {"seen", "chosen"} =>
          /\ pub[u].project \in Projects
          /\ pub[u].facts = FactsOf(pub[u].project, pub[u].rows) /\ pub[u].facts # {}
          /\ pub[u].expected \in 0 .. vis[pub[u].project]
     /\ pub[u].pc = "chosen" => pub[u].work \in Works /\ pub[u].work[1] = pub[u].project
     /\ pub[u].pc = "built" => PendingOK(pub[u].batch)

IInv ==
  /\ TablesOK
  /\ DOMAIN contract = Works /\ DOMAIN search = Works /\ DOMAIN pub = Publishers
  /\ GraphOK
  /\ WorkOK
  /\ \A w \in Works : ContractOK(w)
  /\ \A u \in Publishers : PubOK(u)

-----------------------------------------------------------------------------
(* The choices Least and Greatest make: among the finite sets of elements  *)
(* up to (from) some element there is a smallest.                          *)
LEMMA LeastIsLeast ==
  ASSUME NEW S \in SUBSET Nat, S # {}
  PROVE  Least(S) \in S /\ \A m \in S : Least(S) <= m
<1> DEFINE Upto(y) == {x \in S : x <= y}
           F == {Upto(y) : y \in S}
<1>1. ASSUME NEW y \in S PROVE Upto(y) \in FiniteSubsetsOf(Nat)
  <2>1. y \in Nat /\ Upto(y) \in SUBSET Nat /\ \A s \in Upto(y) : s <= y
    OBVIOUS
  <2>2. IsFiniteSet(Upto(y))
    BY <2>1, FS_BoundedSetOfNaturals
  <2> QED BY <2>1, <2>2 DEF FiniteSubsetsOf
<1>2. F \subseteq FiniteSubsetsOf(Nat) /\ F # {}
  BY <1>1
<1>3. PICK T \in F : \A U \in F : <<U, T>> \notin StrictSubsetOrdering(Nat)
  BY <1>2, FS_StrictSubsetOrderingWellFounded, WFMin
<1>4. PICK y \in S : T = Upto(y)
  OBVIOUS
<1>5. ASSUME NEW m \in S, ~(y <= m) PROVE FALSE
  <2>0. m \in Nat /\ y \in Nat /\ m < y
    BY <1>5
  <2>1. Upto(m) \in F /\ Upto(m) \subseteq T /\ y \in T /\ y \notin Upto(m)
    <3>1. ASSUME NEW x \in S, x <= m PROVE x <= y
      BY <2>0, <3>1
    <3>2. Upto(m) \in F
      BY <1>5
    <3>3. y \in T /\ y \notin Upto(m)
      BY <1>4, <2>0
    <3> QED BY <1>4, <3>1, <3>2, <3>3
  <2>2. Upto(m) \in SUBSET Nat /\ T \in SUBSET Nat
    BY <1>4
  <2> QED BY <1>3, <2>1, <2>2 DEF StrictSubsetOrdering
<1> QED BY <1>5 DEF Least

(* The choice Greatest makes, for the events of a page.                    *)
LEMMA GreatestIsGreatest ==
  ASSUME NEW N \in Nat, NEW S \in SUBSET (1 .. N), S # {}
  PROVE  Greatest(S) \in S /\ \A m \in S : m <= Greatest(S)
<1> DEFINE T == {N - n : n \in S}
<1>1. T \in SUBSET Nat /\ T # {}
  <2>1. ASSUME NEW n \in S PROVE N - n \in Nat
    BY n \in 1 .. N
  <2> QED BY <2>1
<1>2. Least(T) \in T /\ \A m \in T : Least(T) <= m
  BY <1>1, LeastIsLeast
<1>3. PICK x \in S : Least(T) = N - x
  BY <1>2
<1>4. \A m \in S : N - x <= N - m
  BY <1>2, <1>3
<1>5. \A m \in S : m <= x
  BY <1>4
<1> QED BY <1>5 DEF Greatest

-----------------------------------------------------------------------------
(* How the store goes on: events stay what they are, watermarks and graph  *)
(* batches only grow; a work item keeps its revisions, and only            *)
(* corrections are added while its project's watermark stands still,       *)
(* unless every event its project had is deleted.                          *)
EventsGoOn ==
  /\ Len(events) <= Len(events') /\ events' \in Seq(Events)
  /\ \A n \in 1 .. Len(events) : events'[n] = events[n]
  /\ gone \subseteq gone'

GraphGoesOn == graph <= graph' /\ graphBatch \subseteq graphBatch'

VisGoesOn == \A p \in Projects : vis[p] <= vis'[p]

Kept(w) ==
  /\ Len(contract[w]) <= Len(contract'[w])
  /\ \A i \in 1 .. Len(contract[w]) : contract'[w][i] = contract[w][i]
  /\ vis'[w[1]] = vis[w[1]] =>
       \A i \in (Len(contract[w]) + 1) .. Len(contract'[w]) : contract'[w][i].last = {}

Wiped(p) == \A n \in 1 .. Len(events) : events[n].project = p => n \in gone'

Onward ==
  /\ EventsGoOn
  /\ GraphGoesOn
  /\ VisGoesOn
  /\ \A w \in Works : Kept(w) \/ Wiped(w[1])

(* The steps that change nothing in the store but what a publisher holds. *)
Moves(u) ==
  \/ ReadWatermark(u) \/ ReadEvents(u) \/ ReduceFails(u) \/ ReplayGraph(u) \/ RefuseGraph(u)
  \/ GraphConflict(u) \/ ReadVisibility(u) \/ Correlate(u) \/ ReadContract(u) \/ RefuseWork(u)
  \/ Fail(u)

(* Every step is one of these. *)
LEMMA Steps ==
  ASSUME [Next]_vars
  PROVE  \/ \E e \in Events : Ingest(e)
         \/ \E u \in Publishers : Moves(u) \/ ApplyGraph(u) \/ ApplyWork(u)
         \/ \E w \in Works : Correct(w)
         \/ \E p \in Projects : Forget(p)
         \/ UNCHANGED vars
BY DEF Next, PublisherStep, Moves

(* A publisher's steps other than ApplyGraph and ApplyWork change only     *)
(* itself.                                                                 *)
LEMMA MovesKeepStore ==
  ASSUME NEW u \in Publishers, Moves(u)
  PROVE  UNCHANGED store /\ UNCHANGED bounds
BY DEF Moves, ReadWatermark, ReadEvents, ReduceFails, ReplayGraph, RefuseGraph, GraphConflict,
       ReadVisibility, Correlate, ReadContract, RefuseWork, Fail

(* One more event. *)
LEMMA Ingested ==
  ASSUME TablesOK, NEW e \in Events, Ingest(e)
  PROVE  /\ EventsGoOn
         /\ Len(events') = Len(events) + 1 /\ Len(events) \in Nat
<1>1. /\ events \in Seq(Events) /\ events' = Append(events, e) /\ gone' = gone
      /\ Len(events) \in Nat
  BY DEF TablesOK, Ingest
<1>2. /\ Len(events') = Len(events) + 1 /\ events' \in Seq(Events)
      /\ \A n \in 1 .. Len(events) : events'[n] = events[n]
  BY <1>1, AppendProperties
<1> QED BY <1>1, <1>2 DEF EventsGoOn

(* The last event of a page, and what a graph batch moves. *)
LEMMA PageEnd ==
  ASSUME TablesOK, NEW rows, NEW from, PageOK(rows, from)
  PROVE  /\ Greatest(rows) \in rows /\ Greatest(rows) \in 1 .. Len(events)
         /\ Greatest(rows) > from /\ \A n \in rows : n <= Greatest(rows)
<1>1. Len(events) \in Nat
  BY DEF TablesOK
<1> QED BY <1>1, GreatestIsGreatest DEF PageOK

(* What ApplyGraph applies is a page that begins at the watermark.         *)
LEMMA AppliedGraph ==
  ASSUME IInv, NEW u \in Publishers, ApplyGraph(u)
  PROVE  /\ pub[u].pc = "page" /\ PageOK(pub[u].rows, graph) /\ pub[u].from = graph
         /\ graph' = Greatest(pub[u].rows) /\ graph' \in 1 .. Len(events) /\ graph < graph'
<1>1. /\ pub[u].pc = "page" /\ pub[u].from = graph /\ PubOK(u) /\ TablesOK
      /\ graph' = Greatest(pub[u].rows)
  BY DEF ApplyGraph, Reduced, GraphFresh, GraphApplied, IInv
<1>2. PageOK(pub[u].rows, graph)
  BY <1>1 DEF PubOK, Idle
<1> QED BY <1>1, <1>2, PageEnd DEF TablesOK

(* Facts that are handed on are facts of their project, behind the graph's *)
(* watermark.                                                              *)
LEMMA HandedFacts ==
  ASSUME TablesOK, GraphOK, NEW p, NEW F, Handed(p, F)
  PROVE  /\ F \subseteq 1 .. graph /\ F \subseteq 1 .. Len(events) /\ F \subseteq Nat
         /\ \A n \in F : events[n] = [project |-> p, fact |-> TRUE]
<1>1. PICK g \in graphBatch : F = OfProject(p, g.facts)
  BY DEF Handed
<1>2. g.facts \subseteq 1 .. graph /\ \A n \in g.facts : events[n].fact
  BY DEF GraphOK
<1>3. graph \in Nat /\ Len(events) \in Nat /\ graph <= Len(events)
  BY DEF TablesOK
<1>4. F \subseteq 1 .. graph /\ F \subseteq 1 .. Len(events) /\ F \subseteq Nat
  BY <1>1, <1>2, <1>3 DEF OfProject
<1>5. ASSUME NEW n \in F PROVE events[n] = [project |-> p, fact |-> TRUE]
  <2>1. events[n] \in Events
    BY <1>4 DEF TablesOK
  <2>2. events[n].project = p /\ events[n].fact /\ events[n].fact \in BOOLEAN
    BY <1>1, <1>2, <2>1 DEF OfProject, Events
  <2> QED BY <2>1, <2>2 DEF Events
<1> QED BY <1>4, <1>5

(* A batch that apply_work accepts: the very one it applied last, or one   *)
(* that moves the project's watermark.                                     *)
LEMMA AppliedWork ==
  ASSUME IInv, NEW u \in Publishers, ApplyWork(u), NEW b, b = pub[u].batch
  PROVE  /\ pub[u].pc = "built" /\ PendingOK(b) /\ BatchOK(b) /\ b.facts \cap gone = {}
         /\ Publish(b)
         /\ \/ b \in workBatch /\ b.through = vis[b.project] /\ Stored(b)
            \/ ~Audited(b) /\ vis[b.project] = b.expected /\ vis[b.project] < b.through
<1>1. /\ pub[u].pc = "built" /\ Accepted(b) /\ Publish(b)
  BY DEF ApplyWork
<1>2. PendingOK(b) /\ BatchOK(b)
  <2>1. PubOK(u)
    BY DEF IInv
  <2>2. PendingOK(pub[u].batch)
    BY <1>1, <2>1 DEF PubOK, Idle
  <2> QED BY <2>2 DEF PendingOK
<1>3. b.facts \cap gone = {} /\ b.through >= b.expected
  BY <1>1 DEF Accepted, StillThere
<1>4. CASE Replayed(b)
  <2>1. b \in workBatch /\ vis[b.project] = b.through
    BY <1>1, <1>4 DEF Accepted, Replayed
  <2>2. Stored(b)
    BY <2>1 DEF IInv, WorkOK, AppliedOK
  <2> QED BY <1>1, <1>2, <1>3, <2>1, <2>2
<1>5. CASE ~Replayed(b)
  <2>1. vis[b.project] = b.expected /\ ~Audited(b) /\ b.through # b.expected
    BY <1>1, <1>5 DEF Accepted, Replayed, Fresh
  <2>2. b.expected \in Nat /\ b.through \in Nat
    <3>1. b.project \in Projects /\ vis[b.project] \in Nat
      BY <1>2 DEF BatchOK, Handed, IInv, TablesOK
    <3>2. b.through \in Nat
      BY <1>2, HandedFacts DEF BatchOK, IInv
    <3> QED BY <2>1, <3>1, <3>2
  <2> QED BY <1>1, <1>2, <1>3, <2>1, <2>2
<1> QED BY <1>4, <1>5

(* Whatever step is taken, the tables only go on.                          *)
LEMMA StepsGoOn ==
  ASSUME IInv, [Next]_vars
  PROVE  Onward
<1>0. TablesOK /\ GraphOK /\ \A w \in Works : ContractOK(w)
  BY DEF IInv
<1>1. ASSUME events' = events, gone \subseteq gone' PROVE EventsGoOn
  BY <1>0, <1>1 DEF EventsGoOn, TablesOK
<1>2. ASSUME UNCHANGED <<graph, graphBatch>> PROVE GraphGoesOn
  BY <1>0, <1>2 DEF GraphGoesOn, TablesOK
<1>3. ASSUME UNCHANGED vis PROVE VisGoesOn
  BY <1>0, <1>3 DEF VisGoesOn, TablesOK
<1>4. ASSUME NEW w \in Works, contract'[w] = contract[w] PROVE Kept(w)
  BY <1>0, <1>4 DEF Kept, ContractOK
<1>5. ASSUME NEW w \in Works, NEW c, contract'[w] = Append(contract[w], c),
             vis'[w[1]] # vis[w[1]] \/ c.last = {}
      PROVE  Kept(w)
  <2>1. contract[w] \in Seq(Bodies(w))
    BY <1>0 DEF ContractOK
  <2>2. contract[w] \in Seq(Bodies(w) \cup {c})
    BY <2>1, SeqMonotonic
  <2>3. /\ Len(contract[w]) \in Nat /\ Len(contract'[w]) = Len(contract[w]) + 1
        /\ \A i \in 1 .. Len(contract[w]) : contract'[w][i] = contract[w][i]
        /\ contract'[w][Len(contract[w]) + 1] = c
    BY <1>5, <2>2, AppendProperties
  <2> QED BY <1>5, <2>3 DEF Kept
<1>6. ASSUME NEW e \in Events, Ingest(e) PROVE Onward
  <2>1. UNCHANGED <<graph, graphBatch, vis, contract>>
    BY <1>6 DEF Ingest, graphTables, workTables
  <2> QED BY <1>0, <1>2, <1>3, <1>4, <1>6, <2>1, Ingested DEF Onward
<1>7. ASSUME UNCHANGED store PROVE Onward
  <2>1. UNCHANGED <<events, gone, graph, graphBatch, vis, contract>>
    BY <1>7 DEF store, graphTables, workTables
  <2> QED BY <1>1, <1>2, <1>3, <1>4, <2>1 DEF Onward
<1>8. ASSUME NEW u \in Publishers, ApplyGraph(u) PROVE Onward
  <2>1. UNCHANGED <<events, gone, vis, contract>> /\ graphBatch \subseteq graphBatch'
    BY <1>8 DEF ApplyGraph, GraphApplied, workTables
  <2>2. graph < graph' /\ graph' \in Nat /\ graph \in Nat
    BY <1>0, <1>8, AppliedGraph DEF TablesOK
  <2> QED BY <1>1, <1>3, <1>4, <2>1, <2>2 DEF Onward, GraphGoesOn
<1>9. ASSUME NEW u \in Publishers, ApplyWork(u) PROVE Onward
  <2>1. UNCHANGED <<events, gone, graph, graphBatch>>
    BY <1>9 DEF ApplyWork, graphTables
  <2>2. PICK b : b = pub[u].batch
    OBVIOUS
  <2>3. /\ BatchOK(b) /\ Publish(b)
        /\ \/ b \in workBatch /\ b.through = vis[b.project] /\ Stored(b)
           \/ ~Audited(b) /\ vis[b.project] = b.expected /\ vis[b.project] < b.through
    BY <1>9, <2>2, AppliedWork
  <2>4. /\ b.project \in Projects /\ b.work \in Works /\ b.work[1] = b.project
        /\ vis' = [vis EXCEPT ![b.project] = b.through] /\ b.through \in Nat
    BY <1>0, <2>3, HandedFacts DEF BatchOK, Handed, Publish
  <2>5. VisGoesOn
    BY <1>0, <2>3, <2>4 DEF VisGoesOn, TablesOK
  <2>6. ASSUME NEW w \in Works PROVE Kept(w)
    <3>1. CASE contract'[w] = contract[w]
      BY <1>4, <3>1
    <3>2. CASE contract'[w] # contract[w]
      <4>1. ~Stored(b) /\ contract' = [contract EXCEPT ![b.work] = Append(@, b.contract.body)]
        BY <2>3, <3>2 DEF Publish
      <4>2. w = b.work /\ contract'[w] = Append(contract[w], b.contract.body)
        BY <3>2, <4>1
      <4>3. vis'[w[1]] # vis[w[1]]
        BY <1>0, <2>3, <2>4, <4>1, <4>2 DEF TablesOK
      <4> QED BY <1>5, <4>2, <4>3
    <3> QED BY <3>1, <3>2
  <2> QED BY <1>1, <1>2, <2>1, <2>5, <2>6 DEF Onward
<1>10. ASSUME NEW w \in Works, Correct(w) PROVE Onward
  <2>1. UNCHANGED <<events, gone, graph, graphBatch, vis>>
    BY <1>10 DEF Correct, graphTables
  <2>2. ASSUME NEW x \in Works PROVE Kept(x)
    <3>1. CASE contract'[x] = contract[x]
      BY <1>4, <3>1
    <3>2. CASE contract'[x] # contract[x]
      <4> DEFINE c == [material |-> LatestOf(contract[w]).material \cup {-(Len(contract[w]) + 1)},
                       last |-> {}]
      <4>1. contract' = [contract EXCEPT ![w] = Append(contract[w], c)]
        BY <1>10 DEF Correct
      <4>2. c.last = {}
        OBVIOUS
      <4> HIDE DEF c
      <4>3. x = w /\ contract'[x] = Append(contract[x], c)
        BY <3>2, <4>1
      <4> QED BY <1>5, <4>2, <4>3
    <3> QED BY <3>1, <3>2
  <2> QED BY <1>1, <1>2, <1>3, <2>1, <2>2 DEF Onward
<1>11. ASSUME NEW p \in Projects, Forget(p) PROVE Onward
  <2>1. UNCHANGED <<events, graph, graphBatch, vis>> /\ gone \subseteq gone' /\ Wiped(p)
    BY <1>11 DEF Forget, Wiped
  <2>2. ASSUME NEW w \in Works, w[1] # p PROVE contract'[w] = contract[w]
    BY <1>11, <2>2 DEF Forget
  <2> QED BY <1>1, <1>2, <1>3, <1>4, <2>1, <2>2 DEF Onward
<1> QED BY <1>6, <1>7, <1>8, <1>9, <1>10, <1>11, Steps, MovesKeepStore DEF vars

-----------------------------------------------------------------------------
(* What a store that goes on leaves as it was: the facts of a page, ...    *)
LEMMA FactsStay ==
  ASSUME TablesOK, Onward, NEW rows \in SUBSET (1 .. Len(events))
  PROVE  /\ \A n \in rows : events'[n] = events[n]
         /\ Facts(rows)' = Facts(rows)
         /\ \A p : FactsOf(p, rows)' = FactsOf(p, rows)
         /\ \A p : OfProject(p, rows)' = OfProject(p, rows)
<1>1. \A n \in rows : events'[n] = events[n]
  BY DEF Onward, EventsGoOn
<1> QED BY <1>1 DEF Facts, FactsOf, OfProject

(* ... a batch on its way, ... *)
LEMMA BatchStays ==
  ASSUME IInv, Onward, NEW b, BatchOK(b)
  PROVE  BatchOK(b)'
<1>0. TablesOK /\ GraphOK
  BY DEF IInv
<1>1. PICK g \in graphBatch : b.facts = OfProject(b.project, g.facts)
  BY DEF BatchOK, Handed
<1>2. g \in graphBatch'
  BY DEF Onward, GraphGoesOn
<1>3. g.facts \in SUBSET (1 .. Len(events))
  <2>1. g.facts \subseteq 1 .. graph
    BY <1>0 DEF GraphOK
  <2> QED BY <1>0, <2>1 DEF TablesOK
<1>4. OfProject(b.project, g.facts)' = OfProject(b.project, g.facts)
  BY <1>0, <1>3, FactsStay
<1> QED BY <1>1, <1>2, <1>4 DEF BatchOK, Handed, Bodies

(* ... and, unless its facts were deleted, the work item it is for. *)
LEMMA KeptUnlessForgotten ==
  ASSUME IInv, Onward, NEW b, BatchOK(b), b.facts \cap gone' = {}
  PROVE  Kept(b.work)
<1>1. TablesOK /\ GraphOK /\ b.work \in Works /\ b.work[1] = b.project
  BY DEF IInv, BatchOK
<1>2. PICK n \in b.facts : TRUE
  BY DEF BatchOK, Handed
<1>3. Handed(b.project, b.facts)
  BY DEF BatchOK
<1>4. n \in 1 .. Len(events) /\ events[n] = [project |-> b.project, fact |-> TRUE]
  BY <1>1, <1>3, HandedFacts
<1>5. ~Wiped(b.project)
  BY <1>2, <1>4 DEF Wiped
<1> QED BY <1>1, <1>5 DEF Onward

(* The same of a pending batch, ... *)
LEMMA PendingStays ==
  ASSUME IInv, Onward, NEW b, PendingOK(b), TablesOK', \A w \in Works : ContractOK(w)'
  PROVE  PendingOK(b)'
<1>0. /\ TablesOK /\ GraphOK /\ BatchOK(b) /\ ContractOK(b.work) /\ ContractOK(b.work)'
      /\ b.project \in Projects /\ b.work \in Works /\ b.work[1] = b.project
      /\ b.contract.revision \in Nat \ {0}
  BY DEF IInv, PendingOK, BatchOK, Handed
<1>1. BatchOK(b)'
  BY <1>0, BatchStays
<1>2. /\ vis[b.project] \in Nat /\ vis'[b.project] \in Nat /\ vis[b.project] <= vis'[b.project]
      /\ b.expected \in Nat /\ b.expected <= vis[b.project]
  BY <1>0 DEF TablesOK, Onward, VisGoesOn, PendingOK
<1>3. b.expected \in 0 .. vis'[b.project]
  BY <1>2
<1>4. ASSUME b.facts \cap gone' = {}
      PROVE  /\ Continues(b)'
             /\ vis'[b.project] = b.expected =>
                  \A i \in (b.contract.revision + 1) .. Len(contract'[b.work]) :
                    contract'[b.work][i].last = {}
  <2>1. b.facts \cap gone = {}
    BY <1>4 DEF Onward, EventsGoOn
  <2>2. Kept(b.work)
    BY <1>0, <1>4, KeptUnlessForgotten
  <2>3. /\ Len(contract[b.work]) \in Nat /\ Len(contract'[b.work]) \in Nat
        /\ Len(contract[b.work]) <= Len(contract'[b.work])
        /\ \A i \in 1 .. Len(contract[b.work]) : contract'[b.work][i] = contract[b.work][i]
    BY <1>0, <2>2 DEF ContractOK, Kept
  <2>4. Continues(b)'
    <3>1. CASE Stored(b)
      BY <1>0, <2>3, <3>1 DEF Stored, Continues
    <3>2. CASE ~Stored(b)
      <4>1. /\ b.contract.revision <= Len(contract[b.work]) + 1
            /\ b.contract.body.material =
                 b.facts \cup (IF b.contract.revision = 1 THEN {}
                               ELSE contract[b.work][b.contract.revision - 1].material)
        BY <2>1, <3>2 DEF Continues, PendingOK
      <4>2. b.contract.revision <= Len(contract'[b.work]) + 1
        BY <1>0, <2>3, <4>1
      <4>3. b.contract.revision # 1 =>
              contract'[b.work][b.contract.revision - 1] = contract[b.work][b.contract.revision - 1]
        <5>1. b.contract.revision # 1 => b.contract.revision - 1 \in 1 .. Len(contract[b.work])
          BY <1>0, <2>3, <4>1
        <5> QED BY <2>3, <5>1
      <4> QED BY <4>1, <4>2, <4>3 DEF Continues
    <3> QED BY <3>1, <3>2
  <2>5. ASSUME vis'[b.project] = b.expected,
               NEW i \in (b.contract.revision + 1) .. Len(contract'[b.work])
        PROVE  contract'[b.work][i].last = {}
    <3>1. vis[b.project] = b.expected /\ vis'[b.project] = vis[b.project]
      BY <1>2, <2>5
    <3>2. CASE i <= Len(contract[b.work])
      BY <1>0, <2>1, <2>3, <2>5, <3>1, <3>2 DEF PendingOK
    <3>3. CASE i > Len(contract[b.work])
      BY <1>0, <2>2, <2>3, <2>5, <3>1, <3>3 DEF Kept
    <3> QED BY <1>0, <2>3, <3>2, <3>3
  <2> QED BY <2>4, <2>5
<1> QED BY <1>1, <1>3, <1>4 DEF PendingOK

(* ... a page, and what a publisher holds that a step leaves alone. *)
LEMMA PageStays ==
  ASSUME TablesOK, Onward, NEW rows, NEW from, PageOK(rows, from)
  PROVE  PageOK(rows, from)'
<1>1. /\ Len(events) \in Nat /\ Len(events') \in Nat /\ Len(events) <= Len(events')
      /\ gone \subseteq gone'
  BY DEF TablesOK, Onward, EventsGoOn
<1> QED BY <1>1 DEF PageOK

(* A reduced page stays one of a graph batch.                              *)
LEMMA ReducedStays ==
  ASSUME TablesOK, Onward, NEW rows, NEW todo, ReducedOK(rows, todo), TablesOK'
  PROVE  ReducedOK(rows, todo)' /\ \A p : FactsOf(p, rows)' = FactsOf(p, rows)
<1>1. graph \in Nat /\ graph' \in Nat /\ graph <= graph' /\ graph <= Len(events)
      /\ Len(events) \in Nat /\ graphBatch \subseteq graphBatch'
  BY DEF TablesOK, Onward, GraphGoesOn
<1>2. rows \in SUBSET (1 .. Len(events)) /\ rows \subseteq 1 .. graph'
  BY <1>1 DEF ReducedOK
<1>3. Facts(rows)' = Facts(rows) /\ \A p : FactsOf(p, rows)' = FactsOf(p, rows)
  BY <1>2, FactsStay
<1> QED BY <1>1, <1>2, <1>3 DEF ReducedOK

(* What a publisher holds stays sound while it rests and the tables go on. *)
LEMMA PubStays ==
  ASSUME IInv, Onward, TablesOK', \A w \in Works : ContractOK(w)',
         NEW u \in Publishers, pub'[u] = pub[u]
  PROVE  PubOK(u)'
<1>0. TablesOK /\ PubOK(u)
  BY DEF IInv
<1>1. CASE pub[u] = Idle \/ pub[u].pc \in {"again", "mark"}
  BY <1>0, <1>1 DEF PubOK, Idle
<1>2. CASE pub[u].pc = "page"
  <2>1. PICK rows, from : rows = pub[u].rows /\ from = pub[u].from
    OBVIOUS
  <2>2. PageOK(rows, from)
    BY <1>0, <1>2, <2>1 DEF PubOK, Idle
  <2>3. PageOK(rows, from)'
    BY <1>0, <2>2, PageStays
  <2>4. PageOK(pub[u].rows, pub[u].from)'
    BY <2>1, <2>3 DEF PageOK
  <2> QED BY <1>0, <1>2, <2>4 DEF PubOK, Idle
<1>3. CASE pub[u].pc \in {"publish", "seen", "chosen", "built"}
  <2>1. PICK rows, todo : rows = pub[u].rows /\ todo = pub[u].todo
    OBVIOUS
  <2>2. ReducedOK(rows, todo)
    BY <1>0, <1>3, <2>1 DEF PubOK, Idle
  <2>3. ReducedOK(rows, todo)' /\ \A p : FactsOf(p, rows)' = FactsOf(p, rows)
    BY <1>0, <2>2, ReducedStays
  <2>4. ReducedOK(pub[u].rows, pub[u].todo)'
    BY <2>1, <2>3 DEF ReducedOK, Facts, FactsOf
  <2>5. pub[u].pc \in {"seen", "chosen"} =>
          /\ pub[u].project \in Projects
          /\ pub[u].facts = FactsOf(pub[u].project, pub[u].rows)' /\ pub[u].facts # {}
          /\ pub[u].expected \in 0 .. vis'[pub[u].project]
    <3> SUFFICES ASSUME pub[u].pc \in {"seen", "chosen"}
                 PROVE  /\ pub[u].project \in Projects
                        /\ pub[u].facts = FactsOf(pub[u].project, pub[u].rows)'
                        /\ pub[u].facts # {}
                        /\ pub[u].expected \in 0 .. vis'[pub[u].project]
      OBVIOUS
    <3>1. /\ pub[u].project \in Projects
          /\ pub[u].facts = FactsOf(pub[u].project, pub[u].rows) /\ pub[u].facts # {}
          /\ pub[u].expected \in 0 .. vis[pub[u].project]
      BY <1>0 DEF PubOK, Idle
    <3>2. PICK p \in Projects : p = pub[u].project
      BY <3>1
    <3>3. FactsOf(pub[u].project, pub[u].rows)' = FactsOf(p, rows)'
      BY <2>1, <3>2 DEF FactsOf, Facts
    <3>4. vis[p] \in Nat /\ vis'[p] \in Nat /\ vis[p] <= vis'[p]
      BY <1>0, <3>2 DEF TablesOK, Onward, VisGoesOn
    <3> QED BY <2>1, <2>3, <3>1, <3>2, <3>3, <3>4
  <2>6. pub[u].pc = "built" => PendingOK(pub[u].batch)'
    <3>1. PICK b : b = pub[u].batch
      OBVIOUS
    <3>2. pub[u].pc = "built" => PendingOK(b)
      BY <1>0, <3>1 DEF PubOK, Idle
    <3>3. pub[u].pc = "built" => PendingOK(b)'
      BY <3>2, PendingStays
    <3>4. pub[u].pc = "built" => BatchOK(pub[u].batch)'
      BY <3>1, <3>3 DEF PendingOK, BatchOK, Handed, OfProject, Bodies
    <3>5. pub[u].pc = "built" /\ pub[u].batch.facts \cap gone' = {} => Continues(pub[u].batch)'
      BY <3>1, <3>3 DEF PendingOK, Continues, Stored
    <3> QED BY <3>1, <3>3, <3>4, <3>5 DEF PendingOK
  <2> QED BY <1>0, <1>3, <2>4, <2>5, <2>6 DEF PubOK
<1> QED BY <1>0, <1>1, <1>2, <1>3 DEF PubOK

-----------------------------------------------------------------------------
(* Each part of the invariant, step by step. *)
LEMMA TablesStay ==
  ASSUME IInv, [Next]_vars
  PROVE  TablesOK'
<1> USE PublicationAssumption
<1>0. TablesOK /\ GraphOK /\ Onward
  BY StepsGoOn DEF IInv
<1>1. ASSUME UNCHANGED <<events, gone, graph, vis, corrections, forgets>> PROVE TablesOK'
  BY <1>0, <1>1 DEF TablesOK, VisibilityFollowsTheGraph
<1>2. ASSUME NEW e \in Events, Ingest(e) PROVE TablesOK'
  <2>1. UNCHANGED <<gone, graph, vis, corrections, forgets>> /\ Len(events) < MaxEvents
    BY <1>2 DEF Ingest, graphTables, workTables, bounds
  <2>2. /\ Len(events) \in Nat /\ Len(events') = Len(events) + 1 /\ events' \in Seq(Events)
        /\ \A n \in 1 .. Len(events) : events'[n] = events[n]
    BY <1>0, <1>2, Ingested DEF EventsGoOn
  <2>3. \A p \in Projects : vis[p] = 0 \/ vis[p] \in 1 .. Len(events)
    BY <1>0, <2>2 DEF TablesOK
  <2>4. VisibilityFollowsTheGraph'
    BY <1>0, <2>1, <2>2, <2>3 DEF TablesOK, VisibilityFollowsTheGraph
  <2> QED BY <1>0, <2>1, <2>2, <2>4 DEF TablesOK
<1>3. ASSUME NEW u \in Publishers, ApplyGraph(u) PROVE TablesOK'
  <2>1. UNCHANGED <<events, gone, vis, corrections, forgets>>
    BY <1>3 DEF ApplyGraph, GraphApplied, workTables, bounds
  <2>2. graph' \in 1 .. Len(events) /\ graph < graph'
    BY <1>3, AppliedGraph
  <2>3. \A p \in Projects : vis[p] \in Nat /\ graph \in Nat /\ Len(events) \in Nat
    BY <1>0 DEF TablesOK
  <2>4. VisibilityFollowsTheGraph'
    <3>1. \A p \in Projects : vis[p] <= graph => vis[p] <= graph'
      BY <2>2, <2>3
    <3> QED BY <1>0, <2>1, <3>1 DEF TablesOK, VisibilityFollowsTheGraph
  <2> QED BY <1>0, <2>1, <2>2, <2>4 DEF TablesOK
<1>4. ASSUME NEW u \in Publishers, ApplyWork(u) PROVE TablesOK'
  <2>1. UNCHANGED <<events, gone, graph, corrections, forgets>>
    BY <1>4 DEF ApplyWork, graphTables, bounds
  <2>2. PICK b : b = pub[u].batch
    OBVIOUS
  <2>3. BatchOK(b) /\ Publish(b)
    BY <1>4, <2>2, AppliedWork
  <2>4. b.project \in Projects /\ vis' = [vis EXCEPT ![b.project] = b.through]
    BY <2>3 DEF BatchOK, Handed, Publish
  <2>5. /\ b.through \in 1 .. graph /\ b.through \in 1 .. Len(events)
        /\ events[b.through] = [project |-> b.project, fact |-> TRUE]
    BY <1>0, <2>3, HandedFacts DEF BatchOK
  <2>6. vis' \in [Projects -> 0 .. Len(events)]
    BY <1>0, <2>4, <2>5 DEF TablesOK
  <2>7. ASSUME NEW p \in Projects
        PROVE  vis'[p] = 0 \/ (vis'[p] <= graph /\ events[vis'[p]] = [project |-> p, fact |-> TRUE])
    <3>1. CASE p = b.project
      BY <1>0, <2>4, <2>5, <3>1 DEF TablesOK
    <3>2. CASE p # b.project
      <4>1. vis'[p] = vis[p]
        BY <1>0, <2>4, <3>2 DEF TablesOK
      <4> QED BY <1>0, <4>1 DEF TablesOK, VisibilityFollowsTheGraph
    <3> QED BY <3>1, <3>2
  <2> QED BY <1>0, <2>1, <2>6, <2>7 DEF TablesOK, VisibilityFollowsTheGraph
<1>5. ASSUME NEW w \in Works, Correct(w) PROVE TablesOK'
  <2>1. UNCHANGED <<events, gone, graph, vis, forgets>> /\ corrections' \in 0 .. MaxCorrections
    BY <1>0, <1>5 DEF Correct, graphTables, TablesOK
  <2> QED BY <1>0, <2>1 DEF TablesOK, VisibilityFollowsTheGraph
<1>6. ASSUME NEW p \in Projects, Forget(p) PROVE TablesOK'
  <2>1. /\ UNCHANGED <<events, graph, vis, corrections>>
        /\ gone' \subseteq 1 .. Len(events) /\ forgets' \in 0 .. MaxForgets
    <3>1. /\ UNCHANGED <<events, graph, vis, corrections>>
          /\ gone' = gone \cup {n \in 1 .. Len(events) : events[n].project = p}
      BY <1>6 DEF Forget
    <3>2. forgets' \in 0 .. MaxForgets
      BY <1>0, <1>6 DEF Forget, TablesOK
    <3> QED BY <1>0, <3>1, <3>2 DEF TablesOK
  <2> QED BY <1>0, <2>1 DEF TablesOK, VisibilityFollowsTheGraph
<1>7. ASSUME NEW u \in Publishers, Moves(u) PROVE TablesOK'
  BY <1>1, <1>7, MovesKeepStore DEF store, graphTables, workTables, bounds
<1>8. CASE UNCHANGED vars
  BY <1>1, <1>8 DEF vars, store, graphTables, workTables, bounds
<1> QED BY <1>2, <1>3, <1>4, <1>5, <1>6, <1>7, <1>8, Steps

(* A contiguous page that starts behind the watermark and leaves out only  *)
(* what was deleted becomes the next tile.                                 *)
LEMMA ApplyGraphKeepsGraph ==
  ASSUME IInv, NEW u \in Publishers, ApplyGraph(u)
  PROVE  GraphOK'
<1> DEFINE rows == pub[u].rows
           new  == [from |-> graph, hi |-> graph', facts |-> Facts(rows)]
<1>0. TablesOK /\ GraphOK /\ graph \in Nat /\ Len(events) \in Nat
  BY DEF IInv, TablesOK
<1>1. /\ PageOK(rows, graph)
      /\ graph' = Greatest(rows) /\ graph' \in 1 .. Len(events) /\ graph < graph'
  BY AppliedGraph
<1>2. \A n \in rows : graph < n /\ n <= graph' /\ n \in Nat
  BY <1>0, <1>1, PageEnd DEF PageOK
<1>3. /\ graphBatch' = graphBatch \cup {new} /\ graphFacts' = graphFacts \cup Facts(rows)
      /\ UNCHANGED <<events, gone>> /\ Facts(rows) \cap gone = {}
  BY AppliedGraph DEF ApplyGraph, GraphApplied, GraphBatch, StillThere
<1>4. graph' \in rows
  BY <1>0, <1>1, PageEnd
<1> HIDE DEF rows
<1>5. ASSUME NEW g \in graphBatch'
      PROVE  /\ g \in [from : 0 .. graph', hi : 1 .. graph', facts : SUBSET (1 .. graph')]
             /\ \A n \in g.facts : g.from < n /\ n <= g.hi /\ events'[n].fact
  <2>1. CASE g \in graphBatch
    <3>1. g \in [from : 0 .. graph, hi : 1 .. graph, facts : SUBSET (1 .. graph)]
          /\ \A n \in g.facts : g.from < n /\ n <= g.hi /\ events[n].fact
      BY <1>0, <2>1 DEF GraphOK
    <3>2. 0 .. graph \subseteq 0 .. graph' /\ 1 .. graph \subseteq 1 .. graph'
      BY <1>0, <1>1
    <3> QED BY <1>3, <3>1, <3>2
  <2>2. CASE g = new
    <3>1. graph \in 0 .. graph' /\ graph' \in 1 .. graph' /\ Facts(rows) \in SUBSET (1 .. graph')
      BY <1>0, <1>1, <1>2 DEF Facts
    <3>2. \A n \in Facts(rows) : graph < n /\ n <= graph' /\ events[n].fact
      BY <1>2 DEF Facts
    <3> QED BY <1>3, <2>2, <3>1, <3>2
  <2> QED BY <1>3, <2>1, <2>2
<1>6. ASSUME NEW g \in graphBatch', NEW h \in graphBatch'
      PROVE  g = h \/ g.hi <= h.from \/ h.hi <= g.from
  <2>1. \A x \in graphBatch : x.hi <= new.from
    BY <1>0 DEF GraphOK
  <2> QED BY <1>0, <1>3, <2>1 DEF GraphOK
<1>7. ASSUME NEW n \in 1 .. graph' PROVE \E g \in graphBatch' : g.from < n /\ n <= g.hi
  <2>1. CASE n <= graph
    BY <1>0, <1>3, <2>1 DEF GraphOK
  <2>2. CASE graph < n
    <3>1. new \in graphBatch' /\ new.from < n /\ n <= new.hi
      BY <1>0, <1>1, <1>3, <2>2
    <3> QED BY <3>1
  <2> QED BY <1>0, <1>1, <2>1, <2>2
<1>8. graphFacts' = Facts(1 .. graph') \ gone
  <2>1. graphFacts = Facts(1 .. graph) \ gone
    BY <1>0 DEF GraphOK
  <2>2. ASSUME NEW n \in Facts(1 .. graph') \ gone PROVE n \in graphFacts \cup Facts(rows)
    <3>1. CASE n <= graph
      BY <1>0, <2>1, <2>2, <3>1 DEF Facts
    <3>2. CASE graph < n
      BY <1>1, <1>4, <2>2, <3>2 DEF PageOK, Facts
    <3> QED BY <1>0, <2>2, <3>1, <3>2 DEF Facts
  <2>3. ASSUME NEW n \in graphFacts \cup Facts(rows) PROVE n \in Facts(1 .. graph') \ gone
    <3>1. CASE n \in graphFacts
      BY <1>0, <1>1, <2>1, <3>1 DEF Facts
    <3>2. CASE n \in Facts(rows)
      <4>1. n \in 1 .. graph' /\ n \notin gone
        BY <1>0, <1>2, <1>3, <3>2 DEF Facts
      <4> QED BY <3>2, <4>1 DEF Facts
    <3> QED BY <2>3, <3>1, <3>2
  <2> QED BY <1>3, <2>2, <2>3
<1>9. Facts(1 .. graph)' = Facts(1 .. graph')
  BY <1>3 DEF Facts
<1> QED BY <1>3, <1>5, <1>6, <1>7, <1>8, <1>9 DEF GraphOK

(* The batches of the graph stay disjoint and without a gap.               *)
LEMMA GraphStays ==
  ASSUME IInv, [Next]_vars
  PROVE  GraphOK'
<1>0. TablesOK /\ GraphOK /\ graph \in Nat /\ Len(events) \in Nat /\ graph <= Len(events)
  BY DEF IInv, TablesOK
<1>1. ASSUME UNCHANGED <<events, gone, graph, graphBatch, graphFacts>> PROVE GraphOK'
  BY <1>0, <1>1 DEF GraphOK, Facts
<1>2. ASSUME NEW e \in Events, Ingest(e) PROVE GraphOK'
  <2>1. UNCHANGED <<gone, graph, graphBatch, graphFacts>>
    BY <1>2 DEF Ingest, graphTables
  <2>2. \A n \in 1 .. graph : events'[n] = events[n]
    BY <1>0, <1>2, Ingested DEF EventsGoOn
  <2>3. Facts(1 .. graph)' = Facts(1 .. graph)
    BY <2>1, <2>2 DEF Facts
  <2>4. ASSUME NEW g \in graphBatch, NEW n \in g.facts PROVE events'[n].fact = events[n].fact
    BY <1>0, <2>2 DEF GraphOK
  <2> QED BY <1>0, <2>1, <2>3, <2>4 DEF GraphOK
<1>3. ASSUME NEW u \in Publishers, ApplyWork(u) PROVE GraphOK'
  BY <1>1, <1>3 DEF ApplyWork, graphTables
<1>4. ASSUME NEW w \in Works, Correct(w) PROVE GraphOK'
  BY <1>1, <1>4 DEF Correct, graphTables
<1>5. ASSUME NEW p \in Projects, Forget(p) PROVE GraphOK'
  <2> DEFINE mine == {n \in 1 .. Len(events) : events[n].project = p}
  <2>1. /\ UNCHANGED <<events, graph, graphBatch>>
        /\ gone' = gone \cup mine /\ graphFacts' = graphFacts \ mine
    BY <1>5 DEF Forget
  <2> HIDE DEF mine
  <2>2. graphFacts' = Facts(1 .. graph) \ gone'
    BY <1>0, <2>1 DEF GraphOK
  <2>3. Facts(1 .. graph)' = Facts(1 .. graph)
    BY <2>1 DEF Facts
  <2> QED BY <1>0, <2>1, <2>2, <2>3 DEF GraphOK
<1>6. ASSUME NEW u \in Publishers, Moves(u) PROVE GraphOK'
  BY <1>1, <1>6, MovesKeepStore DEF store, graphTables
<1>7. CASE UNCHANGED vars
  BY <1>1, <1>7 DEF vars, store, graphTables
<1> QED BY <1>2, <1>3, <1>4, <1>5, <1>6, <1>7, Steps, ApplyGraphKeepsGraph

-----------------------------------------------------------------------------
(* A work item whose revisions a step leaves alone. *)
LEMMA ContractStays ==
  ASSUME IInv, Onward, TablesOK', NEW w \in Works,
         contract'[w] = contract[w], search'[w] \in 0 .. Len(contract[w]),
         \A i \in (search'[w] + 1) .. Len(contract[w]) : contract[w][i].last = {},
         corrections <= corrections',
         \A i \in DOMAIN contract[w] : contract[w][i].material \cap gone' = {}
  PROVE  ContractOK(w)'
<1>0. TablesOK /\ ContractOK(w) /\ w[1] \in Projects
  BY DEF IInv, Works
<1>1. /\ vis[w[1]] \in Nat /\ vis'[w[1]] \in Nat /\ vis[w[1]] <= vis'[w[1]]
      /\ corrections \in Nat /\ corrections' \in Nat /\ Len(contract[w]) \in Nat
      /\ Len(contract[w]) <= vis[w[1]] + corrections
  <2>1. vis[w[1]] \in Nat /\ vis'[w[1]] \in Nat /\ vis[w[1]] <= vis'[w[1]]
    BY <1>0 DEF TablesOK, Onward, VisGoesOn
  <2>2. corrections \in Nat /\ corrections' \in Nat
    BY <1>0, PublicationAssumption DEF TablesOK
  <2>3. Len(contract[w]) \in Nat /\ Len(contract[w]) <= vis[w[1]] + corrections
    BY <1>0 DEF ContractOK
  <2> QED BY <2>1, <2>2, <2>3
<1>2. Len(contract[w]) <= vis'[w[1]] + corrections'
  BY <1>1
<1>3. /\ Len(events) \in Nat /\ Len(events') \in Nat /\ Len(events) <= Len(events')
      /\ \A n \in 1 .. Len(events) : events'[n] = events[n]
  BY <1>0 DEF TablesOK, Onward, EventsGoOn
<1>4. ASSUME NEW i \in DOMAIN contract[w], NEW n \in contract[w][i].material \cap Nat
      PROVE  /\ n \in 1 .. Len(events') /\ events'[n] = [project |-> w[1], fact |-> TRUE]
             /\ n <= vis'[w[1]]
  <2>1. /\ n \in 1 .. Len(events) /\ events[n] = [project |-> w[1], fact |-> TRUE]
        /\ n <= vis[w[1]]
    BY <1>0, <1>4 DEF ContractOK
  <2> QED BY <1>1, <1>3, <2>1
<1>5. contract'[w] \in Seq(Bodies(w))
  BY <1>0 DEF ContractOK
<1> QED BY <1>0, <1>2, <1>4, <1>5 DEF ContractOK, Bodies

(* A work item that a revision is added to. *)
LEMMA ContractGrows ==
  ASSUME IInv, Onward, TablesOK', NEW w \in Works, NEW c \in Bodies(w),
         contract'[w] = Append(contract[w], c),
         search'[w] = Len(contract[w]) + 1,
         Len(contract[w]) + 1 <= vis'[w[1]] + corrections',
         UNCHANGED <<events, gone>>,
         LatestOf(contract[w]).material \subseteq c.material,
         \A n \in c.material \ LatestOf(contract[w]).material :
           n \in Nat => n \in 1 .. Len(events) /\ n \notin gone /\ n <= vis'[w[1]]
                          /\ events[n] = [project |-> w[1], fact |-> TRUE]
  PROVE  ContractOK(w)'
<1> DEFINE K == Len(contract[w])
<1>0. TablesOK /\ ContractOK(w) /\ w[1] \in Projects
  BY DEF IInv, Works
<1>1. contract[w] \in Seq(Bodies(w)) /\ K \in Nat
  BY <1>0 DEF ContractOK
<1>2. /\ contract'[w] \in Seq(Bodies(w)) /\ Len(contract'[w]) = K + 1
      /\ \A i \in 1 .. K : contract'[w][i] = contract[w][i]
      /\ contract'[w][K + 1] = c
      /\ DOMAIN contract'[w] = 1 .. K + 1 /\ DOMAIN contract[w] = 1 .. K
  BY <1>1, AppendProperties, LenProperties
<1>3. LatestOf(contract[w]).material =
        IF K = 0 THEN {} ELSE contract[w][K].material
  BY <1>1, EmptySeq DEF LatestOf, NoContract
<1>4. vis[w[1]] \in Nat /\ vis'[w[1]] \in Nat /\ vis[w[1]] <= vis'[w[1]]
      /\ gone \subseteq Nat \ {0}
  BY <1>0 DEF TablesOK, Onward, VisGoesOn
<1>5. ASSUME NEW i \in 1 .. K
      PROVE  /\ contract[w][i].material \cap gone = {}
             /\ \A n \in contract[w][i].material \cap Nat :
                  n \in 1 .. Len(events) /\ events[n] = [project |-> w[1], fact |-> TRUE]
                    /\ n <= vis'[w[1]]
  <2>1. /\ contract[w][i].material \cap gone = {}
        /\ \A n \in contract[w][i].material \cap Nat :
             n \in 1 .. Len(events) /\ events[n] = [project |-> w[1], fact |-> TRUE]
               /\ n <= vis[w[1]]
    BY <1>0, <1>2 DEF ContractOK
  <2>2. \A n \in 1 .. Len(events) : n <= vis[w[1]] => n <= vis'[w[1]]
    BY <1>0, <1>4 DEF TablesOK
  <2> QED BY <2>1, <2>2
<1>6. /\ c.material \cap gone = {}
      /\ \A n \in c.material \cap Nat :
           n \in 1 .. Len(events) /\ events[n] = [project |-> w[1], fact |-> TRUE]
             /\ n <= vis'[w[1]]
  <2>1. ASSUME NEW n \in c.material \cap Nat
        PROVE  /\ n \in 1 .. Len(events) /\ events[n] = [project |-> w[1], fact |-> TRUE]
               /\ n <= vis'[w[1]] /\ n \notin gone
    <3>1. CASE n \in LatestOf(contract[w]).material
      <4>1. K # 0 /\ n \in contract[w][K].material /\ K \in 1 .. K
        BY <1>1, <1>3, <3>1
      <4> QED BY <1>5, <4>1, <2>1
    <3>2. CASE n \notin LatestOf(contract[w]).material
      BY <2>1, <3>2
    <3> QED BY <3>1, <3>2
  <2> QED BY <1>4, <2>1
<1>7. ASSUME NEW i \in 1 .. K
      PROVE  contract'[w][i].material \subseteq contract'[w][i + 1].material
  <2>1. CASE i = K
    BY <1>2, <1>3, <2>1
  <2>2. CASE i # K
    <3>1. i \in 1 .. (K - 1) /\ i + 1 \in 1 .. K
      BY <1>1, <2>2
    <3> QED BY <1>0, <1>2, <3>1 DEF ContractOK
  <2> QED BY <2>1, <2>2
<1>8. ASSUME NEW i \in DOMAIN contract'[w]
      PROVE  /\ contract'[w][i].material \cap gone' = {}
             /\ \A n \in contract'[w][i].material \cap Nat :
                  n \in 1 .. Len(events') /\ events'[n] = [project |-> w[1], fact |-> TRUE]
                    /\ n <= vis'[w[1]]
  <2>1. i \in 1 .. K \/ i = K + 1
    BY <1>1, <1>2
  <2> QED BY <1>2, <1>5, <1>6, <2>1
<1>9. search'[w] \in 0 .. Len(contract'[w]) /\ (search'[w] + 1) .. Len(contract'[w]) = {}
  BY <1>1, <1>2
<1>10. \A i \in 1 .. (Len(contract'[w]) - 1) :
         contract'[w][i].material \subseteq contract'[w][i + 1].material
  <2>1. Len(contract'[w]) - 1 = K
    BY <1>1, <1>2
  <2> QED BY <1>7, <2>1
<1>11. Len(contract'[w]) <= vis'[w[1]] + corrections'
  BY <1>2
<1> QED BY <1>2, <1>8, <1>9, <1>10, <1>11 DEF ContractOK, Bodies

(* The work item that apply_work was told of.  The contract is its next    *)
(* revision only if nobody added one since it was read.                    *)
LEMMA ApplyKeepsContract ==
  ASSUME IInv, [Next]_vars, TablesOK', NEW u \in Publishers, ApplyWork(u),
         NEW b, b = pub[u].batch
  PROVE  ContractOK(b.work)'
<1> DEFINE w == b.work
           c == b.contract.body
           r == b.contract.revision
<1>0. /\ PendingOK(b) /\ BatchOK(b) /\ b.facts \cap gone = {} /\ Publish(b)
      /\ \/ b \in workBatch /\ b.through = vis[b.project] /\ Stored(b)
         \/ ~Audited(b) /\ vis[b.project] = b.expected /\ vis[b.project] < b.through
  BY AppliedWork
<1>1. /\ w \in Works /\ w[1] = b.project /\ b.project \in Projects /\ r \in Nat \ {0}
      /\ c \in Bodies(w) /\ Handed(b.project, b.facts)
      /\ b.through \in b.facts /\ \A n \in b.facts : n <= b.through
  BY <1>0 DEF BatchOK, Handed
<1>2. /\ TablesOK /\ GraphOK /\ ContractOK(w) /\ Onward
      /\ UNCHANGED <<events, gone, corrections>>
  BY <1>1, StepsGoOn DEF IInv, ApplyWork, bounds
<1>3. /\ Len(contract[w]) \in Nat /\ DOMAIN contract[w] = 1 .. Len(contract[w])
      /\ contract[w] \in Seq(Bodies(w))
      /\ Len(contract[w]) <= vis[b.project] + corrections
  BY <1>1, <1>2, LenProperties DEF ContractOK
<1>4. /\ vis'[b.project] = b.through /\ vis[b.project] \in Nat /\ b.through \in Nat
      /\ corrections \in Nat
  <2>1. b.through \in Nat
    BY <1>1, <1>2, HandedFacts
  <2>2. vis'[b.project] = b.through /\ vis[b.project] \in Nat
    BY <1>0, <1>1, <1>2 DEF Publish, TablesOK
  <2>3. corrections \in Nat
    BY <1>2, PublicationAssumption DEF TablesOK
  <2> QED BY <2>1, <2>2, <2>3
<1>5. search'[w] = r
  BY <1>0, <1>1 DEF Publish, IInv
<1>6. CASE Stored(b)
  <2>1. contract'[w] = contract[w] /\ r \in 1 .. Len(contract[w])
    BY <1>0, <1>1, <1>3, <1>6 DEF Publish, Stored
  <2>2. \A i \in (r + 1) .. Len(contract[w]) : contract[w][i].last = {}
    <3>1. CASE b \in workBatch /\ b.through = vis[b.project]
      BY <1>2, <3>1 DEF IInv, WorkOK, AppliedOK
    <3>2. CASE vis[b.project] = b.expected
      BY <1>0, <3>2 DEF PendingOK
    <3> QED BY <1>0, <3>1, <3>2
  <2>3. \A i \in DOMAIN contract[w] : contract[w][i].material \cap gone' = {}
    BY <1>2 DEF ContractOK
  <2>4. corrections <= corrections' /\ search'[w] \in 0 .. Len(contract[w])
    BY <1>2, <1>4, <1>5, <2>1
  <2> HIDE DEF w, c, r
  <2>5. \A i \in (search'[w] + 1) .. Len(contract[w]) : contract[w][i].last = {}
    BY <1>5, <2>2
  <2>6. ContractOK(w)'
    BY <1>1, <1>2, <2>1, <2>3, <2>4, <2>5, ContractStays
  <2> QED BY <2>6 DEF w
<1>7. CASE ~Stored(b)
  <2>1. /\ r = Len(contract[w]) + 1
        /\ contract' = [contract EXCEPT ![w] = Append(contract[w], c)]
        /\ vis[b.project] < b.through
    BY <1>0, <1>7 DEF Publish, NextRevision
  <2>2. c.material = b.facts \cup LatestOf(contract[w]).material
    <3>1. c.material = b.facts \cup (IF r = 1 THEN {} ELSE contract[w][r - 1].material)
      BY <1>0, <1>7 DEF PendingOK, Continues
    <3>2. r = 1 <=> contract[w] = <<>>
      BY <1>3, <2>1, EmptySeq
    <3>3. r - 1 = Len(contract[w])
      BY <1>3, <2>1
    <3> QED BY <3>1, <3>2, <3>3 DEF LatestOf, NoContract
  <2>3. /\ b.facts \subseteq 1 .. Len(events)
        /\ \A n \in b.facts : events[n] = [project |-> b.project, fact |-> TRUE]
    BY <1>1, <1>2, HandedFacts
  <2>4. Len(contract[w]) + 1 <= vis'[w[1]] + corrections'
    BY <1>1, <1>2, <1>3, <1>4, <2>1
  <2>5. \A n \in c.material \ LatestOf(contract[w]).material :
           n \in 1 .. Len(events) /\ n \notin gone /\ n <= vis'[w[1]]
             /\ events[n] = [project |-> w[1], fact |-> TRUE]
    BY <1>0, <1>1, <1>4, <2>2, <2>3
  <2>6. contract'[w] = Append(contract[w], c) /\ search'[w] = Len(contract[w]) + 1
    BY <1>1, <1>5, <2>1 DEF IInv
  <2>7. LatestOf(contract[w]).material \subseteq c.material
    BY <2>2
  <2> HIDE DEF w, c, r
  <2>8. ContractOK(w)'
    BY <1>1, <1>2, <2>4, <2>5, <2>6, <2>7, ContractGrows
  <2> QED BY <2>8 DEF w
<1> QED BY <1>6, <1>7

(* A correction is the revision after the latest. *)
LEMMA CorrectKeepsContract ==
  ASSUME IInv, [Next]_vars, TablesOK', NEW w \in Works, Correct(w)
  PROVE  ContractOK(w)'
<1> DEFINE m == Len(contract[w]) + 1
           c == [material |-> LatestOf(contract[w]).material \cup {-m}, last |-> {}]
<1>1. /\ contract' = [contract EXCEPT ![w] = Append(contract[w], c)]
      /\ search' = [search EXCEPT ![w] = m]
      /\ corrections' = corrections + 1 /\ corrections < MaxCorrections
      /\ UNCHANGED <<events, gone, vis>> /\ contract[w] # <<>>
  BY DEF Correct
<1>2. TablesOK /\ ContractOK(w) /\ w[1] \in Projects /\ Onward
  BY StepsGoOn DEF IInv, Works
<1>3. /\ Len(contract[w]) \in Nat \ {0} /\ contract[w] \in Seq(Bodies(w))
      /\ Len(contract[w]) <= vis[w[1]] + corrections
  BY <1>1, <1>2, EmptySeq DEF ContractOK
<1>4. /\ vis[w[1]] \in Nat /\ vis[w[1]] <= MaxEvents /\ corrections \in Nat
      /\ MaxEvents \in Nat /\ MaxCorrections \in Nat
  <2>1. Len(events) \in Nat /\ Len(events) <= MaxEvents /\ vis[w[1]] \in 0 .. Len(events)
    BY <1>2 DEF TablesOK
  <2>2. corrections \in Nat
    BY <1>2, PublicationAssumption DEF TablesOK
  <2> QED BY <2>1, <2>2, PublicationAssumption
<1>5. m \in 1 .. MaxEvents + MaxCorrections /\ m <= vis[w[1]] + corrections + 1 /\ -m \notin Nat
  BY <1>1, <1>3, <1>4
<1>6. LatestOf(contract[w]) \in Bodies(w)
  BY <1>1, <1>3, ElementOfSeq DEF LatestOf
<1>7. c \in Bodies(w)
  BY <1>5, <1>6 DEF Bodies
<1>8. contract'[w] = Append(contract[w], c) /\ search'[w] = Len(contract[w]) + 1
  BY <1>1 DEF IInv
<1>9. /\ LatestOf(contract[w]).material \subseteq c.material
      /\ \A n \in c.material \ LatestOf(contract[w]).material : n \notin Nat
  BY <1>5
<1>10. Len(contract[w]) + 1 <= vis'[w[1]] + corrections'
  BY <1>1, <1>3, <1>4, <1>5
<1> HIDE DEF c, m
<1> QED BY <1>1, <1>2, <1>7, <1>8, <1>9, <1>10, ContractGrows

(* Every step keeps the domains of the tables.                             *)
LEMMA DomainsStay ==
  ASSUME IInv, [Next]_vars
  PROVE  DOMAIN contract' = Works /\ DOMAIN search' = Works /\ DOMAIN pub' = Publishers
<1> DEFINE Domains == DOMAIN contract' = Works /\ DOMAIN search' = Works /\ DOMAIN pub' = Publishers
<1>0. DOMAIN contract = Works /\ DOMAIN search = Works /\ DOMAIN pub = Publishers
  BY DEF IInv
<1>1. ASSUME NEW u \in Publishers, ApplyWork(u) PROVE Domains
  BY <1>0, <1>1 DEF ApplyWork, Publish, ProjectDone
<1>2. ASSUME NEW w \in Works, Correct(w) PROVE Domains
  BY <1>0, <1>2 DEF Correct
<1>3. ASSUME NEW p \in Projects, Forget(p) PROVE Domains
  BY <1>0, <1>3 DEF Forget
<1>4. ASSUME UNCHANGED <<contract, search>>, DOMAIN pub' = Publishers PROVE Domains
  BY <1>0, <1>4
<1>5. ASSUME NEW e \in Events, Ingest(e) PROVE Domains
  BY <1>0, <1>4, <1>5 DEF Ingest, workTables
<1>6. ASSUME NEW u \in Publishers, ApplyGraph(u) PROVE Domains
  BY <1>0, <1>4, <1>6 DEF ApplyGraph, GraphApplied, workTables
<1>7. ASSUME NEW u \in Publishers, Moves(u) PROVE Domains
  <2>1. UNCHANGED <<contract, search>>
    BY <1>7, MovesKeepStore DEF store, workTables
  <2>2. DOMAIN pub' = DOMAIN pub
    BY <1>7 DEF Moves, ReadWatermark, ReadEvents, ReduceFails, ReplayGraph, RefuseGraph,
                GraphConflict, ReadVisibility, Correlate, ReadContract, RefuseWork, Fail
  <2> QED BY <1>0, <1>4, <2>1, <2>2
<1>8. ASSUME UNCHANGED vars PROVE Domains
  BY <1>0, <1>8 DEF vars, store, workTables
<1> QED BY <1>1, <1>2, <1>3, <1>5, <1>6, <1>7, <1>8, Steps

(* The revisions of each work item stay sound.                             *)
LEMMA ContractsStay ==
  ASSUME IInv, [Next]_vars, NEW w \in Works
  PROVE  ContractOK(w)'
<1>0. /\ TablesOK /\ TablesOK' /\ Onward /\ ContractOK(w)
      /\ DOMAIN contract = Works /\ DOMAIN search = Works /\ w[1] \in Projects
  BY StepsGoOn, TablesStay DEF IInv, Works
<1>1. ASSUME contract'[w] = contract[w], search'[w] = search[w], gone' = gone,
             corrections <= corrections'
      PROVE  ContractOK(w)'
  BY <1>0, <1>1, ContractStays DEF ContractOK
<1>2. corrections <= corrections
  BY <1>0, PublicationAssumption DEF TablesOK
<1>3. ASSUME UNCHANGED <<contract, search, gone, corrections>> PROVE ContractOK(w)'
  BY <1>1, <1>2, <1>3
<1>4. ASSUME NEW e \in Events, Ingest(e) PROVE ContractOK(w)'
  BY <1>3, <1>4 DEF Ingest, workTables, bounds
<1>5. ASSUME NEW u \in Publishers, ApplyGraph(u) PROVE ContractOK(w)'
  BY <1>3, <1>5 DEF ApplyGraph, GraphApplied, workTables, bounds
<1>6. ASSUME UNCHANGED store, UNCHANGED bounds PROVE ContractOK(w)'
  BY <1>3, <1>6 DEF store, workTables, bounds
<1>7. ASSUME NEW u \in Publishers, ApplyWork(u) PROVE ContractOK(w)'
  <2>1. PICK b : b = pub[u].batch
    OBVIOUS
  <2>2. ContractOK(b.work)'
    BY <1>0, <1>7, <2>1, ApplyKeepsContract
  <2>3. CASE w = b.work
    BY <2>2, <2>3
  <2>4. CASE w # b.work
    <3>1. Publish(b) /\ UNCHANGED <<gone, corrections>>
      BY <1>7, <2>1, AppliedWork DEF ApplyWork, bounds
    <3>2. contract'[w] = contract[w] /\ search'[w] = search[w]
      BY <1>0, <2>4, <3>1 DEF Publish
    <3> QED BY <1>1, <1>2, <3>1, <3>2
  <2> QED BY <2>3, <2>4
<1>8. ASSUME NEW x \in Works, Correct(x) PROVE ContractOK(w)'
  <2>1. CASE w = x
    BY <1>0, <1>8, <2>1, CorrectKeepsContract
  <2>2. CASE w # x
    <3>1. /\ contract'[w] = contract[w] /\ search'[w] = search[w] /\ gone' = gone
          /\ corrections' = corrections + 1
      BY <1>0, <1>8, <2>2 DEF Correct
    <3>2. corrections <= corrections'
      BY <1>0, <3>1, PublicationAssumption DEF TablesOK
    <3> QED BY <1>1, <3>1, <3>2
  <2> QED BY <2>1, <2>2
<1>9. ASSUME NEW p \in Projects, Forget(p) PROVE ContractOK(w)'
  <2>1. /\ gone' = gone \cup {n \in 1 .. Len(events) : events[n].project = p}
        /\ UNCHANGED <<events, vis, corrections>>
        /\ contract'[w] = IF w[1] = p THEN <<>> ELSE contract[w]
        /\ search'[w] = IF w[1] = p THEN 0 ELSE search[w]
    BY <1>9 DEF Forget
  <2>2. CASE w[1] = p
    <3>1. Len(<<>>) = 0 /\ <<>> \in Seq(Bodies(w)) /\ DOMAIN <<>> = {}
      BY EmptySeq
    <3>2. vis[w[1]] \in Nat /\ corrections \in Nat
      <4>1. vis[w[1]] \in 0 .. Len(events) /\ Len(events) \in Nat
        BY <1>0 DEF TablesOK
      <4>2. corrections \in Nat
        BY <1>0, PublicationAssumption DEF TablesOK
      <4> QED BY <4>1, <4>2
    <3>3. 0 <= vis'[w[1]] + corrections'
      BY <2>1, <3>2
    <3>4. contract'[w] = <<>> /\ search'[w] = 0
      BY <2>1, <2>2
    <3> QED BY <3>1, <3>3, <3>4 DEF ContractOK
  <2>3. CASE w[1] # p
    <3>1. ASSUME NEW i \in DOMAIN contract[w], NEW n \in contract[w][i].material \cap gone'
          PROVE  FALSE
      <4>1. n \notin gone
        BY <1>0, <3>1 DEF ContractOK
      <4>2. n \in 1 .. Len(events) /\ events[n].project = p
        BY <2>1, <3>1, <4>1
      <4>3. n \in contract[w][i].material \cap Nat
        BY <3>1, <4>2
      <4>4. events[n] = [project |-> w[1], fact |-> TRUE]
        BY <1>0, <4>3 DEF ContractOK
      <4> QED BY <2>3, <4>2, <4>4
    <3>2. /\ search'[w] \in 0 .. Len(contract[w])
          /\ \A i \in (search'[w] + 1) .. Len(contract[w]) : contract[w][i].last = {}
      BY <1>0, <2>1, <2>3 DEF ContractOK
    <3> QED BY <1>0, <1>2, <2>1, <2>3, <3>1, <3>2, ContractStays
  <2> QED BY <2>2, <2>3
<1> QED BY <1>4, <1>5, <1>6, <1>7, <1>8, <1>9, Steps, MovesKeepStore DEF vars

-----------------------------------------------------------------------------
(* A batch that was applied stays what it is for as long as its facts are  *)
(* not deleted.                                                            *)
LEMMA AppliedStays ==
  ASSUME IInv, [Next]_vars, NEW b \in workBatch, b.facts \cap gone' = {}
  PROVE  AppliedOK(b)'
<1>0. /\ TablesOK /\ TablesOK' /\ Onward /\ AppliedOK(b) /\ BatchOK(b)
      /\ b.project \in Projects /\ b.work \in Works /\ b.work[1] = b.project
      /\ b.contract.revision \in Nat \ {0}
  BY StepsGoOn, TablesStay DEF IInv, WorkOK, AppliedOK, BatchOK, Handed
<1>1. BatchOK(b)' /\ Kept(b.work)
  BY <1>0, BatchStays, KeptUnlessForgotten
<1>2. ContractOK(b.work) /\ ContractOK(b.work)'
  BY <1>0, ContractsStay DEF IInv
<1>3. /\ Len(contract[b.work]) \in Nat /\ Len(contract'[b.work]) \in Nat
      /\ Len(contract[b.work]) <= Len(contract'[b.work])
      /\ \A i \in 1 .. Len(contract[b.work]) : contract'[b.work][i] = contract[b.work][i]
  BY <1>1, <1>2 DEF ContractOK, Kept
<1>4. Stored(b)'
  BY <1>0, <1>3 DEF AppliedOK, Stored
<1>5. /\ vis[b.project] \in Nat /\ vis'[b.project] \in Nat /\ vis[b.project] <= vis'[b.project]
      /\ b.through <= vis[b.project] /\ b.through \in Nat
  <2>1. vis[b.project] \in Nat /\ vis'[b.project] \in Nat /\ vis[b.project] <= vis'[b.project]
    BY <1>0 DEF TablesOK, Onward, VisGoesOn
  <2>2. b.through \in b.facts /\ Handed(b.project, b.facts) /\ b.through <= vis[b.project]
    BY <1>0 DEF AppliedOK, BatchOK
  <2>3. b.through \in Nat
    BY <1>0, <2>2, HandedFacts DEF IInv
  <2> QED BY <2>1, <2>2, <2>3
<1>6. ASSUME b.through = vis'[b.project],
             NEW i \in (b.contract.revision + 1) .. Len(contract'[b.work])
      PROVE  contract'[b.work][i].last = {}
  <2>1. b.through = vis[b.project] /\ vis'[b.project] = vis[b.project]
    BY <1>5, <1>6
  <2>2. CASE i <= Len(contract[b.work])
    BY <1>0, <1>3, <1>6, <2>1, <2>2 DEF AppliedOK
  <2>3. CASE i > Len(contract[b.work])
    BY <1>0, <1>1, <1>3, <1>6, <2>1, <2>3 DEF Kept
  <2> QED BY <1>0, <1>3, <2>2, <2>3
<1>7. b.through <= vis'[b.project]
  BY <1>5
<1> QED BY <1>1, <1>4, <1>6, <1>7 DEF AppliedOK

(* The applied batches stay stored, visible and one for each watermark.    *)
LEMMA WorkStays ==
  ASSUME IInv, [Next]_vars
  PROVE  WorkOK'
<1>0. /\ TablesOK /\ GraphOK /\ WorkOK /\ Onward /\ TablesOK'
      /\ DOMAIN contract = Works /\ DOMAIN search = Works
  BY StepsGoOn, TablesStay DEF IInv
<1>1. ASSUME UNCHANGED <<workBatch, gone>> PROVE WorkOK'
  <2>1. \A b \in workBatch : AppliedOK(b)'
    BY <1>0, <1>1, AppliedStays DEF WorkOK, AppliedOK
  <2> QED BY <1>0, <1>1, <2>1 DEF WorkOK
<1>2. ASSUME NEW e \in Events, Ingest(e) PROVE WorkOK'
  BY <1>1, <1>2 DEF Ingest, workTables
<1>3. ASSUME NEW u \in Publishers, ApplyGraph(u) PROVE WorkOK'
  BY <1>1, <1>3 DEF ApplyGraph, GraphApplied, workTables
<1>4. ASSUME UNCHANGED store PROVE WorkOK'
  BY <1>1, <1>4 DEF store, workTables
<1>5. ASSUME NEW w \in Works, Correct(w) PROVE WorkOK'
  BY <1>1, <1>5 DEF Correct
<1>6. ASSUME NEW u \in Publishers, ApplyWork(u) PROVE WorkOK'
  <2>1. PICK b : b = pub[u].batch
    OBVIOUS
  <2>2. /\ BatchOK(b) /\ b.facts \cap gone = {} /\ Publish(b)
        /\ b \in workBatch \/ ~Audited(b)
    BY <1>6, <2>1, AppliedWork
  <2>3. /\ workBatch' = workBatch \cup {b} /\ gone' = gone
        /\ b.project \in Projects /\ b.work \in Works /\ b.contract.revision \in Nat \ {0}
    BY <1>6, <2>1, <2>2 DEF ApplyWork, Publish, BatchOK, Handed
  <2>4. vis'[b.project] = b.through /\ search'[b.work] = b.contract.revision
    BY <1>0, <2>2, <2>3 DEF Publish, TablesOK
  <2>5. BatchOK(b)' /\ ContractOK(b.work) /\ ContractOK(b.work)'
    BY <1>0, <2>2, <2>3, BatchStays, ContractsStay DEF IInv
  <2>6. Stored(b)'
    <3>1. CASE Stored(b)
      BY <2>2, <3>1 DEF Publish, Stored
    <3>2. CASE ~Stored(b)
      <4>1. /\ contract'[b.work] = Append(contract[b.work], b.contract.body)
            /\ b.contract.revision = Len(contract[b.work]) + 1
        BY <1>0, <2>2, <2>3, <3>2 DEF Publish, NextRevision
      <4>2. contract[b.work] \in Seq(Bodies(b.work)) /\ b.contract.body \in Bodies(b.work)
        BY <2>2, <2>5 DEF ContractOK, BatchOK
      <4>3. /\ Len(contract'[b.work]) = Len(contract[b.work]) + 1 /\ Len(contract[b.work]) \in Nat
            /\ contract'[b.work][Len(contract[b.work]) + 1] = b.contract.body
        BY <4>1, <4>2, AppendProperties
      <4> QED BY <4>1, <4>3 DEF Stored
    <3> QED BY <3>1, <3>2
  <2>7. b.through <= vis'[b.project]
    BY <1>0, <2>3, <2>4 DEF TablesOK
  <2>8. \A i \in (b.contract.revision + 1) .. Len(contract'[b.work]) : contract'[b.work][i].last = {}
    BY <2>4, <2>5 DEF ContractOK
  <2>9. AppliedOK(b)'
    BY <2>2, <2>3, <2>5, <2>6, <2>7, <2>8 DEF AppliedOK
  <2>10. \A a \in workBatch : AppliedOK(a)'
    BY <1>0, <2>3, AppliedStays DEF WorkOK, AppliedOK
  <2>11. \A a \in workBatch : a.project = b.project /\ a.through = b.through => a = b
    BY <1>0, <2>2 DEF WorkOK, Audited
  <2> QED BY <1>0, <2>3, <2>9, <2>10, <2>11 DEF WorkOK
<1>7. ASSUME NEW p \in Projects, Forget(p) PROVE WorkOK'
  <2>1. /\ workBatch' = {b \in workBatch : b.project # p}
        /\ gone' = gone \cup {n \in 1 .. Len(events) : events[n].project = p}
    BY <1>7 DEF Forget
  <2>2. ASSUME NEW b \in workBatch' PROVE AppliedOK(b)'
    <3>1. /\ b \in workBatch /\ b.project # p /\ Handed(b.project, b.facts)
          /\ b.facts \cap gone = {}
      BY <1>0, <2>1 DEF WorkOK, AppliedOK, BatchOK
    <3>0. \A n \in b.facts : events[n] = [project |-> b.project, fact |-> TRUE]
      <4>1. PICK q, F : q = b.project /\ F = b.facts
        OBVIOUS
      <4>2. TablesOK /\ GraphOK /\ Handed(q, F)
        BY <1>0, <3>1, <4>1
      <4>3. \A n \in F : events[n] = [project |-> q, fact |-> TRUE]
        BY <4>2, HandedFacts
      <4> QED BY <4>1, <4>3
    <3>2. \A n \in b.facts : events[n].project # p
      BY <3>0, <3>1
    <3>3. b.facts \cap gone' = {}
      BY <2>1, <3>1, <3>2
    <3> QED BY <3>1, <3>3, AppliedStays
  <2> QED BY <1>0, <2>1, <2>2 DEF WorkOK
<1> QED BY <1>2, <1>3, <1>4, <1>5, <1>6, <1>7, Steps, MovesKeepStore DEF vars

-----------------------------------------------------------------------------
(* What a publisher holds after its own step. *)

(* Somebody else's step leaves it alone. *)
LEMMA OthersAreLeftAlone ==
  ASSUME IInv, NEW u \in Publishers, NEW v \in Publishers, u # v,
         Moves(v) \/ ApplyGraph(v) \/ ApplyWork(v)
  PROVE  pub'[u] = pub[u]
<1>0. DOMAIN pub = Publishers
  BY DEF IInv
<1>1. CASE Moves(v)
  BY <1>0, <1>1 DEF Moves, ReadWatermark, ReadEvents, ReduceFails, ReplayGraph, RefuseGraph,
     GraphConflict, ReadVisibility, Correlate, ReadContract, RefuseWork, Fail
<1>2. CASE ApplyGraph(v)
  BY <1>0, <1>2 DEF ApplyGraph, GraphApplied
<1>3. CASE ApplyWork(v)
  BY <1>0, <1>3 DEF ApplyWork, ProjectDone
<1> QED BY <1>1, <1>2, <1>3

(* The projects of a reduced page that are left, if any. *)
LEMMA LeftToPublish ==
  ASSUME NEW u, NEW rows, NEW todo, pub'[u] = Publishing(rows, todo),
         todo = {} \/ ReducedOK(rows, todo)'
  PROVE  PubOK(u)'
<1>1. CASE todo = {}
  BY <1>1 DEF Publishing, PubOK
<1>2. CASE todo # {}
  <2>1. pub'[u] = [pc |-> "publish", rows |-> rows, todo |-> todo]
    BY <1>2 DEF Publishing
  <2>2. pub'[u].pc = "publish" /\ pub'[u].rows = rows /\ pub'[u].todo = todo
    BY <2>1
  <2> QED BY <1>2, <2>2 DEF PubOK
<1> QED BY <1>1, <1>2

(* A page that was just read. *)
LEMMA PageIsRead ==
  ASSUME TablesOK, NEW from \in Nat, NEW rows \in SUBSET Live, IsPage(rows, from)
  PROVE  PageOK(rows, from)
<1>1. Len(events) \in Nat /\ rows \in SUBSET (1 .. Len(events)) /\ rows # {}
  BY DEF TablesOK, Live, IsPage
<1>2. Greatest(rows) \in rows /\ \A m \in rows : m <= Greatest(rows)
  BY <1>1, GreatestIsGreatest
<1>3. ASSUME NEW m \in rows, NEW n \in 1 .. m, from < n PROVE n \in rows \cup gone
  <2>1. m \in 1 .. Len(events) /\ Greatest(rows) \in 1 .. Len(events) /\ m <= Greatest(rows)
    BY <1>1, <1>2
  <2>2. n \in 1 .. Len(events) /\ n <= Greatest(rows) /\ Greatest(rows) \in Nat
    BY <1>1, <2>1
  <2>3. CASE n = Greatest(rows)
    BY <1>2, <2>3
  <2>4. CASE n # Greatest(rows)
    BY <1>3, <2>2, <2>4 DEF IsPage, Live
  <2> QED BY <2>3, <2>4
<1> QED BY <1>1, <1>3 DEF PageOK, IsPage

(* A batch that was just built. *)
LEMMA BatchIsBuilt ==
  ASSUME IInv, NEW p \in Projects, NEW rows, NEW w \in Works, w[1] = p,
         rows \subseteq 1 .. graph, NEW g \in graphBatch, Facts(rows) = g.facts,
         FactsOf(p, rows) # {}, NEW expected \in 0 .. vis[p],
         NEW c \in Built(contract[w], FactsOf(p, rows)),
         NEW b, b = [project |-> p, expected |-> expected,
                     through |-> Greatest(FactsOf(p, rows)), facts |-> FactsOf(p, rows),
                     work |-> w, contract |-> c]
  PROVE  PendingOK(b)
<1> DEFINE F == FactsOf(p, rows)
           revisions == contract[w]
<1>0. /\ TablesOK /\ GraphOK /\ ContractOK(w)
      /\ graph \in Nat /\ Len(events) \in Nat /\ graph <= Len(events) /\ Len(events) <= MaxEvents
      /\ MaxEvents \in Nat
  BY PublicationAssumption DEF IInv, TablesOK
<1>1. F = OfProject(p, g.facts) /\ F # {}
  BY DEF FactsOf, OfProject
<1>2. Handed(p, F)
  BY <1>1 DEF Handed
<1>3. F \subseteq 1 .. graph /\ F \in SUBSET (1 .. graph) /\ F \subseteq Seqs
  <2>1. F \subseteq 1 .. graph
    BY DEF FactsOf, Facts
  <2>2. 1 .. graph \subseteq Seqs
    BY <1>0 DEF Seqs
  <2> QED BY <2>1, <2>2
<1>4. Greatest(F) \in F /\ \A n \in F : n <= Greatest(F)
  BY <1>0, <1>1, <1>3, GreatestIsGreatest
<1>5. revisions \in Seq(Bodies(w)) /\ Len(revisions) \in Nat
  BY <1>0 DEF ContractOK
<1>6. revisions = <<>> <=> Len(revisions) = 0
  BY <1>5, EmptySeq
<1>7. LatestOf(revisions) \in Bodies(w)
  <2>1. CASE revisions = <<>>
    BY <2>1 DEF LatestOf, NoContract, Bodies
  <2>2. CASE revisions # <<>>
    <3>1. Len(revisions) \in 1 .. Len(revisions)
      BY <1>5, <1>6, <2>2
    <3> QED BY <1>5, <2>2, <3>1, ElementOfSeq DEF LatestOf
  <2> QED BY <2>1, <2>2
<1>8. CASE c = Unchanged(revisions) /\ revisions # <<>>
  <2>1. c.revision = Len(revisions) /\ c.body = LatestOf(revisions)
    BY <1>8 DEF Unchanged
  <2>2. c.revision \in Nat \ {0} /\ c.body \in Bodies(w)
    BY <1>5, <1>6, <1>7, <1>8, <2>1
  <2>3. Stored(b)
    BY <1>5, <1>8, <2>1, <2>2 DEF Stored, LatestOf
  <2>4. (c.revision + 1) .. Len(revisions) = {}
    BY <1>5, <2>1
  <2>5. BatchOK(b)
    BY <1>2, <1>4, <2>2 DEF BatchOK
  <2> QED BY <2>3, <2>4, <2>5 DEF PendingOK, Continues
<1>9. CASE c = Grown(revisions, F)
  <2>1. /\ c.revision = Len(revisions) + 1
        /\ c.body = [material |-> LatestOf(revisions).material \cup F, last |-> F]
    BY <1>9 DEF Grown
  <2>2. c.revision \in Nat \ {0}
    BY <1>5, <2>1
  <2>3. c.body \in Bodies(w)
    BY <1>3, <1>7, <2>1 DEF Bodies
  <2>4. c.body.material = F \cup (IF c.revision = 1 THEN {} ELSE revisions[c.revision - 1].material)
    <3>1. CASE revisions = <<>>
      BY <1>5, <1>6, <2>1, <3>1 DEF LatestOf, NoContract
    <3>2. CASE revisions # <<>>
      <4>1. c.revision # 1 /\ c.revision - 1 = Len(revisions)
        BY <1>5, <1>6, <2>1, <3>2
      <4> QED BY <2>1, <3>2, <4>1 DEF LatestOf
    <3> QED BY <3>1, <3>2
  <2>5. c.revision <= Len(revisions) + 1 /\ (c.revision + 1) .. Len(revisions) = {}
    BY <1>5, <2>1
  <2>6. BatchOK(b)
    BY <1>2, <1>4, <2>2, <2>3 DEF BatchOK
  <2>7. Continues(b)
    BY <2>4, <2>5 DEF Continues
  <2> QED BY <2>5, <2>6, <2>7 DEF PendingOK
<1> QED BY <1>8, <1>9 DEF Built


(* What each publisher holds stays sound.                                  *)
LEMMA PubsStay ==
  ASSUME IInv, [Next]_vars, NEW u \in Publishers
  PROVE  PubOK(u)'
<1>0. /\ TablesOK /\ GraphOK /\ TablesOK' /\ Onward /\ PubOK(u)
      /\ DOMAIN pub = Publishers /\ \A w \in Works : ContractOK(w)'
  BY StepsGoOn, TablesStay, ContractsStay DEF IInv
<1>1. ASSUME pub'[u] = pub[u] PROVE PubOK(u)'
  BY <1>0, <1>1, PubStays
<1>2. ASSUME pub'[u] = Idle PROVE PubOK(u)'
  BY <1>2 DEF PubOK
<1>3. CASE ReduceFails(u) \/ RefuseGraph(u) \/ RefuseWork(u) \/ Fail(u)
  BY <1>0, <1>2, <1>3 DEF ReduceFails, RefuseGraph, RefuseWork, Fail
<1>4. CASE ReadWatermark(u)
  <2>1. /\ pub'[u] = [pc |-> "mark", from |-> graph,
                      try |-> IF pub[u].pc = "idle" THEN 1 ELSE pub[u].try]
        /\ pub[u].pc \in {"idle", "again"}
    BY <1>0, <1>4 DEF ReadWatermark
  <2>2. pub[u].pc = "again" => pub[u].try \in 1 .. Tries
    BY <1>0 DEF PubOK, Idle
  <2>3. graph \in Nat /\ 1 \in 1 .. Tries
    BY <1>0, PublicationAssumption DEF TablesOK
  <2>4. /\ pub'[u].pc = "mark" /\ pub'[u].from = graph
        /\ pub'[u].try = IF pub[u].pc = "idle" THEN 1 ELSE pub[u].try
    BY <2>1
  <2>5. pub'[u].try \in 1 .. Tries
    BY <2>1, <2>2, <2>3, <2>4
  <2> QED BY <2>3, <2>4, <2>5 DEF PubOK
<1>5. CASE ReadEvents(u)
  <2>1. pub[u].pc = "mark" /\ pub[u].try \in 1 .. Tries /\ pub[u].from \in Nat
    BY <1>0, <1>5 DEF PubOK, Idle, ReadEvents
  <2>2. CASE pub' = [pub EXCEPT ![u] = Idle]
    BY <1>0, <1>2, <2>2
  <2>3. ASSUME NEW rows \in SUBSET Live, IsPage(rows, pub[u].from),
               pub' = [pub EXCEPT ![u] =
                 [pc |-> "page", from |-> @.from, rows |-> rows, try |-> @.try]]
        PROVE  PubOK(u)'
    <3>1. PICK from : from = pub[u].from
      OBVIOUS
    <3>2. PageOK(rows, from)
      BY <1>0, <2>1, <2>3, <3>1, PageIsRead
    <3>3. PageOK(rows, from)'
      BY <1>0, <3>2, PageStays
    <3>4. pub'[u] = [pc |-> "page", from |-> from, rows |-> rows, try |-> pub[u].try]
      BY <1>0, <2>3, <3>1
    <3>5. /\ pub'[u].pc = "page" /\ pub'[u].from = from /\ pub'[u].rows = rows
          /\ pub'[u].try = pub[u].try
      BY <3>4
    <3> QED BY <2>1, <3>1, <3>3, <3>5 DEF PubOK
  <2> QED BY <1>5, <2>2, <2>3 DEF ReadEvents
<1>6. CASE GraphConflict(u)
  <2>1. pub[u].pc = "page" /\ pub[u].try \in 1 .. Tries
    BY <1>0, <1>6 DEF PubOK, Idle, GraphConflict, Reduced
  <2>2. pub'[u] = IF pub[u].try < Tries THEN [pc |-> "again", try |-> pub[u].try + 1] ELSE Idle
    BY <1>0, <1>6 DEF GraphConflict
  <2>3. CASE pub[u].try < Tries
    <3>1. pub'[u].pc = "again" /\ pub'[u].try = pub[u].try + 1
      BY <2>2, <2>3
    <3>2. pub'[u].try \in 1 .. Tries
      BY <2>1, <2>3, <3>1, PublicationAssumption
    <3> QED BY <3>1, <3>2 DEF PubOK
  <2>4. CASE ~(pub[u].try < Tries)
    BY <1>2, <2>2, <2>4
  <2> QED BY <2>3, <2>4
<1>7. CASE ApplyGraph(u)
  <2>1. PICK rows : rows = pub[u].rows
    OBVIOUS
  <2>2. PICK todo : todo = {p \in Projects : FactsOf(p, rows) # {}}
    OBVIOUS
  <2>3. /\ PageOK(rows, graph) /\ graph' = Greatest(rows) /\ graph' \in 1 .. Len(events)
    BY <1>7, <2>1, AppliedGraph
  <2>4. /\ graphBatch' = graphBatch \cup {GraphBatch(u)} /\ events' = events
        /\ pub'[u] = Publishing(rows, todo)
    BY <1>0, <1>7, <2>1, <2>2 DEF ApplyGraph, GraphApplied, Grouped
  <2>5. GraphBatch(u) \in graphBatch' /\ GraphBatch(u).facts = Facts(rows)
    BY <2>1, <2>4 DEF GraphBatch
  <2>6. rows \subseteq 1 .. graph'
    <3>1. \A n \in rows : n <= graph' /\ n \in 1 .. Len(events)
      BY <1>0, <2>3, PageEnd DEF PageOK
    <3> QED BY <1>0, <2>3, <3>1 DEF TablesOK
  <2>7. /\ Facts(rows)' = Facts(rows)
        /\ \A p : FactsOf(p, rows)' = FactsOf(p, rows)
    BY <2>4 DEF Facts, FactsOf
  <2>8. todo = {} \/ ReducedOK(rows, todo)'
    BY <2>2, <2>5, <2>6, <2>7 DEF ReducedOK
  <2> QED BY <2>4, <2>8, LeftToPublish
<1>8. CASE ReplayGraph(u)
  <2>1. PICK rows : rows = pub[u].rows
    OBVIOUS
  <2>2. PICK todo : todo = {p \in Projects : FactsOf(p, rows) # {}}
    OBVIOUS
  <2>3. PICK from : from = pub[u].from
    OBVIOUS
  <2>4. /\ PageOK(rows, from) /\ graph = Greatest(rows) /\ GraphBatch(u) \in graphBatch
        /\ pub'[u] = Publishing(rows, todo)
    <3>1. pub[u].pc = "page" /\ GraphReplayed(u)
      BY <1>8 DEF ReplayGraph, Reduced
    <3>2. PageOK(rows, from)
      BY <1>0, <2>1, <2>3, <3>1 DEF PubOK, Idle
    <3> QED BY <1>0, <1>8, <2>1, <2>2, <3>1, <3>2 DEF ReplayGraph, GraphReplayed, Grouped
  <2>5. GraphBatch(u).facts = Facts(rows)
    BY <2>1 DEF GraphBatch
  <2>6. rows \subseteq 1 .. graph
    <3>1. \A n \in rows : n <= graph /\ n \in 1 .. Len(events)
      BY <1>0, <2>4, PageEnd DEF PageOK
    <3> QED BY <1>0, <3>1 DEF TablesOK
  <2>7. todo = {} \/ ReducedOK(rows, todo)
    BY <2>2, <2>4, <2>5, <2>6 DEF ReducedOK
  <2>8. todo = {} \/ ReducedOK(rows, todo)'
    BY <1>0, <2>7, ReducedStays
  <2> QED BY <2>4, <2>8, LeftToPublish
<1>9. ASSUME pub[u].pc \in {"publish", "seen", "chosen", "built"}
      PROVE  /\ ReducedOK(pub[u].rows, pub[u].todo)
             /\ pub[u].pc \in {"seen", "chosen"} =>
                  /\ pub[u].project \in Projects
                  /\ pub[u].facts = FactsOf(pub[u].project, pub[u].rows) /\ pub[u].facts # {}
                  /\ pub[u].expected \in 0 .. vis[pub[u].project]
             /\ pub[u].pc = "chosen" => pub[u].work \in Works /\ pub[u].work[1] = pub[u].project
  BY <1>0, <1>9 DEF PubOK, Idle
<1>10. CASE ApplyWork(u)
  <2>1. PICK rows, old : rows = pub[u].rows /\ old = pub[u].todo
    OBVIOUS
  <2>2. PICK todo : todo = old \ {Least(old)}
    OBVIOUS
  <2>3. pub[u].pc = "built" /\ pub'[u] = Publishing(rows, todo)
    BY <1>0, <1>10, <2>1, <2>2 DEF ApplyWork, ProjectDone
  <2>4. ReducedOK(rows, old)
    BY <1>9, <2>1, <2>3
  <2>5. todo = {} \/ ReducedOK(rows, todo)
    BY <2>2, <2>4 DEF ReducedOK
  <2>6. todo = {} \/ ReducedOK(rows, todo)'
    BY <1>0, <2>5, ReducedStays
  <2> QED BY <2>3, <2>6, LeftToPublish
<1>11. CASE ReadVisibility(u)
  <2>1. PICK rows, todo : rows = pub[u].rows /\ todo = pub[u].todo
    OBVIOUS
  <2>2. PICK p, facts, expected : p = Least(todo) /\ facts = FactsOf(p, rows) /\ expected = vis[p]
    OBVIOUS
  <2>3. pub[u].pc = "publish" /\ UNCHANGED vis
    BY <1>11 DEF ReadVisibility, store, workTables
  <2>4. pub'[u] = [pc |-> "seen", rows |-> rows, todo |-> todo,
                   project |-> p, facts |-> facts, expected |-> expected]
    BY <1>0, <1>11, <2>1, <2>2 DEF ReadVisibility
  <2>5. ReducedOK(rows, todo)
    BY <1>9, <2>1, <2>3
  <2>6. p \in todo /\ p \in Projects
    BY <2>2, <2>5, LeastIsLeast, PublicationAssumption DEF ReducedOK
  <2>7. facts # {} /\ expected \in 0 .. vis[p]
    <3>1. vis[p] \in Nat
      BY <1>0, <2>6 DEF TablesOK
    <3> QED BY <2>2, <2>5, <2>6, <3>1 DEF ReducedOK
  <2>8. ReducedOK(rows, todo)' /\ facts = FactsOf(p, rows)'
    BY <1>0, <2>2, <2>5, ReducedStays
  <2>9. /\ pub'[u].pc = "seen" /\ pub'[u].rows = rows /\ pub'[u].todo = todo
        /\ pub'[u].project = p /\ pub'[u].facts = facts /\ pub'[u].expected = expected
    BY <2>4
  <2> QED BY <2>3, <2>6, <2>7, <2>8, <2>9 DEF PubOK
<1>12. CASE Correlate(u)
  <2>1. PICK rows, todo, p, facts, expected :
          /\ rows = pub[u].rows /\ todo = pub[u].todo /\ p = pub[u].project
          /\ facts = pub[u].facts /\ expected = pub[u].expected
    OBVIOUS
  <2>2. PICK w \in Works :
          /\ w[1] = p
          /\ pub'[u] = [pc |-> "chosen", rows |-> rows, todo |-> todo, project |-> p,
                        facts |-> facts, expected |-> expected, work |-> w]
    BY <1>0, <1>12, <2>1 DEF Correlate
  <2>3. pub[u].pc = "seen" /\ UNCHANGED vis
    BY <1>12 DEF Correlate, store, workTables
  <2>4. /\ ReducedOK(rows, todo) /\ p \in Projects /\ facts = FactsOf(p, rows) /\ facts # {}
        /\ expected \in 0 .. vis[p]
    BY <1>9, <2>1, <2>3
  <2>5. ReducedOK(rows, todo)' /\ facts = FactsOf(p, rows)'
    BY <1>0, <2>4, ReducedStays
  <2>6. /\ pub'[u].pc = "chosen" /\ pub'[u].rows = rows /\ pub'[u].todo = todo
        /\ pub'[u].project = p /\ pub'[u].facts = facts /\ pub'[u].expected = expected
        /\ pub'[u].work = w
    BY <2>2
  <2> QED BY <2>2, <2>3, <2>4, <2>5, <2>6 DEF PubOK
<1>13. CASE ReadContract(u)
  <2>1. PICK rows, todo, p, facts, expected, w :
          /\ rows = pub[u].rows /\ todo = pub[u].todo /\ p = pub[u].project
          /\ facts = pub[u].facts /\ expected = pub[u].expected /\ w = pub[u].work
    OBVIOUS
  <2>2. PICK c \in Built(contract[w], facts) :
          pub'[u] = [pc |-> "built", rows |-> rows, todo |-> todo,
                     batch |-> [project |-> p, expected |-> expected, through |-> Greatest(facts),
                                facts |-> facts, work |-> w, contract |-> c]]
    BY <1>0, <1>13, <2>1 DEF ReadContract
  <2>3. PICK b : b = [project |-> p, expected |-> expected, through |-> Greatest(facts),
                      facts |-> facts, work |-> w, contract |-> c]
    OBVIOUS
  <2>4. pub[u].pc = "chosen"
    BY <1>13 DEF ReadContract
  <2>5. /\ ReducedOK(rows, todo) /\ p \in Projects /\ facts = FactsOf(p, rows) /\ facts # {}
        /\ expected \in 0 .. vis[p] /\ w \in Works /\ w[1] = p
    BY <1>9, <2>1, <2>4
  <2>6. PendingOK(b)
    <3>1. PICK g \in graphBatch : Facts(rows) = g.facts
      BY <2>5 DEF ReducedOK
    <3>2. rows \subseteq 1 .. graph
      BY <2>5 DEF ReducedOK
    <3> QED BY <2>2, <2>3, <2>5, <3>1, <3>2, BatchIsBuilt
  <2>7. PendingOK(b)'
    BY <1>0, <2>6, PendingStays
  <2>8. ReducedOK(rows, todo)'
    BY <1>0, <2>5, ReducedStays
  <2>9. /\ pub'[u].pc = "built" /\ pub'[u].rows = rows /\ pub'[u].todo = todo
        /\ pub'[u].batch = b
    BY <2>2, <2>3
  <2> QED BY <2>7, <2>8, <2>9 DEF PubOK
<1>14. ASSUME NEW v \in Publishers, Moves(v) \/ ApplyGraph(v) \/ ApplyWork(v)
       PROVE  PubOK(u)'
  <2>1. CASE u = v
    BY <1>3, <1>4, <1>5, <1>6, <1>7, <1>8, <1>10, <1>11, <1>12, <1>13, <1>14, <2>1 DEF Moves
  <2>2. CASE u # v
    BY <1>1, <1>14, <2>2, OthersAreLeftAlone
  <2> QED BY <2>1, <2>2
<1>15. ASSUME UNCHANGED pub PROVE PubOK(u)'
  BY <1>1, <1>15
<1>16. ASSUME NEW e \in Events, Ingest(e) PROVE UNCHANGED pub
  BY <1>16 DEF Ingest
<1>17. ASSUME NEW w \in Works, Correct(w) PROVE UNCHANGED pub
  BY <1>17 DEF Correct
<1>18. ASSUME NEW p \in Projects, Forget(p) PROVE UNCHANGED pub
  BY <1>18 DEF Forget
<1> QED BY <1>14, <1>15, <1>16, <1>17, <1>18, Steps DEF vars

-----------------------------------------------------------------------------
(* The empty store is a good start. *)
LEMMA InitGood ==
  ASSUME Init
  PROVE  IInv
<1>1. /\ events = <<>> /\ Len(events) = 0 /\ events \in Seq(Events) /\ gone = {} /\ graph = 0
      /\ graphBatch = {} /\ graphFacts = {} /\ workBatch = {}
      /\ vis = [p \in Projects |-> 0] /\ corrections = 0 /\ forgets = 0
  BY EmptySeq DEF Init
<1>2. TablesOK
  BY <1>1, PublicationAssumption DEF TablesOK, VisibilityFollowsTheGraph
<1>3. DOMAIN contract = Works /\ DOMAIN search = Works /\ DOMAIN pub = Publishers
  BY DEF Init
<1>4. GraphOK
  BY <1>1 DEF GraphOK, Facts
<1>5. WorkOK
  BY <1>1 DEF WorkOK
<1>6. ASSUME NEW w \in Works PROVE ContractOK(w)
  <2>1. contract[w] = <<>> /\ search[w] = 0 /\ w[1] \in Projects
    BY <1>6 DEF Init, Works
  <2>2. Len(<<>>) = 0 /\ <<>> \in Seq(Bodies(w)) /\ DOMAIN <<>> = {}
    BY EmptySeq
  <2>3. vis[w[1]] + corrections = 0
    BY <1>1, <2>1
  <2> QED BY <2>1, <2>2, <2>3 DEF ContractOK
<1>7. \A u \in Publishers : PubOK(u)
  BY DEF Init, PubOK
<1> QED BY <1>2, <1>3, <1>4, <1>5, <1>6, <1>7 DEF IInv

(* The inductive invariant of the publication protocol: what the store     *)
(* holds, and what a publisher still has in its hands after each await, in *)
(* whatever order publishers, ingestion, corrections and forgetting take   *)
(* turns (reduce_and_publish_grouped_next, publish_work_to_visibility,     *)
(* apply_graph, apply_work, apply_human_correction, forget).               *)
THEOREM PublicationInvariant == Spec => []IInv
<1>1. Init => IInv
  BY InitGood
<1>2. IInv /\ [Next]_vars => IInv'
  <2> SUFFICES ASSUME IInv, [Next]_vars PROVE IInv'
    OBVIOUS
  <2> QED BY TablesStay, DomainsStay, GraphStays, WorkStays, ContractsStay, PubsStay DEF IInv
<1> QED BY <1>1, <1>2, PTL DEF Spec

(* Each event up to the graph watermark was reduced in exactly one graph   *)
(* batch, and the graph holds exactly the facts of those not forgotten,    *)
(* however many publishers raced (apply_graph's watermark check).          *)
THEOREM ReducedExactlyOnce == Spec => []EveryEventIsReducedOnce
<1>1. IInv => EveryEventIsReducedOnce
  <2> SUFFICES ASSUME IInv PROVE EveryEventIsReducedOnce
    OBVIOUS
  <2>0. GraphOK /\ graph \in Nat
    BY DEF IInv, TablesOK
  <2>1. ASSUME NEW n \in 1 .. graph
        PROVE  \E b \in graphBatch :
                 /\ b.from < n /\ n <= b.hi
                 /\ \A other \in graphBatch \ {b} : ~(other.from < n /\ n <= other.hi)
    <3>1. PICK b \in graphBatch : b.from < n /\ n <= b.hi
      BY <2>0 DEF GraphOK
    <3>2. ASSUME NEW h \in graphBatch \ {b}, h.from < n, n <= h.hi PROVE FALSE
      <4>1. /\ b.from \in Nat /\ b.hi \in Nat /\ h.from \in Nat /\ h.hi \in Nat /\ n \in Nat
            /\ b.hi <= h.from \/ h.hi <= b.from
        BY <2>0 DEF GraphOK
      <4> QED BY <3>1, <3>2, <4>1
    <3> QED BY <3>1, <3>2
  <2> QED BY <2>0, <2>1 DEF EveryEventIsReducedOnce, GraphOK
<1> QED BY <1>1, PublicationInvariant, PTL

(* A fact that two applied batches share makes them one batch: graph       *)
(* batches do not overlap, so both were cut from the same one.             *)
LEMMA PublishedOnce ==
  ASSUME IInv
  PROVE  EachFactIsPublishedOnce
<1>0. TablesOK /\ GraphOK /\ WorkOK
  BY DEF IInv
<1>1. ASSUME NEW a \in workBatch, NEW b \in workBatch, NEW n \in a.facts \cap b.facts
      PROVE  a = b
  <2>1. /\ Handed(a.project, a.facts) /\ Handed(b.project, b.facts)
        /\ a.through \in a.facts /\ \A m \in a.facts : m <= a.through
        /\ b.through \in b.facts /\ \A m \in b.facts : m <= b.through
    BY <1>0 DEF WorkOK, AppliedOK, BatchOK
  <2>2. PICK g \in graphBatch : a.facts = OfProject(a.project, g.facts)
    BY <2>1 DEF Handed
  <2>3. PICK h \in graphBatch : b.facts = OfProject(b.project, h.facts)
    BY <2>1 DEF Handed
  <2>4. a.project = b.project /\ n \in g.facts /\ n \in h.facts
    BY <1>1, <2>2, <2>3 DEF OfProject
  <2>5. g = h
    <3>1. g.from < n /\ n <= g.hi /\ h.from < n /\ n <= h.hi
      BY <1>0, <2>4 DEF GraphOK
    <3>2. graph \in Nat
      BY <1>0 DEF TablesOK
    <3>3. /\ g \in [from : 0 .. graph, hi : 1 .. graph, facts : SUBSET (1 .. graph)]
          /\ h \in [from : 0 .. graph, hi : 1 .. graph, facts : SUBSET (1 .. graph)]
      BY <1>0 DEF GraphOK
    <3>4. /\ g.from \in Nat /\ g.hi \in Nat /\ h.from \in Nat /\ h.hi \in Nat
          /\ n \in 1 .. graph
      BY <2>4, <3>2, <3>3
    <3>5. g = h \/ g.hi <= h.from \/ h.hi <= g.from
      BY <1>0 DEF GraphOK
    <3> QED BY <3>1, <3>2, <3>4, <3>5
  <2>6. a.facts = b.facts
    BY <2>2, <2>3, <2>4, <2>5
  <2>7. a.facts \subseteq Nat
    BY <1>0, <2>1, HandedFacts
  <2>8. a.through = b.through
    BY <2>1, <2>6, <2>7
  <2> QED BY <1>0, <2>4, <2>8 DEF WorkOK
<1> QED BY <1>1 DEF EachFactIsPublishedOnce

(* What the invariant says of types. *)
LEMMA Typed ==
  ASSUME IInv
  PROVE  TypeOK
<1>0. TablesOK /\ GraphOK /\ WorkOK /\ graph \in Nat
  BY DEF IInv, TablesOK
<1>1. /\ graphBatch \subseteq [from : 0 .. graph, hi : 1 .. graph, facts : SUBSET (1 .. graph)]
      /\ graphFacts \subseteq 1 .. graph
  BY <1>0 DEF GraphOK, Facts
<1>2. ASSUME NEW b \in workBatch
      PROVE  b.project = b.work[1] /\ b.facts \subseteq 1 .. b.through
  <2>1. /\ Handed(b.project, b.facts) /\ b.work[1] = b.project
        /\ b.through \in b.facts /\ \A m \in b.facts : m <= b.through
    BY <1>0 DEF WorkOK, AppliedOK, BatchOK
  <2>2. b.facts \subseteq 1 .. graph
    BY <1>0, <2>1, HandedFacts
  <2> QED BY <1>0, <2>1, <2>2
<1>3. ASSUME NEW w \in Works
      PROVE  /\ search[w] \in 0 .. Len(contract[w])
             /\ \A i \in DOMAIN contract[w] : contract[w][i] \in Bodies(w)
  <2>1. ContractOK(w)
    BY DEF IInv
  <2> QED BY <2>1, ElementOfSeq DEF ContractOK
<1>4. ASSUME NEW u \in Publishers
      PROVE  \/ pub[u] = Idle
             \/ pub[u].pc \in {"mark", "again"} /\ pub[u].try \in 1 .. Tries
             \/ pub[u].pc = "page" /\ pub[u].rows \in (SUBSET (1 .. Len(events))) \ {{}}
             \/ /\ pub[u].pc \in {"publish", "seen", "chosen", "built"}
                /\ pub[u].todo # {} /\ \A p \in pub[u].todo : FactsOf(p, pub[u].rows) # {}
  <2>1. PubOK(u)
    BY DEF IInv
  <2>2. CASE pub[u].pc = "page"
    <3>1. PageOK(pub[u].rows, pub[u].from)
      BY <2>1, <2>2 DEF PubOK, Idle
    <3>2. pub[u].rows # {} /\ pub[u].rows \subseteq 1 .. Len(events)
      BY <3>1 DEF PageOK
    <3> QED BY <2>2, <3>2
  <2>3. CASE pub[u].pc \in {"publish", "seen", "chosen", "built"}
    BY <2>1, <2>3 DEF PubOK, ReducedOK, Idle
  <2> QED BY <2>1, <2>2, <2>3 DEF PubOK
<1> QED BY <1>0, <1>1, <1>2, <1>3, <1>4 DEF TypeOK, TablesOK

(* What readers see hangs together: a project is never visible beyond the  *)
(* graph, each fact is in one applied batch, contracts are made of visible *)
(* facts of their own project, and a search row misses nothing but         *)
(* corrections (apply_work, replace_work_search).                          *)
THEOREM ReadersAlwaysSeeOneStory == Spec => []ReadersSeeOneStory
<1>1. IInv => ReadersSeeOneStory
  <2> SUFFICES ASSUME IInv PROVE ReadersSeeOneStory
    OBVIOUS
  <2>1. VisibilityFollowsTheGraph
    BY DEF IInv, TablesOK
  <2>2. ContractsCiteVisibleFacts /\ SearchMissesOnlyCorrections
    BY DEF IInv, ContractOK, ContractsCiteVisibleFacts, SearchMissesOnlyCorrections
  <2> QED BY <2>1, <2>2, Typed, PublishedOnce DEF ReadersSeeOneStory
<1> QED BY <1>1, PublicationInvariant, PTL

(* A correction and a publication that cross each other both survive: a    *)
(* revision is only ever stored on the one it was built from               *)
(* (insert_work_contract_revision's check of the next number).             *)
THEOREM MaterialIsNeverLost == Spec => []NoRevisionLosesMaterial
<1>1. IInv => NoRevisionLosesMaterial
  BY DEF IInv, ContractOK, NoRevisionLosesMaterial
<1> QED BY <1>1, PublicationInvariant, PTL

(* What a publisher read before a project was forgotten brings none of it  *)
(* back (verify_watermark_event, verify_graph_event and the facts' events  *)
(* in apply_work).                                                         *)
THEOREM ForgettingIsFinal == Spec => []ForgottenStaysForgotten
<1>1. IInv => ForgottenStaysForgotten
  BY DEF IInv, GraphOK, WorkOK, AppliedOK, ContractOK, ForgottenStaysForgotten
<1> QED BY <1>1, PublicationInvariant, PTL
=============================================================================
