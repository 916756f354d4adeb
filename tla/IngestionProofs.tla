-------------------------- MODULE IngestionProofs --------------------------
(***************************************************************************)
(* Proofs about Ingestion for every set of sources and workers, any batch  *)
(* and page limit, any retry policy and any bound on registrations and     *)
(* disruptions: the durable cursor tells exactly which rows are there,     *)
(* what a worker holds is sound, and the store's readers see TranscriptFeed.*)
(***************************************************************************)
EXTENDS Ingestion, SequenceTheorems, TLAPS

-----------------------------------------------------------------------------
(* What every cursor in flight keeps to: it was durable, so its pages have *)
(* their rows, and its records are complete in the file.                   *)
WasDurable(s, c) ==
  /\ Before(c) \subseteq rows[s]
  /\ 2 * c.done <= file[s]

(* A batch extends what was durable, within the file. *)
Extends(c) ==
  /\ WasDurable(c.src, c.from)
  /\ Before(c.from) \subseteq Before(c.next)
  /\ 2 * c.next.done <= file[c.src]

(* What a worker holds while its batch is built or with the writer. *)
Batches == [pc : {"built", "sent"}, src : Sources, target : Sizes,
            retry : 0 .. Retries, chunk : Chunks, more : BOOLEAN]

(* What a worker holds at each point of its attempt. *)
JobOK(w) ==
  /\ job[w].pc \in {"idle", "start", "facts", "cursor", "nothing", "built", "sent", "answered"}
  /\ job[w].pc = "idle" => job[w] = Idle
  /\ job[w].pc # "idle" => job[w].src \in Sources
  /\ job[w].pc \notin {"idle", "nothing"} =>
       job[w].target \in Sizes /\ job[w].retry \in 0 .. Retries
  /\ job[w].pc \in {"facts", "cursor"} =>
       job[w].facts \in Facts /\ job[w].facts.size <= file[job[w].src]
  /\ job[w].pc = "cursor" => job[w].from \in Cursors /\ WasDurable(job[w].src, job[w].from)
  /\ job[w].pc \in {"built", "sent"} =>
       job[w] \in Batches /\ job[w].chunk.src = job[w].src /\ Extends(job[w].chunk)
  /\ job[w].pc = "answered" /\ job[w].result = "ok" =>
       Before(job[w].next) \subseteq rows[job[w].src]

(* A request in the writer's queue: its worker waits for just this answer. *)
RequestOK(r) ==
  /\ Extends(r.chunk)
  /\ r.by # None => job[r.by].pc = "sent" /\ job[r.by].chunk = r.chunk

QueueOK ==
  /\ \A i \in DOMAIN writerQ : RequestOK(writerQ[i])
  /\ \A i, j \in DOMAIN writerQ :
       writerQ[i].by # None /\ writerQ[i].by = writerQ[j].by => i = j

StoreOK ==
  /\ RowsMatchCursor
  /\ \A s \in Sources : 2 * cursor[s].done <= file[s]
  /\ \A s \in Sources : facts[s] # None => facts[s].size <= file[s]

Types == TypeOK /\ clock \in 0 .. MaxFacts /\ DOMAIN job = Workers

IInv ==
  /\ Types
  /\ StoreOK
  /\ \A w \in Workers : JobOK(w)
  /\ QueueOK
  /\ OneReaderPerSource

-----------------------------------------------------------------------------
(* A batch that stops at n goes on from c, within the target's records.    *)
LEMMA StopsWithin ==
  ASSUME NEW c \in Cursors, NEW target \in Sizes, NEW seen \in 1 .. MaxFacts,
         NEW n \in StopsAt(c, target, seen)
  PROVE  /\ n \in Cursors
         /\ Before(c) \subseteq Before(n)
         /\ 2 * n.done <= 2 * c.done \/ 2 * n.done <= target
<1> USE IngestionAssumption
<1>1. /\ c.done \in 0 .. MaxRecords /\ c.rest \in 0 .. MaxPages /\ c.seen \in 0 .. MaxFacts
      /\ target \in 0 .. 2 * MaxRecords
  BY DEF Cursors, Sizes
<1>2. target \div 2 \in 0 .. MaxRecords /\ 2 * (target \div 2) <= target
  BY <1>1
<1>3. End(c, target).done \in {c.done, target \div 2}
  BY DEF End, Larger
<1>4. /\ n \in [done : c.done .. End(c, target).done, rest : 0 .. MaxPages, seen : {0, c.seen, seen}]
      /\ Before(c) \subseteq Before(n)
  BY DEF StopsAt
<1>5. n.done \in 0 .. MaxRecords /\ (n.done <= c.done \/ n.done <= target \div 2)
  BY <1>1, <1>2, <1>3, <1>4
<1>6. n.seen \in 0 .. MaxFacts
  BY <1>1, <1>4
<1>7. n \in Cursors
  BY <1>4, <1>5, <1>6 DEF Cursors
<1> QED BY <1>1, <1>2, <1>4, <1>5, <1>7

(* The head of a queue of requests is its first, the tail the others.      *)
LEMMA HeadIsFirst ==
  ASSUME NEW S, NEW q \in Seq(S), q # <<>>
  PROVE  1 \in DOMAIN q /\ Head(q) = q[1] /\ Head(q) \in S
OBVIOUS

(* The chunk at the head of the queue is well formed and extends what was  *)
(* durable; its worker, if it still has one, waits for it.                 *)
LEMMA HeadIsSound ==
  ASSUME IInv, writerQ # <<>>
  PROVE  /\ Head(writerQ) = writerQ[1]
         /\ Head(writerQ).by \in Workers \cup {None}
         /\ Head(writerQ).chunk \in Chunks
         /\ RequestOK(Head(writerQ))
<1>1. writerQ \in Seq([by : Workers \cup {None}, chunk : Chunks])
  BY DEF IInv, Types, TypeOK
<1>2. /\ 1 \in DOMAIN writerQ
      /\ Head(writerQ) = writerQ[1]
      /\ Head(writerQ) \in [by : Workers \cup {None}, chunk : Chunks]
  BY <1>1, HeadIsFirst
<1> QED BY <1>2 DEF IInv, QueueOK

-----------------------------------------------------------------------------
(* Only an append changes a file, and only a commit the rows. *)
LEMMA OnlyCommitsAdd ==
  ASSUME [Next]_vars
  PROVE  \/ UNCHANGED <<file, rows>>
         \/ Commit
         \/ \E s \in Sources : Append1(s)
<1>1. ASSUME NEW w \in Workers, WorkerStep(w) PROVE UNCHANGED <<file, rows>>
  BY <1>1 DEF store, world, WorkerStep, Lease, ReadFacts, ReadCursor, IdentityChanged,
     RefuseContinuation, BuildNothing, Build, Submit, FinishProgress, FinishNothing, FinishError
<1>2. ASSUME NEW w \in Workers, Fault(w) \/ Cancel(w) PROVE UNCHANGED <<file, rows>>
  BY <1>2 DEF store, world, Fault, Cancel
<1>3. ASSUME WriterStep \/ CommitFails PROVE UNCHANGED <<file, rows>> \/ Commit
  BY <1>3 DEF store, world, WriterStep, CommitReplay, CommitImmutableConflict,
     CommitCursorConflict, CommitFails, Answer
<1>4. ASSUME NEW t \in Sources, Register(t) \/ Refresh(t) PROVE UNCHANGED <<file, rows>>
  BY <1>4 DEF store, Register, Refresh
<1>5. ASSUME NEW t \in Sources, NEW n \in Sizes, Signal(t, n) PROVE UNCHANGED <<file, rows>>
  BY <1>5 DEF store, world, Signal
<1>6. ASSUME Crash PROVE UNCHANGED <<file, rows>>
  BY <1>6 DEF store, Crash
<1>7. ASSUME UNCHANGED vars PROVE UNCHANGED <<file, rows>>
  BY <1>7 DEF store, world, vars
<1> QED BY <1>1, <1>2, <1>3, <1>4, <1>5, <1>6, <1>7 DEF Next

(* Rows are only added, and files only grow. *)
LEMMA Grows ==
  ASSUME IInv, [Next]_vars, NEW s \in Sources
  PROVE  /\ rows[s] \subseteq rows'[s]
         /\ file[s] <= file'[s] /\ file[s] \in Nat /\ file'[s] \in Nat /\ file'[s] \in Sizes
<1>1. TypeOK /\ file[s] \in Sizes /\ file[s] \in Nat
  BY IngestionAssumption DEF IInv, Types, TypeOK, Sizes
<1>2. CASE UNCHANGED <<file, rows>>
  BY <1>1, <1>2
<1>3. ASSUME NEW t \in Sources, Append1(t)
      PROVE  rows[s] \subseteq rows'[s] /\ file[s] <= file'[s] /\ file'[s] \in Sizes
  BY <1>1, <1>3, IngestionAssumption DEF Append1, TypeOK, store, Sizes
<1>4. CASE Commit
  BY <1>1, <1>4 DEF Commit, Answer, world, TypeOK
<1>5. rows[s] \subseteq rows'[s] /\ file[s] <= file'[s] /\ file'[s] \in Sizes
  BY <1>2, <1>3, <1>4, OnlyCommitsAdd
<1> QED BY <1>1, <1>5, IngestionAssumption DEF Sizes

(* What extends the durable rows within the file keeps doing so. *)
LEMMA ExtendsStays ==
  ASSUME IInv, [Next]_vars, NEW c \in Chunks, Extends(c)
  PROVE  Extends(c)'
<1>1. /\ c.src \in Sources
      /\ 2 * c.from.done \in Nat /\ 2 * c.next.done \in Nat
  BY IngestionAssumption DEF Chunks, Cursors
<1>2. /\ file[c.src] \in Nat /\ file'[c.src] \in Nat
      /\ file[c.src] <= file'[c.src] /\ rows[c.src] \subseteq rows'[c.src]
  BY <1>1, Grows
<1> QED BY <1>1, <1>2 DEF Extends, WasDurable

(* A worker that a step leaves alone keeps what it holds. *)
LEMMA JobStays ==
  ASSUME IInv, [Next]_vars, NEW w \in Workers, job'[w] = job[w]
  PROVE  JobOK(w)'
<1>1. JobOK(w)
  BY DEF IInv
<1>2. CASE job[w].pc \in {"idle"}
  BY <1>1, <1>2 DEF JobOK
<1>3. CASE job[w].pc # "idle"
  <2>1. /\ file[job[w].src] \in Nat /\ file'[job[w].src] \in Nat
        /\ file[job[w].src] <= file'[job[w].src] /\ rows[job[w].src] \subseteq rows'[job[w].src]
    BY <1>1, <1>3, Grows DEF JobOK
  <2>2. job[w].pc \in {"facts", "cursor"} =>
          job[w].facts \in Facts /\ job[w].facts.size <= file'[job[w].src]
    BY <1>1, <2>1, IngestionAssumption DEF JobOK, Facts, Sizes
  <2>3. job[w].pc = "cursor" => job[w].from \in Cursors /\ WasDurable(job[w].src, job[w].from)'
    <3> SUFFICES ASSUME job[w].pc = "cursor"
                 PROVE  job[w].from \in Cursors /\ WasDurable(job[w].src, job[w].from)'
      OBVIOUS
    <3>1. job[w].from \in Cursors /\ WasDurable(job[w].src, job[w].from)
      BY <1>1 DEF JobOK
    <3>2. 2 * job[w].from.done \in Nat
      BY <3>1, IngestionAssumption DEF Cursors
    <3> QED BY <3>1, <3>2, <2>1 DEF WasDurable
  <2>4. job[w].pc \in {"built", "sent"} =>
          job[w] \in Batches /\ job[w].chunk.src = job[w].src /\ Extends(job[w].chunk)'
    BY <1>1, ExtendsStays DEF JobOK, Batches
  <2>5. job[w].pc = "answered" /\ job[w].result = "ok" =>
          Before(job[w].next) \subseteq rows'[job[w].src]
    BY <1>1, <2>1 DEF JobOK
  <2> QED BY <1>1, <1>3, <2>2, <2>3, <2>4, <2>5 DEF JobOK
<1> QED BY <1>2, <1>3

-----------------------------------------------------------------------------
(* Only a worker's own steps and answers change what it holds, and types   *)
(* of the durable state, the queue and the targets stay what they are.     *)
LEMMA TypesStay ==
  ASSUME IInv, [Next]_vars
  PROVE  Types'
<1> USE IngestionAssumption
<1>0. TypeOK /\ clock \in 0 .. MaxFacts /\ DOMAIN job = Workers /\ \A w \in Workers : JobOK(w)
  BY DEF IInv, Types
<1>1. ASSUME NEW s \in Sources, Append1(s) PROVE Types'
  BY <1>0, <1>1 DEF Append1, memory, store, Types, TypeOK, Sizes
<1>2. ASSUME NEW s \in Sources, Register(s) \/ Refresh(s) PROVE Types'
  <2>1. Register(s)
    BY <1>2 DEF Refresh
  <2>2. clock' \in 1 .. MaxFacts
    BY <1>0, <2>1 DEF Register
  <2>3. [size |-> file[s], seen |-> clock'] \in Facts
    BY <1>0, <2>2 DEF Facts, TypeOK
  <2>4. facts' \in [Sources -> Facts \cup {None}]
    BY <1>0, <2>1, <2>3 DEF Register, TypeOK
  <2> QED BY <1>0, <2>1, <2>2, <2>4 DEF Register, store, Types, TypeOK
<1>3. ASSUME NEW s \in Sources, NEW t \in Sizes, Signal(s, t) PROVE Types'
  <2>1. ASSUME NEW n \in Sizes PROVE Larger(n, t) \in Sizes
    BY DEF Larger
  <2> QED BY <1>0, <1>3, <2>1 DEF Signal, store, world, Types, TypeOK
<1>4. ASSUME NEW w \in Workers, NEW s \in Sources, Lease(w, s) PROVE Types'
  BY <1>0, <1>4 DEF Lease, store, world, Types, TypeOK
<1>5. ASSUME NEW w \in Workers, job[w].src \in Sources, GiveUp(w) \/ Retry(w),
             UNCHANGED <<facts, writerQ, store, world>>
      PROVE  Types'
  BY <1>0, <1>5 DEF GiveUp, Retry, store, world, Types, TypeOK
<1>6. ASSUME NEW w \in Workers, ReadFacts(w) PROVE Types'
  <2>1. job[w].src \in Sources
    BY <1>0, <1>6 DEF ReadFacts, JobOK
  <2>2. CASE GiveUp(w)
    BY <1>5, <1>6, <2>1, <2>2 DEF ReadFacts
  <2>3. CASE ~GiveUp(w)
    BY <1>0, <1>6, <2>3 DEF ReadFacts, store, world, Types, TypeOK
  <2> QED BY <2>2, <2>3
<1>7. ASSUME NEW w \in Workers,
             Fault(w) \/ IdentityChanged(w) \/ RefuseContinuation(w) \/ FinishError(w)
      PROVE  Types'
  <2>1. job[w].src \in Sources
    BY <1>0, <1>7 DEF Fault, IdentityChanged, RefuseContinuation, FinishError, JobOK
  <2> QED BY <1>5, <1>7, <2>1 DEF Fault, IdentityChanged, RefuseContinuation, FinishError
<1>8. ASSUME NEW w \in Workers, ReadCursor(w) \/ BuildNothing(w) \/ Build(w) PROVE Types'
  BY <1>0, <1>8 DEF ReadCursor, BuildNothing, Build, store, world, Types, TypeOK
<1>9. ASSUME NEW w \in Workers, Submit(w) PROVE Types'
  <2>1. [by |-> w, chunk |-> job[w].chunk] \in [by : Workers \cup {None}, chunk : Chunks]
    BY <1>0, <1>9 DEF Submit, JobOK, Batches
  <2>2. writerQ' \in Seq([by : Workers \cup {None}, chunk : Chunks])
    BY <1>0, <1>9, <2>1, AppendProperties DEF Submit, TypeOK
  <2> QED BY <1>0, <1>9, <2>2 DEF Submit, store, world, Types, TypeOK
<1>10. ASSUME NEW w \in Workers, FinishProgress(w) \/ FinishNothing(w) PROVE Types'
  <2>1. job[w].src \in Sources
    BY <1>0, <1>10 DEF FinishProgress, FinishNothing, JobOK
  <2> QED BY <1>0, <1>10, <2>1 DEF FinishProgress, FinishNothing, store, world, Types, TypeOK
<1>11. ASSUME NEW result, Answer(result), writerQ # <<>>
       PROVE  /\ writerQ' \in Seq([by : Workers \cup {None}, chunk : Chunks])
              /\ DOMAIN job' = Workers
              /\ UNCHANGED <<facts, waiting, leased, health, file, clock>>
  BY <1>0, <1>11, HeadTailProperties DEF Answer, world, TypeOK
<1>12. CASE Commit
  <2>1. Head(writerQ).chunk \in Chunks
    BY <1>12, HeadIsSound DEF Commit
  <2>2. /\ cursor' \in [Sources -> Cursors]
        /\ digest' \in [Sources -> Chunks \cup {None}]
    BY <1>0, <1>12, <2>1 DEF Commit, TypeOK, Chunks
  <2>3. rows' \in [Sources -> SUBSET ((1 .. MaxRecords) \X (1 .. MaxPages))]
    <3>1. Before(Head(writerQ).chunk.next) \subseteq (1 .. MaxRecords) \X (1 .. MaxPages)
      BY DEF Before
    <3> QED BY <1>0, <1>12, <3>1 DEF Commit, TypeOK
  <2> QED BY <1>0, <1>11, <1>12, <2>2, <2>3 DEF Commit, Types, TypeOK
<1>13. CASE CommitReplay \/ CommitImmutableConflict \/ CommitCursorConflict \/ CommitFails
  <2>1. writerQ # <<>> /\ UNCHANGED store /\ \E result : Answer(result)
    BY <1>13 DEF CommitReplay, CommitImmutableConflict, CommitCursorConflict, CommitFails
  <2> QED BY <1>0, <1>11, <2>1 DEF store, Types, TypeOK
<1>14. ASSUME NEW w \in Workers, Cancel(w) PROVE Types'
  <2>1. job[w].src \in Sources
    BY <1>0, <1>14 DEF Cancel, JobOK
  <2>2. writerQ' \in Seq([by : Workers \cup {None}, chunk : Chunks])
    <3> DEFINE R == [by : Workers \cup {None}, chunk : Chunks]
    <3>1. DOMAIN writerQ = 1 .. Len(writerQ) /\ Len(writerQ) \in Nat
      BY <1>0, LenProperties DEF TypeOK
    <3>2. ASSUME NEW i \in DOMAIN writerQ PROVE writerQ'[i] \in R
      <4>1. writerQ[i] \in R
        BY <1>0, <3>1, ElementOfSeq DEF TypeOK
      <4>2. [writerQ[i] EXCEPT !.by = None] \in R
        BY <4>1
      <4> QED BY <1>14, <4>1, <4>2 DEF Cancel
    <3>3. DOMAIN writerQ' = 1 .. Len(writerQ) /\ writerQ' = [i \in 1 .. Len(writerQ) |-> writerQ'[i]]
      BY <1>14, <3>1 DEF Cancel
    <3> HIDE DEF R
    <3>4. writerQ' \in [1 .. Len(writerQ) -> R]
      BY <3>1, <3>2, <3>3
    <3>5. writerQ' \in Seq(R)
      BY <3>1, <3>4, SeqDef
    <3> QED BY <3>5 DEF R
  <2> QED BY <1>0, <1>14, <2>1, <2>2 DEF Cancel, store, Types, TypeOK
<1>15. CASE Crash
  BY <1>0, <1>15, EmptySeq DEF Crash, store, Types, TypeOK
<1>16. CASE UNCHANGED vars
  BY <1>0, <1>16 DEF vars, memory, store, world, Types, TypeOK
<1> QED BY <1>1, <1>2, <1>3, <1>4, <1>6, <1>7, <1>8, <1>9, <1>10, <1>12, <1>13, <1>14,
           <1>15, <1>16 DEF Next, WorkerStep, WriterStep

-----------------------------------------------------------------------------
(* A commit moves cursor and rows together: the rows behind the expected   *)
(* cursor were there, the batch adds those up to its own end.              *)
LEMMA CommitKeepsStore ==
  ASSUME IInv, [Next]_vars, Commit
  PROVE  StoreOK'
<1> DEFINE c == Head(writerQ).chunk
<1>1. c \in Chunks /\ Extends(c) /\ c.src \in Sources
  BY HeadIsSound DEF Commit, RequestOK, Chunks
<1>2. /\ cursor[c.src] = c.from
      /\ rows' = [rows EXCEPT ![c.src] = @ \cup (Before(c.next) \ Before(c.from))]
      /\ cursor' = [cursor EXCEPT ![c.src] = c.next]
      /\ UNCHANGED <<facts, file>>
  BY DEF Commit, Answer, world
<1> HIDE DEF c
<1>3. StoreOK /\ TypeOK
  BY DEF IInv, Types
<1>4. rows[c.src] = Before(c.from)
  BY <1>1, <1>2, <1>3 DEF StoreOK, RowsMatchCursor
<1>5. Before(c.from) \subseteq Before(c.next) /\ 2 * c.next.done <= file[c.src]
  BY <1>1 DEF Extends
<1>6. rows'[c.src] = Before(c.next)
  <2>1. rows'[c.src] = rows[c.src] \cup (Before(c.next) \ Before(c.from))
    BY <1>1, <1>2, <1>3 DEF TypeOK
  <2> QED BY <1>4, <1>5, <2>1
<1>7. RowsMatchCursor'
  BY <1>1, <1>2, <1>3, <1>6 DEF StoreOK, RowsMatchCursor, TypeOK
<1>8. \A s \in Sources : 2 * cursor'[s].done <= file'[s]
  BY <1>1, <1>2, <1>3, <1>5 DEF StoreOK, TypeOK
<1> QED BY <1>2, <1>3, <1>7, <1>8 DEF StoreOK

(* The store stays sound: rows, cursor and file agree after every step.    *)
LEMMA StoreStays ==
  ASSUME IInv, [Next]_vars
  PROVE  StoreOK'
<1>0. StoreOK /\ TypeOK /\ TypeOK'
  BY TypesStay DEF IInv, Types
<1>1. ASSUME UNCHANGED <<cursor, rows>>,
             \A s \in Sources : facts'[s] \in {None, facts[s]}
      PROVE  StoreOK'
  <2>1. RowsMatchCursor'
    BY <1>0, <1>1 DEF StoreOK, RowsMatchCursor
  <2>2. ASSUME NEW s \in Sources PROVE 2 * cursor'[s].done <= file'[s]
    <3>1. 2 * cursor[s].done \in Nat
      BY <1>0, IngestionAssumption DEF TypeOK, Cursors
    <3> QED BY <1>0, <1>1, <3>1, Grows DEF StoreOK
  <2>3. ASSUME NEW s \in Sources, facts'[s] # None PROVE facts'[s].size <= file'[s]
    <3>1. facts'[s] = facts[s]
      BY <1>1, <2>3
    <3>2. facts[s].size \in Nat /\ facts[s].size <= file[s]
      BY <1>0, <2>3, <3>1, IngestionAssumption DEF StoreOK, TypeOK, Facts, Sizes
    <3> QED BY <3>1, <3>2, Grows
  <2> QED BY <2>1, <2>2, <2>3 DEF StoreOK
<1>2. ASSUME NEW s \in Sources, Append1(s) PROVE StoreOK'
  BY <1>1, <1>2 DEF Append1, memory, store
<1>3. ASSUME NEW s \in Sources, Register(s) \/ Refresh(s) PROVE StoreOK'
  <2>1. Register(s)
    BY <1>3 DEF Refresh
  <2>2. facts'[s].size = file'[s] /\ file'[s] \in Nat
    BY <1>0, <2>1, Grows DEF Register, TypeOK
  <2>3. \A x \in Sources : x # s => facts'[x] = facts[x]
    BY <1>0, <2>1 DEF Register, TypeOK
  <2> QED BY <1>0, <2>1, <2>2, <2>3 DEF Register, store, StoreOK, RowsMatchCursor
<1>4. ASSUME NEW s \in Sources, NEW t \in Sizes, Signal(s, t) PROVE StoreOK'
  BY <1>1, <1>4 DEF Signal, store
<1>5. ASSUME NEW w \in Workers, WorkerStep(w) \/ Fault(w) PROVE StoreOK'
  <2>1. UNCHANGED <<facts, cursor, rows>>
    BY <1>5 DEF WorkerStep, Lease, ReadFacts, ReadCursor, IdentityChanged, RefuseContinuation,
       BuildNothing, Build, Submit, FinishProgress, FinishNothing, FinishError, Fault, store
  <2> QED BY <1>1, <2>1
<1>6. ASSUME NEW w \in Workers, Cancel(w) PROVE StoreOK'
  BY <1>1, <1>6 DEF Cancel, store
<1>7. CASE Commit
  BY <1>7, CommitKeepsStore
<1>8. CASE CommitReplay \/ CommitImmutableConflict \/ CommitCursorConflict \/ CommitFails
  BY <1>1, <1>8 DEF CommitReplay, CommitImmutableConflict, CommitCursorConflict, CommitFails,
     Answer, store
<1>9. CASE Crash
  BY <1>1, <1>9 DEF Crash, store
<1>10. CASE UNCHANGED vars
  BY <1>1, <1>10 DEF vars, memory, store
<1> QED BY <1>2, <1>3, <1>4, <1>5, <1>6, <1>7, <1>8, <1>9, <1>10 DEF Next, WriterStep

-----------------------------------------------------------------------------
(* What a worker holds after its own step, by the point it reached. *)
LEMMA JobsStay ==
  ASSUME IInv, [Next]_vars, NEW w \in Workers
  PROVE  JobOK(w)'
<1>0. /\ TypeOK /\ TypeOK' /\ StoreOK /\ StoreOK' /\ JobOK(w) /\ DOMAIN job = Workers
  BY TypesStay, StoreStays DEF IInv, Types
<1>1. ASSUME job'[w] = Idle PROVE JobOK(w)'
  BY <1>1 DEF JobOK, Idle
<1>2. ASSUME NEW s \in Sources, NEW t \in Sizes, NEW n \in 0 .. Retries,
             job'[w] = Attempt(s, t, n)
      PROVE  JobOK(w)'
  BY <1>2 DEF JobOK, Attempt
<1>4. ASSUME NEW s \in Sources, Lease(w, s) PROVE JobOK(w)'
  <2>1. waiting[s] \in Sizes /\ 0 \in 0 .. Retries
    BY <1>0, <1>4, IngestionAssumption DEF Lease, TypeOK
  <2>2. job'[w] = Attempt(s, waiting[s], 0)
    BY <1>0, <1>4 DEF Lease
  <2> QED BY <1>2, <2>1, <2>2
<1>5. ASSUME Retry(w) \/ GiveUp(w), job[w].pc \notin {"idle", "nothing"} PROVE JobOK(w)'
  <2>1. job[w].src \in Sources /\ job[w].target \in Sizes /\ job[w].retry \in 0 .. Retries
    BY <1>0, <1>5 DEF JobOK
  <2>2. CASE job'[w] = Idle
    BY <1>1, <2>2
  <2>3. CASE job'[w] = Attempt(job[w].src, job[w].target, job[w].retry + 1)
             /\ job[w].retry < Retries
    <3>1. job[w].retry + 1 \in 0 .. Retries
      BY <2>1, <2>3, IngestionAssumption
    <3> QED BY <1>2, <2>1, <2>3, <3>1
  <2> QED BY <1>0, <1>5, <2>2, <2>3 DEF Retry, GiveUp
<1>6. ASSUME ReadFacts(w) PROVE JobOK(w)'
  <2>1. CASE facts[job[w].src] = None
    BY <1>5, <1>6, <2>1 DEF ReadFacts
  <2>2. CASE facts[job[w].src] # None
    <3>1. /\ job'[w] = [pc |-> "facts", src |-> job[w].src, target |-> job[w].target,
                       retry |-> job[w].retry, facts |-> facts[job[w].src]]
          /\ UNCHANGED file
      BY <1>0, <1>6, <2>2 DEF ReadFacts, world
    <3>2. /\ job[w].src \in Sources /\ job[w].target \in Sizes /\ job[w].retry \in 0 .. Retries
          /\ facts[job[w].src] \in Facts /\ facts[job[w].src].size <= file[job[w].src]
      BY <1>0, <1>6, <2>2 DEF ReadFacts, JobOK, StoreOK, TypeOK
    <3> QED BY <3>1, <3>2 DEF JobOK
  <2> QED BY <2>1, <2>2
<1>7. ASSUME ReadCursor(w) PROVE JobOK(w)'
  <2>1. /\ job'[w] = [pc |-> "cursor", src |-> job[w].src, target |-> job[w].target,
                     retry |-> job[w].retry, facts |-> job[w].facts,
                     from |-> cursor[job[w].src]]
        /\ UNCHANGED <<file, rows>>
    BY <1>0, <1>7 DEF ReadCursor, store, world
  <2>2. /\ job[w].src \in Sources /\ job[w].target \in Sizes /\ job[w].retry \in 0 .. Retries
        /\ job[w].facts \in Facts /\ job[w].facts.size <= file[job[w].src]
    BY <1>0, <1>7 DEF ReadCursor, JobOK
  <2>3. cursor[job[w].src] \in Cursors /\ WasDurable(job[w].src, cursor[job[w].src])
    BY <1>0, <2>2 DEF StoreOK, RowsMatchCursor, TypeOK, WasDurable
  <2>4. WasDurable(job[w].src, cursor[job[w].src])'
        <=> Before(cursor'[job'[w].src]) \subseteq rows'[job'[w].src]
            /\ 2 * cursor'[job'[w].src].done <= file'[job'[w].src]
    BY DEF WasDurable
  <2> QED BY <2>1, <2>2, <2>3 DEF JobOK, WasDurable
<1>8. ASSUME BuildNothing(w) PROVE JobOK(w)'
  BY <1>0, <1>8 DEF BuildNothing, JobOK
<1>9. ASSUME Build(w) PROVE JobOK(w)'
  <2>1. PICK n \in StopsAt(job[w].from, DecodeTarget(w), job[w].facts.seen) :
          job' = [job EXCEPT ![w] =
            [pc |-> "built", src |-> job[w].src, target |-> job[w].target,
             retry |-> job[w].retry, chunk |-> ChunkTo(w, n),
             more |-> \/ n # End(job[w].from, DecodeTarget(w))
                      \/ Cardinality(Before(n) \ Before(job[w].from)) = Batch]]
    BY <1>9 DEF Build
  <2>2. /\ job[w].src \in Sources /\ job[w].target \in Sizes /\ job[w].retry \in 0 .. Retries
        /\ job[w].facts \in Facts /\ job[w].facts.size <= file[job[w].src]
        /\ job[w].from \in Cursors /\ WasDurable(job[w].src, job[w].from)
        /\ UNCHANGED <<file, rows>>
    BY <1>0, <1>9 DEF Build, JobOK, store, world
  <2>3. /\ DecodeTarget(w) \in Sizes /\ DecodeTarget(w) <= job[w].facts.size
        /\ job[w].facts.seen \in 1 .. MaxFacts
    BY <2>2, IngestionAssumption DEF DecodeTarget, Smaller, Sizes, Facts
  <2>4. /\ n \in Cursors
        /\ Before(job[w].from) \subseteq Before(n)
        /\ 2 * n.done <= 2 * job[w].from.done \/ 2 * n.done <= DecodeTarget(w)
    BY <2>1, <2>2, <2>3, StopsWithin
  <2>5. 2 * n.done <= file[job[w].src]
    <3>1. /\ 2 * n.done \in Nat /\ 2 * job[w].from.done \in Nat /\ DecodeTarget(w) \in Nat
          /\ job[w].facts.size \in Nat /\ file[job[w].src] \in Nat
      <4>1. n.done \in 0 .. MaxRecords /\ job[w].from.done \in 0 .. MaxRecords
        BY <2>2, <2>4 DEF Cursors
      <4>2. DecodeTarget(w) \in Nat /\ job[w].facts.size \in Nat
        BY <2>2, <2>3, IngestionAssumption DEF Sizes, Facts
      <4>3. 2 * n.done \in Nat /\ 2 * job[w].from.done \in Nat
        BY <4>1, IngestionAssumption
      <4>4. job[w].src \in Sources
        BY <2>2
      <4> QED BY <4>2, <4>3, <4>4, Grows
    <3>2. 2 * job[w].from.done <= file[job[w].src] /\ job[w].facts.size <= file[job[w].src]
      BY <2>2 DEF WasDurable
    <3> QED BY <2>3, <2>4, <3>1, <3>2
  <2>6. ChunkTo(w, n) \in Chunks /\ ChunkTo(w, n).src = job[w].src
    BY <2>2, <2>3, <2>4 DEF ChunkTo, Chunks
  <2>7. Extends(ChunkTo(w, n))
    BY <2>2, <2>4, <2>5 DEF Extends, ChunkTo
  <2>8. PICK k : k = ChunkTo(w, n)
    OBVIOUS
  <2>9. k \in Chunks /\ k.src = job[w].src /\ Extends(k)'
    BY <2>6, <2>7, <2>8, ExtendsStays
  <2>10. /\ job'[w] \in Batches /\ job'[w].pc = "built" /\ job'[w].src \in Sources
         /\ job'[w].target \in Sizes /\ job'[w].retry \in 0 .. Retries
         /\ job'[w].chunk = k /\ k.src = job'[w].src
    BY <1>0, <2>1, <2>2, <2>8, <2>9 DEF Batches
  <2>11. Extends(job[w].chunk)'
    BY <2>9, <2>10 DEF Extends, WasDurable
  <2> QED BY <2>10, <2>11 DEF JobOK
<1>10. ASSUME Submit(w) PROVE JobOK(w)'
  <2>1. job'[w] = [job[w] EXCEPT !.pc = "sent"] /\ UNCHANGED <<file, rows>>
    BY <1>0, <1>10 DEF Submit, store, world
  <2>2. job[w] \in Batches /\ job[w].chunk.src = job[w].src /\ Extends(job[w].chunk)
    BY <1>0, <1>10 DEF Submit, JobOK
  <2>3. /\ job'[w] \in Batches /\ job'[w].pc = "sent" /\ job'[w].src = job[w].src
        /\ job'[w].target = job[w].target /\ job'[w].retry = job[w].retry
        /\ job'[w].chunk = job[w].chunk
    BY <2>1, <2>2 DEF Batches
  <2>4. job[w].src \in Sources /\ job[w].target \in Sizes /\ job[w].retry \in 0 .. Retries
    BY <2>2 DEF Batches
  <2>5. PICK k : k = job[w].chunk
    OBVIOUS
  <2>6. k \in Chunks /\ Extends(k)'
    BY <2>2, <2>5, ExtendsStays DEF Batches
  <2>7. Extends(job[w].chunk)'
    BY <2>3, <2>5, <2>6 DEF Extends, WasDurable
  <2> QED BY <2>2, <2>3, <2>4, <2>7 DEF JobOK
<1>11. ASSUME NEW result, Answer(result), writerQ # <<>>,
              result = "ok" =>
                Before(Head(writerQ).chunk.next) \subseteq rows'[Head(writerQ).chunk.src]
       PROVE  JobOK(w)'
  <2>1. CASE Head(writerQ).by = w
    <3>1. job[w].pc = "sent" /\ job[w].chunk = Head(writerQ).chunk
      BY <1>0, <1>11, <2>1, HeadIsSound, NoneAssumption DEF RequestOK
    <3>2. job[w] \in Batches /\ job[w].chunk.src = job[w].src
      BY <1>0, <3>1 DEF JobOK
    <3>3. w # None
      BY NoneAssumption
    <3>4. job'[w] = [pc |-> "answered", src |-> job[w].src, target |-> job[w].target,
                    retry |-> job[w].retry, next |-> job[w].chunk.next,
                    more |-> job[w].more, result |-> result]
      BY <1>0, <1>11, <2>1, <3>3 DEF Answer
    <3> QED BY <1>11, <3>1, <3>2, <3>4 DEF JobOK, Batches
  <2>2. CASE Head(writerQ).by # w
    <3>1. job'[w] = job[w]
      BY <1>0, <1>11, <2>2 DEF Answer
    <3> QED BY <3>1, JobStays
  <2> QED BY <2>1, <2>2
<1>12. CASE Commit \/ CommitReplay
  <2>1. Head(writerQ).chunk \in Chunks /\ Head(writerQ).chunk.src \in Sources
    BY <1>12, HeadIsSound DEF Commit, CommitReplay, Chunks
  <2>2. cursor'[Head(writerQ).chunk.src] = Head(writerQ).chunk.next
    BY <1>0, <1>12, <2>1 DEF Commit, CommitReplay, store, TypeOK
  <2>3. Before(Head(writerQ).chunk.next) = rows'[Head(writerQ).chunk.src]
    BY <1>0, <2>1, <2>2 DEF StoreOK, RowsMatchCursor
  <2> QED BY <1>11, <1>12, <2>3 DEF Commit, CommitReplay
<1>13. CASE CommitImmutableConflict \/ CommitCursorConflict \/ CommitFails
  <2>1. writerQ # <<>> /\ (Answer("fatal") \/ Answer("retry"))
    BY <1>13 DEF CommitImmutableConflict, CommitCursorConflict, CommitFails
  <2> QED BY <1>11, <2>1
<1>14. ASSUME NEW v \in Workers, WorkerStep(v) \/ Fault(v) \/ Cancel(v), v # w PROVE JobOK(w)'
  <2>1. job'[w] = job[w]
    BY <1>0, <1>14 DEF WorkerStep, Lease, ReadFacts, ReadCursor, IdentityChanged,
       RefuseContinuation, BuildNothing, Build, Submit, FinishProgress, FinishNothing,
       FinishError, Fault, Cancel, Retry, GiveUp
  <2> QED BY <2>1, JobStays
<1>15. ASSUME Fault(w) \/ IdentityChanged(w) \/ RefuseContinuation(w) \/ FinishError(w)
       PROVE  JobOK(w)'
  BY <1>5, <1>15 DEF Fault, IdentityChanged, RefuseContinuation, FinishError
<1>16. ASSUME FinishProgress(w) \/ FinishNothing(w) \/ Cancel(w) \/ Crash PROVE JobOK(w)'
  BY <1>0, <1>1, <1>16 DEF FinishProgress, FinishNothing, Cancel, Crash
<1>17. ASSUME \/ \E s \in Sources : Append1(s) \/ Register(s) \/ Refresh(s)
              \/ \E s \in Sources, t \in Sizes : Signal(s, t)
              \/ UNCHANGED vars
       PROVE  JobOK(w)'
  <2>1. job' = job
    BY <1>17 DEF Append1, Register, Refresh, Signal, memory, vars
  <2> QED BY <2>1, JobStays
<1>18. ASSUME WorkerStep(w) \/ Fault(w) \/ Cancel(w) PROVE JobOK(w)'
  BY <1>4, <1>6, <1>7, <1>8, <1>9, <1>10, <1>15, <1>16, <1>18 DEF WorkerStep
<1> QED BY <1>12, <1>13, <1>14, <1>16, <1>17, <1>18 DEF Next, WriterStep

-----------------------------------------------------------------------------
(* A request whose worker a step leaves alone stays as sound as it was. *)
LEMMA RequestStays ==
  ASSUME IInv, [Next]_vars, NEW r, r.chunk \in Chunks, RequestOK(r),
         r.by # None => job'[r.by] = job[r.by]
  PROVE  RequestOK(r)'
<1>1. PICK c \in Chunks : c = r.chunk
  OBVIOUS
<1>2. Extends(c)'
  BY <1>1, ExtendsStays DEF RequestOK
<1> QED BY <1>1, <1>2 DEF RequestOK, Extends, WasDurable

(* What waits for the writer stays sound, and its workers stay where they  *)
(* were.                                                                   *)
LEMMA QueueStays ==
  ASSUME IInv, [Next]_vars
  PROVE  QueueOK'
<1> DEFINE R == [by : Workers \cup {None}, chunk : Chunks]
<1>0. /\ writerQ \in Seq(R) /\ QueueOK /\ DOMAIN job = Workers
      /\ DOMAIN writerQ = 1 .. Len(writerQ) /\ Len(writerQ) \in Nat
      /\ \A i \in DOMAIN writerQ : writerQ[i] \in R
  <2>1. writerQ \in Seq(R) /\ QueueOK /\ DOMAIN job = Workers
    BY DEF IInv, Types, TypeOK
  <2> HIDE DEF R
  <2> QED BY <2>1, LenProperties, ElementOfSeq
<1>1. \A w \in Workers : JobOK(w)
  BY DEF IInv
<1>2. ASSUME writerQ' = writerQ, \A w \in Workers : job[w].pc = "sent" => job'[w] = job[w]
      PROVE  QueueOK'
  <2>1. ASSUME NEW i \in DOMAIN writerQ PROVE RequestOK(writerQ[i])'
    <3>1. PICK r \in R : r = writerQ[i]
      BY <1>0
    <3>2. RequestOK(r) /\ r.chunk \in Chunks /\ (r.by # None => job'[r.by] = job[r.by])
      BY <1>0, <1>2, <3>1 DEF QueueOK, RequestOK
    <3>3. RequestOK(r)'
      BY <3>2, RequestStays
    <3> QED BY <1>2, <3>1, <3>3 DEF RequestOK, Extends, WasDurable
  <2> QED BY <1>0, <1>2, <2>1 DEF QueueOK
<1>3. ASSUME NEW w \in Workers, Submit(w) PROVE QueueOK'
  <2>1. /\ writerQ' = Append(writerQ, [by |-> w, chunk |-> job[w].chunk])
        /\ job[w].pc = "built" /\ job' = [job EXCEPT ![w].pc = "sent"]
    BY <1>3 DEF Submit
  <2>2. job[w] \in Batches /\ Extends(job[w].chunk)
    BY <1>1, <2>1 DEF JobOK
  <2>3. job'[w].pc = "sent" /\ job'[w].chunk = job[w].chunk
    BY <1>0, <2>1, <2>2 DEF Batches
  <2>4. \A v \in Workers \ {w} : job'[v] = job[v]
    BY <1>0, <2>1
  <2>5. PICK r \in R : r = [by |-> w, chunk |-> job[w].chunk]
    BY <2>2 DEF Batches
  <2>6. /\ DOMAIN writerQ' = 1 .. (Len(writerQ) + 1)
        /\ \A i \in DOMAIN writerQ : writerQ'[i] = writerQ[i]
        /\ writerQ'[Len(writerQ) + 1] = r
    <3>1. writerQ' = Append(writerQ, r)
      BY <2>1, <2>5
    <3> QED BY <1>0, <3>1, AppendProperties, LenProperties
  <2>7. \A i \in DOMAIN writerQ : writerQ[i].by # w
    BY <1>0, <2>1, NoneAssumption DEF QueueOK, RequestOK
  <2>8. ASSUME NEW i \in DOMAIN writerQ PROVE RequestOK(writerQ[i])'
    <3>1. PICK q \in R : q = writerQ[i]
      BY <1>0
    <3>2. RequestOK(q) /\ q.chunk \in Chunks /\ (q.by # None => job'[q.by] = job[q.by])
      BY <1>0, <2>4, <2>7, <3>1 DEF QueueOK, RequestOK
    <3>3. RequestOK(q)'
      BY <3>2, RequestStays
    <3> QED BY <2>6, <3>1, <3>3 DEF RequestOK, Extends, WasDurable
  <2>9. RequestOK(r)'
    <3>1. PICK c \in Chunks : c = job[w].chunk
      BY <2>2 DEF Batches
    <3>2. Extends(c)'
      BY <2>2, <3>1, ExtendsStays
    <3> QED BY <2>3, <2>5, <3>1, <3>2 DEF RequestOK, Extends, WasDurable
  <2>10. ASSUME NEW i \in DOMAIN writerQ' PROVE RequestOK(writerQ[i])'
    <3>1. CASE i \in DOMAIN writerQ
      BY <2>8, <3>1
    <3>2. CASE i = Len(writerQ) + 1
      BY <2>6, <2>9, <3>2 DEF RequestOK, Extends, WasDurable
    <3> QED BY <1>0, <2>6, <3>1, <3>2
  <2>11. ASSUME NEW i \in DOMAIN writerQ', NEW j \in DOMAIN writerQ',
                writerQ'[i].by # None, writerQ'[i].by = writerQ'[j].by
         PROVE  i = j
    <3>1. writerQ'[Len(writerQ) + 1].by = w
      BY <2>5, <2>6
    <3>2. \A k \in DOMAIN writerQ' : k \in DOMAIN writerQ \/ k = Len(writerQ) + 1
      BY <1>0, <2>6
    <3> QED BY <1>0, <2>6, <2>7, <2>11, <3>1, <3>2 DEF QueueOK
  <2> QED BY <2>10, <2>11 DEF QueueOK
<1>4. ASSUME NEW result, Answer(result), writerQ # <<>> PROVE QueueOK'
  <2>1. /\ DOMAIN writerQ' = 1 .. (Len(writerQ) - 1)
        /\ \A i \in DOMAIN writerQ' : i + 1 \in DOMAIN writerQ /\ writerQ'[i] = writerQ[i + 1]
        /\ 1 \in DOMAIN writerQ /\ Head(writerQ) = writerQ[1]
    <3>1. writerQ' = Tail(writerQ)
      BY <1>4 DEF Answer
    <3> HIDE DEF R
    <3>2. /\ Tail(writerQ) \in Seq(R) /\ Len(Tail(writerQ)) = Len(writerQ) - 1
          /\ \A i \in 1 .. Len(Tail(writerQ)) : Tail(writerQ)[i] = writerQ[i + 1]
      BY <1>0, <1>4, HeadTailProperties
    <3>3. DOMAIN Tail(writerQ) = 1 .. (Len(writerQ) - 1)
      BY <3>2, LenProperties
    <3>4. 1 \in DOMAIN writerQ /\ Head(writerQ) = writerQ[1]
      BY <1>0, <1>4, HeadIsFirst
    <3> QED BY <1>0, <3>1, <3>2, <3>3, <3>4
  <2>2. ASSUME NEW i \in DOMAIN writerQ' PROVE RequestOK(writerQ[i])'
    <3>1. PICK q \in R : q = writerQ[i + 1]
      BY <1>0, <2>1
    <3>2. q.by # None => q.by # Head(writerQ).by
      BY <1>0, <2>1, <3>1 DEF QueueOK
    <3>3. q.by # None => job'[q.by] = job[q.by]
      BY <1>0, <1>4, <3>1, <3>2 DEF Answer
    <3>4. RequestOK(q)'
      BY <1>0, <2>1, <3>1, <3>3, RequestStays DEF QueueOK
    <3> QED BY <2>1, <3>1, <3>4 DEF RequestOK, Extends, WasDurable
  <2>3. ASSUME NEW i \in DOMAIN writerQ', NEW j \in DOMAIN writerQ',
               writerQ'[i].by # None, writerQ'[i].by = writerQ'[j].by
        PROVE  i = j
    <3>1. i + 1 = j + 1
      BY <1>0, <2>1, <2>3 DEF QueueOK
    <3> QED BY <2>1, <3>1
  <2> QED BY <2>2, <2>3 DEF QueueOK
<1>5. ASSUME NEW w \in Workers, Cancel(w) PROVE QueueOK'
  <2>1. /\ DOMAIN writerQ' = DOMAIN writerQ
        /\ \A i \in DOMAIN writerQ :
             writerQ'[i] = IF writerQ[i].by = w THEN [writerQ[i] EXCEPT !.by = None]
                           ELSE writerQ[i]
        /\ \A v \in Workers \ {w} : job'[v] = job[v]
    BY <1>0, <1>5 DEF Cancel
  <2>2. ASSUME NEW i \in DOMAIN writerQ
        PROVE  /\ writerQ'[i].chunk = writerQ[i].chunk
               /\ writerQ'[i].by = IF writerQ[i].by = w THEN None ELSE writerQ[i].by
    BY <1>0, <2>1
  <2>3. ASSUME NEW i \in DOMAIN writerQ PROVE RequestOK(writerQ[i])'
    <3>1. PICK q \in R : q = writerQ'[i]
      BY <1>0, <2>2, <2>1
    <3>2. RequestOK(q) /\ q.chunk \in Chunks /\ (q.by # None => job'[q.by] = job[q.by])
      BY <1>0, <2>1, <2>2, <3>1 DEF QueueOK, RequestOK
    <3>3. RequestOK(q)'
      BY <3>2, RequestStays
    <3> QED BY <3>1, <3>3 DEF RequestOK, Extends, WasDurable
  <2>4. ASSUME NEW i \in DOMAIN writerQ, NEW j \in DOMAIN writerQ,
               writerQ'[i].by # None, writerQ'[i].by = writerQ'[j].by
        PROVE  i = j
    BY <1>0, <2>2, <2>4 DEF QueueOK
  <2> QED BY <2>1, <2>3, <2>4 DEF QueueOK
<1>6. CASE Crash
  BY <1>6 DEF Crash, QueueOK
<1>7. ASSUME NEW w \in Workers, WorkerStep(w) \/ Fault(w), ~Submit(w) PROVE QueueOK'
  <2>1. writerQ' = writerQ
    BY <1>7 DEF WorkerStep, Lease, ReadFacts, ReadCursor, IdentityChanged, RefuseContinuation,
       BuildNothing, Build, FinishProgress, FinishNothing, FinishError, Fault
  <2>2. job[w].pc # "sent"
    BY <1>7 DEF WorkerStep, Lease, ReadFacts, ReadCursor, IdentityChanged, RefuseContinuation,
       BuildNothing, Build, FinishProgress, FinishNothing, FinishError, Fault, Idle
  <2>3. \A v \in Workers \ {w} : job'[v] = job[v]
    BY <1>0, <1>7 DEF WorkerStep, Lease, ReadFacts, ReadCursor, IdentityChanged,
       RefuseContinuation, BuildNothing, Build, FinishProgress, FinishNothing, FinishError,
       Fault, Retry, GiveUp
  <2> QED BY <1>2, <2>1, <2>2, <2>3
<1>8. ASSUME \/ \E s \in Sources : Append1(s) \/ Register(s) \/ Refresh(s)
             \/ \E s \in Sources, t \in Sizes : Signal(s, t)
             \/ UNCHANGED vars
      PROVE  QueueOK'
  <2>1. job' = job /\ writerQ' = writerQ
    BY <1>8 DEF Append1, Register, Refresh, Signal, memory, vars
  <2> QED BY <1>2, <2>1
<1>9. ASSUME WriterStep \/ CommitFails PROVE QueueOK'
  <2>1. writerQ # <<>> /\ \E result : Answer(result)
    BY <1>9 DEF WriterStep, Commit, CommitReplay, CommitImmutableConflict,
       CommitCursorConflict, CommitFails
  <2> QED BY <1>4, <2>1
<1> QED BY <1>3, <1>5, <1>6, <1>7, <1>8, <1>9 DEF Next

-----------------------------------------------------------------------------
(* A lease is taken and given back with the worker that holds it. *)
LEMMA ReadersStay ==
  ASSUME IInv, [Next]_vars
  PROVE  OneReaderPerSource'
<1>0. TypeOK /\ DOMAIN job = Workers /\ OneReaderPerSource /\ \A w \in Workers : JobOK(w)
  BY DEF IInv, Types
<1>1. ASSUME UNCHANGED <<leased, waiting>>,
             \A w \in Workers : job'[w] = Idle <=> job[w] = Idle,
             \A w \in AtWork : job'[w].src = job[w].src
      PROVE  OneReaderPerSource'
  <2>1. AtWork' = AtWork
    BY <1>1 DEF AtWork
  <2> QED BY <1>0, <1>1, <2>1 DEF OneReaderPerSource
<1>2. ASSUME NEW w \in AtWork,
             leased' = [leased EXCEPT ![job[w].src] = None],
             \A s \in Sources \ {job[w].src} : waiting'[s] = waiting[s],
             job' = [job EXCEPT ![w] = Idle]
      PROVE  OneReaderPerSource'
  <2>1. AtWork' = AtWork \ {w} /\ \A v \in AtWork' : job'[v] = job[v]
    BY <1>0, <1>2 DEF AtWork
  <2>2. job[w].src \in Sources
    BY <1>0, <1>2 DEF AtWork, JobOK, Idle
  <2>3. \A v, u \in AtWork' : job'[v].src = job'[u].src => v = u
    BY <1>0, <2>1 DEF OneReaderPerSource
  <2>4. ASSUME NEW s \in Sources
        PROVE  leased'[s] # None <=> \E v \in AtWork' : job'[v].src = s
    BY <1>0, <1>2, <2>1, <2>2 DEF OneReaderPerSource, TypeOK
  <2>5. ASSUME NEW s \in Sources PROVE leased'[s] = None \/ waiting'[s] = None
    BY <1>0, <1>2, <2>2 DEF OneReaderPerSource, TypeOK
  <2> QED BY <2>3, <2>4, <2>5 DEF OneReaderPerSource
<1>3. ASSUME NEW w \in Workers, NEW s \in Sources, Lease(w, s) PROVE OneReaderPerSource'
  <2>1. /\ w \notin AtWork /\ waiting[s] # None /\ leased[s] = None
        /\ leased' = [leased EXCEPT ![s] = waiting[s]]
        /\ waiting' = [waiting EXCEPT ![s] = None]
        /\ job' = [job EXCEPT ![w] = Attempt(s, waiting[s], 0)]
    BY <1>0, <1>3 DEF Lease, OneReaderPerSource, AtWork
  <2>2. /\ AtWork' = AtWork \cup {w} /\ job'[w].src = s
        /\ \A v \in AtWork : v # w /\ job'[v] = job[v]
    BY <1>0, <2>1 DEF AtWork, Attempt, Idle
  <2>3. \A v \in AtWork : job[v].src # s
    BY <1>0, <2>1 DEF OneReaderPerSource
  <2>4. \A v, u \in AtWork' : job'[v].src = job'[u].src => v = u
    BY <1>0, <2>2, <2>3 DEF OneReaderPerSource
  <2>5. ASSUME NEW x \in Sources
        PROVE  leased'[x] # None <=> \E v \in AtWork' : job'[v].src = x
    BY <1>0, <2>1, <2>2 DEF OneReaderPerSource, TypeOK
  <2>6. ASSUME NEW x \in Sources PROVE leased'[x] = None \/ waiting'[x] = None
    BY <1>0, <2>1 DEF OneReaderPerSource, TypeOK
  <2> QED BY <2>4, <2>5, <2>6 DEF OneReaderPerSource
<1>4. ASSUME NEW w \in Workers, job[w].pc \in {"start", "facts", "cursor", "answered"},
             Retry(w) \/ GiveUp(w)
      PROVE  OneReaderPerSource'
  <2>1. w \in AtWork
    BY <1>4 DEF AtWork, Idle
  <2>2. CASE GiveUp(w)
    BY <1>2, <2>1, <2>2 DEF GiveUp
  <2>3. CASE ~GiveUp(w)
    <3>1. /\ UNCHANGED <<leased, waiting>>
          /\ job' = [job EXCEPT ![w] = Attempt(job[w].src, job[w].target, job[w].retry + 1)]
      BY <1>4, <2>3 DEF Retry
    <3> QED BY <1>0, <1>1, <2>1, <3>1 DEF Attempt, Idle, AtWork
  <2> QED BY <2>2, <2>3
<1>5. ASSUME NEW w \in Workers,
             \/ ReadFacts(w) \/ Fault(w) \/ IdentityChanged(w)
             \/ RefuseContinuation(w) \/ FinishError(w)
      PROVE  OneReaderPerSource'
  <2>1. CASE Retry(w) \/ GiveUp(w)
    BY <1>4, <1>5, <2>1 DEF ReadFacts, Fault, IdentityChanged, RefuseContinuation, FinishError
  <2>2. CASE ~(Retry(w) \/ GiveUp(w))
    <3>1. /\ ReadFacts(w) /\ UNCHANGED <<leased, waiting>>
          /\ job' = [job EXCEPT ![w] =
               [pc |-> "facts", src |-> job[w].src, target |-> job[w].target,
                retry |-> job[w].retry, facts |-> facts[job[w].src]]]
      BY <1>5, <2>2 DEF ReadFacts, Fault, IdentityChanged, RefuseContinuation, FinishError
    <3> QED BY <1>0, <1>1, <3>1 DEF ReadFacts, Idle, AtWork
  <2> QED BY <2>1, <2>2
<1>6. ASSUME NEW w \in Workers, ReadCursor(w) \/ BuildNothing(w) \/ Build(w)
      PROVE  OneReaderPerSource'
  <2>1. /\ UNCHANGED <<leased, waiting>> /\ job[w] # Idle
        /\ \A v \in Workers \ {w} : job'[v] = job[v]
        /\ job'[w] # Idle /\ job'[w].src = job[w].src
    <3>1. CASE ReadCursor(w)
      BY <1>0, <3>1 DEF ReadCursor, Idle
    <3>2. CASE BuildNothing(w)
      BY <1>0, <3>2 DEF BuildNothing, Idle
    <3>3. CASE Build(w)
      BY <1>0, <3>3 DEF Build, Idle
    <3> QED BY <1>6, <3>1, <3>2, <3>3
  <2> QED BY <1>1, <2>1 DEF AtWork
<1>7. ASSUME NEW w \in Workers, Submit(w) PROVE OneReaderPerSource'
  <2>1. job[w] \in Batches
    BY <1>0, <1>7 DEF Submit, JobOK
  <2>2. /\ UNCHANGED <<leased, waiting>> /\ job[w] # Idle
        /\ \A v \in Workers \ {w} : job'[v] = job[v]
        /\ job'[w] # Idle /\ job'[w].src = job[w].src
    BY <1>0, <1>7, <2>1 DEF Submit, Batches, Idle
  <2> QED BY <1>1, <2>2 DEF AtWork
<1>8. ASSUME NEW w \in Workers, FinishProgress(w) \/ FinishNothing(w) \/ Cancel(w)
      PROVE  OneReaderPerSource'
  <2>1. w \in AtWork
    BY <1>8 DEF FinishProgress, FinishNothing, Cancel, AtWork, Idle
  <2>2. /\ leased' = [leased EXCEPT ![job[w].src] = None]
        /\ \A s \in Sources \ {job[w].src} : waiting'[s] = waiting[s]
        /\ job' = [job EXCEPT ![w] = Idle]
    BY <1>0, <1>8 DEF FinishProgress, FinishNothing, Cancel, TypeOK
  <2> QED BY <1>2, <2>1, <2>2
<1>9. ASSUME WriterStep \/ CommitFails PROVE OneReaderPerSource'
  <2>1. writerQ # <<>> /\ \E result : Answer(result)
    BY <1>9 DEF WriterStep, Commit, CommitReplay, CommitImmutableConflict,
       CommitCursorConflict, CommitFails
  <2>2. PICK result : Answer(result)
    BY <2>1
  <2> DEFINE w == Head(writerQ).by
  <2>3. w # None => w \in Workers /\ job[w].pc = "sent"
    BY <2>1, HeadIsSound DEF RequestOK
  <2>4. /\ UNCHANGED <<leased, waiting>>
        /\ w = None => job' = job
        /\ w # None => job' = [job EXCEPT ![w] =
             [pc |-> "answered", src |-> job[w].src, target |-> job[w].target,
              retry |-> job[w].retry, next |-> job[w].chunk.next, more |-> job[w].more,
              result |-> result]]
    BY <2>2 DEF Answer
  <2> HIDE DEF w
  <2>5. ASSUME NEW v \in Workers
        PROVE  (job'[v] = Idle <=> job[v] = Idle) /\ job'[v].src = job[v].src
    BY <1>0, <2>3, <2>4 DEF Idle
  <2> QED BY <1>1, <2>4, <2>5 DEF AtWork
<1>10. ASSUME NEW s \in Sources, NEW t \in Sizes, Signal(s, t) PROVE OneReaderPerSource'
  <2>1. job' = job /\ AtWork' = AtWork
    BY <1>10 DEF Signal, AtWork
  <2>2. \A n \in Sizes : Larger(n, t) \in Sizes
    BY DEF Larger
  <2>3. ASSUME NEW x \in Sources
        PROVE  (leased'[x] = None <=> leased[x] = None) /\ (leased[x] # None => waiting'[x] = waiting[x])
    BY <1>0, <1>10, <2>2, NoneAssumption DEF Signal, TypeOK
  <2> QED BY <1>0, <2>1, <2>3 DEF OneReaderPerSource
<1>11. CASE Crash
  <2>1. AtWork' = {}
    BY <1>11 DEF Crash, AtWork
  <2> QED BY <1>11, <2>1 DEF Crash, OneReaderPerSource
<1>12. ASSUME (\E s \in Sources : Append1(s) \/ Register(s) \/ Refresh(s)) \/ UNCHANGED vars
       PROVE  OneReaderPerSource'
  <2>1. UNCHANGED <<leased, waiting, job>>
    BY <1>12 DEF Append1, Register, Refresh, memory, vars
  <2> QED BY <1>1, <2>1
<1> QED BY <1>3, <1>5, <1>6, <1>7, <1>8, <1>9, <1>10, <1>11, <1>12 DEF Next, WorkerStep

-----------------------------------------------------------------------------
(* The invariant holds at the start.                                       *)
LEMMA InitGood == Init => IInv
<1> SUFFICES ASSUME Init PROVE IInv
  OBVIOUS
<1> USE IngestionAssumption
<1>1. Start \in Cursors /\ Before(Start) = {}
  BY DEF Start, Cursors, Before
<1>2. Types
  <2>1. writerQ \in Seq([by : Workers \cup {None}, chunk : Chunks])
    BY EmptySeq DEF Init
  <2> QED BY <1>1, <2>1 DEF Init, Types, TypeOK, Sizes
<1>3. StoreOK
  BY <1>1 DEF Init, StoreOK, RowsMatchCursor, Start
<1>4. \A w \in Workers : JobOK(w)
  BY DEF Init, JobOK, Idle
<1>5. QueueOK /\ OneReaderPerSource
  BY DEF Init, QueueOK, OneReaderPerSource, AtWork
<1> QED BY <1>2, <1>3, <1>4, <1>5 DEF IInv

(* The inductive invariant: what every worker holds at its point of an     *)
(* attempt was durable and fits the file, a request in the queue is the    *)
(* one its worker waits for, and the durable cursor names exactly the rows.*)
THEOREM IngestionInvariant == Spec => []IInv
<1>1. IInv /\ [Next]_vars => IInv'
  <2> SUFFICES ASSUME IInv, [Next]_vars PROVE IInv'
    OBVIOUS
  <2>1. Types' /\ StoreOK'
    BY TypesStay, StoreStays
  <2>2. (\A w \in Workers : JobOK(w))'
    BY JobsStay
  <2>3. QueueOK' /\ OneReaderPerSource'
    BY QueueStays, ReadersStay
  <2> QED BY <2>1, <2>2, <2>3 DEF IInv
<1> QED BY <1>1, InitGood, PTL DEF Spec

(* The durable cursor tells exactly which pages have their rows, whatever  *)
(* crashed, was dropped after its submission or raced another attempt      *)
(* between commit's rows and the cursor a worker read before.              *)
THEOREM RowsAlwaysMatchCursor == Spec => []RowsMatchCursor
<1>1. IInv => RowsMatchCursor
  BY DEF IInv, StoreOK
<1> QED BY <1>1, IngestionInvariant, PTL

(* One worker at most is at a source and the lease is held exactly as long *)
(* as it is; what a worker is told was committed is durable; every batch   *)
(* in flight starts at a cursor that was durable and fits the file.        *)
THEOREM AttemptsAreAlwaysSound == Spec => []AttemptsAreSound
<1>1. ASSUME IInv PROVE AttemptsAreSound
  <2>1. TypeOK /\ OneReaderPerSource /\ AcknowledgedIsDurable
    BY <1>1 DEF IInv, Types, JobOK, AcknowledgedIsDurable
  <2>2. ASSUME NEW c \in InFlightChunks
        PROVE  /\ Before(c.from) \subseteq rows[c.src]
               /\ Before(c.from) \subseteq Before(c.next)
               /\ 2 * c.next.done <= file[c.src]
    <3>1. Extends(c)
      BY <1>1 DEF IInv, QueueOK, RequestOK, JobOK, InFlightChunks
    <3> QED BY <3>1 DEF Extends, WasDurable
  <2> QED BY <2>1, <2>2 DEF AttemptsAreSound, NoBatchOutrunsItsFile
<1> QED BY <1>1, IngestionInvariant, PTL

-----------------------------------------------------------------------------
(* The pages behind a cursor are a prefix of the transcript's pages. *)
LEMMA BeforeIsPrefix ==
  ASSUME NEW c \in Cursors
  PROVE  Before(c) \in Feed!Prefixes
<1> USE IngestionAssumption
<1>1. c.done \in Nat /\ c.rest \in Nat
  BY DEF Cursors
<1>2. ASSUME NEW x \in Before(c) PROVE x \in Feed!AllPages
  <2>1. x \in (1 .. MaxRecords) \X (1 .. MaxPages) /\ Pages[x[1]] \in Nat /\ x[2] \in Nat
    BY <1>2 DEF Before
  <2>2. x[2] <= Pages[x[1]]
    BY <1>1, <1>2, <2>1 DEF Before
  <2> QED BY <2>1, <2>2 DEF Feed!AllPages
<1>3. ASSUME NEW y \in Before(c), NEW x \in Feed!AllPages, Feed!Earlier(x, y)
      PROVE  x \in Before(c)
  <2>1. /\ x \in (1 .. MaxRecords) \X (1 .. MaxPages) /\ x[1] \in Nat /\ x[2] \in Nat
        /\ y[1] \in Nat /\ y[2] \in Nat /\ Pages[x[1]] \in Nat /\ x[2] <= Pages[x[1]]
        /\ y[1] <= c.done
        /\ y[2] <= Pages[y[1]] - (IF y[1] = c.done THEN c.rest ELSE 0)
    BY <1>3 DEF Feed!AllPages, Before
  <2>2. CASE x[1] < y[1]
    BY <1>1, <2>1, <2>2 DEF Before
  <2>3. CASE x[1] = y[1] /\ x[2] <= y[2]
    BY <1>1, <2>1, <2>3 DEF Before
  <2> QED BY <1>3, <2>2, <2>3 DEF Feed!Earlier
<1> QED BY <1>2, <1>3 DEF Feed!Prefixes

(* A commit delivers the next prefix of one transcript. *)
LEMMA CommitDelivers ==
  ASSUME IInv, [Next]_vars, Commit
  PROVE  \E s \in Sources : Feed!Deliver(s)
<1> DEFINE c == Head(writerQ).chunk
<1>1. c \in Chunks /\ Extends(c) /\ c.src \in Sources /\ c.next \in Cursors
  BY HeadIsSound DEF Commit, RequestOK, Chunks
<1>2. /\ cursor[c.src] = c.from
      /\ rows' = [rows EXCEPT ![c.src] = @ \cup (Before(c.next) \ Before(c.from))]
      /\ file' = file
  BY DEF Commit, Answer, world
<1> HIDE DEF c
<1>3. rows[c.src] = Before(c.from) /\ DOMAIN rows = Sources
  BY <1>1, <1>2 DEF IInv, Types, TypeOK, StoreOK, RowsMatchCursor
<1>4. Before(c.from) \subseteq Before(c.next) /\ 2 * c.next.done <= file[c.src]
  BY <1>1 DEF Extends
<1>5. rows' = [rows EXCEPT ![c.src] = Before(c.next)]
  <2>1. rows[c.src] \cup (Before(c.next) \ Before(c.from)) = Before(c.next)
    BY <1>3, <1>4
  <2> QED BY <1>2, <2>1
<1>6. Before(c.next) \in Feed!Prefixes
  BY <1>1, BeforeIsPrefix
<1>7. ASSUME NEW x \in Before(c.next) PROVE x \in Feed!Complete(c.src)
  <2>1. x \in Feed!AllPages
    BY <1>6, <1>7 DEF Feed!Prefixes
  <2>2. x[1] \in Nat /\ x[1] <= c.next.done /\ c.next.done \in Nat /\ file[c.src] \in Nat
    BY <1>1, <1>7, Grows, IngestionAssumption DEF Before, Cursors
  <2>3. 2 * x[1] <= file[c.src]
    BY <1>4, <2>2
  <2> QED BY <2>1, <2>3 DEF Feed!Complete
<1>8. Feed!Deliver(c.src)
  BY <1>2, <1>3, <1>4, <1>5, <1>6, <1>7 DEF Feed!Deliver
<1> QED BY <1>1, <1>8

(* Ingestion implements TranscriptFeed: the rows the store's readers see   *)
(* of a transcript are a growing prefix of its pages, whole records only,  *)
(* through every interleaving, replay, dropped worker and crash.           *)
THEOREM IngestionDeliversInOrder == Spec => DeliversInOrder
<1>1. Init => Feed!Init
  BY DEF Init, Feed!Init
<1>2. IInv /\ [Next]_vars => [Feed!Next]_<<file, rows>>
  <2> SUFFICES ASSUME IInv, [Next]_vars PROVE [Feed!Next]_<<file, rows>>
    OBVIOUS
  <2>1. CASE Commit
    BY <2>1, CommitDelivers DEF Feed!Next
  <2>2. ASSUME NEW s \in Sources, Append1(s) PROVE Feed!Next
    BY <2>2 DEF Append1, store, Feed!Next, Feed!Grow
  <2> QED BY <2>1, <2>2, OnlyCommitsAdd
<1> QED BY <1>1, <1>2, IngestionInvariant, PTL DEF Spec, DeliversInOrder, Feed!Spec
=============================================================================
