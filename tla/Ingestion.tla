----------------------------- MODULE Ingestion -----------------------------
(***************************************************************************)
(* From a growing transcript to durable rows                               *)
(* (crates/agbox-ingest/src/coordinator.rs, identity.rs, record.rs and the *)
(* ingestion commit of crates/agbox-store/src/writer.rs).                  *)
(*                                                                         *)
(* Workers lease a source, read the coordinator's in-memory facts and the  *)
(* durable cursor, decode one bounded batch and hand it to the single      *)
(* writer, whose transaction moves the cursor and inserts the rows.  The   *)
(* file grows, facts are registered again, signals arrive, workers are     *)
(* dropped and the process crashes at any point between two of these.      *)
(*                                                                         *)
(* The file is a sequence of records of two units: a record is complete    *)
(* once its second unit (the newline) is there.  One record gives one or   *)
(* more pages (the Codex adapter's continuations), each a row of its own.  *)
(* KeyedQueue models the queue with its priorities and capacity; here one  *)
(* waiting and one leased target per source are enough.                    *)
(***************************************************************************)
EXTENDS Integers, Sequences, FiniteSets

CONSTANTS
  Sources,         \* source generations
  Workers,         \* decoder workers
  MaxRecords,      \* bound: records a transcript may reach
  MaxPages,        \* bound: pages one record may give
  Pages,           \* how many pages each record gives
  Batch,           \* MAX_BATCH_RECORDS: pages one commit may carry
  Retries,         \* delays of the retry policy
  MaxFacts,        \* bound: registrations, each at a time of its own
  MaxDisruptions,  \* bound: dropped workers and crashes together
  None             \* the absence of a target, facts, a chunk or a digest

ASSUME IngestionAssumption ==
  /\ MaxRecords \in Nat
  /\ MaxPages \in Nat
  /\ Pages \in [1 .. MaxRecords -> 1 .. MaxPages]
  /\ Batch \in Nat \ {0}
  /\ Retries \in Nat
  /\ MaxFacts \in Nat
  /\ MaxDisruptions \in Nat

Sizes == 0 .. 2 * MaxRecords

(* CoordinatorSource: the file size (with it go mtime and ctime) and the   *)
(* time at which the facts were observed.                                  *)
Facts == [size : Sizes, seen : 1 .. MaxFacts]

(* CursorState: records read, and the parser state: pages still owed for   *)
(* the last of them, bound to the observation time they were staged under. *)
Cursors == [done : 0 .. MaxRecords, rest : 0 .. MaxPages, seen : 0 .. MaxFacts]

Start == [done |-> 0, rest |-> 0, seen |-> 0]

(* IngestionChunk, identified by its two cursors and observation time. *)
Chunks == [src : Sources, from : Cursors, next : Cursors, seen : 1 .. MaxFacts]

ASSUME NoneAssumption == None \notin Sizes \cup Facts \cup Chunks \cup Workers

VARIABLES
  file,     \* size of each transcript
  facts,    \* the coordinator's registered facts of each source, or None
  waiting,  \* target of each waiting source, or None
  leased,   \* retained target of each leased source, or None
  health,   \* SourceHealth of each source
  job,      \* what each worker is doing
  writerQ,  \* requests submitted to the writer, in order
  cursor,   \* durable cursor of each source
  digest,   \* durable: the last chunk committed for each source, or None
  rows,     \* durable: the pages whose rows are stored
  clock,    \* registrations so far
  disruptions

memory == <<facts, waiting, leased, health, job, writerQ>>
store  == <<cursor, digest, rows>>
world  == <<file, clock, disruptions>>
vars   == <<memory, store, world>>

Idle == [pc |-> "idle"]

-----------------------------------------------------------------------------
(* The pages a cursor has behind it. *)
Before(c) ==
  {x \in (1 .. MaxRecords) \X (1 .. MaxPages) :
     /\ x[1] <= c.done
     /\ x[2] <= Pages[x[1]] - (IF x[1] = c.done THEN c.rest ELSE 0)}

Smaller(a, b) == IF a <= b THEN a ELSE b
Larger(a, b)  == IF a >= b THEN a ELSE b

(* Where decoding from c ends: at the last record that is complete within  *)
(* the target, with nothing owed.                                          *)
End(c, target) == [done |-> Larger(c.done, target \div 2), rest |-> 0, seen |-> 0]

(* build_chunk: the cursors a batch may stop at.  It holds at least one    *)
(* page and at most Batch, and may stop anywhere because of its byte limit.*)
StopsAt(c, target, seen) ==
  {n \in [done : c.done .. End(c, target).done, rest : 0 .. MaxPages,
          seen : {0, c.seen, seen}] :
     /\ IF n.done = 0 THEN n.rest = 0 ELSE n.rest < Pages[n.done]
     /\ Before(c) \subseteq Before(n)
     /\ Cardinality(Before(n) \ Before(c)) \in 1 .. Batch
     /\ n.seen = IF n.rest = 0 THEN 0
                 ELSE IF n.done = c.done THEN c.seen ELSE seen}

-----------------------------------------------------------------------------
Init ==
  /\ file = [s \in Sources |-> 0]
  /\ facts = [s \in Sources |-> None]
  /\ waiting = [s \in Sources |-> None]
  /\ leased = [s \in Sources |-> None]
  /\ health = [s \in Sources |-> "healthy"]
  /\ job = [w \in Workers |-> Idle]
  /\ writerQ = <<>>
  /\ cursor = [s \in Sources |-> Start]
  /\ digest = [s \in Sources |-> None]
  /\ rows = [s \in Sources |-> {}]
  /\ clock = 0
  /\ disruptions = 0

-----------------------------------------------------------------------------
(* The agent appends half a record to its transcript. *)
Append1(s) ==
  /\ file[s] < 2 * MaxRecords
  /\ file' = [file EXCEPT ![s] = @ + 1]
  /\ UNCHANGED <<memory, store, clock, disruptions>>

(* register_source: current facts of the file replace whatever was known,  *)
(* at any time, also while a worker is at this source.                     *)
Register(s) ==
  /\ clock < MaxFacts
  /\ clock' = clock + 1
  /\ facts' = [facts EXCEPT ![s] = [size |-> file[s], seen |-> clock']]
  /\ UNCHANGED <<waiting, leased, health, job, writerQ, store, file, disruptions>>

(* refresh_appended_source: only a strict append of known facts. *)
Refresh(s) ==
  /\ facts[s] # None
  /\ file[s] > facts[s].size
  /\ Register(s)

(* try_enqueue: a signal for a size the file has had. *)
Signal(s, t) ==
  /\ t <= file[s]
  /\ IF leased[s] # None
       THEN /\ leased' = [leased EXCEPT ![s] = Larger(@, t)]
            /\ UNCHANGED waiting
       ELSE /\ waiting' = [waiting EXCEPT ![s] = IF @ = None THEN t ELSE Larger(@, t)]
            /\ UNCHANGED leased
  /\ UNCHANGED <<facts, health, job, writerQ, store, world>>

-----------------------------------------------------------------------------
(* The job of a worker that starts an attempt with this many retries.  The *)
(* target is the one the item had when it was leased, for all attempts.    *)
Attempt(s, t, n) == [pc |-> "start", src |-> s, target |-> t, retry |-> n]

(* lease_one and the first lines of process_one. *)
Lease(w, s) ==
  /\ job[w] = Idle
  /\ waiting[s] # None
  /\ leased' = [leased EXCEPT ![s] = waiting[s]]
  /\ waiting' = [waiting EXCEPT ![s] = None]
  /\ job' = [job EXCEPT ![w] = Attempt(s, waiting[s], 0)]
  /\ UNCHANGED <<facts, health, writerQ, store, world>>

(* WorkLease::abandon after Exhausted: the slot is free, whatever targets  *)
(* were coalesced into it are gone.                                        *)
GiveUp(w) ==
  /\ health' = [health EXCEPT ![job[w].src] = "exhausted"]
  /\ leased' = [leased EXCEPT ![job[w].src] = None]
  /\ job' = [job EXCEPT ![w] = Idle]
  /\ UNCHANGED waiting

(* process_one on a retryable error: a fresh attempt, or the end. *)
Retry(w) ==
  IF job[w].retry < Retries
    THEN /\ job' = [job EXCEPT ![w] = Attempt(@.src, @.target, @.retry + 1)]
         /\ health' = [health EXCEPT ![job[w].src] = "retrying"]
         /\ UNCHANGED <<waiting, leased>>
    ELSE GiveUp(w)

(* process_attempt reads the registered facts. *)
ReadFacts(w) ==
  /\ job[w].pc = "start"
  /\ IF facts[job[w].src] = None
       THEN GiveUp(w)
       ELSE /\ job' = [job EXCEPT ![w] =
                 [pc |-> "facts", src |-> @.src, target |-> @.target,
                  retry |-> @.retry, facts |-> facts[@.src]]]
            /\ UNCHANGED <<waiting, leased, health>>
  /\ UNCHANGED <<facts, writerQ, store, world>>

(* process_attempt awaits the durable cursor. *)
ReadCursor(w) ==
  /\ job[w].pc = "facts"
  /\ job' = [job EXCEPT ![w] =
       [pc |-> "cursor", src |-> @.src, target |-> @.target,
        retry |-> @.retry, facts |-> @.facts, from |-> cursor[@.src]]]
  /\ UNCHANGED <<facts, waiting, leased, health, writerQ, store, world>>

(* A busy store or an I/O error under way. *)
Fault(w) ==
  /\ job[w].pc \in {"facts", "cursor"}
  /\ Retry(w)
  /\ UNCHANGED <<facts, writerQ, store, world>>

DecodeTarget(w) == Smaller(job[w].target, job[w].facts.size)

(* VerifiedSourceOpener::open: the file is no longer what the facts say. *)
IdentityChanged(w) ==
  /\ job[w].pc = "cursor"
  /\ job[w].facts.size # file[job[w].src]
  /\ Retry(w)
  /\ UNCHANGED <<facts, writerQ, store, world>>

(* Codex decode_continuation: owed pages staged under another observation  *)
(* time are refused, and no retry will change that.                        *)
Mismatch(w) == job[w].from.rest > 0 /\ job[w].from.seen # job[w].facts.seen

RefuseContinuation(w) ==
  /\ job[w].pc = "cursor"
  /\ job[w].facts.size = file[job[w].src]
  /\ Mismatch(w)
  /\ GiveUp(w)
  /\ UNCHANGED <<facts, writerQ, store, world>>

(* build_chunk with no complete record before the target. *)
BuildNothing(w) ==
  /\ job[w].pc = "cursor"
  /\ job[w].facts.size = file[job[w].src]
  /\ ~Mismatch(w)
  /\ job[w].from = End(job[w].from, DecodeTarget(w))
  /\ job' = [job EXCEPT ![w] = [pc |-> "nothing", src |-> @.src]]
  /\ UNCHANGED <<facts, waiting, leased, health, writerQ, store, world>>

ChunkTo(w, n) ==
  [src |-> job[w].src, from |-> job[w].from, next |-> n, seen |-> job[w].facts.seen]

(* build_chunk: one batch; it needs a continuation when a limit ended it.  *)
Build(w) ==
  /\ job[w].pc = "cursor"
  /\ job[w].facts.size = file[job[w].src]
  /\ ~Mismatch(w)
  /\ \E n \in StopsAt(job[w].from, DecodeTarget(w), job[w].facts.seen) :
       job' = [job EXCEPT ![w] =
         [pc |-> "built", src |-> @.src, target |-> @.target, retry |-> @.retry,
          chunk |-> ChunkTo(w, n),
          more |-> \/ n # End(job[w].from, DecodeTarget(w))
                   \/ Cardinality(Before(n) \ Before(job[w].from)) = Batch]]
  /\ UNCHANGED <<facts, waiting, leased, health, writerQ, store, world>>

(* submit_ingestion: the request is the writer's from here on. *)
Submit(w) ==
  /\ job[w].pc = "built"
  /\ writerQ' = Append(writerQ, [by |-> w, chunk |-> job[w].chunk])
  /\ job' = [job EXCEPT ![w].pc = "sent"]
  /\ UNCHANGED <<facts, waiting, leased, health, store, world>>

-----------------------------------------------------------------------------
(* run_writer: the head request is answered, unless its worker is gone. *)
Answer(result) ==
  LET w == Head(writerQ).by
  IN  /\ writerQ' = Tail(writerQ)
      /\ job' = IF w = None THEN job
                ELSE [job EXCEPT ![w] =
                   [pc |-> "answered", src |-> @.src, target |-> @.target,
                    retry |-> @.retry, next |-> @.chunk.next, more |-> @.more,
                    result |-> result]]
      /\ UNCHANGED <<facts, waiting, leased, health, world>>

Commit_Blindly ==
  /\ writerQ # <<>>
  /\ LET c == Head(writerQ).chunk
     IN  /\ cursor[c.src] # c.next
         /\ rows' = [rows EXCEPT ![c.src] = @ \cup (Before(c.next) \ Before(c.from))]
         /\ cursor' = [cursor EXCEPT ![c.src] = c.next]
         /\ digest' = [digest EXCEPT ![c.src] = c]
  /\ Answer("ok")

Commit_SkipsOwedPages ==
  /\ writerQ # <<>>
  /\ LET c == Head(writerQ).chunk
     IN  /\ cursor[c.src] # c.next
         /\ cursor[c.src] = c.from
         /\ rows' = [rows EXCEPT ![c.src] =
              @ \cup (Before(c.next) \ Before([c.from EXCEPT !.rest = 0]))]
         /\ cursor' = [cursor EXCEPT ![c.src] = c.next]
         /\ digest' = [digest EXCEPT ![c.src] = c]
  /\ Answer("ok")

(* commit: rows and cursor in one transaction, only from the expected      *)
(* cursor.                                                                 *)
Commit ==
  /\ writerQ # <<>>
  /\ LET c == Head(writerQ).chunk
     IN  /\ cursor[c.src] # c.next
         /\ cursor[c.src] = c.from
         /\ rows' = [rows EXCEPT ![c.src] = @ \cup (Before(c.next) \ Before(c.from))]
         /\ cursor' = [cursor EXCEPT ![c.src] = c.next]
         /\ digest' = [digest EXCEPT ![c.src] = c]
  /\ Answer("ok")

(* commit: the very chunk was committed last; nothing is inserted again. *)
CommitReplay ==
  /\ writerQ # <<>>
  /\ LET c == Head(writerQ).chunk
     IN  cursor[c.src] = c.next /\ digest[c.src] = c
  /\ Answer("ok")
  /\ UNCHANGED store

CommitImmutableConflict ==
  /\ writerQ # <<>>
  /\ LET c == Head(writerQ).chunk
     IN  cursor[c.src] = c.next /\ digest[c.src] # c
  /\ Answer("fatal")
  /\ UNCHANGED store

CommitCursorConflict_Ok ==
  /\ writerQ # <<>>
  /\ LET c == Head(writerQ).chunk
     IN  cursor[c.src] \notin {c.next, c.from}
  /\ Answer("ok")
  /\ UNCHANGED store

CommitCursorConflict ==
  /\ writerQ # <<>>
  /\ LET c == Head(writerQ).chunk
     IN  cursor[c.src] \notin {c.next, c.from}
  /\ Answer("retry")
  /\ UNCHANGED store

(* A busy or full disk: the transaction rolled back. *)
CommitFails ==
  /\ writerQ # <<>>
  /\ Answer("retry")
  /\ UNCHANGED store

-----------------------------------------------------------------------------
FinishProgress_GapOnly(w) ==
  /\ job[w].pc = "answered"
  /\ job[w].result = "ok"
  /\ LET s == job[w].src
         again == 2 * job[w].next.done < leased[s]
     IN  /\ health' = [health EXCEPT ![s] = "healthy"]
         /\ waiting' = [waiting EXCEPT ![s] = IF again THEN leased[s] ELSE @]
         /\ leased' = [leased EXCEPT ![s] = None]
  /\ job' = [job EXCEPT ![w] = Idle]
  /\ UNCHANGED <<facts, writerQ, store, world>>

(* finish_lease_after_progress for a commit or a replay. *)
FinishProgress(w) ==
  /\ job[w].pc = "answered"
  /\ job[w].result = "ok"
  /\ LET s == job[w].src
         again == job[w].more \/ 2 * job[w].next.done < leased[s]
     IN  /\ health' = [health EXCEPT ![s] = "healthy"]
         /\ waiting' = [waiting EXCEPT ![s] = IF again THEN leased[s] ELSE @]
         /\ leased' = [leased EXCEPT ![s] = None]
  /\ job' = [job EXCEPT ![w] = Idle]
  /\ UNCHANGED <<facts, writerQ, store, world>>

(* process_one of an attempt that found nothing: no target gap allowed. *)
FinishNothing(w) ==
  /\ job[w].pc = "nothing"
  /\ health' = [health EXCEPT ![job[w].src] = "healthy"]
  /\ leased' = [leased EXCEPT ![job[w].src] = None]
  /\ job' = [job EXCEPT ![w] = Idle]
  /\ UNCHANGED <<facts, waiting, writerQ, store, world>>

(* The receipt was an error. *)
FinishError(w) ==
  /\ job[w].pc = "answered"
  /\ \/ job[w].result = "retry" /\ Retry(w)
     \/ job[w].result = "fatal" /\ GiveUp(w)
  /\ UNCHANGED <<facts, writerQ, store, world>>

(* WorkLease::drop: the future of process_one is dropped wherever it was.  *)
(* A request it submitted stays with the writer.                           *)
Cancel(w) ==
  /\ disruptions < MaxDisruptions
  /\ disruptions' = disruptions + 1
  /\ job[w] # Idle
  /\ waiting' = [waiting EXCEPT ![job[w].src] = leased[job[w].src]]
  /\ leased' = [leased EXCEPT ![job[w].src] = None]
  /\ job' = [job EXCEPT ![w] = Idle]
  /\ writerQ' = [i \in DOMAIN writerQ |->
                   IF writerQ[i].by = w THEN [writerQ[i] EXCEPT !.by = None]
                   ELSE writerQ[i]]
  /\ UNCHANGED <<facts, health, store, file, clock>>

(* The process dies; only the store and the transcripts are left. *)
Crash ==
  /\ disruptions < MaxDisruptions
  /\ disruptions' = disruptions + 1
  /\ facts' = [s \in Sources |-> None]
  /\ waiting' = [s \in Sources |-> None]
  /\ leased' = [s \in Sources |-> None]
  /\ health' = [s \in Sources |-> "healthy"]
  /\ job' = [w \in Workers |-> Idle]
  /\ writerQ' = <<>>
  /\ UNCHANGED <<store, file, clock>>

-----------------------------------------------------------------------------
WorkerStep(w) ==
  \/ \E s \in Sources : Lease(w, s)
  \/ ReadFacts(w)
  \/ ReadCursor(w)
  \/ IdentityChanged(w)
  \/ RefuseContinuation(w)
  \/ BuildNothing(w)
  \/ Build(w)
  \/ Submit(w)
  \/ FinishProgress(w)
  \/ FinishNothing(w)
  \/ FinishError(w)

WriterStep ==
  Commit \/ CommitReplay \/ CommitImmutableConflict \/ CommitCursorConflict

Next ==
  \/ \E s \in Sources : Append1(s) \/ Register(s) \/ Refresh(s)
  \/ \E s \in Sources, t \in Sizes : Signal(s, t)
  \/ \E w \in Workers : WorkerStep(w) \/ Fault(w) \/ Cancel(w)
  \/ WriterStep
  \/ CommitFails
  \/ Crash

Spec == Init /\ [][Next]_vars

(* Workers loop and the writer thread receives as long as either has       *)
(* something to do; nothing is assumed of the file, its signals, its       *)
(* registrations, or of faults.                                            *)
FairSpec ==
  /\ Spec
  /\ \A w \in Workers : WF_vars(WorkerStep(w))
  /\ WF_vars(WriterStep)
-----------------------------------------------------------------------------
AtWork == {w \in Workers : job[w] # Idle}

(* Types of the durable state and of the queue. *)
TypeOK ==
  /\ file \in [Sources -> Sizes]
  /\ facts \in [Sources -> Facts \cup {None}]
  /\ waiting \in [Sources -> Sizes \cup {None}]
  /\ leased \in [Sources -> Sizes \cup {None}]
  /\ health \in [Sources -> {"healthy", "retrying", "exhausted"}]
  /\ writerQ \in Seq([by : Workers \cup {None}, chunk : Chunks])
  /\ cursor \in [Sources -> Cursors]
  /\ digest \in [Sources -> Chunks \cup {None}]
  /\ rows \in [Sources -> SUBSET ((1 .. MaxRecords) \X (1 .. MaxPages))]

(* The durable cursor tells exactly which pages have their rows: none      *)
(* behind it is missing, none ahead of it is there, whatever crashed, was  *)
(* dropped after its submission or raced another attempt.                  *)
RowsMatchCursor == \A s \in Sources : rows[s] = Before(cursor[s])

(* A source generation is at work in one worker at most, and its lease is  *)
(* held exactly as long as that worker is at it.                           *)
OneReaderPerSource ==
  /\ \A v, w \in AtWork : job[v].src = job[w].src => v = w
  /\ \A s \in Sources : leased[s] # None <=> \E w \in AtWork : job[w].src = s
  /\ \A s \in Sources : leased[s] = None \/ waiting[s] = None

(* What a worker is told was committed is durable: the offset its report   *)
(* will name is never ahead of the rows, not even after another attempt    *)
(* for the source won the race for the cursor.                             *)
AcknowledgedIsDurable ==
  \A w \in Workers :
    job[w].pc = "answered" /\ job[w].result = "ok" =>
      Before(job[w].next) \subseteq rows[job[w].src]

(* Every batch on its way to the writer starts at a cursor that was        *)
(* durable and reaches no further than the complete records of the file.   *)
InFlightChunks ==
  {writerQ[i].chunk : i \in DOMAIN writerQ}
    \cup {job[w].chunk : w \in {v \in Workers : job[v].pc = "built"}}

NoBatchOutrunsItsFile ==
  \A c \in InFlightChunks :
    /\ Before(c.from) \subseteq rows[c.src]
    /\ Before(c.from) \subseteq Before(c.next)
    /\ 2 * c.next.done <= file[c.src]

(* What an attempt holds is its own: types, one reader per source, only    *)
(* durable acknowledgements and only batches that fit the file.            *)
AttemptsAreSound ==
  TypeOK /\ OneReaderPerSource /\ AcknowledgedIsDurable /\ NoBatchOutrunsItsFile

(* Seen from the store's readers the transcript arrives record by record,  *)
(* in order, whole pages only and never beyond what the agent completed.   *)
Feed == INSTANCE TranscriptFeed WITH fed <- rows

DeliversInOrder == Feed!Spec

-----------------------------------------------------------------------------
(* A source that was leased is let go again: retries are counted, and      *)
(* every request is answered.                                              *)
LeasesEnd == \A s \in Sources : leased[s] # None ~> leased[s] = None

(* Nothing more can be read for target t now, or the caller was told so.   *)
Settled(s, t) ==
  \/ 2 * cursor[s].done >= t - 1 /\ cursor[s].rest = 0
  \/ health[s] = "exhausted"
  \/ facts[s] = None
  \/ facts[s].size < t

(* A source that waits for a target is read up to it (but for a last,      *)
(* unfinished record), or the caller sees it exhausted or without current  *)
(* facts.                                                                  *)
WaitingTargetIsRead ==
  \A s \in Sources, t \in Sizes : waiting[s] = t ~> Settled(s, t)

(* No lease is held for good, and no waiting target is left.                *)
TargetsAreServed == LeasesEnd /\ WaitingTargetIsRead

(* The same of a target that reached the retained entry of a lease:        *)
(* queue.rs lease_next, "Incoming signals for the leased key continue to   *)
(* coalesce into the retained in-flight entry".                            *)
CoalescedTargetIsRead ==
  \A s \in Sources, t \in Sizes : leased[s] = t ~> Settled(s, t)

(* coordinator.rs process_attempt: "A caller may atomically re-register    *)
(* refreshed facts for this key while the injected backoff is pending".    *)
RefreshedFactsAreUsable ==
  \A w \in Workers :
    job[w].pc = "cursor" /\ job[w].facts.size = file[job[w].src] => ~Mismatch(w)
=============================================================================
