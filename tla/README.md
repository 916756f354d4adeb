# agbox: a verification development

agbox watches the transcripts that Claude Code and Codex write, turns them into
immutable activity events in a local SQLite store, and publishes *work
contracts* (what is being done, what is blocked, what is verified) that agents
read over local IPC. This directory models the parts of that program whose
correctness depends on the order of things (queues, leases, cursors,
watermarks, transactions, two stores, crashes) and the algorithms a record's
meaning goes through: the JSON reader, the two transcript decoders, the
reducer, the contract builder, the correlation. TLC checks the models on small
instances; TLAPS proves, for all of them, the safety of the queue, of ingestion
(with its refinement), of the worker pool's wake-ups, of the watcher, of daemon
and spool, of publication, of the evidence store and of the joining of work
items.

## The system

A record travels this way:

    transcript --watcher / hook spool--> keyed queue --> worker: decode one batch
      --> single writer: rows + cursor in one transaction
      --> reducer: page of events -> graph facts + graph watermark (one transaction)
      --> publisher, per project: contract revision + search row + visibility
          watermark (one transaction)
      --> readers (CLI, TUI, MCP), human corrections, forget, retention

| Part | Code | State it keeps | Operations | What is hard | Correct when |
|---|---|---|---|---|---|
| Source work queue | ingest `queue.rs` | waiting items, lanes by priority, retained (leased) items | enqueue, lease, finish, cancel, abandon, pop | signals for waiting and leased keys, priority changes, capacity | one owner per source, one slot per item, no target or priority lowered, live work is served |
| Coordinator | ingest `coordinator.rs`, `identity.rs`, `record.rs` | registered facts, health, leases in flight | register, refresh, signal, lease, attempt, retry, abandon, drop | facts and cursor read before awaits, dropped futures, retries of what was committed, files that grow | each complete record gives its rows once, in order; leases end; targets are read or reported |
| Worker pool | `coordinator.rs` `run_until` | four tasks, a `Notify`, a closed flag | wake, lease, process, close, join | lost wake-ups, shutdown | everything queued is processed before it returns |
| Single writer | store `writer.rs` | all tables | one command at a time: register, commit, graph, work, extractor, correction, forget, retention | compare-and-set on cursors and watermarks, exact replays | transactions are all or nothing, replays change nothing |
| Reduction and publication | `coordinator.rs`, workgraph `reducer.rs`, `correlate.rs`, `contract.rs` | none of its own: watermarks and audits in the store | read watermark, read page, apply graph, publish project by project | concurrent callers, failures between transactions, corrections and forgetting in between | events reduced once, facts published once, revisions lose nothing |
| Contract builder, authority | workgraph `contract.rs`, `reducer.rs`, `authority.rs` | the latest contract of a work item | reduce a page, build the next revision, correct a field | pages cut anywhere, late events, bounded evidence | status follows the newest results, each field is cited, instructions are human |
| Work correlation | workgraph `correlate.rs` | none: candidates are loaded for each page | score, decide | sums of weak signals, ties | work joins only over something in common |
| Semantic extraction | workgraph `semantic.rs`, `writer.rs` | runs, parents | ask, filter, refine, apply | the contract has moved on when the answer comes | nothing published or corrected is undone |
| Transcript decoders | adapters `claude/`, `codex/` | bounded parser state per source, stored with the cursor | decode a record, decode a continuation | several records that answer one call, paging one record over several commits, evictions, repeated ids | the strongest answer is given once, events keep apart, each state loads again |
| JSON reader | adapters `json.rs` | one pass over a record | capture a string, matches, raw values, joined text at a path | nested limits, arrays inside the path, duplicates | exactly the selected values, honest prefixes |
| Discovery and projects | ingest `discovery.rs`, `history.rs`, `project.rs` | walk cursors | next batch, decide replay or baseline | files moving during a walk | trusted files only, each once |
| Watcher | ingest `watcher.rs` | bounded signal queue, overflow flag, in-flight callbacks | callback, reconcile, poll, close | overflow, shutdown against callbacks | no change is missed for good |
| Hook spool | ingest `spool.rs` | encrypted files in a directory | enqueue, drain | several processes, crashes, temporary files | bounded, ordered, at least once |
| Retention | `writer.rs`, `retention.rs`, `crypto.rs` | blobs, deletion queue | mark, drain, clean orphans | blobs are outside transactions | no available evidence without its blob |
| Reads | store `read.rs`, `evidence.rs` | none | pages, search, disclosure | byte limits, what may be disclosed | scoped, bounded, complete pages |
| Daemon and service | cli `daemon.rs`, service `ipc/`, `app.rs`, `mcp.rs` | socket, connections | bind, bootstrap, drain, answer, shut down | two starts at once, restarts, one bad source | one writer; a restart goes on where it stopped |
| CLI, TUI, release gate, npm | cli, tools, npm | configuration files | | input and output | |

`PROJECT.json` lists every part with its files and whether it is modelled, and
every hazard with its line of code and the properties that cover it.

## Modules

| Module | Models | Instances and runs |
|---|---|---|
| `PriorityLine` | what the queue promises: one line of items, ordered by priority, stable within one | abstract |
| `KeyedQueue` | `queue.rs` | `MCKeyedQueue`: `keyed_queue` |
| `KeyedQueueProofs` | theorems about `KeyedQueue` | TLAPS |
| `TranscriptFeed` | what ingestion promises: growing prefixes of complete records | abstract |
| `Ingestion` | coordinator, workers, writer and one growing file per source | `MCIngestion`: `ingestion` |
| `IngestionProofs` | theorems about `Ingestion` | TLAPS |
| `WorkerPool` | the worker tasks and the feeder of `run_until`, tokio's `Notify` | `MCWorkerPool`: `worker_pool` |
| `WorkerPoolProofs` | theorems about `WorkerPool` | TLAPS |
| `Watcher` | `watcher.rs`: backend threads, bounded queue, loop | `MCWatcher`: `watcher` |
| `WatcherProofs` | theorems about `Watcher` | TLAPS |
| `HookSpool` | `spool.rs` and the hook command: processes sharing a directory | composed into `Daemon` |
| `Daemon` | the foreground daemon: socket, bootstrap, draining, restarts | `MCDaemon`: `daemon` |
| `DaemonProofs` | theorems about `Daemon` and `HookSpool` | TLAPS |
| `DecoderState` | what both decoders share: bounded queues, output, lifecycle candidates | used by both |
| `CodexDecoder` | `codex/decode.rs`, `codex/state.rs` and the batch loop's use of them | `MCCodex`: `codex` |
| `ClaudeDecoder` | `claude/decode.rs`, `claude/state.rs` | `MCClaude`: `claude` |
| `BoundedJson` | `json.rs` | `MCJson`: `json` |
| `EvidenceStore` | evidence rows, deletion queue and the vault's files | `MCEvidence`: `evidence` |
| `EvidenceProofs` | theorems about `EvidenceStore` | TLAPS |
| `Publication` | reduction and publication over graph and visibility watermarks | `MCPublication`: `publication` |
| `PublicationProofs` | theorems about `Publication` | TLAPS |
| `Correlation` | `correlate.rs` and the loading of candidates, as operators | used by `WorkContract` |
| `Contract` | `reducer.rs`, `contract.rs`, `authority.rs`, the refinement of `semantic.rs`, as operators | used by `WorkContract` |
| `WorkContract` | publications, corrections and extractor runs over one project's contracts | `MCWorkContract`: `work_contract`, `never_continued` |
| `WorkContractProofs` | theorems about `WorkContract` | TLAPS |

How they fit: a `Watcher` item or a `HookSpool` entry is the signal that
`KeyedQueue` coalesces and `WorkerPool` wakes for; an `Ingestion` attempt calls
the decoder of the source, which reads fields through `BoundedJson`; what is
committed is stored with `EvidenceStore`'s two steps; `Publication` takes the
events on, and `WorkContract` says what the contracts then contain. `Daemon`
starts and ends all of it. Each module abstracts its neighbours to what it can
observe of them.

### KeyedQueue

`pending`, `inFlight` and `index` are the maps and the lanes of the Rust struct;
each public method is an action, split by its outcome (`EnqueuePending`,
`EnqueueLeased`, `EnqueueNew`, `EnqueueFull`, ...). A lane is the sequence of its
keys. The queue lives behind one mutex, so a method
is one step. `ServesOneStableLine` is refinement: with the retained items and
the concatenation of the lanes as the abstract line, every step is a step of
`PriorityLine`.

### Ingestion

A worker's attempt is as many steps as it has awaits: `Lease`, `ReadFacts`,
`ReadCursor`, then opening and decoding (`IdentityChanged`,
`RefuseContinuation`, `BuildNothing` or `Build`), `Submit`, the writer's answer
(`Commit`, `CommitReplay`, `CommitImmutableConflict`, `CommitCursorConflict`,
`CommitFails`) and the end of the lease (`FinishProgress`, `FinishNothing`,
`FinishError`). Between any two, the file grows, facts are registered or
refreshed, signals arrive, the future of the worker is dropped (`Cancel`, its
request stays with the writer) or the process dies (`Crash`, store and file
stay).

A file has two units per record, so a half-written record exists; a record may
give several pages, which stands for the Codex adapter's continuations, and the
durable cursor holds the owed pages and the observation time they are bound to.
A row is the page's position; what a page contains is `CodexDecoder`'s. Batches
end anywhere (byte limits) up to `Batch` pages. The queue is reduced to one
waiting and one retained target per source: lanes and capacity are
`KeyedQueue`'s. `DeliversInOrder` is refinement of `TranscriptFeed`.

### WorkerPool

Each task has a place (`at`) between two accesses to shared state: a worker goes
`round` (arm the wait), `look` (lease), `busy`, `finished`, `told`, `again`, or
from an empty queue `check` (is it empty), `decide` (is it closed), `asleep`.
The feeder goes `receive`, `arm`, `try`, then `notify` and `drop`, or `full`; at
the end `close`, `tell`, `join`. `Notify` is external and modelled from its
contract: `enable` takes the permit or joins the list of waiters, `notify_one`
serves the oldest waiter or stores the permit, `notify_waiters` serves all and
stores nothing, and dropping a wait that `notify_one` served passes the
notification on. The last point matters here, because a busy worker keeps a wait
armed and drops it unused. The queue is its waiting and leased keys, processing
an item is one step that may put it back.

### Watcher

A backend thread's `push_paths` is `Report`, `Count`, `Admit` or `Refuse`,
`PushPath` for each path and `Leave`: the check of the admission flag before and
after counting itself, as in `begin_callback`. A path that `normalize` refuses
and a full queue raise the overflow flag. The loop has the steps of
`start_inner` and `run_loop` between two awaits or accesses to shared state:
snapshot, registration of the backend, startup reconciliation, then a signal, a
poll or the flag, each a reconciliation that visits source by source (`Visit`,
`Send`), and at the end the closing of admission, the wait for the callbacks
inside, the drain of queue and flag. A size stands for a file's content;
`MaxSize` bounds only the growth that a run explores, and the theorems hold for
any size.

`StoresAreOrdered` says whether the loop's store to `accepting` is seen before its
load of `callbacks_in_flight`. The code uses Release and Acquire on two different
atomics, which does not say so: `FALSE` is that order, in which other threads may
see the store later, as with the store buffers of current processors. Then a
callback may be admitted that the closing loop has not counted.
`AwaitedIsReconciled` is the promise that survives this: whatever was admitted
before `close_admission` returned (`promised`) was given to the runtime when the
loop has ended. The run checks it, and everything else about the watcher, for
`FALSE`; the proof is for both values. That nobody is admitted later
(`NothingComesLate`, which `tests/watcher.rs:157` asserts for one thread) holds for
`TRUE` only.

### HookSpool and Daemon

`HookSpool` has the directory (`entries`, `temps`), the file lock and the hook
processes: `Notice`, `OpenSpool`, `LockSpool` or `RefuseFull`, `WriteTemp`,
`Publish` or `PublishFails`, and `HookDies` anywhere. `Daemon` EXTENDS it with
any number of daemon processes that share socket, store and spool. A start looks
at the socket (`FindNoSocket`, `FindLiveSocket`, `FindStaleSocket`), removes a
stale one, creates its own, discovers, registers each source in store and
coordinator (`Register`, `RegisterConflict`, `SkipChanged`), processes what is
queued (`Ingest`, `NothingNew`, `BootFails`) and opens the spool; then every
`Tick` takes the lock, lists, commits and removes entry by entry, releases, and
processes again (`WorkFails` ends the daemon). `Interrupt` and `Dies` end it.

Removing temporary files and what precedes the next step under the same lock is
one step: nobody without the lock sees the difference, and with the mutant that
skips the lock they stay whole. A transcript's size stands for its facts, since
the time of change moves with it. An entry's name is the clock's reading, and the
clock may repeat a reading or go back. A signal is only its source; its target is
`Ingestion`'s. A transcript without a trusted session time is never registered
(`Undated`; all of Claude Code's are, `trusted_session_time` has none for them),
so a signal for it finds no source and ends the daemon in `WorkFails`. The
initial states include a socket and an entry that an earlier daemon and hook
left.

### CodexDecoder and ClaudeDecoder

One step decodes one line, or one page that a line still owes, into the events
of `out` and the next parser state, exactly as one call of the adapter: a call
that fails keeps the state it was given. The parser state is the record of the
Rust struct, its queues in the order of eviction, and a byte bound is a bound on
entries (`StateBound`, `MaxEvents`), small enough that evictions, oversized
records and pages happen within the few lines of a run. A line is a record of
the fields its type reads, each present or missing, so malformed records are
among them. Texts, names, digests and paths are left out. In both, a record's list
of agents is compared with those that were known before the record
(`previously_seen`, `previously_finished`), even if one of its agents evicts
another meanwhile.

For Codex, `Answer`, `StageResult`, `Result` and `Reconcile` are the ranking of
answers: rank 3 is given at once, weaker ones are staged until a turn ends, and
what does not fit the output limit becomes pages (`Continue`, `NextPage`). A
record that names more files than the reader takes (`ListsTooMany`, 64 in the code)
is refused whole: no answer is given, staged or lost, and the call stays open for
a later one (`OpenCallsCanBeAnswered`). The agent numbers its lines in paginated mode,
and `Unreadable` is the line the batch loop gives up on.

For Claude, a message has up to `MaxBlocks` blocks, or more than the reader takes
(`Crowded`, refused whole), and the ordinals of their events are computed as in the
code with its constants scaled. An event names its own cause only in a record
without a parent: in a record with `parentUuid` every event names the parent record
(`CausedBy`). `EventsFollowTheirCauses` says both, and that the correlation still
names the call. Events that leave no room for the next state fail the call
(`MaxOutput`).
The history variable `past` keeps what the events so far said, for the
properties only.

### BoundedJson

One token a step; the parser's recursion is a stack `p.stack`. A document is
every sequence of tokens the grammar allows up to `MaxTokens`, in each of the
five modes of selection; a scalar may also be a number or a literal, and of these
only a number's length is bounded. A string is the sequence of the sizes of its
characters, so that a prefix that cuts a character would be seen. `around` and
`seen` record the document itself, and the properties compare the parser's
result with a reference reading of it (`Wanted`, `LongestPrefix`, `JoinedSizes`).

### EvidenceStore

A command that touches both stores is two steps with `writer` between them: the
blob first (`CommitBlob`, `CorrectBlob`), then the transaction (`CommitRow`,
`CorrectRow`, `RefuseRow`); or for a deletion the unlink (`DrainUnlink`,
`DrainFails`), then its transaction (`Settle`). `Crash` may come between, and
`CrashInPut` leaves a temporary file. `ForgetWork`, `ForgetProject`,
`RunRetention` and `CleanupOrphans` are one step each, the last with its window
over a listing that is kept from call to call. An identifier stands for its
content.

### Publication

One call of `reduce_and_publish_grouped_next` is the step sequence
`ReadWatermark`, `ReadEvents`, `ApplyGraph` (or `ReplayGraph`, `RefuseGraph`,
`ReduceFails`, `GraphConflict` with its bounded retries), then per project
`ReadVisibility`, `Correlate`, `ReadContract`, `ApplyWork` or `RefuseWork`.
`Fail` ends a call anywhere: an error, a dropped future or a restart, since
nothing of a call outlives it. `Ingest`, `Correct` (human correction) and
`Forget` (of a project) are the other users of the store.

An event has a project and gives a fact or none. A contract is the set of
facts and corrections that went into it, so losing, doubling or inventing
material is visible; what it says is `Contract`'s. `Correlate` chooses any work
item of the project that has a contract, or creates one named after the last
event: more than `Correlation` allows, so that the safety of publication does
not depend on scores. A builder given new facts may also find that they change
nothing (`Built`), as the real one does.

### Contract, Correlation and WorkContract

`Contract` has the pure functions of a publication: `Reduce` (a page of events
to facts), `Build` (the previous contract and the facts to the next revision,
with the projection of each action, the derived `Status`, the bounded evidence),
`Corrected` (a field a human sets) and `Refined` with the policy's `Filtered`
and `Acceptable`. A text is a number, evidence is an event's number, and the
bounds on references and items are constants. A statement that both forbids and
abandons is a kind of its own (`forbid`), and `crowded` remembers that the watermark of
active work dropped a member. `Correlation` has the scores in
the code's own numbers, the candidates in the order they are loaded (by the smallest
hash they share with the query), and the decision.

`WorkContract` puts them in motion over a log of events in any cut into pages:
`Publish` (or `Skip` when the page gives no fact) for each of `Requests`,
`Correct` at any time, `Ask` and, any number of steps later, `Answer` or
`TooLate` when the contract the extractor was asked about is no longer the
latest. A publication is one step: its interleavings are `Publication`'s. A
correction stores `created_at` as text where a contract has an `OffsetDateTime`;
`TimesReadBack` says whether the time library reads it back. If not, whoever needs
the corrected contract fails and changes nothing (`Readable`). The runs assume that it
does, which allows more behaviours, and the theorems hold for both.

## Runs

| Run | Instance | Question | Result |
|---|---|---|---|
| `keyed_queue` | 4 keys, capacity 3, 2 offsets | do maps, lanes and index agree, does the queue serve one stable priority line, is live work taken | holds |
| `ingestion` | 1 source, 2 workers, 2 records (the first of 2 pages), batch 2, 1 retry, 2 registrations, 1 drop or crash | do durable rows match the cursor and arrive in order whatever is interrupted; are attempts exclusive and bounded by their file; do leases end and waiting targets get read | holds |
| `worker_pool` | 2 workers, 2 keys, queue of 1, 2 items, 1 requeue | is a waiting item always taken, does the feeder get past a full queue, does a closed runtime return | holds |
| `watcher` | 2 files that grow twice together, 1 backend thread, queues of 1, 2 paths an event, stores seen late | is every growth known to somebody, given as live work, not lost at startup; does the watcher stop, and reconcile what it admitted until then | holds |
| `daemon` | 2 daemons started, 2 hooks, 1 transcript of 2 records, 1 kill, clock of 2 readings, spool of 2 | does the spool stay whole under every overlap and kill; do entries leave only into a queue; do registered facts and progress survive; are signals taken | holds |
| `codex` | 2 calls, 2 agents, 4 lines, 2 events and up to 3 files a record, a state of 3 entries | does the strongest answer win, is nothing answered twice, are ordinals fresh, does each page make progress, can an open call be answered, does each state load | holds |
| `claude` | 2 tools, 2 agents, 2 records, 4 lines of 2 blocks, 3 events a record, a state of 3 entries | do events name their parent record or else their true cause, do they keep apart, does each state load | holds |
| `json` | documents of 12 tokens, 5 modes, depth 4, 2 names, characters of 1 and 2 bytes, limits 2 and 3 | are exactly the values at the path given, with honest prefixes | holds |
| `evidence` | 1 recorded and 1 corrected evidence, window 1, 2 attempts, 2 failures, 1 crash, 1 forget | has an available row its blob; are left blobs and begun deletions gone in the end | holds |
| `publication` | 2 projects, 2 callers, 3 events, pages of 2, 2 tries, 1 correction, 1 forgotten project | are events reduced once, do readers see one story, do revisions keep their material, do forgotten events stay gone | holds |
| `work_contract` | 6 logs of up to 6 events, pages of up to 3, 2 work items, 3 kinds of request, 1 correction, 1 extractor run | is every field cited, does the status follow the newest results, are instructions human, does a refinement lose nothing, do work items join only over a file | holds |
| `never_continued` | the same | does a page over the files of the only work item continue it | violated |

Each property of a passing run has a mutant in `PROJECT.json`: an operator of the
modules, marked as such, that changes one definition the way a plausible mistake
would, and with which the property fails.

**Bounds.** The queue needs more keys than capacity (a full queue), three
priorities, and enough keys that two share a lane while a third is leased: four
and three do. In `ingestion` one source suffices, because sources share only
the queue (checked with four keys) and the writer, which handles them one
request at a time under a key of the source; two workers are needed for the
overlap of a dropped attempt with its successor, two records and two pages so
that a cursor can stop inside a record with a record behind it, and two
registrations so that facts change under an attempt. In `worker_pool` two workers
stand for the code's four: one holds a served wait while the other sleeps; two
items and one slot make the queue full behind a lease, and a requeue takes the
slot again. In `watcher` two sources let one be visited while the other grows,
two paths let the second of an event meet the full queue, and queues of one
overflow at once; a single backend thread suffices since threads meet only in
the flags and the queue, each step of which is atomic. In `daemon` one transcript
suffices, because
registration, processing and entries treat each source by itself and share only
the order in which they fail; two daemons are a second writer as well as a
restart, two hooks overlap in the spool, two readings of the clock give equal and
reversed names, two records a growth after the bootstrap, and one kill strikes
any process at any step. In `codex` and `claude` four lines are a request,
answers of two strengths (or a repeated id between request and result) and the
line that ends the turn, and the bounds of two or three entries make
each queue overflow on the way; three files and a crowded message exceed the limit of
matches, and `MaxOutput` the room for events and state together. In `json` twelve
tokens hold an object in an array
in an object with two values, and the limits are passed inside a character. In
`evidence` a window of one is passed over by the second file, the two failures
can exhaust a job of two attempts, and the kinds of names behave differently, so there is one of each. In `publication` two
projects in one page are needed for a publication that succeeds for one and not
for the other, three events for a page behind a page, two tries for a conflict
that is retried. In `work_contract` the six logs have late, repeated, untrusted
and failing results, requests without results, statements and abandonment, in
orders of delivery that differ from the orders of observation, and each is cut
into pages in every way. The `Max...` constants bound counters that the program does not
bound; every one is named in the modules.

**Fairness.** `KeyedQueue`: the worker loop leases again as long as something
waits; nothing is assumed of signals or of the ends of leases. `Ingestion`: weak fairness of
each worker and of the writer thread, both unconditional loops; none of the
file, its signals, registrations or faults. `WorkerPool`: weak fairness of each
task, which the runtime polls when it is woken; none of the senders. `Watcher`:
weak fairness of the loop, of the runtime that receives its items, and of the
backend, which reports each change it owes; none of the growth and of the request
to stop. `Daemon`: weak fairness of each started daemon and hook process, which run on by
themselves; none of starts, interrupts, kills, clock or agents; nothing says who
of several waiters gets the lock, and whichever daemon gets it takes all entries.
`EvidenceStore`: weak fairness of the three parts of `maintenance_tick`, of the
second step of each command, and of time, which makes files a day old. That
somebody calls `maintenance_tick` is an assumption about the embedding program:
in the repository only tests do. The other modules have only safety properties.

**Deadlock.** Checked in `keyed_queue` and `worker_pool`; disabled in the others:
with the bounds used up and nothing to do (or the document or the transcript at
its end) the system rests.

## Proofs

`KeyedQueueProofs` proves, for every set of keys, every set of offsets and
every capacity (assumptions: `QueueAssumption` and `NoneAssumption` of
`KeyedQueue`):

| Theorem | Statement |
|---|---|
| `QueueInvariant` | `Spec => []IInv` |
| `QueueAlwaysSound` | `Spec => []QueueIsSound` |
| `QueueTypes`, `IndexAlwaysMatches`, `OneOwnerPerSource`, `CapacityIsKept` | its four parts |
| `OwedWorkNeverShrinks` | `Spec => WorkNeverShrinks` |
| `QueueIsAPriorityLine` | `Spec => ServesOneStableLine`, the refinement of `PriorityLine` |

None of the properties is inductive alone. That a popped key has an item needs
the agreement of lanes and map; that `LeaseNext` does not put a key into both
maps needs their disjointness; that capacity holds across a requeue needs that
the retained key was counted before. `IInv` is their conjunction together with
the types and with every slot's position in the lane of its current priority.
The step lemma `NextGood` has one step per action. That `Requeue` keeps the bound is a
counting argument over disjoint finite sets (`FiniteSetTheorems`).

The refinement concatenates the lanes, highest priority first, into the abstract
line. A lane is what lies between the lanes above and those below it (`WholeSplits`),
so that appending to a lane inserts behind all of its priority and before all below
(`EntersBetween`), dropping a key removes one place (`CutBetween`), and the head of the
first lane that is not empty is the head of the line (`TakesTheHead`). That a
key is in one lane only, once, and with the priority of its item, which `IInv` says,
makes the line sorted, and its length the number of waiting keys (`WholeCounts`),
so that both sides are full at the same moment. Each action has a lemma that maps it
to a step of `PriorityLine` or a stutter; `NextRefines` joins them.

`EvidenceProofs` proves, for any finite sets of evidence, any window of the
orphan scan and any bounds (`EvidenceAssumption`):

| Theorem | Statement |
|---|---|
| `EvidenceInvariant` | `Spec => []IInv` |
| `StoresAlwaysAgree` | `Spec => []StoresAgree` |

That an available row has its blob needs more than itself: that no deletion job
names it (`Safe`, unless it was stored again), that a name nobody used yet has no
job either (`Fresh`, for corrections, whose blob is written before their row),
and that between the two steps of a command the blob just written is still there and
the job being settled still exists (`WriterOK`). Four step lemmas follow the
four parts through every action.

`WorkContractProofs` proves, for any logs, page size, requests and
bounds (`WorkContractAssumption` and the assumptions of the modules it uses):

| Theorem | Statement |
|---|---|
| `LogInvariant` | `Spec => []LogOK` |
| `JoinsAlwaysShare` | `Spec => []JoinsShareAnArtifact` |
| `CallInvariant` | `Spec => [](LogOK /\ ShapesOK /\ AskedOK)` |
| `RefinementsLoseNothing` | `Spec => RefinementLosesNothing` |
| `WordsInvariant` | `Spec => []IInv` |
| `InstructionsAreAlwaysHuman` | `Spec => []InstructionsAreHuman` |
| `TraceInvariant` | `Spec => []TraceInv` |
| `ContractsAreAlwaysTraceable` | `Spec => []ContractsAreTraceable` |
| `EarnedInvariant` | `ActionsFit` implies `Spec => [](TraceInv /\ EarnedInv)` |
| `StatusAlwaysFollows` | `ActionsFit` implies `Spec => []StatusFollowsTheResults` |
| `CompletionIsAlwaysEarned` | `ActionsFit` implies `Spec => CompletionIsEarned` |

It is assumed that an event's identifier is unique, as the table's key has it, that
action keys are ordered, as the keys of a `BTreeMap` are, that a contract may hold at
least one reference, and that no result of an action is `None` (`ResultAssumption`).

*Joins.* The argument is arithmetic: without a named work item and without a common
file the six terms of a score are at most 2500, 0, 1000, 1000 and 1000, so below 6000
(`NoFileNoMatch`); a decision to continue is a candidate that qualifies
(`WinnerQualifies`), and candidates are existing work items whose artifacts
are those of their events. `LogOK` gives that all sets involved are finite, without
which an overlap means nothing.

*Refinements.* A revision is what a page, a correction or an answer makes of the
latest contract (`StepRevises`), and has the next number. So the contract an
extractor was shown is either still the latest one or has a smaller number
(`AskedOK`), and an answer that `IsParent` lets through refines the latest.

*Words.* The newest of several facts is one of them (`NewestIsOne`: times and unique
identifiers order them totally, and a finite set so ordered has a greatest element,
`GreatestExists`), so what a page says is the text of an event of that kind. What
remains open must be known as well, because `next` is made of requests that were
remembered for pages: `RequestsOK` is the strengthening. An accepted instruction repeats a
human event below the watermark at which it was asked for, and those only grow.

*Traces.* `Sourced` says that every field with something to say cites a reference
that the contract holds. A bounded selection keeps the least reference of each field
(`CitationsAreRetained`), so no bound on references empties a citation. That the
status is cited rests on each result remembered being an event of the past
(`OutcomesOK`), and that the newest result is well defined on the facts of a page
being in no earlier page (`FactsAreNew`).

*Statuses.* `ActionsFit` says that no log has more actions than a contract may hold
(`MaxRefs`). It is a hypothesis and not an assumption, because the code does not
ensure it: beyond the bound `apply_action_facts` drops an action, with its failure (see
below). Under it no key is cut off (`NoActionIsDropped`), and `Mirrors` is
preserved: each action remembers the newest of the results published to its work item,
whichever page brought it. That rests on the page's results being facts with the
event's key, time and verdict (`FactsOfActions`, `ResultsAreFacts`) and on the
newest being newer than all others (`NewestIsRemembered`). `Judged` relates status and
verdicts; the branch of `derive_status` that keeps the old status is safe because
verdicts do not vanish. For `CompletionIsEarned` it has to know that active work with a
success was reopened: then only a new success closes it again
(`CompletionHasSuccess`), and results without one leave each failure
standing (`FailuresStay`). Where a page changes nothing material, its events become
members while the contract stays, which is sound because a revision with the same
material has the same verdict (`BuiltVerdict`), and a page of new facts never equals
the facts the contract was built from.

`IngestionProofs` proves, for any sources, workers, batch and page limits,
retries, registrations and faults (`IngestionAssumption`, `NoneAssumption`):

| Theorem | Statement |
|---|---|
| `IngestionInvariant` | `Spec => []IInv` |
| `RowsAlwaysMatchCursor` | `Spec => []RowsMatchCursor` |
| `AttemptsAreAlwaysSound` | `Spec => []AttemptsAreSound` |
| `IngestionDeliversInOrder` | `Spec => DeliversInOrder`, the refinement of `TranscriptFeed` |

That rows match the cursor after a commit needs to know where the committed chunk
came from: each chunk in flight, with a worker or with the writer, starts at a
cursor that was durable, whose rows are there, and ends within the file
(`Extends`), and this survives whatever other attempts commit meanwhile
because rows are never taken back and files only grow. A request with the
writer is the one its worker waits for, or has lost its worker (`QueueOK`),
otherwise an answer could finish another attempt. Each step is then a
step of `TranscriptFeed` or a stutter: only `Commit` delivers, and what it
delivers is what lies between the two cursors.

`WorkerPoolProofs` proves, for any workers, keys and capacity (`PoolAssumption`):

| Theorem | Statement |
|---|---|
| `PoolInvariant` | `Spec => []IInv` |
| `WakeUpsAreAlwaysKept` | `Spec => []WakeUpsAreKept` |

`Hope` is the heart: while an item waits, the feeder is still to call for it, or
heard the call itself and will pass it on when it drops its wait, or some worker
works or was served alone, or everybody left was called together. A step may pass
this on from one task to another, hence `NotifyOK` (the list of waiters has each armed task
once, and a permit is stored only while it is empty) and `NotesOK` (who is where
has a wait). The queue's bound needs that leases and busy workers correspond one
to one (`HandsOK`).

`WatcherProofs` proves, for any catalog, any number of threads and paths and any
capacities (`WatcherAssumption`):

| Theorem | Statement |
|---|---|
| `WatcherInvariant` | `Spec => []IInv` |
| `ChangesAreAlwaysKnown` | `Spec => []ChangesAreKnown` |
| `AwaitedIsAlwaysReconciled` | `Spec => []AwaitedIsReconciled`, in both memory orders |
| `StartupAlwaysMissesNothing` | `Spec => StartupMissesNothing` |

`AllKept` follows each growth through every hand: reported by the backend, told
by a thread (which has the path, or knows that it lost one), in the queue or in
the overflow flag, still to be visited by the running reconciliation, and at last
covered by an item read, sent or received. `Promises` does the same for what was
admitted in time. The wait for the threads inside ends it: with nobody counted,
nobody is inside who told before (`WaitingEnds`), and what is left for the drain
stays there until it is taken, whoever comes late (`ToTakeStays`). `Beginning`
relates what startup sends to the snapshot.

`DaemonProofs` proves, for any daemons, hooks, transcripts and clock readings
(`DaemonAssumption`, `SpoolAssumption`):

| Theorem | Statement |
|---|---|
| `DaemonInvariant` | `Spec => []IInv` |
| `SharedStateStaysSound` | `Spec => []SharedStateIsSound` |
| `NothingIsEverTakenBack` | `Spec => NothingIsTakenBack` |

The spool's bound needs that a process inside has the lock (`LockOK`) and that who
passed the count has room until it publishes (`EntriesOK`). An entry is removed
only when its source is in the queue of the daemon that removes it (`DrainOK`:
what it listed is still there, since nobody else can remove it). Registered facts
never exceed the file because found facts do not (`FactsOK`).

`PublicationProofs` proves, for any projects and publishers and any bounds on
events, pages, retries, corrections and forgetting (`PublicationAssumption`):

| Theorem | Statement |
|---|---|
| `PublicationInvariant` | `Spec => []IInv` |
| `ReducedExactlyOnce` | `Spec => []EveryEventIsReducedOnce` |
| `ReadersAlwaysSeeOneStory` | `Spec => []ReadersSeeOneStory` |
| `MaterialIsNeverLost` | `Spec => []NoRevisionLosesMaterial` |
| `ForgettingIsFinal` | `Spec => []ForgottenStaysForgotten` |

The graph batches tile the events up to the graph watermark without overlap
(`GraphOK`), so a page that starts at the watermark is new. What a publisher holds
is tied to the durable state it may find: its facts are those of one graph batch
(`Handed`, `ReducedOK`); a built revision continues the one it was built from,
which is still there, and if its project's visibility watermark has not moved, only
corrections came after it (`PendingOK`, `AppliedOK`). Forgetting breaks all of this,
and so `PendingOK` promises it only for facts that are not forgotten; the transaction
refuses the others, which is what `ForgettingIsFinal` rests on.

Only model-checked: all liveness; what recursive definitions and folds compute
(`BoundedJson`, the decoders), where a proof would need induction over data.
The two properties of statuses are proved only for logs whose actions fit the bound
on references; for others they are false (see below on the action that is dropped).

## Where the code departs from what it says

One disagreement is a run of its own:

* `never_continued`: `crates/agbox-workgraph/tests/correlation.rs:14` and the plan
  promise that work over the same files is continued across agents. The daemon's
  request (`WorkPublicationRequest::new`) names no repository, the
  stored candidates do, so the score stays at 4500 of 6000 and each page creates
  a new work item.

The following are stated in the modules as properties that no run checks, with
the behaviour of the code that violates them:

* `Ingestion.CoalescedTargetIsRead`: a lease that found no complete record is
  finished with `allow_target_gap = false` (`coordinator.rs:1492`); a target that
  was coalesced into it while the attempt ran is forgotten.
* `Ingestion.RefreshedFactsAreUsable`: owed Codex pages are bound to the
  observation time of the facts they were staged under; once facts are registered
  at another time (a refresh, a restart) the source is refused without a retry.
* `WorkerPool.DrainedOnReturn`: a worker that found the queue empty reads the
  closed flag only afterwards (`coordinator.rs:2394`); an item queued in between,
  followed by the closing, is left when every worker does so.
* `Daemon.BootstrapIsAccepted`: the bootstrap registers each source at its present
  size and cursor 0, and the store accepts only what it already has; after growth
  or progress the daemon refuses to start, each time.
* `Daemon.OneWriter`: looking at a stale socket and removing it are two steps; of
  two daemons started over one, the second removes the first one's new socket.
* `Publication.EveryFactIsPublished`: the comment at `coordinator.rs:924` says a
  retry re-reads the facts of a page whose graph part was applied; it starts
  behind them.
* `Publication.EveryEventIsReduced`: deleting a project's events leaves holes in
  the event sequence, and the reducer refuses any page across a hole, for all
  projects.
* `CodexDecoder.MalformedHidesNothing`: `observe_ordinal` (`codex/state.rs:158`)
  demands the last ordinal plus one; a line that cannot be read keeps the state, so
  in paginated mode every line behind it is malformed, against
  `docs/plans/2026-07-17-001-feat-rust-v2-cross-agent-handoff-plan.md:3406`.
* `CodexDecoder.AgentsFinishOnce`: a line that names a new agent and a known,
  finished one evicts the latter for the former and then opens it again without a
  start (`codex/decode.rs:1404`, `codex/state.rs:298`); the replay of its finish is given
  a second time, against `crates/agbox-adapters/tests/codex_reconcile.rs:177` and `:488`
  (an agent finishes once, a forgotten one has to start again).
* `Watcher.NothingComesLate`: `crates/agbox-ingest/tests/watcher.rs:157` says that
  nobody enqueues behind the final drain. Between the store to `accepting` and the
  load of `callbacks_in_flight` (`watcher.rs:246`) no order is demanded, so a callback
  may be admitted after the loop counted nobody, and its signal or flag is lost.
* `EvidenceStore.AvailableAlwaysStored`: evidence that is forgotten and ingested
  again while its deletion job still waits loses its new blob to that job.

Met while translating, without a property of their own:

* Retention removes rows a later exact replay of a commit compares with, so the
  replay ends in `ImmutableConflict`; a job that failed three times is not tried
  again; temporary files of a crash in `EvidenceVault::put` are never collected;
  nothing outside tests calls `maintenance_tick`.
* A human objective that was observed earlier and committed later replaces a newer
  one; an abandonment is undone by the next page that brings anything; beyond 64
  actions the one with the greatest key is dropped; `project_action_fields`
  replaces corrected or refined next steps, blockers and verification at the next
  page; whether a request and its result share a page decides whether the result
  is a verification.
* `SemanticPolicy::validate` keeps the strongest proposal of each field, but counts
  `constraint` and `constraints` as two fields, which the refinement then applies
  to one.
* A rank 2 answer of Codex that replaces a staged rank 1 answer loses the artifact
  path of the latter; the ordinals of Claude events meet for blocks from the 75th
  on; `normalize_context_path` lets through control characters that
  `ContextSnapshot::validate` refuses; the queue of finished Claude agents may
  evict one that then finishes a second time.
* A correction stores `created_at` as RFC 3339 text (`writer.rs:2869`), which the
  `OffsetDateTime` of `ProvisionalContract` (`contract.rs:49`) may not read back; then
  a corrected work item is published no more (`TimesReadBack`, see above).

## Not modelled

Encryption, keys, permissions and paths; SQLite itself (a transaction is one step
or nothing) and its migration; the text of records, events and contracts beyond
what decides a field; byte limits of batches and event pages (`coordinator.rs:1791`, `read.rs:366`);
messages of Codex with more text parts than the reader takes; directory walks and
baselines of discovery; project attribution; the health map and its eviction; the
relation checks between the rows of one chunk; search and disclosure; connections,
timeouts and contents of IPC and MCP; the loopback client of the extractor; the
terminal UI, installation, the release gate and the npm downloader. `PROJECT.json`
gives the reason for each component.
