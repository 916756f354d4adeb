------------------------------ MODULE Watcher ------------------------------
(***************************************************************************)
(* The file watcher of agbox-ingest (watcher.rs): a backend thread turns   *)
(* file events into signals of a bounded queue, and one loop turns signals *)
(* into "read this source up to this size" items for the ingestion         *)
(* runtime.  Nothing the loop is told is trusted: it always reads the size *)
(* of the file itself.  What a full queue, an unusable path or a backend   *)
(* error loses is replaced by one flag, which asks for all sources.        *)
(*                                                                         *)
(* A size of 0 stands for a file that is not there.  One root is watched,  *)
(* and the catalog of its sources is fixed.                                *)
(***************************************************************************)
EXTENDS Integers, Sequences, FiniteSets, SequencesExt

CONSTANTS
  Catalog,          \* the sources, in the order the catalog visits them
  Callbacks,        \* threads of the backend that may call back
  Elsewhere,        \* a path that normalize refuses
  SignalCapacity,   \* WATCH_SIGNAL_CAPACITY for the queue of signals
  OutputCapacity,   \* WATCH_SIGNAL_CAPACITY for the queue of items
  MaxPaths,         \* MAX_BACKEND_EVENT_PATHS
  StoresAreOrdered, \* whether a store is seen by others before the storing
                    \* thread's next load (Release and Acquire do not say so)
  MaxSize           \* bound: how often the files grow, all together

VARIABLES
  size,       \* the files
  watched,    \* the backend is registered
  owed,       \* sources that changed and were not reported yet
  callback,   \* each backend thread: where it is and what it still reports
  accepting, inFlight, signals, overflow,   \* WatchSignalBridge
  pc,         \* where the loop is
  closing,    \* the loop has closed admission and drains
  baseline,   \* sizes before registration
  todo, mode, \* the reconciliation that runs: sources to visit, and its kind
  read,       \* items read and not yet sent
  output,     \* items sent and not yet received
  got,        \* what the runtime received: the furthest size, and as Live
  shutdown,
  promised    \* ghost: the size of a source when a thread was last admitted to
              \* tell of it before close_admission returned

files == <<size, watched, owed>>
bridge == <<accepting, inFlight, signals, overflow>>
job == <<todo, mode, read>>
vars == <<size, watched, owed, callback, accepting, inFlight, signals, overflow,
          pc, closing, baseline, todo, mode, read, output, got, shutdown, promised>>

Sources == ToSet(Catalog)

ASSUME WatcherAssumption ==
  /\ Catalog \in Seq(ToSet(Catalog)) /\ Catalog # <<>>
  /\ IsFiniteSet(Callbacks)
  /\ Elsewhere \notin ToSet(Catalog)
  /\ SignalCapacity \in Nat \ {0} /\ OutputCapacity \in Nat \ {0}
  /\ MaxPaths \in Nat \ {0}

Kinds == {"write", "other"}
Paths == Sources \cup {Elsewhere}
Sizes == Nat
Signals == [source : Sources, kind : Kinds]
Items == [source : Sources, target : Nat \ {0}, live : BOOLEAN]
Idle == [at |-> "idle", kind |-> "write", paths |-> <<>>, lossy |-> FALSE, about |-> {}]
Furthest(S) == CHOOSE n \in S : \A m \in S : m <= n

TypeOK ==
  /\ size \in [Sources -> Sizes]
  /\ watched \in BOOLEAN /\ owed \subseteq Sources
  /\ \A c \in Callbacks :
       /\ callback[c].at \in {"idle", "checked", "counted", "inside"}
       /\ callback[c].kind \in Kinds
       /\ callback[c].paths \in Seq(Paths) /\ Len(callback[c].paths) <= MaxPaths
       /\ callback[c].about \subseteq Sources /\ callback[c].lossy \in BOOLEAN
  /\ accepting \in BOOLEAN /\ overflow \in BOOLEAN
  /\ inFlight \in 0..Cardinality(Callbacks)
  /\ signals \in Seq(Signals) /\ Len(signals) <= SignalCapacity
  /\ pc \in {"snapshot", "register", "reconcile", "select", "overflow",
             "close", "drain", "ended"}
  /\ closing \in BOOLEAN /\ shutdown \in BOOLEAN
  /\ baseline \in [Sources -> Sizes]
  /\ todo \in Seq(Sources) /\ Len(todo) <= Len(Catalog) /\ mode \in {"none", "startup", "signal", "poll", "overflow"}
  /\ read \in Seq(Items) /\ Len(read) <= Len(Catalog)
  /\ output \in Seq(Items) /\ Len(output) <= OutputCapacity
  /\ got \in [Sources -> [any : Sizes, live : Sizes]]
  /\ promised \in [Sources -> Sizes]

Init ==
  /\ size = [s \in Sources |-> 0]
  /\ watched = FALSE /\ owed = {}
  /\ callback = [c \in Callbacks |-> Idle]
  /\ accepting = TRUE /\ inFlight = 0 /\ signals = <<>> /\ overflow = FALSE
  /\ pc = "snapshot" /\ closing = FALSE
  /\ baseline = [s \in Sources |-> 0]
  /\ todo = Catalog /\ mode = "startup" /\ read = <<>> /\ output = <<>>
  /\ got = [s \in Sources |-> [any |-> 0, live |-> 0]]
  /\ shutdown = FALSE /\ promised = [s \in Sources |-> 0]

-----------------------------------------------------------------------------
(* Outside: an agent writes; the operator asks for the end; the runtime    *)
(* receives.                                                               *)

MayGrow == FoldFunction(+, 0, size) < MaxSize

Append1(s) ==
  /\ MayGrow
  /\ size' = [size EXCEPT ![s] = @ + 1]
  /\ owed' = IF watched THEN owed \cup {s} ELSE owed
  /\ UNCHANGED <<watched, callback, bridge, pc, closing, baseline, job, output,
                 got, shutdown, promised>>

AskToStop ==
  /\ ~shutdown
  /\ shutdown' = TRUE
  /\ UNCHANGED <<files, callback, bridge, pc, closing, baseline, job, output,
                 got, promised>>

Receive ==
  /\ output # <<>>
  /\ LET i == Head(output) IN
       got' = [got EXCEPT ![i.source].any = Furthest({@, i.target}),
                          ![i.source].live = IF i.live THEN Furthest({@, i.target}) ELSE @]
  /\ output' = Tail(output)
  /\ UNCHANGED <<files, callback, bridge, pc, closing, baseline, job, shutdown,
                 promised>>

-----------------------------------------------------------------------------
(* The backend's threads.                                                  *)

(* What the backend may say of changes to E: their paths, alone or after    *)
(* one that is not of the root, or an error (an event without paths).      *)
Events(E) ==
  {[kind |-> "other", paths |-> <<>>]} \cup
  [kind : Kinds, paths : SetToSeqs(E) \cup {<<Elsewhere>> \o q : q \in SetToSeqs(E)}]
FirstPaths(paths) == IF Len(paths) > MaxPaths THEN SubSeq(paths, 1, MaxPaths) ELSE paths

(* push_paths uses so many paths of an event; that it loses some, or had    *)
(* none, is remembered until the thread leaves.  An event that finds        *)
(* admission closed is gone.                                               *)
Report(c) ==
  /\ callback[c].at = "idle"
  /\ \E E \in (SUBSET owed) \ {{}} :
       /\ IF accepting
            THEN \E e \in Events(E) :
                   callback' = [callback EXCEPT ![c] =
                     [at |-> "checked", kind |-> e.kind, paths |-> FirstPaths(e.paths),
                      lossy |-> Len(e.paths) \notin 1..MaxPaths, about |-> E]]
            ELSE UNCHANGED callback
       /\ owed' = owed \ E
  /\ UNCHANGED <<size, watched, bridge, pc, closing, baseline, job, output, got,
                 shutdown, promised>>

(* begin_callback, after its first look at accepting: the thread counts     *)
(* itself, and looks again.                                                *)
Count(c) ==
  /\ callback[c].at = "checked"
  /\ inFlight' = inFlight + 1
  /\ callback' = [callback EXCEPT ![c].at = "counted"]
  /\ UNCHANGED <<files, accepting, signals, overflow, pc, closing, baseline, job,
                 output, got, shutdown, promised>>

(* close_admission was not called yet, or has not returned.                 *)
Awaits == ~closing \/ pc = "close"

Admit(c) ==
  /\ callback[c].at = "counted" /\ accepting
  /\ callback' = [callback EXCEPT ![c].at = "inside"]
  /\ promised' = [s \in Sources |->
       IF s \in callback[c].about /\ Awaits THEN size[s] ELSE promised[s]]
  /\ UNCHANGED <<files, bridge, pc, closing, baseline, job, output, got, shutdown>>

(* Mutant: a thread that is refused stays counted.                          *)
Refuse_StaysCounted(c) ==
  /\ callback[c].at = "counted" /\ ~accepting
  /\ callback' = [callback EXCEPT ![c] = Idle]
  /\ UNCHANGED <<files, bridge, pc, closing, baseline, job, output, got, shutdown,
                 promised>>

Refuse(c) ==
  /\ callback[c].at = "counted" /\ ~accepting
  /\ callback' = [callback EXCEPT ![c] = Idle]
  /\ inFlight' = inFlight - 1
  /\ UNCHANGED <<files, accepting, signals, overflow, pc, closing, baseline, job,
                 output, got, shutdown, promised>>

(* push_paths: each usable path becomes a signal while there is room, and   *)
(* what is lost becomes the flag.  The loop may look between two paths.    *)
PushPath(c) ==
  LET p == Head(callback[c].paths) IN
  /\ callback[c].at = "inside" /\ callback[c].paths # <<>>
  /\ IF p = Elsewhere
       THEN /\ overflow' = TRUE
            /\ callback' = [callback EXCEPT ![c].paths = Tail(@)]
            /\ UNCHANGED signals
       ELSE IF Len(signals) < SignalCapacity
         THEN /\ signals' = Append(signals, [source |-> p, kind |-> callback[c].kind])
              /\ callback' = [callback EXCEPT ![c].paths = Tail(@)]
              /\ UNCHANGED overflow
         ELSE /\ overflow' = TRUE                       \* and no further path
              /\ callback' = [callback EXCEPT ![c].paths = <<>>]
              /\ UNCHANGED signals
  /\ UNCHANGED <<files, accepting, inFlight, pc, closing, baseline, job, output,
                 got, shutdown, promised>>

Leave(c) ==
  /\ callback[c].at = "inside" /\ callback[c].paths = <<>>
  /\ overflow' = (overflow \/ callback[c].lossy)
  /\ inFlight' = inFlight - 1
  /\ callback' = [callback EXCEPT ![c] = Idle]
  /\ UNCHANGED <<files, accepting, signals, pc, closing, baseline, job, output,
                 got, shutdown, promised>>

-----------------------------------------------------------------------------
(* The loop.  A reconciliation visits sources in the catalog's order; a     *)
(* thread of its own reads sizes ahead of the sending.                     *)

Start(kind, scope) == pc' = "reconcile" /\ mode' = kind /\ todo' = scope

SnapshotOne ==
  /\ pc = "snapshot"
  /\ baseline' = [baseline EXCEPT ![Head(todo)] = size[Head(todo)]]
  /\ todo' = Tail(todo)
  /\ pc' = IF Len(todo) = 1 THEN "register" ELSE "snapshot"
  /\ UNCHANGED <<files, callback, bridge, closing, mode, read, output, got,
                 shutdown, promised>>

Register ==
  /\ pc = "register"
  /\ watched' = TRUE
  /\ Start("startup", Catalog)
  /\ UNCHANGED <<size, owed, callback, bridge, closing, baseline, read, output,
                 got, shutdown, promised>>

(* Mutant: what startup finds has its source's priority.                    *)
Urgent_NotAtStartup(s) == mode \in {"signal", "overflow"}

(* Items are Live, except those of a poll and those startup finds as the    *)
(* snapshot left them.                                                     *)
Urgent(s) == mode \in {"signal", "overflow"} \/ (mode = "startup" /\ size[s] > baseline[s])

Visit ==
  /\ pc = "reconcile" /\ todo # <<>>
  /\ LET s == Head(todo) IN
       read' = IF size[s] = 0 THEN read
               ELSE Append(read, [source |-> s, target |-> size[s], live |-> Urgent(s)])
  /\ todo' = Tail(todo)
  /\ UNCHANGED <<files, callback, bridge, pc, closing, baseline, mode, output, got,
                 shutdown, promised>>

Send ==
  /\ pc = "reconcile" /\ read # <<>> /\ Len(output) < OutputCapacity
  /\ output' = Append(output, Head(read))
  /\ read' = Tail(read)
  /\ UNCHANGED <<files, callback, bridge, pc, closing, baseline, todo, mode, got,
                 shutdown, promised>>

AfterJob == CASE mode = "startup" -> "select"       \* and readiness is published
              [] mode = "signal" -> IF closing THEN "drain" ELSE "overflow"
              [] mode = "poll" -> "overflow"
              [] mode = "overflow" -> IF closing THEN "ended" ELSE "select"

(* Mutant: the flag is cleared when the reconciliation it asked for ends.   *)
EndJob_ClearsTheFlag ==
  /\ pc = "reconcile" /\ todo = <<>> /\ read = <<>>
  /\ pc' = AfterJob /\ mode' = "none"
  /\ overflow' = FALSE
  /\ baseline' = IF mode = "startup" THEN [s \in Sources |-> 0] ELSE baseline
  /\ UNCHANGED <<files, callback, accepting, inFlight, signals, closing, todo, read,
                 output, got, shutdown, promised>>

EndJob ==
  /\ pc = "reconcile" /\ todo = <<>> /\ read = <<>>
  /\ pc' = AfterJob /\ mode' = "none"
  /\ baseline' = IF mode = "startup" THEN [s \in Sources |-> 0] ELSE baseline  \* moved
  /\ UNCHANGED <<files, callback, bridge, closing, todo, read, output, got,
                 shutdown, promised>>

(* A write names one source; any other change stands for the whole root.    *)
ScopeOf(signal) == IF signal.kind = "write" THEN <<signal.source>> ELSE Catalog

TakeSignal ==
  /\ \/ pc = "select" /\ ~shutdown
     \/ pc = "drain"
  /\ signals # <<>>
  /\ signals' = Tail(signals)
  /\ Start("signal", ScopeOf(Head(signals)))
  /\ UNCHANGED <<files, callback, accepting, inFlight, overflow, closing, baseline,
                 read, output, got, shutdown, promised>>

(* The poll timer is due, and nothing that comes before it is.              *)
Poll ==
  /\ pc = "select" /\ ~shutdown /\ signals = <<>>
  /\ Start("poll", Catalog)
  /\ UNCHANGED <<files, callback, bridge, closing, baseline, read, output, got,
                 shutdown, promised>>

SeeOverflow ==
  /\ pc = "select" /\ ~shutdown /\ signals = <<>>
  /\ overflow /\ Len(output) < OutputCapacity
  /\ pc' = "overflow"
  /\ UNCHANGED <<files, callback, bridge, closing, baseline, job, output, got,
                 shutdown, promised>>

(* Mutant: the sources the flag asks for keep their own priority.           *)
TakeOverflow_LikeAPoll ==
  /\ pc = "overflow"
  /\ overflow' = FALSE
  /\ IF overflow /\ ~closing THEN Start("poll", Catalog)
     ELSE IF overflow THEN Start("overflow", Catalog)
     ELSE pc' = (IF closing THEN "ended" ELSE "select") /\ UNCHANGED <<mode, todo>>
  /\ UNCHANGED <<files, callback, accepting, inFlight, signals, closing, baseline,
                 read, output, got, shutdown, promised>>

(* reconcile_overflow: the flag is taken first, then sizes are read.        *)
TakeOverflow ==
  /\ pc = "overflow"
  /\ overflow' = FALSE
  /\ IF overflow THEN Start("overflow", Catalog)
     ELSE pc' = (IF closing THEN "ended" ELSE "select") /\ UNCHANGED <<mode, todo>>
  /\ UNCHANGED <<files, callback, accepting, inFlight, signals, closing, baseline,
                 read, output, got, shutdown, promised>>

(* Shutdown: close_admission waits until no thread counts itself, then the  *)
(* loop drains.  Without an order between the store to accepting and the    *)
(* load of the counter, other threads may see the store later.             *)
CloseAdmission ==
  /\ pc = "select" /\ shutdown
  /\ accepting' \in IF StoresAreOrdered THEN {FALSE} ELSE BOOLEAN
  /\ closing' = TRUE
  /\ pc' = "close"
  /\ UNCHANGED <<files, callback, inFlight, signals, overflow, baseline, job,
                 output, got, shutdown, promised>>

(* Mutant: admission is closed without waiting for the threads inside.      *)
SeeNoCallback_Unawaited ==
  /\ pc = "close"
  /\ pc' = "drain"
  /\ UNCHANGED <<files, callback, bridge, closing, baseline, job, output, got,
                 shutdown, promised>>

SeeNoCallback ==
  /\ pc = "close" /\ inFlight = 0
  /\ pc' = "drain"
  /\ UNCHANGED <<files, callback, bridge, closing, baseline, job, output, got,
                 shutdown, promised>>

(* The queue is empty: what is left is the flag.  By now the store is seen. *)
Drained ==
  /\ pc = "drain" /\ signals = <<>>
  /\ accepting' = FALSE
  /\ pc' = "overflow"
  /\ UNCHANGED <<files, callback, inFlight, signals, overflow, closing, baseline,
                 job, output, got, shutdown, promised>>

LoopStep ==
  \/ SnapshotOne \/ Register \/ Visit \/ Send \/ EndJob
  \/ TakeSignal \/ Poll \/ SeeOverflow \/ TakeOverflow
  \/ CloseAdmission \/ SeeNoCallback \/ Drained

CallbackStep(c) == Count(c) \/ Admit(c) \/ Refuse(c) \/ PushPath(c) \/ Leave(c)

Next ==
  \/ \E s \in Sources : Append1(s)
  \/ AskToStop
  \/ Receive
  \/ \E c \in Callbacks : Report(c) \/ CallbackStep(c)
  \/ LoopStep

(* The loop's task, the backend's threads and the runtime are scheduled; a  *)
(* backend in time reports what it owes.  Nobody has to stop the watcher.   *)
Fairness ==
  /\ WF_vars(LoopStep)
  /\ WF_vars(Receive)
  /\ \A c \in Callbacks : WF_vars(Report(c) \/ CallbackStep(c))

Spec == Init /\ [][Next]_vars /\ Fairness

-----------------------------------------------------------------------------
(* Properties *)

Given(s) == {0, got[s].any} \cup {i.target : i \in {j \in ToSet(output) : j.source = s}}
GivenLive(s) == {0, got[s].live} \cup
                {i.target : i \in {j \in ToSet(output) : j.source = s /\ j.live}}

(* Who still knows that a source grew: the backend, a thread of it, the      *)
(* queue, the flag, or the reconciliation that runs and did not visit it.   *)
Known(s) ==
  \/ s \in owed
  \/ \E c \in Callbacks : s \in callback[c].about
  \/ \E signal \in ToSet(signals) : s \in ToSet(ScopeOf(signal))
  \/ overflow
  \/ pc = "reconcile" /\ s \in ToSet(todo)
Upcoming(s) == {i.target : i \in {j \in ToSet(read) : j.source = s}}
Starting == pc \in {"snapshot", "register"} \/ (pc = "reconcile" /\ mode = "startup")

(* No growth of a file is forgotten: at every moment between readiness and  *)
(* shutdown, a file that is longer than what the runtime was or is about to *)
(* be given is still known to somebody, through full queues, unusable       *)
(* paths, backend errors and the moment the flag is taken                   *)
(* (WatchSignalBridge::push_paths, reconcile_overflow).                     *)
NothingIsForgotten ==
  ~Starting /\ ~closing =>
    \A s \in Sources : size[s] > Furthest(Given(s) \cup Upcoming(s)) => Known(s)

(* What the threads, the queue and the loop hold is well formed, and        *)
(* together they know of every change.                                     *)
ChangesAreKnown == TypeOK /\ NothingIsForgotten

(* What is written while the watcher starts is neither missed nor late: when *)
(* readiness is published, a file that grew since the snapshot (before or   *)
(* after the backend was registered) was given as Live up to the size the   *)
(* visit saw, and whatever came after the visit is known to somebody        *)
(* (WatcherRuntime::start_inner, reconcile_startup).                        *)
StartupMissesNothing ==
  [][Starting /\ pc' = "select" =>
       \A s \in Sources :
         /\ Furthest(Given(s)) > baseline[s] => Furthest(Given(s)) \in GivenLive(s)
         /\ Furthest(Given(s)) >= baseline[s]
         /\ size[s] > Furthest(Given(s)) => Known(s)']_vars

(* Shutdown loses nothing it waited for: whatever a thread was admitted to   *)
(* tell before close_admission returned was given to the runtime when the   *)
(* loop has ended, also what the thread could only flag, and whoever comes  *)
(* late under the weaker memory order (close_admission, drain_signals).     *)
AwaitedIsReconciled ==
  pc = "ended" => \A s \in Sources : Furthest(Given(s)) >= promised[s]

(* tests/watcher.rs (157): once admission is closed nothing is enqueued behind*)
(* the final drain.  It holds where stores are seen in order.               *)
NothingComesLate ==
  pc = "ended" =>
    signals = <<>> /\ ~overflow /\ \A c \in Callbacks : callback[c].at # "inside"

(* What an agent writes while the watcher runs reaches the runtime as Live   *)
(* work, up to the whole file, however the signal travels, and does not     *)
(* wait behind archives (the ReconcilePriority of reconcile_signal and      *)
(* reconcile_overflow).                                                     *)
GrowthBecomesLiveWork ==
  \A s \in Sources : s \in owed ~> (got[s].live = size[s] \/ closing)

(* A watcher that is asked to stop does stop, whatever its backend was doing *)
(* and however full its queues were, as long as the runtime receives        *)
(* (close_admission's wait, WatcherHandle::join).                           *)
StopsWhenAsked == shutdown ~> (pc = "ended")
=============================================================================
