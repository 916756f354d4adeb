----------------------------- MODULE WorkerPool -----------------------------
(***************************************************************************)
(* The decoder workers and their feeder                                    *)
(* (crates/agbox-ingest/src/coordinator.rs, IngestionRuntime::run_until).  *)
(*                                                                         *)
(* Workers lease items from the shared queue; the feeder moves items from  *)
(* a channel into it.  All of them sleep and wake by one tokio Notify.     *)
(* Each task arms its wait before it looks at the queue, and everything    *)
(* between arming and sleeping interleaves with the other tasks.           *)
(*                                                                         *)
(* Of the queue only who waits and who is leased is kept (KeyedQueue has   *)
(* the rest); processing an item (Ingestion) is one step.                  *)
(***************************************************************************)
EXTENDS Integers, Sequences, FiniteSets, SequencesExt

CONSTANTS
  Workers,      \* DECODER_WORKERS
  Feeder,       \* the task that called run_until
  Keys,         \* source generations
  NoKey,        \* nothing in a task's hands
  Capacity,     \* capacity of the queue
  MaxItems,     \* bound: items sent into the channel
  MaxRequeues   \* bound: items that need another round

ASSUME PoolAssumption ==
  /\ IsFiniteSet(Workers) /\ Workers # {}
  /\ Feeder \notin Workers
  /\ NoKey \notin Keys
  /\ Capacity \in Nat \ {0}
  /\ MaxItems \in Nat
  /\ MaxRequeues \in Nat

Tasks == Workers \cup {Feeder}

VARIABLES
  input,     \* the channel
  open,      \* some sender of the channel is left
  shutdown,  \* the shutdown flag
  waiting,   \* keys waiting in the queue
  leased,    \* keys leased
  closed,    \* the flag that lets idle workers end
  at,        \* where each task is
  item,      \* what each task has in its hands
  idle,      \* what each worker last saw of the queue
  note,      \* the Notified of each task: none, armed, or how it was notified
  waiters,   \* Notify: the armed tasks, oldest first
  permit,    \* Notify: the stored permit
  sent, requeues

channel == <<input, open, shutdown, sent>>
queue   == <<waiting, leased>>
notify  == <<note, waiters, permit>>
vars    == <<channel, queue, closed, at, item, idle, notify, requeues>>

-----------------------------------------------------------------------------
(* tokio::sync::Notify.  States of a Notified: "armed" is in the list of   *)
(* waiters; "one" and "all" say which call took it off; "none" is no       *)
(* Notified at all.                                                        *)

(* notified() and enable(): takes the permit, or joins the list. *)
Arm(t) ==
  /\ permit' = FALSE
  /\ note' = [note EXCEPT ![t] = IF permit THEN "all" ELSE "armed"]
  /\ waiters' = IF permit THEN waiters ELSE Append(waiters, t)

(* notify_one over a list of waiters: the oldest of them, or the permit. *)
NotifyOneOf(list, notes) ==
  IF list = <<>>
    THEN permit' = TRUE /\ note' = notes /\ waiters' = list
    ELSE /\ note' = [notes EXCEPT ![Head(list)] = "one"]
         /\ waiters' = Tail(list)
         /\ UNCHANGED permit

NotifyOne == NotifyOneOf(waiters, note)

(* notify_waiters: all of them, and no permit for later. *)
NotifyAll ==
  /\ note' = [t \in Tasks |-> IF note[t] = "armed" THEN "all" ELSE note[t]]
  /\ waiters' = <<>>
  /\ UNCHANGED permit

(* A Notified that was not awaited is dropped: it leaves the list; a       *)
(* notification by notify_one that it got is passed on.                    *)
Forget(t) ==
  IF note[t] = "one"
    THEN NotifyOneOf(waiters, [note EXCEPT ![t] = "none"])
    ELSE /\ note' = [note EXCEPT ![t] = "none"]
         /\ IF note[t] = "armed"
              THEN \E i \in DOMAIN waiters : waiters[i] = t /\ waiters' = RemoveAt(waiters, i)
              ELSE UNCHANGED waiters
         /\ UNCHANGED permit

(* The await of a Notified that has been notified returns. *)
Woken(t) ==
  /\ note[t] \in {"one", "all"}
  /\ note' = [note EXCEPT ![t] = "none"]
  /\ UNCHANGED <<waiters, permit>>

Goto(t, place) == at' = [at EXCEPT ![t] = place]

-----------------------------------------------------------------------------
Init ==
  /\ input = <<>>
  /\ open = TRUE
  /\ shutdown = FALSE
  /\ waiting = {}
  /\ leased = {}
  /\ closed = FALSE
  /\ at = [t \in Tasks |-> IF t = Feeder THEN "receive" ELSE "round"]
  /\ item = [t \in Tasks |-> NoKey]
  /\ idle = [w \in Workers |-> FALSE]
  /\ note = [t \in Tasks |-> "none"]
  /\ waiters = <<>>
  /\ permit = FALSE
  /\ sent = 0
  /\ requeues = 0

-----------------------------------------------------------------------------
(* The watcher sends an item, ends, or the daemon shuts down. *)
Send(k) ==
  /\ open /\ sent < MaxItems
  /\ input' = Append(input, k)
  /\ sent' = sent + 1
  /\ UNCHANGED <<open, shutdown, queue, closed, at, item, idle, notify, requeues>>

CloseInput ==
  /\ open
  /\ open' = FALSE
  /\ UNCHANGED <<input, shutdown, sent, queue, closed, at, item, idle, notify, requeues>>

Shutdown ==
  /\ ~shutdown
  /\ shutdown' = TRUE
  /\ UNCHANGED <<input, open, sent, queue, closed, at, item, idle, notify, requeues>>

-----------------------------------------------------------------------------
(* A worker's round begins: its next wait is armed. *)
Round(w) ==
  /\ at[w] = "round"
  /\ Arm(w)
  /\ Goto(w, "look")
  /\ UNCHANGED <<channel, queue, closed, item, idle, requeues>>

(* lease_one. *)
Lease(w) ==
  /\ at[w] = "look"
  /\ \E k \in waiting :
       /\ waiting' = waiting \ {k}
       /\ leased' = leased \cup {k}
       /\ item' = [item EXCEPT ![w] = k]
  /\ Goto(w, "busy")
  /\ UNCHANGED <<channel, closed, idle, notify, requeues>>

LeaseNothing(w) ==
  /\ at[w] = "look"
  /\ waiting = {}
  /\ Goto(w, "check")
  /\ UNCHANGED <<channel, queue, closed, item, idle, notify, requeues>>

(* process_one ends its lease: finished, requeued or abandoned. *)
Finish(w) ==
  /\ at[w] = "busy"
  /\ leased' = leased \ {item[w]}
  /\ \/ UNCHANGED <<waiting, requeues>>
     \/ /\ requeues < MaxRequeues
        /\ requeues' = requeues + 1
        /\ waiting' = waiting \cup {item[w]}
  /\ item' = [item EXCEPT ![w] = NoKey]
  /\ Goto(w, "finished")
  /\ UNCHANGED <<channel, closed, idle, notify>>

(* WorkLease::finish and abandon tell everybody ... *)
TellFinished(w) ==
  /\ at[w] = "finished"
  /\ NotifyAll
  /\ Goto(w, "told")
  /\ UNCHANGED <<channel, queue, closed, item, idle, requeues>>

(* ... and the worker does so again. *)
TellAgain(w) ==
  /\ at[w] = "told"
  /\ NotifyAll
  /\ Goto(w, "again")
  /\ UNCHANGED <<channel, queue, closed, item, idle, requeues>>

(* continue: the armed wait is dropped unused. *)
NextRound(w) ==
  /\ at[w] = "again"
  /\ Forget(w)
  /\ Goto(w, "round")
  /\ UNCHANGED <<channel, queue, closed, item, idle, requeues>>

(* is_empty, under the queue's lock. *)
CheckQueue(w) ==
  /\ at[w] = "check"
  /\ idle' = [idle EXCEPT ![w] = waiting = {} /\ leased = {}]
  /\ Goto(w, "decide")
  /\ UNCHANGED <<channel, queue, closed, item, notify, requeues>>

(* The closed flag is read only now. *)
Exit(w) ==
  /\ at[w] = "decide"
  /\ closed /\ idle[w]
  /\ Forget(w)
  /\ idle' = [idle EXCEPT ![w] = FALSE]
  /\ Goto(w, "done")
  /\ UNCHANGED <<channel, queue, closed, item, requeues>>

Sleep(w) ==
  /\ at[w] = "decide"
  /\ ~(closed /\ idle[w])
  /\ idle' = [idle EXCEPT ![w] = FALSE]
  /\ Goto(w, "asleep")
  /\ UNCHANGED <<channel, queue, closed, item, notify, requeues>>

Wake(w) ==
  /\ at[w] = "asleep"
  /\ Woken(w)
  /\ Goto(w, "round")
  /\ UNCHANGED <<channel, queue, closed, item, idle, requeues>>

-----------------------------------------------------------------------------
(* The feeder receives an item; shutdown goes first. *)
Receive ==
  /\ at[Feeder] = "receive"
  /\ ~shutdown /\ input # <<>>
  /\ item' = [item EXCEPT ![Feeder] = Head(input)]
  /\ input' = Tail(input)
  /\ Goto(Feeder, "arm")
  /\ UNCHANGED <<open, shutdown, sent, queue, closed, idle, notify, requeues>>

ReceiveNothing ==
  /\ at[Feeder] = "receive"
  /\ shutdown \/ (input = <<>> /\ ~open)
  /\ Goto(Feeder, "close")
  /\ UNCHANGED <<channel, queue, closed, item, idle, notify, requeues>>

FeederArms ==
  /\ at[Feeder] = "arm"
  /\ Arm(Feeder)
  /\ Goto(Feeder, "try")
  /\ UNCHANGED <<channel, queue, closed, item, idle, requeues>>

(* try_enqueue: coalesced, new, or full. *)
Known(k) == k \in waiting \cup leased
Full     == Cardinality(waiting) + Cardinality(leased) = Capacity

Enqueue ==
  /\ at[Feeder] = "try"
  /\ Known(item[Feeder]) \/ ~Full
  /\ waiting' = IF item[Feeder] \in leased THEN waiting ELSE waiting \cup {item[Feeder]}
  /\ item' = [item EXCEPT ![Feeder] = NoKey]
  /\ Goto(Feeder, "notify")
  /\ UNCHANGED <<channel, leased, closed, idle, notify, requeues>>

EnqueueFull ==
  /\ at[Feeder] = "try"
  /\ ~Known(item[Feeder]) /\ Full
  /\ Goto(Feeder, "full")
  /\ UNCHANGED <<channel, queue, closed, item, idle, notify, requeues>>

EnqueueNotifies_Not ==
  /\ at[Feeder] = "notify"
  /\ Goto(Feeder, "drop")
  /\ UNCHANGED <<channel, queue, closed, item, idle, notify, requeues>>

(* try_enqueue's notify_one comes after the queue is unlocked; it may go   *)
(* to the feeder itself, which then passes it on.                          *)
EnqueueNotifies ==
  /\ at[Feeder] = "notify"
  /\ NotifyOne
  /\ Goto(Feeder, "drop")
  /\ UNCHANGED <<channel, queue, closed, item, idle, requeues>>

FeederDrops ==
  /\ at[Feeder] = "drop"
  /\ Forget(Feeder)
  /\ Goto(Feeder, "receive")
  /\ UNCHANGED <<channel, queue, closed, item, idle, requeues>>

(* A full queue: the same item is tried again after the next wake-up. *)
FeederWakes ==
  /\ at[Feeder] = "full"
  /\ Woken(Feeder)
  /\ Goto(Feeder, "arm")
  /\ UNCHANGED <<channel, queue, closed, item, idle, requeues>>

Close ==
  /\ at[Feeder] = "close"
  /\ closed' = TRUE
  /\ Goto(Feeder, "tell")
  /\ UNCHANGED <<channel, queue, item, idle, notify, requeues>>

TellClosed_Not ==
  /\ at[Feeder] = "tell"
  /\ Goto(Feeder, "join")
  /\ UNCHANGED <<channel, queue, closed, item, idle, notify, requeues>>

TellClosed ==
  /\ at[Feeder] = "tell"
  /\ NotifyAll
  /\ Goto(Feeder, "join")
  /\ UNCHANGED <<channel, queue, closed, item, idle, requeues>>

(* All workers are joined; run_until returns. *)
Return ==
  /\ at[Feeder] = "join"
  /\ \A w \in Workers : at[w] = "done"
  /\ Goto(Feeder, "done")
  /\ UNCHANGED <<channel, queue, closed, item, idle, notify, requeues>>

-----------------------------------------------------------------------------
WorkerStep(w) ==
  \/ Round(w)
  \/ Lease(w)
  \/ LeaseNothing(w)
  \/ Finish(w)
  \/ TellFinished(w)
  \/ TellAgain(w)
  \/ NextRound(w)
  \/ CheckQueue(w)
  \/ Exit(w)
  \/ Sleep(w)
  \/ Wake(w)

FeederStep ==
  \/ Receive
  \/ ReceiveNothing
  \/ FeederArms
  \/ Enqueue
  \/ EnqueueFull
  \/ EnqueueNotifies
  \/ FeederDrops
  \/ FeederWakes
  \/ Close
  \/ TellClosed
  \/ Return

(* run_until has returned: nothing is left to do. *)
Returned == at[Feeder] = "done" /\ UNCHANGED vars

Next ==
  \/ \E k \in Keys : Send(k)
  \/ CloseInput
  \/ Shutdown
  \/ \E w \in Workers : WorkerStep(w)
  \/ FeederStep
  \/ Returned

Spec == Init /\ [][Next]_vars

(* The tasks run whenever they can; nothing is assumed of the senders. *)
FairSpec ==
  /\ Spec
  /\ \A w \in Workers : WF_vars(WorkerStep(w))
  /\ WF_vars(FeederStep)

-----------------------------------------------------------------------------
(* Types; the list of waiters is exactly the armed tasks, each once; the   *)
(* permit is only stored when nobody is armed; the queue is within its     *)
(* capacity and each leased key is in the hands of one busy worker.        *)
TypeOK ==
  /\ waiting \subseteq Keys /\ leased \subseteq Keys /\ waiting \cap leased = {}
  /\ Cardinality(waiting \cup leased) <= Capacity
  /\ {w \in Workers : at[w] = "busy"} # {} <=> leased # {}
  /\ \A v, w \in Workers : at[v] = "busy" /\ at[w] = "busy" /\ item[v] = item[w] => v = w
  /\ note \in [Tasks -> {"none", "armed", "one", "all"}]
  /\ ToSet(waiters) = {t \in Tasks : note[t] = "armed"}
  /\ Cardinality(ToSet(waiters)) = Len(waiters)
  /\ permit => waiters = <<>>

Asleep(w) == at[w] = "asleep" /\ note[w] = "armed"

AllDone == \A w \in Workers : at[w] = "done"

(* No lost wake-up: while an item waits, some worker is up or has been     *)
(* called, or the call is just being made, or none is left.                *)
NoLostWakeUp ==
  waiting # {} =>
    \/ at[Feeder] = "notify"
    \/ at[Feeder] = "drop" /\ note[Feeder] = "one"
    \/ AllDone
    \/ \E w \in Workers : ~Asleep(w) /\ at[w] # "done"

(* The list of waiters, the permit and the tasks' own notes agree, and no   *)
(* wake-up is lost between them.                                           *)
WakeUpsAreKept == TypeOK /\ NoLostWakeUp

(* Every item that waits is taken up by a worker, unless all workers have  *)
(* ended.                                                                  *)
ItemsAreTaken == \A k \in Keys : k \in waiting ~> (k \notin waiting \/ AllDone)

(* However full the queue is, the feeder gets its item in: it is told of   *)
(* every lease that ends.                                                  *)
FeederGetsThrough == at[Feeder] = "full" ~> at[Feeder] = "receive"

(* Work moves on both sides of the queue.                                  *)
WorkGoesOn == ItemsAreTaken /\ FeederGetsThrough

(* A runtime that was closed or shut down joins its workers and returns.   *)
RuntimeReturns == (shutdown \/ ~open) ~> at[Feeder] = "done"

(* coordinator.rs run_until: "Work already in the shared keyed queue [...] *)
(* is drained before all four worker tasks are joined and this method      *)
(* returns".                                                               *)
DrainedOnReturn == at[Feeder] = "done" => waiting = {} /\ leased = {}
=============================================================================
