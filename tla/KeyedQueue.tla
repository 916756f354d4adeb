----------------------------- MODULE KeyedQueue -----------------------------
(***************************************************************************)
(* The source work queue (crates/agbox-ingest/src/queue.rs, KeyedQueue).   *)
(*                                                                         *)
(* One item per source generation waits in `pending` or is leased in       *)
(* `inFlight`; `index` holds one FIFO lane of keys per priority.  Signals  *)
(* for a key that already owns a slot coalesce into its item, wherever     *)
(* that item is; only a new key can be refused.  The queue itself runs     *)
(* under one mutex (coordinator.rs), so each method is one action.         *)
(***************************************************************************)
EXTENDS Integers, Sequences, FiniteSets

CONSTANTS
  Keys,      \* source generations (SourceKey)
  Offsets,   \* byte offsets that a signal may name or a cursor may reach
  Capacity,  \* distinct keys the queue may own, pending and leased together
  None       \* the absence of an item

ASSUME QueueAssumption ==
  /\ Offsets \subseteq Nat
  /\ Capacity \in Nat \ {0}

(* WorkPriority, ordered from archive replay to live activity. *)
Archive       == 0
ActiveCatchup == 1
Live          == 2
Priorities    == Archive .. Live

(* QueueItem without its key, which is the index of the maps below. *)
Item == [target : Offsets, priority : Priorities]

ASSUME NoneAssumption == None \notin Item

VARIABLES
  pending,   \* the waiting item of each key, or None
  inFlight,  \* the leased item of each key, or None
  index      \* one FIFO lane of keys per priority

vars == <<pending, inFlight, index>>

PendingKeys == {k \in Keys : pending[k] # None}
LeasedKeys  == {k \in Keys : inFlight[k] # None}
OwnedSlots  == Cardinality(PendingKeys) + Cardinality(LeasedKeys)

Greater(a, b) == IF a >= b THEN a ELSE b

-----------------------------------------------------------------------------
Init ==
  /\ pending  = [k \in Keys |-> None]
  /\ inFlight = [k \in Keys |-> None]
  /\ index    = [p \in Priorities |-> <<>>]

(* An item after one more signal for its key. *)
Coalesce(item, t, p) ==
  [target |-> Greater(item.target, t), priority |-> Greater(item.priority, p)]

(* remove_index_entry: a lane without key k, which has at most one slot    *)
(* in it (OneSlotPerKey).                                                  *)
Without(lane, k) ==
  IF \E i \in DOMAIN lane : lane[i] = k
    THEN LET i == CHOOSE i \in DOMAIN lane : lane[i] = k
         IN  SubSeq(lane, 1, i - 1) \o SubSeq(lane, i + 1, Len(lane))
    ELSE lane

(* push_pending's change of the index: key k joins the end of lane p. *)
Joined(idx, k, p) == [idx EXCEPT ![p] = Append(@, k)]

-----------------------------------------------------------------------------
(* try_enqueue, first branch: the key waits.  A higher priority moves it   *)
(* to the end of the new lane, any other signal leaves its place alone.    *)
EnqueueStaying(k, t, p) ==
  /\ pending' = [pending EXCEPT ![k] = Coalesce(@, t, p)]
  /\ UNCHANGED <<inFlight, index>>

EnqueueMoving(k, t, p) ==
  /\ pending' = [pending EXCEPT ![k] = Coalesce(@, t, p)]
  /\ index' = Joined([index EXCEPT ![pending[k].priority] = Without(@, k)], k, p)
  /\ UNCHANGED inFlight

EnqueuePending_AlwaysMoves(k, t, p) ==
  pending[k] # None /\ EnqueueMoving(k, t, Greater(p, pending[k].priority))

EnqueuePending_NeverMoves(k, t, p) ==
  pending[k] # None /\ EnqueueStaying(k, t, p)

EnqueuePending(k, t, p) ==
  /\ pending[k] # None
  /\ IF p > pending[k].priority
       THEN EnqueueMoving(k, t, p)
       ELSE EnqueueStaying(k, t, p)

(* try_enqueue, second branch: the key is leased.  The retained entry      *)
(* grows; the worker keeps the copy it was given.                          *)
EnqueueLeased(k, t, p) ==
  /\ pending[k] = None
  /\ inFlight[k] # None
  /\ inFlight' = [inFlight EXCEPT ![k] = Coalesce(@, t, p)]
  /\ UNCHANGED <<pending, index>>

(* try_enqueue, last branch: a new key takes a slot when one is free. *)
EnqueueNew(k, t, p) ==
  /\ pending[k] = None
  /\ inFlight[k] = None
  /\ OwnedSlots # Capacity
  /\ pending' = [pending EXCEPT ![k] = [target |-> t, priority |-> p]]
  /\ index' = Joined(index, k, p)
  /\ UNCHANGED inFlight

(* QueueError::Full: the signal is refused and the queue is as before. *)
EnqueueFull(k) ==
  /\ pending[k] = None
  /\ inFlight[k] = None
  /\ OwnedSlots = Capacity
  /\ UNCHANGED vars

-----------------------------------------------------------------------------
(* pop_pending: lanes from Live down, skipping entries that no longer      *)
(* describe a waiting item of that priority.                               *)
CurrentSlots(p) ==
  {i \in DOMAIN index[p] :
     pending[index[p][i]] # None /\ pending[index[p][i]].priority = p}

ReadyLanes == {p \in Priorities : CurrentSlots(p) # {}}

NextLane == CHOOSE p \in ReadyLanes : \A q \in ReadyLanes : q <= p

NextSlot == CHOOSE i \in CurrentSlots(NextLane) :
              \A j \in CurrentSlots(NextLane) : i <= j

NextKey == index[NextLane][NextSlot]

(* The lanes once everything up to the chosen slot was popped. *)
LanesAfterPop ==
  [p \in Priorities |->
     IF p > NextLane THEN <<>>
     ELSE IF p = NextLane THEN SubSeq(index[p], NextSlot + 1, Len(index[p]))
     ELSE index[p]]

(* pop: the item leaves the queue. *)
Pop ==
  /\ ReadyLanes # {}
  /\ pending' = [pending EXCEPT ![NextKey] = None]
  /\ index' = LanesAfterPop
  /\ UNCHANGED inFlight

LeaseNext_FromTheBack ==
  /\ ReadyLanes # {}
  /\ LET lane == index[NextLane]
         k == lane[Len(lane)]
     IN  /\ inFlight' = [inFlight EXCEPT ![k] = pending[k]]
         /\ pending' = [pending EXCEPT ![k] = None]
         /\ index' = [index EXCEPT ![NextLane] = SubSeq(lane, 1, Len(lane) - 1)]

(* lease_next: the item moves to inFlight and keeps its capacity slot. *)
LeaseNext ==
  /\ ReadyLanes # {}
  /\ inFlight' = [inFlight EXCEPT ![NextKey] = pending[NextKey]]
  /\ pending' = [pending EXCEPT ![NextKey] = None]
  /\ index' = LanesAfterPop

(* pop or lease_next with nothing to return: every lane was popped empty. *)
TakeNothing ==
  /\ ReadyLanes = {}
  /\ index' = [p \in Priorities |-> <<>>]
  /\ UNCHANGED <<pending, inFlight>>

-----------------------------------------------------------------------------
(* The leased item goes back to the end of the lane of its priority. *)
Requeue(k) ==
  /\ pending' = [pending EXCEPT ![k] = inFlight[k]]
  /\ inFlight' = [inFlight EXCEPT ![k] = None]
  /\ index' = Joined(index, k, inFlight[k].priority)

Release(k) ==
  /\ inFlight' = [inFlight EXCEPT ![k] = None]
  /\ UNCHANGED <<pending, index>>

FinishLease_TargetOfTheCursor(k, processed, force, allowGap) ==
  /\ inFlight[k] # None
  /\ IF force \/ (allowGap /\ processed < inFlight[k].target)
       THEN /\ pending' = [pending EXCEPT ![k] = [inFlight[k] EXCEPT !.target = processed]]
            /\ inFlight' = [inFlight EXCEPT ![k] = None]
            /\ index' = Joined(index, k, inFlight[k].priority)
       ELSE Release(k)

(* finish_lease_after_progress: requeued when forced, or when progress was *)
(* made and the target known NOW, not the one leased, is still ahead.      *)
FinishLease(k, processed, force, allowGap) ==
  /\ inFlight[k] # None
  /\ IF force \/ (allowGap /\ processed < inFlight[k].target)
       THEN Requeue(k)
       ELSE Release(k)

(* cancel_lease: a dropped worker future gives its lease back. *)
CancelLease(k) == inFlight[k] # None /\ Requeue(k)

(* abandon_lease: an exhausted source gives up its slot. *)
AbandonLease(k) == inFlight[k] # None /\ Release(k)

-----------------------------------------------------------------------------
Signal(k, t, p) ==
  \/ EnqueuePending(k, t, p)
  \/ EnqueueLeased(k, t, p)
  \/ EnqueueNew(k, t, p)

Next ==
  \/ \E k \in Keys, t \in Offsets, p \in Priorities : Signal(k, t, p)
  \/ \E k \in Keys : EnqueueFull(k)
  \/ Pop
  \/ LeaseNext
  \/ TakeNothing
  \/ \E k \in Keys, t \in Offsets, force, allowGap \in BOOLEAN :
       FinishLease(k, t, force, allowGap)
  \/ \E k \in Keys : CancelLease(k)
  \/ \E k \in Keys : AbandonLease(k)

Spec == Init /\ [][Next]_vars

(* The worker loop leases again and again as long as something waits       *)
(* (WorkerPool); nothing is assumed of signals or of lease results.        *)
FairSpec == Spec /\ WF_vars(LeaseNext)

-----------------------------------------------------------------------------
(* Types of the three maps of the queue. *)
TypeOK ==
  /\ pending \in [Keys -> Item \cup {None}]
  /\ inFlight \in [Keys -> Item \cup {None}]
  /\ index \in [Priorities -> Seq(Keys)]

(* A key occurs at most once in the whole index. *)
OneSlotPerKey ==
  \A p, q \in Priorities : \A i \in DOMAIN index[p], j \in DOMAIN index[q] :
    index[p][i] = index[q][j] => p = q /\ i = j

(* Every lane entry describes a waiting item of that lane's priority. *)
NoStaleSlot ==
  \A p \in Priorities : \A i \in DOMAIN index[p] :
    /\ pending[index[p][i]] # None
    /\ pending[index[p][i]].priority = p

(* Every waiting item can be found through its lane. *)
EveryItemIndexed ==
  \A k \in Keys :
    pending[k] # None => \E i \in DOMAIN index[pending[k].priority] :
                            index[pending[k].priority][i] = k

(* queue.rs index_len: "Each pending item has exactly one index slot", so  *)
(* no accepted source is ever out of reach of lease_next and the lanes     *)
(* never outgrow the capacity.                                             *)
IndexMatchesPending == OneSlotPerKey /\ NoStaleSlot /\ EveryItemIndexed

(* A source generation is never waiting and leased at once: two workers    *)
(* never read one source at the same time, whatever signals, requeues and  *)
(* cancellations interleave.                                               *)
NeverWaitingAndLeased ==
  \A k \in Keys : pending[k] = None \/ inFlight[k] = None

(* Waiting and leased keys together never exceed the capacity, although a  *)
(* requeue takes no capacity check.                                        *)
WithinCapacity ==
  /\ IsFiniteSet(PendingKeys)
  /\ IsFiniteSet(LeasedKeys)
  /\ OwnedSlots <= Capacity

(* The two maps and the lanes keep their types, agree with each other, own *)
(* no key twice and stay within the capacity.                              *)
QueueIsSound ==
  TypeOK /\ IndexMatchesPending /\ NeverWaitingAndLeased /\ WithinCapacity

(* What the queue owes key k: its waiting or leased item, or None. *)
Owed(k) == IF pending[k] # None THEN pending[k] ELSE inFlight[k]

(* As long as a key owns a slot its target and its urgency never go back:  *)
(* a signal that arrives while a worker holds the lease is not overwritten *)
(* by what the worker hands back.                                          *)
WorkNeverShrinks ==
  [][\A k \in Keys : Owed(k) # None /\ Owed(k)' # None =>
       /\ Owed(k)'.target >= Owed(k).target
       /\ Owed(k)'.priority >= Owed(k).priority]_vars

(* A live source that waits is eventually taken, however many other live   *)
(* sources are signalled or requeued meanwhile, and however often it is    *)
(* signalled again itself.                                                 *)
LiveWorkIsTaken ==
  \A k \in Keys :
    (pending[k] # None /\ pending[k].priority = Live) ~> (pending[k] = None)

-----------------------------------------------------------------------------
(* The lane of priority p as the abstract line sees it. *)
LineOf(p) ==
  [i \in DOMAIN index[p] |-> [key |-> index[p][i], work |-> pending[index[p][i]]]]

Line == INSTANCE PriorityLine
          WITH line <- LineOf(Live) \o LineOf(ActiveCatchup) \o LineOf(Archive),
               out  <- inFlight

(* The three lanes with their skipped entries are one line served from its *)
(* head: sorted by urgency, first come first served within an urgency, and *)
(* a promoted source queues behind those that were urgent before it.       *)
ServesOneStableLine == Line!Spec
=============================================================================
