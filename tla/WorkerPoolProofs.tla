-------------------------- MODULE WorkerPoolProofs --------------------------
(***************************************************************************)
(* Proofs about WorkerPool for every set of workers and keys and every     *)
(* capacity: the queue's bookkeeping is right, and no wake-up is lost      *)
(* between the workers, the feeder and their Notify.                       *)
(***************************************************************************)
EXTENDS WorkerPool, SequenceTheorems, FiniteSetTheorems, TLAPS

-----------------------------------------------------------------------------
WorkerPlaces == {"round", "look", "busy", "finished", "told", "again",
                 "check", "decide", "asleep", "done"}
FeederPlaces == {"receive", "arm", "try", "notify", "drop", "full",
                 "close", "tell", "join", "done"}
Notes == {"none", "armed", "one", "all"}

Distinct(list)  == \A i, j \in 1 .. Len(list) : list[i] = list[j] => i = j
Occurs(t, list) == \E i \in 1 .. Len(list) : list[i] = t

(* The Notify: its list is the armed tasks, each once, and the permit is   *)
(* only stored when nobody is armed.                                       *)
NotifyOK(notes, list, stored) ==
  /\ notes \in [Tasks -> Notes]
  /\ list \in Seq(Tasks)
  /\ stored \in BOOLEAN
  /\ Distinct(list)
  /\ \A t \in Tasks : notes[t] = "armed" <=> Occurs(t, list)
  /\ stored => list = <<>>

Types ==
  /\ input \in Seq(Keys)
  /\ at \in [Tasks -> WorkerPlaces \cup FeederPlaces]
  /\ at[Feeder] \in FeederPlaces /\ \A w \in Workers : at[w] \in WorkerPlaces
  /\ item \in [Tasks -> Keys \cup {NoKey}]
  /\ closed \in BOOLEAN

(* A task has a Notified from where it arms to where it drops or awaits.   *)
NotesOK ==
  /\ \A w \in Workers : note[w] = "none" <=> at[w] \in {"round", "done"}
  /\ note[Feeder] = "none" <=> at[Feeder] \notin {"try", "notify", "drop", "full"}
  /\ closed => at[Feeder] \in {"tell", "join", "done"}

(* Each lease is in the hands of one busy worker. *)
BusyAt(places) == {w \in Workers : places[w] = "busy"}
HandsOK(places, hands, taken) ==
  /\ taken = {hands[w] : w \in BusyAt(places)}
  /\ \A v, w \in BusyAt(places) : hands[v] = hands[w] => v = w

QueueOK ==
  /\ waiting \subseteq Keys /\ IsFiniteSet(waiting)
  /\ leased \subseteq Keys /\ IsFiniteSet(leased)
  /\ waiting \cap leased = {}
  /\ Cardinality(waiting) + Cardinality(leased) <= Capacity
  /\ HandsOK(at, item, leased)
  /\ at[Feeder] \in {"arm", "try", "full"} => item[Feeder] \in Keys

(* Somebody will look at the queue: a worker that works or was called      *)
(* alone does so before it may sleep or end; else everybody who is left    *)
(* was called together.                                                    *)
Working == {"round", "look", "busy", "finished", "told", "again"}
SomebodyLooks(places, notes) ==
  \/ \E w \in Workers : places[w] \in Working \/ notes[w] = "one"
  \/ \A w \in Workers : places[w] = "done" \/ notes[w] = "all"

(* While an item waits, the call for it is still to be made, or the feeder *)
(* heard it itself and will pass it on, or somebody will look.             *)
Hope ==
  waiting # {} =>
    \/ at[Feeder] = "notify"
    \/ at[Feeder] = "drop" /\ note[Feeder] = "one"
    \/ SomebodyLooks(at, note)

IInv == Types /\ NotifyOK(note, waiters, permit) /\ NotesOK /\ QueueOK /\ Hope

-----------------------------------------------------------------------------
(* Append, Tail and RemoveAt keep a list of tasks without repetitions.      *)
LEMMA AppendKeepsList ==
  ASSUME NEW S, NEW list \in Seq(S), NEW x \in S, Distinct(list), ~Occurs(x, list)
  PROVE  /\ Append(list, x) \in Seq(S)
         /\ Distinct(Append(list, x))
         /\ \A t : Occurs(t, Append(list, x)) <=> Occurs(t, list) \/ t = x
<1> DEFINE n == Len(list)
           r == Append(list, x)
<1>1. n \in Nat /\ r \in Seq(S) /\ Len(r) = n + 1
  BY AppendProperties
<1>2. \A i \in 1 .. n : r[i] = list[i]
  BY AppendProperties
<1>3. r[n + 1] = x
  BY AppendProperties
<1>4. \A i \in 1 .. Len(r) : i \in 1 .. n \/ i = n + 1
  BY <1>1
<1>5. 1 .. n \subseteq 1 .. Len(r) /\ n + 1 \in 1 .. Len(r)
  BY <1>1
<1>6. \A i \in 1 .. n : list[i] # x
  BY DEF Occurs
<1> HIDE DEF r
<1>7. Distinct(r)
  BY <1>2, <1>3, <1>4, <1>6 DEF Distinct
<1>8. ASSUME NEW t PROVE Occurs(t, r) <=> Occurs(t, list) \/ t = x
  BY <1>2, <1>3, <1>4, <1>5 DEF Occurs
<1> QED
  BY <1>1, <1>7, <1>8 DEF r

(* Tail drops just the head of a list without repetitions.                 *)
LEMMA TailKeepsList ==
  ASSUME NEW S, NEW list \in Seq(S), list # <<>>, Distinct(list)
  PROVE  /\ Head(list) \in S /\ Occurs(Head(list), list)
         /\ Tail(list) \in Seq(S)
         /\ Distinct(Tail(list))
         /\ \A t : Occurs(t, Tail(list)) <=> Occurs(t, list) /\ t # Head(list)
<1> DEFINE n == Len(list)
           r == Tail(list)
<1>1. n \in Nat /\ n >= 1 /\ Head(list) \in S /\ Head(list) = list[1]
  BY EmptySeq, HeadTailProperties
<1>2. r \in Seq(S) /\ Len(r) = n - 1
  BY HeadTailProperties
<1>3. \A i \in 1 .. Len(r) : r[i] = list[i + 1]
  BY HeadTailProperties
<1>4. \A i \in 1 .. Len(r) : i + 1 \in 1 .. n /\ i + 1 # 1
  BY <1>1, <1>2
<1>5. \A i \in 1 .. n : i # 1 => i - 1 \in 1 .. Len(r) /\ (i - 1) + 1 = i
  BY <1>1, <1>2
<1>6. 1 \in 1 .. n
  BY <1>1
<1>7. Occurs(Head(list), list)
  BY <1>1, <1>6 DEF Occurs
<1> HIDE DEF r
<1>8. \A i, j \in 1 .. Len(r) : i + 1 = j + 1 => i = j
  BY <1>2, <1>1
<1>9. Distinct(r)
  BY <1>3, <1>4, <1>8 DEF Distinct
<1>10. ASSUME NEW t, Occurs(t, r) PROVE Occurs(t, list) /\ t # Head(list)
  BY <1>10, <1>1, <1>3, <1>4, <1>6 DEF Occurs, Distinct
<1>11. ASSUME NEW t, Occurs(t, list), t # Head(list) PROVE Occurs(t, r)
  <2>1. PICK i \in 1 .. n : list[i] = t
    BY <1>11 DEF Occurs
  <2>2. i # 1
    BY <2>1, <1>1, <1>11
  <2>3. i - 1 \in 1 .. Len(r) /\ r[i - 1] = t
    BY <2>1, <2>2, <1>3, <1>5
  <2> QED
    BY <2>3 DEF Occurs
<1> QED
  BY <1>1, <1>2, <1>7, <1>9, <1>10, <1>11 DEF r

(* What RemoveAt leaves, place by place.                                   *)
LEMMA RemoveAtElements ==
  ASSUME NEW S, NEW list \in Seq(S), NEW k \in 1 .. Len(list)
  PROVE  /\ RemoveAt(list, k) \in Seq(S)
         /\ Len(RemoveAt(list, k)) = Len(list) - 1
         /\ \A i \in 1 .. Len(list) - 1 :
              RemoveAt(list, k)[i] = IF i < k THEN list[i] ELSE list[i + 1]
<1> DEFINE n == Len(list)
           front == SubSeq(list, 1, k - 1)
           back  == SubSeq(list, k + 1, n)
<1>1. n \in Nat /\ k \in Nat /\ 1 <= k /\ k <= n
  OBVIOUS
<1>2. front \in Seq(S) /\ Len(front) = k - 1 /\ \A i \in 1 .. k - 1 : front[i] = list[i]
  <2>1. \A i \in 1 .. k - 1 : i \in 1 .. n /\ 1 + i - 1 = i
    BY <1>1
  <2>2. 1 \in 1 .. n + 1 /\ k - 1 \in 0 .. n /\ (1 <= k - 1 => k - 1 \in 1 .. n)
    BY <1>1
  <2> QED
    BY <1>1, <2>1, <2>2, SubSeqProperties
<1>3. back \in Seq(S) /\ Len(back) = n - k /\ \A i \in 1 .. n - k : back[i] = list[k + i]
  <2>1. \A i \in 1 .. n - k : k + i \in 1 .. n /\ (k + 1) + i - 1 = k + i
    BY <1>1
  <2>2. k + 1 \in 1 .. n + 1 /\ n \in k .. n
    BY <1>1
  <2> QED
    BY <1>1, <2>1, <2>2, SubSeqProperties
<1>4. RemoveAt(list, k) = front \o back
  BY DEF RemoveAt
<1> HIDE DEF front, back
<1>5. front \o back \in Seq(S) /\ Len(front \o back) = Len(front) + Len(back)
  BY <1>2, <1>3, ConcatProperties
<1>6. \A i \in 1 .. Len(front) + Len(back) :
        (front \o back)[i] = IF i <= Len(front) THEN front[i] ELSE back[i - Len(front)]
  BY <1>2, <1>3, ConcatProperties
<1>7. Len(front) + Len(back) = n - 1
  BY <1>1, <1>2, <1>3
<1>8. ASSUME NEW i \in 1 .. n - 1
      PROVE  (front \o back)[i] = IF i < k THEN list[i] ELSE list[i + 1]
  <2>1. CASE i < k
    <3>1. i \in 1 .. k - 1 /\ i <= k - 1
      BY <2>1, <1>1
    <3> QED
      BY <3>1, <2>1, <1>2, <1>6, <1>7
  <2>2. CASE ~(i < k)
    <3>1. ~(i <= k - 1) /\ i - (k - 1) \in 1 .. n - k /\ k + (i - (k - 1)) = i + 1
      BY <2>2, <1>1
    <3> QED
      BY <3>1, <2>2, <1>2, <1>3, <1>6, <1>7
  <2> QED
    BY <2>1, <2>2
<1> QED
  BY <1>4, <1>5, <1>7, <1>8

(* RemoveAt drops just the element at its place.                           *)
LEMMA RemoveAtKeepsList ==
  ASSUME NEW S, NEW list \in Seq(S), NEW k \in 1 .. Len(list), Distinct(list)
  PROVE  /\ RemoveAt(list, k) \in Seq(S)
         /\ Distinct(RemoveAt(list, k))
         /\ \A t : Occurs(t, RemoveAt(list, k)) <=> Occurs(t, list) /\ t # list[k]
<1> DEFINE n == Len(list)
           from(i) == IF i < k THEN i ELSE i + 1
<1>1. n \in Nat /\ k \in Nat /\ 1 <= k /\ k <= n
  OBVIOUS
<1>2. PICK r : r = RemoveAt(list, k)
  OBVIOUS
<1>3. r \in Seq(S) /\ Len(r) = n - 1
  BY <1>2, RemoveAtElements
<1>4. \A i \in 1 .. n - 1 : r[i] = list[from(i)]
  BY <1>2, RemoveAtElements
<1>5. \A i \in 1 .. n - 1 : from(i) \in 1 .. n /\ from(i) # k
  BY <1>1
<1>6. \A i, j \in 1 .. n - 1 : from(i) = from(j) => i = j
  BY <1>1
<1>7. \A j \in 1 .. n : j # k => \E i \in 1 .. n - 1 : from(i) = j
  <2> SUFFICES ASSUME NEW j \in 1 .. n, j # k PROVE \E i \in 1 .. n - 1 : from(i) = j
    OBVIOUS
  <2>1. CASE j < k
    <3>1. j \in 1 .. n - 1 /\ from(j) = j
      BY <2>1, <1>1
    <3> QED
      BY <3>1
  <2>2. CASE j > k
    <3>1. j - 1 \in 1 .. n - 1 /\ from(j - 1) = j
      BY <2>2, <1>1
    <3> QED
      BY <3>1
  <2> QED
    BY <2>1, <2>2, <1>1
<1> HIDE DEF from
<1>8. Distinct(r)
  BY <1>3, <1>4, <1>5, <1>6 DEF Distinct
<1>9. ASSUME NEW t PROVE Occurs(t, r) <=> Occurs(t, list) /\ t # list[k]
  <2>1. ASSUME Occurs(t, r) PROVE Occurs(t, list) /\ t # list[k]
    BY <2>1, <1>3, <1>4, <1>5 DEF Occurs, Distinct
  <2>2. ASSUME Occurs(t, list), t # list[k] PROVE Occurs(t, r)
    <3>1. PICK j \in 1 .. n : list[j] = t
      BY <2>2 DEF Occurs
    <3>2. j # k
      BY <3>1, <2>2
    <3>3. PICK i \in 1 .. n - 1 : from(i) = j
      BY <3>2, <1>7
    <3> QED
      BY <3>1, <3>3, <1>3, <1>4 DEF Occurs
  <2> QED
    BY <2>1, <2>2
<1> QED
  BY <1>2, <1>3, <1>8, <1>9


-----------------------------------------------------------------------------
(* What each move on a Notify leaves: on values first, then as the actions *)
(* use it.                                                                 *)
LEMMA JoinKeeps ==
  ASSUME NEW n, NEW l, NEW p, NotifyOK(n, l, p), NEW t \in Tasks, n[t] = "none"
  PROVE  /\ NotifyOK([n EXCEPT ![t] = "all"], l, FALSE)
         /\ p = FALSE => NotifyOK([n EXCEPT ![t] = "armed"], Append(l, t), FALSE)
<1> USE DEF NotifyOK
<1>1. NotifyOK([n EXCEPT ![t] = "all"], l, FALSE)
  <2>1. PICK m : m = [n EXCEPT ![t] = "all"]
    OBVIOUS
  <2>2. m \in [Tasks -> Notes] /\ \A u \in Tasks : m[u] = IF u = t THEN "all" ELSE n[u]
    BY <2>1 DEF Notes
  <2> QED
    BY <2>1, <2>2
<1>2. ASSUME p = FALSE PROVE NotifyOK([n EXCEPT ![t] = "armed"], Append(l, t), FALSE)
  <2>1. ~Occurs(t, l)
    OBVIOUS
  <2>2. PICK r : r = Append(l, t)
    OBVIOUS
  <2>3. r \in Seq(Tasks) /\ Distinct(r) /\ \A u : Occurs(u, r) <=> Occurs(u, l) \/ u = t
    BY <2>1, <2>2, AppendKeepsList
  <2>4. PICK m : m = [n EXCEPT ![t] = "armed"]
    OBVIOUS
  <2>5. m \in [Tasks -> Notes] /\ \A u \in Tasks : m[u] = IF u = t THEN "armed" ELSE n[u]
    BY <2>4 DEF Notes
  <2>6. NotifyOK(m, r, FALSE)
    BY <2>3, <2>5
  <2> QED
    BY <1>2, <2>2, <2>4, <2>6
<1> QED
  BY <1>1, <1>2

(* Calling the oldest waiter keeps the Notify sound.                       *)
LEMMA CallKeeps ==
  ASSUME NEW n, NEW l, NEW p, NotifyOK(n, l, p), l # <<>>
  PROVE  /\ Head(l) \in Tasks /\ n[Head(l)] = "armed"
         /\ NotifyOK([n EXCEPT ![Head(l)] = "one"], Tail(l), p)
<1> USE DEF NotifyOK
<1>1. PICK r : r = Tail(l)
  OBVIOUS
<1>2. PICK h : h = Head(l)
  OBVIOUS
<1>3. /\ h \in Tasks /\ Occurs(h, l)
      /\ r \in Seq(Tasks) /\ Distinct(r)
      /\ \A u : Occurs(u, r) <=> Occurs(u, l) /\ u # h
  BY <1>1, <1>2, TailKeepsList
<1>4. PICK m : m = [n EXCEPT ![h] = "one"]
  OBVIOUS
<1>5. m \in [Tasks -> Notes] /\ \A u \in Tasks : m[u] = IF u = h THEN "one" ELSE n[u]
  BY <1>4 DEF Notes
<1>6. n[h] = "armed" /\ ~p
  BY <1>3
<1>7. NotifyOK(m, r, p)
  BY <1>3, <1>5, <1>6
<1> QED
  BY <1>1, <1>2, <1>3, <1>4, <1>6, <1>7

(* With an empty list nobody is armed.                                     *)
LEMMA NobodyWaits ==
  ASSUME NEW n, NEW l, NEW p, NotifyOK(n, l, p), l = <<>>
  PROVE  /\ \A t \in Tasks : n[t] # "armed"
         /\ NotifyOK(n, l, TRUE)
<1>1. \A i : i \notin 1 .. Len(l)
  <2>1. Len(l) = 0
    BY EmptySeq
  <2> QED
    BY <2>1
<1>2. \A t : ~Occurs(t, l)
  BY <1>1 DEF Occurs
<1> QED
  BY <1>2 DEF NotifyOK

(* Calling all waiters empties the list and keeps the Notify sound.        *)
LEMMA CallAllKeeps ==
  ASSUME NEW n, NEW l, NEW p, NotifyOK(n, l, p)
  PROVE  NotifyOK([t \in Tasks |-> IF n[t] = "armed" THEN "all" ELSE n[t]], <<>>, p)
<1>1. PICK e : e = <<>>
  OBVIOUS
<1>2. e \in Seq(Tasks) /\ Len(e) = 0
  BY <1>1, EmptySeq
<1>3. \A i : i \notin 1 .. Len(e)
  BY <1>2
<1>4. Distinct(e) /\ \A t : ~Occurs(t, e)
  BY <1>3 DEF Occurs, Distinct
<1>5. PICK m : m = [t \in Tasks |-> IF n[t] = "armed" THEN "all" ELSE n[t]]
  OBVIOUS
<1>6. m \in [Tasks -> Notes] /\ \A t \in Tasks : m[t] # "armed"
  BY <1>5 DEF NotifyOK, Notes
<1> QED
  BY <1>1, <1>2, <1>4, <1>5, <1>6 DEF NotifyOK

(* Dropping a wait that is not on the list keeps the Notify sound.         *)
LEMMA DropKeeps ==
  ASSUME NEW n, NEW l, NEW p, NotifyOK(n, l, p), NEW t \in Tasks, n[t] # "armed"
  PROVE  NotifyOK([n EXCEPT ![t] = "none"], l, p)
<1>1. PICK m : m = [n EXCEPT ![t] = "none"]
  OBVIOUS
<1>2. m \in [Tasks -> Notes] /\ \A u \in Tasks : m[u] = IF u = t THEN "none" ELSE n[u]
  BY <1>1 DEF NotifyOK, Notes
<1> QED
  BY <1>1, <1>2 DEF NotifyOK

(* A wait on the list that is dropped leaves the list.                     *)
LEMMA LeaveKeeps ==
  ASSUME NEW n, NEW l, NEW p, NotifyOK(n, l, p), NEW i \in DOMAIN l
  PROVE  NotifyOK([n EXCEPT ![l[i]] = "none"], RemoveAt(l, i), p)
<1> USE DEF NotifyOK
<1>1. i \in 1 .. Len(l) /\ l[i] \in Tasks /\ l # <<>>
  BY EmptySeq
<1>2. PICK r : r = RemoveAt(l, i)
  OBVIOUS
<1>3. PICK h : h = l[i]
  OBVIOUS
<1>4. /\ r \in Seq(Tasks) /\ Distinct(r)
      /\ \A u : Occurs(u, r) <=> Occurs(u, l) /\ u # h
  BY <1>1, <1>2, <1>3, RemoveAtKeepsList
<1>5. PICK m : m = [n EXCEPT ![h] = "none"]
  OBVIOUS
<1>6. m \in [Tasks -> Notes] /\ \A u \in Tasks : m[u] = IF u = h THEN "none" ELSE n[u]
  BY <1>5 DEF Notes
<1>7. NotifyOK(m, r, p)
  BY <1>1, <1>3, <1>4, <1>6
<1> QED
  BY <1>2, <1>3, <1>5, <1>7

(* notify_one: nobody is armed, or one armed task is called.               *)
Called(was, now) ==
  \/ (\A t \in Tasks : was[t] # "armed") /\ now = was
  \/ \E h \in Tasks : was[h] = "armed" /\ now = [was EXCEPT ![h] = "one"]

(* A drop: a call that was not used goes on to another armed task.         *)
Dropped(t, was, now) ==
  IF was[t] = "one" THEN Called([was EXCEPT ![t] = "none"], now)
                    ELSE now = [was EXCEPT ![t] = "none"]

(* notify_one keeps the Notify sound.                                      *)
LEMMA NotifyOneOfKeeps ==
  ASSUME NEW n, NotifyOK(n, waiters, permit), NotifyOneOf(waiters, n)
  PROVE  NotifyOK(note, waiters, permit)' /\ Called(n, note')
<1>1. CASE waiters = <<>>
  <2>1. permit' = TRUE /\ note' = n /\ waiters' = waiters
    BY <1>1 DEF NotifyOneOf
  <2>2. (\A t \in Tasks : n[t] # "armed") /\ NotifyOK(n, waiters, TRUE)
    BY <1>1, NobodyWaits
  <2> QED
    BY <2>1, <2>2 DEF Called
<1>2. CASE waiters # <<>>
  <2>1. /\ note' = [n EXCEPT ![Head(waiters)] = "one"]
        /\ waiters' = Tail(waiters) /\ permit' = permit
    BY <1>2 DEF NotifyOneOf
  <2>2. /\ Head(waiters) \in Tasks /\ n[Head(waiters)] = "armed"
        /\ NotifyOK([n EXCEPT ![Head(waiters)] = "one"], Tail(waiters), permit)
    BY <1>2, CallKeeps
  <2> QED
    BY <2>1, <2>2 DEF Called
<1> QED
  BY <1>1, <1>2

(* enable keeps the Notify sound.                                          *)
LEMMA ArmKeeps ==
  ASSUME NotifyOK(note, waiters, permit), NEW t \in Tasks, note[t] = "none", Arm(t)
  PROVE  /\ NotifyOK(note, waiters, permit)'
         /\ note' = [note EXCEPT ![t] = IF permit THEN "all" ELSE "armed"]
<1>1. /\ NotifyOK([note EXCEPT ![t] = "all"], waiters, FALSE)
      /\ permit = FALSE => NotifyOK([note EXCEPT ![t] = "armed"], Append(waiters, t), FALSE)
  BY JoinKeeps
<1>2. CASE permit
  <2>1. note' = [note EXCEPT ![t] = "all"] /\ waiters' = waiters /\ permit' = FALSE
    BY <1>2 DEF Arm
  <2> QED
    BY <1>1, <1>2, <2>1
<1>3. CASE ~permit
  <2>1. /\ note' = [note EXCEPT ![t] = "armed"] /\ waiters' = Append(waiters, t)
        /\ permit' = FALSE
    BY <1>3 DEF Arm
  <2> QED
    BY <1>1, <1>3, <2>1 DEF NotifyOK
<1> QED
  BY <1>2, <1>3

(* notify_waiters keeps the Notify sound.                                  *)
LEMMA NotifyAllKeeps ==
  ASSUME NotifyOK(note, waiters, permit), NotifyAll
  PROVE  NotifyOK(note, waiters, permit)'
  BY CallAllKeeps DEF NotifyAll

(* Dropping a wait, and passing its notification on, keeps the Notify      *)
(* sound.                                                                  *)
LEMMA ForgetKeeps ==
  ASSUME NotifyOK(note, waiters, permit), NEW t \in Tasks, Forget(t)
  PROVE  NotifyOK(note, waiters, permit)' /\ Dropped(t, note, note')
<1>1. CASE note[t] = "one"
  <2>1. NotifyOK([note EXCEPT ![t] = "none"], waiters, permit)
    BY <1>1, DropKeeps
  <2>2. NotifyOneOf(waiters, [note EXCEPT ![t] = "none"])
    BY <1>1 DEF Forget
  <2>3. NotifyOK(note, waiters, permit)' /\ Called([note EXCEPT ![t] = "none"], note')
    BY <2>1, <2>2, NotifyOneOfKeeps
  <2> QED
    BY <1>1, <2>3 DEF Dropped
<1>2. CASE note[t] = "armed"
  <2>1. PICK i \in DOMAIN waiters : waiters[i] = t /\ waiters' = RemoveAt(waiters, i)
    BY <1>2 DEF Forget
  <2>2. note' = [note EXCEPT ![t] = "none"] /\ permit' = permit
    BY <1>2 DEF Forget
  <2>3. NotifyOK([note EXCEPT ![t] = "none"], RemoveAt(waiters, i), permit)
    BY <2>1, LeaveKeeps
  <2> QED
    BY <1>2, <2>1, <2>2, <2>3 DEF Dropped
<1>3. CASE note[t] \notin {"one", "armed"}
  <2>1. note' = [note EXCEPT ![t] = "none"] /\ permit' = permit /\ waiters' = waiters
    BY <1>3 DEF Forget
  <2>2. NotifyOK([note EXCEPT ![t] = "none"], waiters, permit)
    BY <1>3, DropKeeps
  <2> QED
    BY <1>3, <2>1, <2>2 DEF Dropped
<1> QED
  BY <1>1, <1>2, <1>3

(* Waking from a wait keeps the Notify sound.                              *)
LEMMA WokenKeeps ==
  ASSUME NotifyOK(note, waiters, permit), NEW t \in Tasks, Woken(t)
  PROVE  NotifyOK(note, waiters, permit)'
  BY DropKeeps DEF Woken


-----------------------------------------------------------------------------
(* The initial state satisfies the invariant. *)
LEMMA InitGood == Init => IInv
<1> SUFFICES ASSUME Init PROVE IInv
  OBVIOUS
<1> USE DEF Init
<1>1. Types
  <2>1. input \in Seq(Keys)
    BY EmptySeq
  <2>2. at \in [Tasks -> WorkerPlaces \cup FeederPlaces]
    BY DEF WorkerPlaces, FeederPlaces
  <2>3. at[Feeder] \in FeederPlaces /\ \A w \in Workers : at[w] \in WorkerPlaces
    BY PoolAssumption DEF Tasks, WorkerPlaces, FeederPlaces
  <2> QED
    BY <2>1, <2>2, <2>3 DEF Types
<1>2. NotifyOK(note, waiters, permit)
  <2>1. waiters \in Seq(Tasks) /\ \A i : i \notin 1 .. Len(waiters)
    BY EmptySeq
  <2>2. note \in [Tasks -> Notes] /\ \A t \in Tasks : note[t] # "armed"
    BY DEF Notes
  <2>3. Distinct(waiters) /\ \A t : ~Occurs(t, waiters)
    BY <2>1 DEF Distinct, Occurs
  <2> QED
    BY <2>1, <2>2, <2>3 DEF NotifyOK
<1>3. NotesOK
  BY PoolAssumption DEF NotesOK, Tasks
<1>4. QueueOK
  <2>1. IsFiniteSet({}) /\ Cardinality({}) = 0
    BY FS_EmptySet
  <2>2. at[Feeder] = "receive" /\ BusyAt(at) = {}
    BY PoolAssumption DEF Tasks, BusyAt
  <2>3. 0 + 0 <= Capacity
    BY PoolAssumption
  <2> QED
    BY <2>1, <2>2, <2>3 DEF QueueOK, HandsOK
<1> QED
  BY <1>1, <1>2, <1>3, <1>4 DEF IInv, Hope

(* Every step keeps the types. *)
LEMMA TypesStay ==
  ASSUME Types, QueueOK, [Next]_vars PROVE Types'
<1> USE DEF Types, Tasks, Goto, WorkerPlaces, FeederPlaces
<1>1. ASSUME NEW k \in Keys, Send(k) PROVE Types'
  BY <1>1, AppendProperties DEF Send, queue, notify
<1>2. CASE CloseInput
  BY <1>2 DEF CloseInput, queue, notify
<1>3. CASE Shutdown
  BY <1>3 DEF Shutdown, queue, notify
<1>4. ASSUME NEW w \in Workers, WorkerStep(w) PROVE Types'
  <2> USE PoolAssumption DEF channel, queue, notify
  <2>1. CASE Round(w)
    BY <2>1 DEF Round
  <2>2. CASE Lease(w)
    <3>1. PICK k \in waiting : item' = [item EXCEPT ![w] = k]
      BY <2>2 DEF Lease
    <3>2. k \in Keys
      BY <3>1 DEF QueueOK
    <3> QED
      BY <2>2, <3>1, <3>2 DEF Lease
  <2>3. CASE LeaseNothing(w)
    BY <2>3 DEF LeaseNothing
  <2>4. CASE Finish(w)
    BY <2>4 DEF Finish
  <2>5. CASE TellFinished(w)
    BY <2>5 DEF TellFinished
  <2>6. CASE TellAgain(w)
    BY <2>6 DEF TellAgain
  <2>7. CASE NextRound(w)
    BY <2>7 DEF NextRound
  <2>8. CASE CheckQueue(w)
    BY <2>8 DEF CheckQueue
  <2>9. CASE Exit(w)
    BY <2>9 DEF Exit
  <2>10. CASE Sleep(w)
    BY <2>10 DEF Sleep
  <2>11. CASE Wake(w)
    BY <2>11 DEF Wake
  <2> QED
    BY <1>4, <2>1, <2>2, <2>3, <2>4, <2>5, <2>6, <2>7, <2>8, <2>9, <2>10, <2>11
       DEF WorkerStep
<1>5. CASE FeederStep
  <2> USE PoolAssumption DEF channel, queue, notify
  <2>1. CASE Receive
    <3>1. Head(input) \in Keys /\ Tail(input) \in Seq(Keys)
      BY <2>1, HeadTailProperties DEF Receive
    <3> QED
      BY <2>1, <3>1 DEF Receive
  <2>2. CASE ReceiveNothing
    BY <2>2 DEF ReceiveNothing
  <2>3. CASE FeederArms
    BY <2>3 DEF FeederArms
  <2>4. CASE Enqueue
    BY <2>4 DEF Enqueue
  <2>5. CASE EnqueueFull
    BY <2>5 DEF EnqueueFull
  <2>6. CASE EnqueueNotifies
    BY <2>6 DEF EnqueueNotifies
  <2>7. CASE FeederDrops
    BY <2>7 DEF FeederDrops
  <2>8. CASE FeederWakes
    BY <2>8 DEF FeederWakes
  <2>9. CASE Close
    BY <2>9 DEF Close
  <2>10. CASE TellClosed
    BY <2>10 DEF TellClosed
  <2>11. CASE Return
    BY <2>11 DEF Return
  <2> QED
    BY <1>5, <2>1, <2>2, <2>3, <2>4, <2>5, <2>6, <2>7, <2>8, <2>9, <2>10, <2>11
       DEF FeederStep
<1>6. CASE Returned \/ UNCHANGED vars
  BY <1>6 DEF Returned, vars, channel, queue, notify
<1> QED
  BY <1>1, <1>2, <1>3, <1>4, <1>5, <1>6 DEF Next

(* A call changes nothing but "armed" to "one", of one task at most. *)
LEMMA CalledNotes ==
  ASSUME NEW was \in [Tasks -> Notes], NEW now, Called(was, now)
  PROVE  /\ now \in [Tasks -> Notes]
         /\ \A t \in Tasks : \/ now[t] = was[t]
                             \/ was[t] = "armed" /\ now[t] = "one"
  BY DEF Called, Notes

(* Dropping a wait changes the notes of that task, and calls one other at  *)
(* most.                                                                   *)
LEMMA DroppedNotes ==
  ASSUME NEW was \in [Tasks -> Notes], NEW now, NEW t \in Tasks, Dropped(t, was, now)
  PROVE  /\ now[t] = "none"
         /\ \A u \in Tasks \ {t} : \/ now[u] = was[u]
                                   \/ was[u] = "armed" /\ now[u] = "one"
<1>1. PICK mid : mid = [was EXCEPT ![t] = "none"]
  OBVIOUS
<1>2. mid \in [Tasks -> Notes] /\ \A u \in Tasks : mid[u] = IF u = t THEN "none" ELSE was[u]
  BY <1>1 DEF Notes
<1>3. CASE was[t] = "one"
  <2>1. \A u \in Tasks : \/ now[u] = mid[u]
                         \/ mid[u] = "armed" /\ now[u] = "one"
    BY <1>1, <1>2, <1>3, CalledNotes DEF Dropped
  <2> QED
    BY <1>2, <2>1
<1>4. CASE was[t] # "one"
  BY <1>1, <1>2, <1>4 DEF Dropped
<1> QED
  BY <1>3, <1>4


(* The Notify's own invariant is kept by every step, and so is where each  *)
(* task has a Notified.                                                    *)
LEMMA NotesStay ==
  ASSUME IInv, [Next]_vars PROVE NotifyOK(note, waiters, permit)' /\ NotesOK'
<1> USE PoolAssumption DEF IInv, Tasks, Goto
<1>0. note \in [Tasks -> Notes]
  BY DEF NotifyOK
<1>1. CASE UNCHANGED <<note, waiters, permit, at, closed>>
  BY <1>1 DEF NotifyOK, NotesOK
<1>2. CASE (\E k \in Keys : Send(k)) \/ CloseInput \/ Shutdown \/ Returned \/ UNCHANGED vars
  BY <1>1, <1>2 DEF Send, CloseInput, Shutdown, Returned, vars, channel, queue, notify
<1>3. ASSUME NEW w \in Workers, WorkerStep(w)
      PROVE  NotifyOK(note, waiters, permit)' /\ NotesOK'
  <2> USE DEF Types, notify
  <2>a. ASSUME UNCHANGED notify PROVE NotifyOK(note, waiters, permit)'
    BY <2>a DEF NotifyOK
  <2>1. CASE Round(w)
    <3>1. note[w] = "none"
      BY <2>1 DEF Round, NotesOK
    <3>2. /\ NotifyOK(note, waiters, permit)'
          /\ note' = [note EXCEPT ![w] = IF permit THEN "all" ELSE "armed"]
      BY <2>1, <3>1, ArmKeeps DEF Round
    <3>3. NotesOK'
      BY <1>0, <2>1, <3>2 DEF Round, NotesOK
    <3> QED
      BY <3>2, <3>3
  <2>2. CASE Lease(w)
    BY <2>2, <2>a DEF Lease, NotesOK
  <2>3. CASE LeaseNothing(w)
    BY <2>3, <2>a DEF LeaseNothing, NotesOK
  <2>4. CASE Finish(w)
    BY <2>4, <2>a DEF Finish, NotesOK
  <2>5. CASE TellFinished(w)
    <3>1. NotifyOK(note, waiters, permit)'
      BY <2>5, NotifyAllKeeps DEF TellFinished
    <3> QED
      BY <1>0, <2>5, <3>1 DEF TellFinished, NotifyAll, NotesOK
  <2>6. CASE TellAgain(w)
    <3>1. NotifyOK(note, waiters, permit)'
      BY <2>6, NotifyAllKeeps DEF TellAgain
    <3> QED
      BY <1>0, <2>6, <3>1 DEF TellAgain, NotifyAll, NotesOK
  <2>7. CASE NextRound(w)
    <3>1. NotifyOK(note, waiters, permit)' /\ Dropped(w, note, note')
      BY <2>7, ForgetKeeps DEF NextRound
    <3>2. /\ note'[w] = "none"
          /\ \A u \in Tasks \ {w} : \/ note'[u] = note[u]
                                    \/ note[u] = "armed" /\ note'[u] = "one"
      BY <1>0, <3>1, DroppedNotes
    <3> QED
      BY <2>7, <3>1, <3>2 DEF NextRound, NotesOK
  <2>8. CASE CheckQueue(w)
    BY <2>8, <2>a DEF CheckQueue, NotesOK
  <2>9. CASE Exit(w)
    <3>1. NotifyOK(note, waiters, permit)' /\ Dropped(w, note, note')
      BY <2>9, ForgetKeeps DEF Exit
    <3>2. /\ note'[w] = "none"
          /\ \A u \in Tasks \ {w} : \/ note'[u] = note[u]
                                    \/ note[u] = "armed" /\ note'[u] = "one"
      BY <1>0, <3>1, DroppedNotes
    <3> QED
      BY <2>9, <3>1, <3>2 DEF Exit, NotesOK
  <2>10. CASE Sleep(w)
    BY <2>10, <2>a DEF Sleep, NotesOK
  <2>11. CASE Wake(w)
    <3>1. NotifyOK(note, waiters, permit)'
      BY <2>11, WokenKeeps DEF Wake
    <3> QED
      BY <1>0, <2>11, <3>1 DEF Wake, Woken, NotesOK
  <2> QED
    BY <1>3, <2>1, <2>2, <2>3, <2>4, <2>5, <2>6, <2>7, <2>8, <2>9, <2>10, <2>11
       DEF WorkerStep
<1>4. CASE FeederStep
  <2> USE DEF Types, notify
  <2>a. ASSUME UNCHANGED notify PROVE NotifyOK(note, waiters, permit)'
    BY <2>a DEF NotifyOK
  <2>1. CASE Receive
    BY <2>1, <2>a DEF Receive, NotesOK
  <2>2. CASE ReceiveNothing
    BY <2>2, <2>a DEF ReceiveNothing, NotesOK
  <2>3. CASE FeederArms
    <3>1. note[Feeder] = "none"
      BY <2>3 DEF FeederArms, NotesOK
    <3>2. /\ NotifyOK(note, waiters, permit)'
          /\ note' = [note EXCEPT ![Feeder] = IF permit THEN "all" ELSE "armed"]
      BY <2>3, <3>1, ArmKeeps DEF FeederArms
    <3>3. NotesOK'
      BY <1>0, <2>3, <3>2 DEF FeederArms, NotesOK
    <3> QED
      BY <3>2, <3>3
  <2>4. CASE Enqueue
    BY <2>4, <2>a DEF Enqueue, NotesOK
  <2>5. CASE EnqueueFull
    BY <2>5, <2>a DEF EnqueueFull, NotesOK
  <2>6. CASE EnqueueNotifies
    <3>1. NotifyOK(note, waiters, permit)' /\ Called(note, note')
      BY <2>6, NotifyOneOfKeeps DEF EnqueueNotifies, NotifyOne
    <3>2. \A u \in Tasks : \/ note'[u] = note[u]
                           \/ note[u] = "armed" /\ note'[u] = "one"
      BY <1>0, <3>1, CalledNotes
    <3> QED
      BY <2>6, <3>1, <3>2 DEF EnqueueNotifies, NotesOK
  <2>7. CASE FeederDrops
    <3>1. NotifyOK(note, waiters, permit)' /\ Dropped(Feeder, note, note')
      BY <2>7, ForgetKeeps DEF FeederDrops
    <3>2. /\ note'[Feeder] = "none"
          /\ \A u \in Tasks \ {Feeder} : \/ note'[u] = note[u]
                                         \/ note[u] = "armed" /\ note'[u] = "one"
      BY <1>0, <3>1, DroppedNotes
    <3> QED
      BY <2>7, <3>1, <3>2 DEF FeederDrops, NotesOK
  <2>8. CASE FeederWakes
    <3>1. NotifyOK(note, waiters, permit)'
      BY <2>8, WokenKeeps DEF FeederWakes
    <3> QED
      BY <1>0, <2>8, <3>1 DEF FeederWakes, Woken, NotesOK
  <2>9. CASE Close
    BY <2>9, <2>a DEF Close, NotesOK
  <2>10. CASE TellClosed
    <3>1. NotifyOK(note, waiters, permit)'
      BY <2>10, NotifyAllKeeps DEF TellClosed
    <3> QED
      BY <1>0, <2>10, <3>1 DEF TellClosed, NotifyAll, NotesOK
  <2>11. CASE Return
    BY <2>11, <2>a DEF Return, NotesOK
  <2> QED
    BY <1>4, <2>1, <2>2, <2>3, <2>4, <2>5, <2>6, <2>7, <2>8, <2>9, <2>10, <2>11
       DEF FeederStep
<1> QED
  BY <1>2, <1>3, <1>4 DEF Next


-----------------------------------------------------------------------------
(* Who has what in hands: unchanged, one more lease, one less. *)
LEMMA HandsStay ==
  ASSUME NEW a, NEW i, NEW taken, HandsOK(a, i, taken), NEW b, NEW j,
         BusyAt(b) = BusyAt(a), \A w \in BusyAt(a) : j[w] = i[w]
  PROVE  HandsOK(b, j, taken)
<1>1. {j[w] : w \in BusyAt(b)} = {i[w] : w \in BusyAt(a)}
  OBVIOUS
<1> QED
  BY <1>1 DEF HandsOK

(* A lease is in the hands of the worker that took it.                     *)
LEMMA LeaseInHands ==
  ASSUME NEW a \in [Tasks -> WorkerPlaces \cup FeederPlaces],
         NEW i \in [Tasks -> Keys \cup {NoKey}], NEW taken, HandsOK(a, i, taken),
         NEW w \in Workers, a[w] # "busy", NEW k, k \notin taken
  PROVE  HandsOK([a EXCEPT ![w] = "busy"], [i EXCEPT ![w] = k], taken \cup {k})
<1>1. PICK b : b = [a EXCEPT ![w] = "busy"]
  OBVIOUS
<1>2. PICK j : j = [i EXCEPT ![w] = k]
  OBVIOUS
<1>3. w \notin BusyAt(a) /\ BusyAt(b) = BusyAt(a) \cup {w}
  BY <1>1 DEF BusyAt, Tasks
<1>4. j[w] = k /\ \A v \in BusyAt(a) : j[v] = i[v]
  BY <1>2, <1>3 DEF BusyAt, Tasks
<1>5. {j[v] : v \in BusyAt(b)} = {i[v] : v \in BusyAt(a)} \cup {k}
  BY <1>3, <1>4
<1>6. \A v \in BusyAt(a) : i[v] # k
  BY DEF HandsOK
<1>7. HandsOK(b, j, taken \cup {k})
  BY <1>3, <1>4, <1>5, <1>6 DEF HandsOK
<1> QED
  BY <1>1, <1>2, <1>7

(* A finished lease is in nobody's hands.                                  *)
LEMMA LeaseOutOfHands ==
  ASSUME NEW a \in [Tasks -> WorkerPlaces \cup FeederPlaces],
         NEW i \in [Tasks -> Keys \cup {NoKey}], NEW taken, HandsOK(a, i, taken),
         NEW w \in Workers, a[w] = "busy"
  PROVE  /\ i[w] \in taken
         /\ HandsOK([a EXCEPT ![w] = "finished"], [i EXCEPT ![w] = NoKey],
                    taken \ {i[w]})
<1>1. PICK b : b = [a EXCEPT ![w] = "finished"]
  OBVIOUS
<1>2. PICK j : j = [i EXCEPT ![w] = NoKey]
  OBVIOUS
<1>3. w \in BusyAt(a) /\ BusyAt(b) = BusyAt(a) \ {w}
  BY <1>1 DEF BusyAt, Tasks
<1>4. \A v \in BusyAt(b) : j[v] = i[v]
  BY <1>2, <1>3 DEF BusyAt, Tasks
<1>5. \A v \in BusyAt(b) : i[v] # i[w]
  BY <1>3 DEF HandsOK
<1>6. {j[v] : v \in BusyAt(b)} = taken \ {i[w]}
  BY <1>3, <1>4, <1>5 DEF HandsOK
<1>7. i[w] \in taken
  BY <1>3 DEF HandsOK
<1>8. HandsOK(b, j, taken \ {i[w]})
  BY <1>3, <1>4, <1>6 DEF HandsOK
<1> QED
  BY <1>1, <1>2, <1>7, <1>8

(* The queue's bookkeeping is kept by every step. *)
LEMMA QueueStays ==
  ASSUME IInv, [Next]_vars PROVE QueueOK'
<1> USE PoolAssumption DEF IInv, Types, Goto
<1>a. ASSUME UNCHANGED queue, HandsOK(at, item, leased)',
             at'[Feeder] \in {"arm", "try", "full"} => item'[Feeder] \in Keys
      PROVE  QueueOK'
  BY <1>a DEF QueueOK, queue
<1>0. HandsOK(at, item, leased)
  BY DEF QueueOK
<1>1. CASE UNCHANGED <<queue, at, item>>
  BY <1>1 DEF QueueOK, queue, HandsOK, BusyAt
<1>2. CASE (\E k \in Keys : Send(k)) \/ CloseInput \/ Shutdown \/ Returned \/ UNCHANGED vars
  BY <1>1, <1>2 DEF Send, CloseInput, Shutdown, Returned, vars
<1>3. ASSUME NEW w \in Workers, WorkerStep(w) PROVE QueueOK'
  <2>0. at'[Feeder] = at[Feeder] /\ item'[Feeder] = item[Feeder]
    <3>1. w # Feeder
      OBVIOUS
    <3>2. \E p : at' = [at EXCEPT ![w] = p]
      BY <1>3 DEF WorkerStep, Round, Lease, LeaseNothing, Finish, TellFinished, TellAgain,
                  NextRound, CheckQueue, Exit, Sleep, Wake
    <3>3. item' = item \/ \E k : item' = [item EXCEPT ![w] = k]
      BY <1>3 DEF WorkerStep, Round, Lease, LeaseNothing, Finish, TellFinished, TellAgain,
                  NextRound, CheckQueue, Exit, Sleep, Wake
    <3> QED
      BY <3>1, <3>2, <3>3 DEF Tasks
  <2>1. CASE Lease(w)
    <3>1. PICK k \in waiting : /\ waiting' = waiting \ {k}
                               /\ leased' = leased \cup {k}
                               /\ item' = [item EXCEPT ![w] = k]
      BY <2>1 DEF Lease
    <3>2. k \in Keys /\ k \notin leased
      BY <3>1 DEF QueueOK
    <3>3. at[w] # "busy" /\ at' = [at EXCEPT ![w] = "busy"]
      BY <2>1 DEF Lease
    <3>4. HandsOK(at', item', leased \cup {k})
      BY <1>0, <3>1, <3>2, <3>3, LeaseInHands
    <3>5. IsFiniteSet(waiting') /\ Cardinality(waiting') = Cardinality(waiting) - 1
      BY <3>1, FS_RemoveElement DEF QueueOK
    <3>6. IsFiniteSet(leased') /\ Cardinality(leased') = Cardinality(leased) + 1
      BY <3>1, <3>2, FS_AddElement DEF QueueOK
    <3>7. Cardinality(waiting') + Cardinality(leased') <= Capacity
      <4>1. Cardinality(waiting) \in Nat /\ Cardinality(leased) \in Nat
        BY FS_CardinalityType DEF QueueOK
      <4>2. Cardinality(waiting) + Cardinality(leased) <= Capacity
        BY DEF QueueOK
      <4> QED
        BY <3>5, <3>6, <4>1, <4>2
    <3>8. waiting' \subseteq Keys /\ leased' \subseteq Keys /\ waiting' \cap leased' = {}
      BY <3>1, <3>2 DEF QueueOK
    <3> QED
      BY <2>0, <3>1, <3>4, <3>5, <3>6, <3>7, <3>8 DEF QueueOK
  <2>2. CASE Finish(w)
    <3>1. PICK k : k = item[w]
      OBVIOUS
    <3>2. at[w] = "busy" /\ at' = [at EXCEPT ![w] = "finished"]
          /\ item' = [item EXCEPT ![w] = NoKey] /\ leased' = leased \ {k}
      BY <2>2, <3>1 DEF Finish
    <3>3. k \in leased /\ HandsOK(at', item', leased \ {k})
      BY <1>0, <3>1, <3>2, LeaseOutOfHands
    <3>4. waiting' = waiting \/ waiting' = waiting \cup {k}
      BY <2>2, <3>1 DEF Finish
    <3>5. k \in Keys /\ k \notin waiting
      BY <3>3 DEF QueueOK
    <3>6. IsFiniteSet(leased') /\ Cardinality(leased') = Cardinality(leased) - 1
      BY <3>2, <3>3, FS_RemoveElement DEF QueueOK
    <3>7. /\ IsFiniteSet(waiting')
          /\ \/ Cardinality(waiting') = Cardinality(waiting)
             \/ Cardinality(waiting') = Cardinality(waiting) + 1
      BY <3>4, <3>5, FS_AddElement DEF QueueOK
    <3>8. Cardinality(waiting') + Cardinality(leased') <= Capacity
      <4>1. Cardinality(waiting) \in Nat /\ Cardinality(leased) \in Nat
        BY FS_CardinalityType DEF QueueOK
      <4>2. Cardinality(waiting) + Cardinality(leased) <= Capacity
        BY DEF QueueOK
      <4> QED
        BY <3>6, <3>7, <4>1, <4>2
    <3>9. waiting' \subseteq Keys /\ leased' \subseteq Keys /\ waiting' \cap leased' = {}
      BY <3>2, <3>4, <3>5 DEF QueueOK
    <3> QED
      BY <2>0, <3>2, <3>3, <3>6, <3>7, <3>8, <3>9 DEF QueueOK
  <2>3. CASE ~Lease(w) /\ ~Finish(w)
    <3>1. UNCHANGED <<queue, item>>
      BY <1>3, <2>3 DEF WorkerStep, Round, LeaseNothing, TellFinished, TellAgain,
                        NextRound, CheckQueue, Exit, Sleep, Wake, queue
    <3>2. /\ at[w] # "busy"
          /\ \E p : p # "busy" /\ at' = [at EXCEPT ![w] = p]
      BY <1>3, <2>3 DEF WorkerStep, Round, LeaseNothing, TellFinished, TellAgain,
                        NextRound, CheckQueue, Exit, Sleep, Wake
    <3>3. BusyAt(at') = BusyAt(at)
      BY <3>2 DEF BusyAt, Tasks
    <3>4. HandsOK(at', item', leased')
      <4>1. item' = item /\ leased' = leased
        BY <3>1 DEF queue
      <4>2. HandsOK(at', item, leased)
        BY <1>0, <3>3, HandsStay
      <4> QED
        BY <4>1, <4>2
    <3>5. at'[Feeder] \in {"arm", "try", "full"} => item'[Feeder] \in Keys
      BY <2>0 DEF QueueOK
    <3> QED
      BY <1>a, <3>1, <3>4, <3>5
  <2> QED
    BY <2>1, <2>2, <2>3
<1>4. CASE FeederStep
  <2>1. /\ \E p : at' = [at EXCEPT ![Feeder] = p]
        /\ item' = item \/ \E k : item' = [item EXCEPT ![Feeder] = k]
    BY <1>4 DEF FeederStep, Receive, ReceiveNothing, FeederArms, Enqueue, EnqueueFull,
                EnqueueNotifies, FeederDrops, FeederWakes, Close, TellClosed, Return
  <2>2. BusyAt(at') = BusyAt(at) /\ \A w \in BusyAt(at) : item'[w] = item[w]
    BY <2>1 DEF BusyAt, Tasks
  <2>3. HandsOK(at', item', leased)
    BY <1>0, <2>2, HandsStay
  <2>4. leased' = leased
    BY <1>4 DEF FeederStep, Receive, ReceiveNothing, FeederArms, Enqueue, EnqueueFull,
                EnqueueNotifies, FeederDrops, FeederWakes, Close, TellClosed, Return, queue
  <2>5. CASE Enqueue
    <3>1. PICK k : k = item[Feeder]
      OBVIOUS
    <3>2. k \in Keys
      BY <2>5, <3>1 DEF Enqueue, QueueOK
    <3>3. at'[Feeder] = "notify"
      BY <2>5 DEF Enqueue, Tasks
    <3>4. \/ waiting' = waiting
          \/ waiting' = waiting \cup {k} /\ k \notin leased /\ k \notin waiting /\ ~Full
      BY <2>5, <3>1 DEF Enqueue, Known
    <3>5. CASE waiting' = waiting
      BY <1>a, <2>3, <2>4, <3>3, <3>5 DEF queue
    <3>6. CASE waiting' = waiting \cup {k} /\ k \notin leased /\ k \notin waiting /\ ~Full
      <4>1. IsFiniteSet(waiting') /\ Cardinality(waiting') = Cardinality(waiting) + 1
        BY <3>6, FS_AddElement DEF QueueOK
      <4>2. Cardinality(waiting') + Cardinality(leased) <= Capacity
        <5>1. Cardinality(waiting) \in Nat /\ Cardinality(leased) \in Nat
          BY FS_CardinalityType DEF QueueOK
        <5>2. /\ Cardinality(waiting) + Cardinality(leased) <= Capacity
              /\ Cardinality(waiting) + Cardinality(leased) # Capacity
          BY <3>6 DEF QueueOK, Full
        <5> QED
          BY <4>1, <5>1, <5>2
      <4>3. waiting' \subseteq Keys /\ waiting' \cap leased = {}
        BY <3>2, <3>6 DEF QueueOK
      <4> QED
        BY <2>3, <2>4, <3>3, <4>1, <4>2, <4>3 DEF QueueOK
    <3> QED
      BY <3>4, <3>5, <3>6
  <2>6. CASE Receive
    <3>1. Head(input) \in Keys
      BY <2>6, HeadTailProperties DEF Receive
    <3>2. item'[Feeder] \in Keys
      BY <2>6, <3>1 DEF Receive, Tasks
    <3>3. UNCHANGED queue
      BY <2>6 DEF Receive
    <3> QED
      BY <1>a, <2>3, <2>4, <3>2, <3>3
  <2>7. CASE ~Enqueue /\ ~Receive
    <3>1. UNCHANGED <<queue, item>>
      BY <1>4, <2>7 DEF FeederStep, ReceiveNothing, FeederArms, EnqueueFull,
           EnqueueNotifies, FeederDrops, FeederWakes, Close, TellClosed, Return, queue
    <3>2. at'[Feeder] \in {"arm", "try", "full"} => at[Feeder] \in {"arm", "try", "full"}
      BY <1>4, <2>7 DEF FeederStep, ReceiveNothing, FeederArms, EnqueueFull, Tasks,
           EnqueueNotifies, FeederDrops, FeederWakes, Close, TellClosed, Return
    <3>3. at'[Feeder] \in {"arm", "try", "full"} => item'[Feeder] \in Keys
      BY <3>1, <3>2 DEF QueueOK
    <3> QED
      BY <1>a, <2>3, <2>4, <3>1, <3>3
  <2> QED
    BY <2>5, <2>6, <2>7
<1> QED
  BY <1>2, <1>3, <1>4 DEF Next


-----------------------------------------------------------------------------
(* After a call either a worker heard it, or the feeder did, or nobody is  *)
(* armed: then everybody works, was called or has ended.                   *)
LEMMA CallIsHeard ==
  ASSUME NEW places, NEW was \in [Tasks -> Notes], NEW now, Called(was, now),
         \A w \in Workers : places[w] \in WorkerPlaces,
         \A w \in Workers : now[w] = "none" <=> places[w] \in {"round", "done"}
  PROVE  SomebodyLooks(places, now) \/ (was[Feeder] = "armed" /\ now[Feeder] = "one")
<1>1. CASE \A t \in Tasks : was[t] # "armed"
  <2>1. now = was
    BY <1>1 DEF Called
  <2>2. \A w \in Workers : was[w] \in {"none", "one", "all"}
    BY <1>1 DEF Notes, Tasks
  <2>3. \A w \in Workers : \/ places[w] \in Working \/ now[w] = "one"
                           \/ places[w] = "done" \/ now[w] = "all"
    BY <2>1, <2>2 DEF Working
  <2>4. SomebodyLooks(places, now)
    BY <2>3, Zenon DEF SomebodyLooks
  <2> QED
    BY <2>4
<1>2. CASE ~ \A t \in Tasks : was[t] # "armed"
  <2>1. PICK h \in Tasks : was[h] = "armed" /\ now = [was EXCEPT ![h] = "one"]
    BY <1>2 DEF Called
  <2>2. now[h] = "one"
    BY <2>1
  <2>3. h \in Workers => SomebodyLooks(places, now)
    BY <2>2 DEF SomebodyLooks
  <2>4. h \in Workers \/ h = Feeder
    BY DEF Tasks
  <2> QED
    BY <2>1, <2>2, <2>3, <2>4
<1> QED
  BY <1>1, <1>2

(* Who looks goes on looking while nobody's place changes for the worse. *)
LEMMA LooksOn ==
  ASSUME NEW a, NEW n, SomebodyLooks(a, n), NEW b, NEW m,
         \A w \in Workers : a[w] \in Working => b[w] \in Working,
         \A w \in Workers : n[w] = "one" => m[w] = "one" \/ b[w] \in Working,
         \A w \in Workers : a[w] = "done" => b[w] = "done",
         \A w \in Workers : n[w] = "all" => m[w] = "all" \/ b[w] \in Working \cup {"done"}
  PROVE  SomebodyLooks(b, m)
BY DEF SomebodyLooks

(* No step leaves a waiting item without anybody to look at it. *)
LEMMA HopeStays ==
  ASSUME IInv, [Next]_vars, NotesOK', Types' PROVE Hope'
<1> USE PoolAssumption DEF IInv, Goto
<1>0. note \in [Tasks -> Notes] /\ at \in [Tasks -> WorkerPlaces \cup FeederPlaces]
  BY DEF NotifyOK, Types
<1>w. \A w \in Workers : w \in Tasks /\ w # Feeder
  BY DEF Tasks
<1>f. Feeder \in Tasks
  BY DEF Tasks
<1>1. CASE UNCHANGED <<waiting, at, note>>
  BY <1>1 DEF Hope, SomebodyLooks
<1>2. CASE (\E k \in Keys : Send(k)) \/ CloseInput \/ Shutdown \/ Returned \/ UNCHANGED vars
  BY <1>1, <1>2 DEF Send, CloseInput, Shutdown, Returned, vars, queue, notify
<1>3. ASSUME NEW w \in Workers, WorkerStep(w) PROVE Hope'
  <2>1. CASE Round(w) \/ Lease(w) \/ Finish(w) \/ TellFinished(w) \/ TellAgain(w)
             \/ NextRound(w) \/ Wake(w)
    <3>1. at'[w] \in Working
      BY <1>0, <1>w, <2>1 DEF Round, Lease, Finish, TellFinished, TellAgain, NextRound,
                              Wake, Working
    <3> QED
      BY <3>1 DEF Hope, SomebodyLooks
  <2>2. CASE LeaseNothing(w)
    BY <2>2 DEF LeaseNothing, Hope, queue
  <2>3. CASE CheckQueue(w) \/ Sleep(w)
    <3>1. /\ UNCHANGED <<waiting, note>>
          /\ \A t \in Tasks \ {w} : at'[t] = at[t]
          /\ at[w] \notin Working \cup {"done"}
      BY <1>0, <2>3 DEF CheckQueue, Sleep, queue, notify, Working
    <3>2. SomebodyLooks(at, note) => SomebodyLooks(at', note')
      BY <1>w, <3>1, LooksOn
    <3> QED
      BY <1>w, <1>f, <3>1, <3>2 DEF Hope
  <2>4. CASE Exit(w)
    <3>1. /\ closed /\ waiting' = waiting
          /\ at' = [at EXCEPT ![w] = "done"] /\ at[w] = "decide"
          /\ Dropped(w, note, note')
      BY <1>w, <2>4, ForgetKeeps DEF Exit, queue
    <3>2. note[Feeder] = "none" /\ at[Feeder] \notin {"notify", "drop"}
      BY <3>1 DEF NotesOK
    <3>3. ASSUME waiting # {} PROVE SomebodyLooks(at', note')
      <4>1. SomebodyLooks(at, note)
        BY <3>2, <3>3 DEF Hope
      <4>2. CASE note[w] = "one"
        <5>1. PICK was : was = [note EXCEPT ![w] = "none"]
          OBVIOUS
        <5>2. was \in [Tasks -> Notes] /\ was[Feeder] = "none" /\ Called(was, note')
          BY <1>0, <1>w, <1>f, <3>1, <3>2, <4>2, <5>1 DEF Dropped, Notes
        <5>3. \A v \in Workers : at'[v] \in WorkerPlaces
          BY DEF Types
        <5>4. \A v \in Workers : note'[v] = "none" <=> at'[v] \in {"round", "done"}
          BY DEF NotesOK
        <5> QED
          BY <5>2, <5>3, <5>4, CallIsHeard
      <4>3. CASE note[w] # "one"
        <5>1. note' = [note EXCEPT ![w] = "none"]
          BY <3>1, <4>3 DEF Dropped
        <5>2. at[w] \notin Working
          BY <3>1 DEF Working
        <5> QED
          BY <1>0, <1>w, <3>1, <4>1, <4>3, <5>1, <5>2 DEF SomebodyLooks
      <4> QED
        BY <4>2, <4>3
    <3> QED
      BY <3>1, <3>3 DEF Hope
  <2> QED
    BY <1>3, <2>1, <2>2, <2>3, <2>4 DEF WorkerStep
<1>4. CASE FeederStep
  <2>0. \A w \in Workers : at'[w] = at[w]
    <3>1. \E p : at' = [at EXCEPT ![Feeder] = p]
      BY <1>4 DEF FeederStep, Receive, ReceiveNothing, FeederArms, Enqueue, EnqueueFull,
                  EnqueueNotifies, FeederDrops, FeederWakes, Close, TellClosed, Return
    <3> QED
      BY <1>0, <1>w, <3>1
  <2>a. ASSUME waiting' = waiting,
               at[Feeder] # "notify", at[Feeder] = "drop" => note[Feeder] # "one",
               \A w \in Workers : note[w] \in {"one", "all"} => note'[w] = note[w]
        PROVE  Hope'
    <3>1. SomebodyLooks(at, note) => SomebodyLooks(at', note')
      BY <2>0, <2>a, LooksOn
    <3> QED
      BY <2>a, <3>1 DEF Hope
  <2>1. CASE Enqueue
    <3>1. at'[Feeder] = "notify"
      BY <1>0, <1>f, <2>1 DEF Enqueue
    <3> QED
      BY <3>1 DEF Hope
  <2>2. CASE EnqueueNotifies
    <3>1. Called(note, note') /\ at'[Feeder] = "drop"
      BY <1>0, <1>f, <2>2, NotifyOneOfKeeps DEF EnqueueNotifies, NotifyOne
    <3>2. \A v \in Workers : at'[v] \in WorkerPlaces
      BY DEF Types
    <3>3. \A v \in Workers : note'[v] = "none" <=> at'[v] \in {"round", "done"}
      BY DEF NotesOK
    <3>4. SomebodyLooks(at', note') \/ note'[Feeder] = "one"
      BY <1>0, <3>1, <3>2, <3>3, CallIsHeard
    <3> QED
      BY <3>1, <3>4 DEF Hope
  <2>3. CASE FeederDrops
    <3>1. waiting' = waiting /\ at[Feeder] = "drop" /\ Dropped(Feeder, note, note')
      BY <1>f, <2>3, ForgetKeeps DEF FeederDrops, queue
    <3>2. CASE note[Feeder] = "one"
      <4>1. PICK was : was = [note EXCEPT ![Feeder] = "none"]
        OBVIOUS
      <4>2. was \in [Tasks -> Notes] /\ was[Feeder] = "none" /\ Called(was, note')
        BY <1>0, <1>f, <3>1, <3>2, <4>1 DEF Dropped, Notes
      <4>3. \A v \in Workers : at'[v] \in WorkerPlaces
        BY DEF Types
      <4>4. \A v \in Workers : note'[v] = "none" <=> at'[v] \in {"round", "done"}
        BY DEF NotesOK
      <4>5. SomebodyLooks(at', note')
        BY <4>2, <4>3, <4>4, CallIsHeard
      <4> QED
        BY <4>5 DEF Hope
    <3>3. CASE note[Feeder] # "one"
      <4>1. \A w \in Workers : note'[w] = note[w]
        BY <1>0, <1>w, <3>1, <3>3 DEF Dropped
      <4> QED
        BY <2>a, <3>1, <3>3, <4>1
    <3> QED
      BY <3>2, <3>3
  <2>4. CASE FeederArms
    <3>1. \A w \in Workers : note'[w] = note[w]
      BY <1>0, <1>w, <2>4 DEF FeederArms, Arm
    <3>2. waiting' = waiting /\ at[Feeder] = "arm"
      BY <2>4 DEF FeederArms, queue
    <3> QED
      BY <2>a, <3>1, <3>2
  <2>5. CASE FeederWakes
    <3>1. \A w \in Workers : note'[w] = note[w]
      BY <1>0, <1>w, <2>5 DEF FeederWakes, Woken
    <3>2. waiting' = waiting /\ at[Feeder] = "full"
      BY <2>5 DEF FeederWakes, queue
    <3> QED
      BY <2>a, <3>1, <3>2
  <2>6. CASE TellClosed
    <3>1. \A w \in Workers : note[w] \in {"one", "all"} => note'[w] = note[w]
      BY <1>w, <2>6 DEF TellClosed, NotifyAll
    <3>2. waiting' = waiting /\ at[Feeder] = "tell"
      BY <2>6 DEF TellClosed, queue
    <3> QED
      BY <2>a, <3>1, <3>2
  <2>7. CASE Receive \/ ReceiveNothing \/ EnqueueFull \/ Close \/ Return
    <3>1. /\ waiting' = waiting /\ note' = note
          /\ at[Feeder] \in {"receive", "try", "close", "join"}
      BY <2>7 DEF Receive, ReceiveNothing, EnqueueFull, Close, Return, queue, notify
    <3> QED
      BY <2>a, <3>1
  <2> QED
    BY <1>4, <2>1, <2>2, <2>3, <2>4, <2>5, <2>6, <2>7 DEF FeederStep
<1> QED
  BY <1>2, <1>3, <1>4 DEF Next

-----------------------------------------------------------------------------
(* The inductive invariant of the pool. *)
THEOREM PoolInvariant == Spec => []IInv
<1>1. Init => IInv
  BY InitGood
<1>2. IInv /\ [Next]_vars => IInv'
  <2> SUFFICES ASSUME IInv, [Next]_vars PROVE IInv'
    OBVIOUS
  <2>1. Types'
    BY TypesStay DEF IInv
  <2>2. NotifyOK(note, waiters, permit)' /\ NotesOK'
    BY NotesStay
  <2>3. QueueOK'
    BY QueueStays
  <2>4. Hope'
    BY <2>1, <2>2, HopeStays
  <2> QED
    BY <2>1, <2>2, <2>3, <2>4 DEF IInv
<1> QED
  BY <1>1, <1>2, PTL DEF Spec

(* A list without repetitions has as many elements as places. *)
LEMMA DistinctCounts ==
  ASSUME NEW S, NEW list \in Seq(S), Distinct(list)
  PROVE  Cardinality(ToSet(list)) = Len(list)
<1>1. Len(list) \in Nat /\ DOMAIN list = 1 .. Len(list)
  OBVIOUS
<1>2. ToSet(list) = {list[i] : i \in 1 .. Len(list)}
  BY <1>1 DEF ToSet
<1>3. PICK f : f = [i \in 1 .. Len(list) |-> list[i]]
  OBVIOUS
<1>4. f \in [1 .. Len(list) -> ToSet(list)] /\ \A i \in 1 .. Len(list) : f[i] = list[i]
  BY <1>2, <1>3
<1>5. f \in Bijection(1 .. Len(list), ToSet(list))
  BY <1>2, <1>4 DEF Bijection, Injection, Surjection, Distinct, IsInjective
<1>6. ExistsBijection(1 .. Len(list), ToSet(list))
  BY <1>5 DEF ExistsBijection
<1> QED
  BY <1>1, <1>6, FS_CountingElements

(* The list of waiters, the permit and the tasks' notes agree, the queue   *)
(* stays within its capacity, every lease is in the hands of one worker,   *)
(* and while an item waits some worker is up or called, or the call is     *)
(* still to be made: tokio's Notify as run_until uses it loses no wake-up. *)
THEOREM WakeUpsAreAlwaysKept == Spec => []WakeUpsAreKept
<1>1. ASSUME IInv PROVE TypeOK
  <2>1. waiting \subseteq Keys /\ leased \subseteq Keys /\ waiting \cap leased = {}
    BY <1>1 DEF IInv, QueueOK
  <2>2. Cardinality(waiting \cup leased) <= Capacity
    <3>1. IsFiniteSet(waiting) /\ IsFiniteSet(leased) /\ waiting \cap leased = {}
      BY <1>1 DEF IInv, QueueOK
    <3>2. Cardinality(waiting \cup leased)
            = Cardinality(waiting) + Cardinality(leased) - Cardinality(waiting \cap leased)
      BY <3>1, FS_Union
    <3>3. Cardinality(waiting \cap leased) = 0
      BY <3>1, FS_EmptySet
    <3>4. Cardinality(waiting) \in Nat /\ Cardinality(leased) \in Nat
      BY <3>1, FS_CardinalityType
    <3>5. Cardinality(waiting) + Cardinality(leased) <= Capacity
      BY <1>1 DEF IInv, QueueOK
    <3> QED
      BY <3>2, <3>3, <3>4, <3>5
  <2>3. {w \in Workers : at[w] = "busy"} # {} <=> leased # {}
    BY <1>1 DEF IInv, QueueOK, HandsOK, BusyAt
  <2>4. \A v, w \in Workers : at[v] = "busy" /\ at[w] = "busy" /\ item[v] = item[w] => v = w
    BY <1>1 DEF IInv, QueueOK, HandsOK, BusyAt
  <2>5. note \in [Tasks -> {"none", "armed", "one", "all"}]
    BY <1>1 DEF IInv, NotifyOK, Notes
  <2>6. ToSet(waiters) = {t \in Tasks : note[t] = "armed"}
    <3>1. waiters \in Seq(Tasks) /\ \A t \in Tasks : note[t] = "armed" <=> Occurs(t, waiters)
      BY <1>1 DEF IInv, NotifyOK
    <3>2. ToSet(waiters) = {waiters[i] : i \in 1 .. Len(waiters)}
      BY <3>1 DEF ToSet
    <3>3. \A t : Occurs(t, waiters) <=> t \in ToSet(waiters)
      BY <3>2 DEF Occurs
    <3>4. ToSet(waiters) \subseteq Tasks
      BY <3>1, <3>2
    <3> QED
      BY <3>1, <3>3, <3>4
  <2>7. Cardinality(ToSet(waiters)) = Len(waiters)
    BY <1>1, DistinctCounts DEF IInv, NotifyOK
  <2>8. permit => waiters = <<>>
    BY <1>1 DEF IInv, NotifyOK
  <2> QED
    BY <2>1, <2>2, <2>3, <2>4, <2>5, <2>6, <2>7, <2>8 DEF TypeOK
<1>2. ASSUME IInv PROVE NoLostWakeUp
  <2>1. \A w \in Workers : at[w] \in Working => ~Asleep(w) /\ at[w] # "done"
    BY DEF Asleep, Working
  <2>2. \A w \in Workers : note[w] = "one" => ~Asleep(w) /\ at[w] # "done"
    BY <1>2 DEF IInv, NotesOK, Asleep
  <2>3. \A w \in Workers : note[w] = "all" => ~Asleep(w)
    BY DEF Asleep
  <2>4. SomebodyLooks(at, note) => AllDone \/ \E w \in Workers : ~Asleep(w) /\ at[w] # "done"
    BY <2>1, <2>2, <2>3 DEF SomebodyLooks, AllDone
  <2> QED
    BY <1>2, <2>4 DEF IInv, Hope, NoLostWakeUp
<1>3. IInv => WakeUpsAreKept
  BY <1>1, <1>2 DEF WakeUpsAreKept
<1> QED
  BY <1>3, PoolInvariant, PTL
=============================================================================
