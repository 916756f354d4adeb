--------------------------- MODULE WatcherProofs ---------------------------
(***************************************************************************)
(* Proofs about Watcher for every catalog, any number of backend threads   *)
(* and any capacities: no growth of a file is forgotten, startup misses    *)
(* nothing, and shutdown loses nothing it waited for, whichever order the  *)
(* stores of the threads are seen in.                                      *)
(***************************************************************************)
EXTENDS Watcher, SequenceTheorems, FiniteSetTheorems, WellFoundedInduction, TLAPS

-----------------------------------------------------------------------------
Places == {"snapshot", "register", "reconcile", "select", "overflow",
           "close", "drain", "ended"}
Modes  == {"none", "startup", "signal", "poll", "overflow"}
Threads == [at : {"idle", "checked", "counted", "inside"}, kind : Kinds,
            paths : Seq(Paths), lossy : BOOLEAN, about : SUBSET Sources]
Gotten == [any : Sizes, live : Sizes]

Types ==
  /\ size \in [Sources -> Sizes] /\ baseline \in [Sources -> Sizes]
  /\ promised \in [Sources -> Sizes] /\ got \in [Sources -> Gotten]
  /\ watched \in BOOLEAN /\ accepting \in BOOLEAN /\ overflow \in BOOLEAN
  /\ closing \in BOOLEAN /\ shutdown \in BOOLEAN
  /\ owed \subseteq Sources
  /\ callback \in [Callbacks -> Threads]
  /\ signals \in Seq(Signals)
  /\ pc \in Places /\ mode \in Modes
  /\ todo \in Seq(Sources) /\ read \in Seq(Items) /\ output \in Seq(Items)

(* The queues are within their bounds, and the counter counts the threads. *)
Inside == {c \in Callbacks : callback[c].at \in {"counted", "inside"}}
Bounds ==
  /\ Len(signals) <= SignalCapacity
  /\ Len(output) <= OutputCapacity
  /\ Len(todo) + Len(read) <= Len(Catalog)
  /\ \A c \in Callbacks : Len(callback[c].paths) <= MaxPaths
  /\ inFlight = Cardinality(Inside)

(* Where the loop is, and what it has then.                                *)
Early == pc \in {"snapshot", "register"}
Phases ==
  /\ Early => mode = "startup" /\ ~watched
  /\ ~Early => watched
  /\ Starting => ~closing
  /\ pc = "select" => ~closing
  /\ pc \in {"close", "drain", "ended"} => closing
  /\ pc = "reconcile" => mode # "none" /\ (closing => mode \in {"signal", "overflow"})
  /\ pc = "snapshot" => todo # <<>>
  /\ pc \notin {"snapshot", "reconcile"} => todo = <<>>
  /\ pc # "reconcile" => read = <<>>
  /\ ~accepting => closing
  /\ ~watched => owed = {}

(* Before a thread is inside it still has every path of what it is about,  *)
(* or knows that it lost some.                                             *)
Tells(c, s) ==
  s \in callback[c].about /\ (callback[c].lossy \/ s \in ToSet(callback[c].paths))
ThreadOK(c) ==
  /\ callback[c].at = "idle" => callback[c].about = {}
  /\ callback[c].at # "inside" => \A s \in callback[c].about : Tells(c, s)
ThreadsOK == \A c \in Callbacks : ThreadOK(c)

(* Some item read, sent or received reaches n.                             *)
Reaches(i, s, n) == i.source = s /\ i.target >= n
Covered(s, n) ==
  \/ got[s].any >= n
  \/ \E i \in ToSet(output) : Reaches(i, s, n)
  \/ \E i \in ToSet(read) : Reaches(i, s, n)

(* The queue, the flag or the reconciliation that runs has s to visit.     *)
ToVisit(s) ==
  \/ \E signal \in ToSet(signals) : s \in ToSet(ScopeOf(signal))
  \/ overflow
  \/ pc = "reconcile" /\ s \in ToSet(todo)

(* No growth is forgotten: the file is covered, or its growth is reported, *)
(* told by a thread or to be visited.                                      *)
Kept(s) ==
  \/ Covered(s, size[s])
  \/ s \in owed
  \/ \E c \in Callbacks : Tells(c, s)
  \/ ToVisit(s)
AllKept == ~Early /\ ~closing => \A s \in Sources : Kept(s)

(* Once admission is closed and the loop waited for the threads inside, the*)
(* queue is emptied first, then the flag is taken: what is in them later   *)
(* came too late.                                                          *)
Drains(p, m)  == p \in {"overflow", "ended"} \/ (p = "reconcile" /\ m = "overflow")
Flushed(p, m) == p = "ended" \/ (p = "reconcile" /\ m = "overflow")
ToTake(s) ==
  \/ (closing => ~Drains(pc, mode)) /\ \E signal \in ToSet(signals) : s \in ToSet(ScopeOf(signal))
  \/ (closing => ~Flushed(pc, mode)) /\ overflow
  \/ pc = "reconcile" /\ s \in ToSet(todo)

(* What was promised in time is covered, or still told by a thread that is *)
(* waited for, or to be taken.                                             *)
TellsInside(c, s) == callback[c].at = "inside" /\ Tells(c, s)
PromiseKept(s) ==
  \/ Covered(s, promised[s])
  \/ Awaits /\ \E c \in Callbacks : TellsInside(c, s)
  \/ ToTake(s)
Promises == \A s \in Sources : promised[s] <= size[s] /\ PromiseKept(s)

(* Startup: what goes beyond the snapshot is Live.                         *)
LiveBeyond(i) == i.target > baseline[i.source] => i.live
Beginning ==
  /\ \A s \in Sources : got[s].live <= got[s].any
  /\ Early => /\ output = <<>>
              /\ \A s \in Sources : got[s].any = 0
  /\ Starting =>
       /\ \A s \in Sources : baseline[s] <= size[s]
       /\ \A i \in ToSet(output) : LiveBeyond(i)
       /\ \A i \in ToSet(read) : LiveBeyond(i)
       /\ \A s \in Sources : got[s].any > baseline[s] => got[s].live = got[s].any
       /\ pc = "reconcile" =>
            \A s \in Sources : s \in ToSet(todo) \/ Covered(s, baseline[s])

IInv == /\ Types /\ Bounds /\ Phases /\ ThreadsOK
        /\ AllKept /\ Promises /\ Beginning


-----------------------------------------------------------------------------
(* The elements of a sequence, after each way a queue changes.             *)
LEMMA EmptyToSet ==
  ASSUME NEW S
  PROVE  <<>> \in Seq(S) /\ ToSet(<<>>) = {} /\ Len(<<>>) = 0
  BY EmptySeq DEF ToSet

(* The elements of a sequence are finitely many.                           *)
LEMMA ToSetType ==
  ASSUME NEW S, NEW q \in Seq(S)
  PROVE  /\ ToSet(q) \subseteq S /\ IsFiniteSet(ToSet(q))
         /\ \A x : x \in ToSet(q) <=> \E i \in 1 .. Len(q) : q[i] = x
<1>1. Len(q) \in Nat /\ DOMAIN q = 1 .. Len(q)
  OBVIOUS
<1>2. q \in Surjection(1 .. Len(q), ToSet(q))
  BY <1>1 DEF Surjection, ToSet
<1>3. IsFiniteSet(1 .. Len(q))
  BY <1>1, FS_Interval
<1>4. IsFiniteSet(ToSet(q))
  BY <1>2, <1>3, FS_Surjection
<1> QED
  BY <1>1, <1>4 DEF ToSet

(* Append adds its element.                                                *)
LEMMA AppendToSet ==
  ASSUME NEW S, NEW q \in Seq(S), NEW x \in S
  PROVE  /\ Append(q, x) \in Seq(S) /\ Len(Append(q, x)) = Len(q) + 1
         /\ ToSet(Append(q, x)) = ToSet(q) \cup {x}
<1> DEFINE r == Append(q, x)
<1>1. Len(q) \in Nat /\ r \in Seq(S) /\ Len(r) = Len(q) + 1
  BY AppendProperties
<1>2. (\A i \in 1 .. Len(q) : r[i] = q[i]) /\ r[Len(q) + 1] = x
  BY AppendProperties
<1>3. 1 .. Len(r) = (1 .. Len(q)) \cup {Len(q) + 1}
  BY <1>1
<1>4. \A y : y \in ToSet(q) <=> \E i \in 1 .. Len(q) : q[i] = y
  BY ToSetType
<1>5. \A y : y \in ToSet(r) <=> \E i \in 1 .. Len(r) : r[i] = y
  BY <1>1, ToSetType
<1> HIDE DEF r
<1>6. ToSet(r) = ToSet(q) \cup {x}
  BY <1>2, <1>3, <1>4, <1>5
<1> QED
  BY <1>1, <1>6 DEF r

(* The head and the elements of the tail are all there are.                *)
LEMMA HeadTailToSet ==
  ASSUME NEW S, NEW q \in Seq(S), q # <<>>
  PROVE  /\ Head(q) \in S /\ Tail(q) \in Seq(S) /\ Len(Tail(q)) = Len(q) - 1
         /\ ToSet(q) = {Head(q)} \cup ToSet(Tail(q))
<1> DEFINE r == Tail(q)
<1>1. Len(q) \in Nat /\ Len(q) >= 1 /\ Head(q) \in S /\ Head(q) = q[1]
  BY EmptySeq, HeadTailProperties
<1>2. r \in Seq(S) /\ Len(r) = Len(q) - 1 /\ \A i \in 1 .. Len(r) : r[i] = q[i + 1]
  BY HeadTailProperties
<1>3. \A y : y \in ToSet(q) <=> \E i \in 1 .. Len(q) : q[i] = y
  BY ToSetType
<1>4. \A y : y \in ToSet(r) <=> \E i \in 1 .. Len(r) : r[i] = y
  BY <1>2, ToSetType
<1> HIDE DEF r
<1>5. \A i \in 1 .. Len(r) : i + 1 \in 1 .. Len(q)
  BY <1>1, <1>2
<1>6. \A i \in 1 .. Len(q) : i # 1 => i - 1 \in 1 .. Len(r) /\ (i - 1) + 1 = i
  BY <1>1, <1>2
<1>7. 1 \in 1 .. Len(q)
  BY <1>1
<1>8. ToSet(r) \subseteq ToSet(q) /\ q[1] \in ToSet(q)
  BY <1>2, <1>3, <1>4, <1>5, <1>7
<1>9. ASSUME NEW y \in ToSet(q), y # q[1] PROVE y \in ToSet(r)
  <2>1. PICK i \in 1 .. Len(q) : q[i] = y
    BY <1>3
  <2>2. r[i - 1] = y /\ i - 1 \in 1 .. Len(r)
    BY <1>2, <1>6, <1>9, <2>1
  <2> QED
    BY <1>4, <2>2
<1>10. ToSet(q) = {Head(q)} \cup ToSet(r)
  BY <1>1, <1>8, <1>9
<1> QED
  BY <1>1, <1>2, <1>10 DEF r

(* A sequence of all elements of a finite set has every one of them.       *)
LEMMA ArrangementHasAll ==
  ASSUME NEW E, IsFiniteSet(E), NEW q \in SetToSeqs(E)
  PROVE  q \in Seq(E) /\ Len(q) = Cardinality(E) /\ ToSet(q) = E
<1> DEFINE n == Cardinality(E)
<1>1. n \in Nat
  BY FS_CardinalityType
<1>2. q \in [1 .. n -> E] /\ \A i, j \in 1 .. n : i # j => q[i] # q[j]
  BY DEF SetToSeqs
<1>3. q \in Seq(E) /\ Len(q) = n
  BY <1>1, <1>2
<1>4. q \in Injection(1 .. n, E)
  BY <1>2 DEF Injection, IsInjective
<1>5. IsFiniteSet(1 .. n) /\ Cardinality(1 .. n) = n
  BY <1>1, FS_Interval
<1>6. q \in Surjection(1 .. n, E)
  BY <1>4, <1>5, FS_Injection
<1>7. \A x \in E : \E i \in 1 .. n : q[i] = x
  BY <1>6 DEF Surjection
<1>8. \A x : x \in ToSet(q) <=> \E i \in 1 .. Len(q) : q[i] = x
  BY <1>3, ToSetType
<1>9. \A i \in 1 .. n : q[i] \in E
  BY <1>2
<1>10. \A x : x \in ToSet(q) <=> x \in E
  BY <1>3, <1>7, <1>8, <1>9
<1>11. ToSet(q) = E
  BY <1>10
<1> QED
  BY <1>3, <1>11

(* The furthest of finitely many sizes is one of them and bounds them all. *)
LEMMA FurthestIs ==
  ASSUME NEW S \in SUBSET Nat, IsFiniteSet(S), S # {}
  PROVE  Furthest(S) \in S /\ \A m \in S : m <= Furthest(S)
<1> DEFINE Beyond(y) == {x \in S : x > y}
           F == {Beyond(y) : y \in S}
<1>1. F \subseteq FiniteSubsetsOf(S) /\ F # {}
  <2>1. ASSUME NEW y \in S PROVE Beyond(y) \in FiniteSubsetsOf(S)
    <3>1. Beyond(y) \in SUBSET S
      OBVIOUS
    <3> QED
      BY <3>1, FS_Subset DEF FiniteSubsetsOf
  <2> QED
    BY <2>1
<1>2. PICK T \in F : \A U \in F : <<U, T>> \notin StrictSubsetOrdering(S)
  BY <1>1, FS_StrictSubsetOrderingWellFounded, WFMin
<1>3. PICK y \in S : T = Beyond(y)
  OBVIOUS
<1>4. ASSUME NEW m \in S, ~(m <= y) PROVE FALSE
  <2>1. m \in Nat /\ y \in Nat /\ m > y
    BY <1>4
  <2>2. Beyond(m) \subseteq Beyond(y)
    <3>1. ASSUME NEW x \in S, x > m PROVE x > y
      BY <2>1, <3>1
    <3> QED
      BY <3>1
  <2>3. m \in Beyond(y) /\ m \notin Beyond(m)
    BY <2>1
  <2>4. Beyond(m) \in SUBSET S /\ T \in SUBSET S /\ Beyond(m) \in F
    BY <1>3
  <2> QED
    BY <1>2, <1>3, <2>2, <2>3, <2>4 DEF StrictSubsetOrdering
<1> QED
  BY <1>4 DEF Furthest

(* The further of two sizes.                                               *)
LEMMA FurthestOfTwo ==
  ASSUME NEW a \in Nat, NEW b \in Nat
  PROVE  Furthest({a, b}) = IF a >= b THEN a ELSE b
<1>1. IsFiniteSet({a, b})
  <2>1. IsFiniteSet({b}) /\ {a, b} = {b} \cup {a}
    BY FS_Singleton
  <2> QED
    BY <2>1, FS_AddElement
<1>2. Furthest({a, b}) \in {a, b} /\ a <= Furthest({a, b}) /\ b <= Furthest({a, b})
  BY <1>1, FurthestIs
<1> QED
  BY <1>2


-----------------------------------------------------------------------------
(* The catalog visits every source, and there are finitely many.           *)
LEMMA CatalogFacts ==
  /\ Catalog \in Seq(Sources) /\ Len(Catalog) \in Nat /\ Len(Catalog) >= 1
  /\ ToSet(Catalog) = Sources /\ IsFiniteSet(Sources) /\ Elsewhere \notin Sources
<1>1. Catalog \in Seq(Sources) /\ Catalog # <<>> /\ Elsewhere \notin Sources
  BY WatcherAssumption DEF Sources
<1>2. Len(Catalog) \in Nat /\ Len(Catalog) >= 1
  BY <1>1, EmptySeq
<1> QED
  BY <1>1, <1>2, ToSetType DEF Sources

(* What a thread takes of an event: paths that are known, as many as       *)
(* allowed, and all that the event is about unless some are lost.          *)
LEMMA EventPaths ==
  ASSUME NEW E \in SUBSET Sources, NEW e \in Events(E)
  PROVE  /\ e.kind \in Kinds
         /\ FirstPaths(e.paths) \in Seq(Paths) /\ Len(FirstPaths(e.paths)) <= MaxPaths
         /\ Len(e.paths) \in 1..MaxPaths => E \subseteq ToSet(FirstPaths(e.paths))
<1>1. IsFiniteSet(E) /\ E \subseteq Paths /\ Elsewhere \in Paths
  BY CatalogFacts, FS_Subset DEF Paths
<1>2. MaxPaths \in Nat /\ MaxPaths >= 1
  BY WatcherAssumption
<1>3. PICK p : p = e.paths
  OBVIOUS
<1>4. \/ e = [kind |-> "other", paths |-> <<>>]
      \/ /\ e.kind \in Kinds
         /\ \/ p \in SetToSeqs(E)
            \/ \E q \in SetToSeqs(E) : p = <<Elsewhere>> \o q
  BY <1>3 DEF Events
<1>5. e.kind \in Kinds
  BY <1>4 DEF Kinds
<1>6. p \in Seq(Paths) /\ (Len(p) >= 1 => E \subseteq ToSet(p))
  <2>1. CASE e = [kind |-> "other", paths |-> <<>>]
    BY <1>3, <2>1, EmptyToSet
  <2>2. CASE p \in SetToSeqs(E)
    BY <1>1, <2>2, ArrangementHasAll
  <2>3. ASSUME NEW q \in SetToSeqs(E), p = <<Elsewhere>> \o q
        PROVE  p \in Seq(Paths) /\ E \subseteq ToSet(p)
    <3>1. q \in Seq(Paths) /\ ToSet(q) = E /\ Len(q) \in Nat
      BY <1>1, ArrangementHasAll
    <3>2. PICK o : o = <<Elsewhere>>
      OBVIOUS
    <3>3. o \in Seq(Paths) /\ Len(o) = 1
      BY <1>1, <3>2
    <3>4. /\ p \in Seq(Paths) /\ Len(p) = 1 + Len(q)
          /\ \A i \in 1 .. 1 + Len(q) : p[i] = IF i <= 1 THEN o[i] ELSE q[i - 1]
      BY <2>3, <3>1, <3>2, <3>3, ConcatProperties
    <3>5. ASSUME NEW x \in E PROVE x \in ToSet(p)
      <4>1. PICK i \in 1 .. Len(q) : q[i] = x
        BY <3>1, ToSetType
      <4>2. i + 1 \in 1 .. 1 + Len(q) /\ ~(i + 1 <= 1) /\ (i + 1) - 1 = i
        BY <3>1
      <4>3. p[i + 1] = x
        BY <3>4, <4>1, <4>2
      <4> QED
        BY <3>4, <4>2, <4>3, ToSetType
    <3> QED
      BY <3>4, <3>5
  <2> QED
    BY <1>4, <2>1, <2>2, <2>3
<1>7. Len(p) \in Nat /\ \A i \in 1 .. Len(p) : p[i] \in Paths
  BY <1>6
<1>8. CASE Len(p) > MaxPaths
  <2>1. \A i \in 1 .. MaxPaths : i \in 1 .. Len(p) /\ 1 + i - 1 = i
    BY <1>2, <1>7, <1>8
  <2>2. /\ SubSeq(p, 1, MaxPaths) \in Seq(Paths)
        /\ Len(SubSeq(p, 1, MaxPaths)) = IF 1 <= MaxPaths THEN MaxPaths - 1 + 1 ELSE 0
    BY <1>2, <1>7, <2>1, SubSeqProperties
  <2>3. Len(SubSeq(p, 1, MaxPaths)) <= MaxPaths
    BY <1>2, <2>2
  <2>4. Len(p) \notin 1..MaxPaths
    BY <1>2, <1>7, <1>8
  <2> QED
    BY <1>3, <1>5, <1>8, <2>2, <2>3, <2>4 DEF FirstPaths
<1>9. CASE ~(Len(p) > MaxPaths)
  <2>1. Len(p) <= MaxPaths
    BY <1>2, <1>7, <1>9
  <2> QED
    BY <1>3, <1>5, <1>6, <1>9, <2>1 DEF FirstPaths
<1> QED
  BY <1>8, <1>9

(* push_paths takes a path: it raises the flag, or makes a signal, or      *)
(* finds the queue full and gives up on the rest.                          *)
Took(c, p, rest) ==
  /\ callback' \in [Callbacks -> Threads]
  /\ callback' = [callback EXCEPT ![c].paths = rest]
  /\ \/ /\ p = Elsewhere /\ overflow' = TRUE
        /\ rest = Tail(callback[c].paths) /\ signals' = signals
     \/ /\ p \in Sources /\ overflow' = overflow
        /\ rest = Tail(callback[c].paths) /\ Len(signals) < SignalCapacity
        /\ signals' = Append(signals, [source |-> p, kind |-> callback[c].kind])
        /\ [source |-> p, kind |-> callback[c].kind] \in Signals
     \/ /\ p \in Sources /\ overflow' = TRUE
        /\ rest = <<>> /\ signals' = signals

(* A step of push_paths takes one path, in one of these ways.              *)
LEMMA PushPathTakes ==
  ASSUME Types, NEW c \in Callbacks, PushPath(c)
  PROVE  \E rest \in Seq(Paths) : Took(c, Head(callback[c].paths), rest)
<1>0. /\ callback \in [Callbacks -> Threads]
      /\ callback[c].kind \in Kinds /\ callback[c].paths \in Seq(Paths)
  BY DEF Types, Threads
<1>1. PICK p : p = Head(callback[c].paths)
  OBVIOUS
<1>2. PICK tail : tail = Tail(callback[c].paths)
  OBVIOUS
<1>3. p \in Paths /\ tail \in Seq(Paths) /\ <<>> \in Seq(Paths)
  BY <1>0, <1>1, <1>2, HeadTailToSet, EmptyToSet DEF PushPath
<1>4. ASSUME NEW rest \in Seq(Paths)
      PROVE  [callback EXCEPT ![c].paths = rest] \in [Callbacks -> Threads]
  BY <1>0, <1>4 DEF Threads
<1>5. CASE p = Elsewhere
  <2>1. /\ overflow' = TRUE /\ signals' = signals
        /\ callback' = [callback EXCEPT ![c].paths = tail]
    BY <1>1, <1>2, <1>5 DEF PushPath
  <2> QED
    BY <1>1, <1>2, <1>3, <1>4, <1>5, <2>1 DEF Took
<1>6. CASE p # Elsewhere /\ Len(signals) < SignalCapacity
  <2>1. /\ signals' = Append(signals, [source |-> p, kind |-> callback[c].kind])
        /\ callback' = [callback EXCEPT ![c].paths = tail] /\ overflow' = overflow
    BY <1>1, <1>2, <1>6 DEF PushPath
  <2>2. p \in Sources /\ [source |-> p, kind |-> callback[c].kind] \in Signals
    BY <1>0, <1>3, <1>6 DEF Signals, Paths
  <2> QED
    BY <1>1, <1>2, <1>3, <1>4, <1>6, <2>1, <2>2 DEF Took
<1>7. CASE p # Elsewhere /\ ~(Len(signals) < SignalCapacity)
  <2>1. /\ overflow' = TRUE /\ signals' = signals
        /\ callback' = [callback EXCEPT ![c].paths = <<>>]
    BY <1>1, <1>7 DEF PushPath
  <2>2. p \in Sources
    BY <1>3, <1>7 DEF Paths
  <2> QED
    BY <1>1, <1>3, <1>4, <2>1, <2>2 DEF Took
<1> QED
  BY <1>5, <1>6, <1>7

(* Every step keeps the types. *)
LEMMA TypesStay ==
  ASSUME Types, Phases, [Next]_vars PROVE Types'
<1> USE DEF Types
<1>0. CASE UNCHANGED vars
  BY <1>0 DEF vars
<1>1. ASSUME NEW s \in Sources, Append1(s) PROVE Types'
  <2>1. size' = [size EXCEPT ![s] = @ + 1] /\ owed' \subseteq owed \cup {s}
    BY <1>1 DEF Append1
  <2>2. size' \in [Sources -> Sizes] /\ owed' \subseteq Sources
    BY <2>1 DEF Sizes
  <2> QED
    BY <1>1, <2>2 DEF Append1, bridge, job
<1>2. CASE AskToStop
  BY <1>2 DEF AskToStop, bridge, job, files
<1>3. CASE Receive
  <2>1. PICK i : i = Head(output)
    OBVIOUS
  <2>2. output # <<>> /\ output' = Tail(output)
        /\ got' = [got EXCEPT ![i.source].any = Furthest({@, i.target}),
                              ![i.source].live = IF i.live THEN Furthest({@, i.target}) ELSE @]
    BY <1>3, <2>1 DEF Receive
  <2>3. i \in Items /\ output' \in Seq(Items)
    BY <2>1, <2>2, HeadTailToSet
  <2>4. i.source \in Sources /\ i.target \in Nat
    BY <2>3 DEF Items
  <2>5. got[i.source].any \in Nat /\ got[i.source].live \in Nat
    BY <2>4 DEF Gotten, Sizes
  <2>6. /\ Furthest({got[i.source].any, i.target}) \in Nat
        /\ Furthest({got[i.source].live, i.target}) \in Nat
    BY <2>4, <2>5, FurthestOfTwo
  <2>7. got' \in [Sources -> Gotten]
    BY <2>2, <2>4, <2>5, <2>6 DEF Gotten, Sizes
  <2> QED
    BY <1>3, <2>3, <2>7 DEF Receive, files, bridge, job
<1>4. ASSUME NEW c \in Callbacks, Report(c) PROVE Types'
  <2>1. PICK E \in (SUBSET owed) \ {{}} :
          /\ IF accepting
               THEN \E e \in Events(E) :
                      callback' = [callback EXCEPT ![c] =
                        [at |-> "checked", kind |-> e.kind, paths |-> FirstPaths(e.paths),
                         lossy |-> Len(e.paths) \notin 1..MaxPaths, about |-> E]]
               ELSE UNCHANGED callback
          /\ owed' = owed \ E
    BY <1>4 DEF Report
  <2>2. callback' \in [Callbacks -> Threads]
    <3>1. CASE ~accepting
      BY <2>1, <3>1
    <3>2. CASE accepting
      <4>1. PICK e \in Events(E) :
              callback' = [callback EXCEPT ![c] =
                [at |-> "checked", kind |-> e.kind, paths |-> FirstPaths(e.paths),
                 lossy |-> Len(e.paths) \notin 1..MaxPaths, about |-> E]]
        BY <2>1, <3>2
      <4>2. e.kind \in Kinds /\ FirstPaths(e.paths) \in Seq(Paths)
        BY EventPaths, <2>1
      <4> QED
        BY <2>1, <4>1, <4>2 DEF Threads
    <3> QED
      BY <3>1, <3>2
  <2> QED
    BY <1>4, <2>1, <2>2 DEF Report, bridge, job
<1>5. ASSUME NEW c \in Callbacks, CallbackStep(c) PROVE Types'
  <2>0. /\ callback[c].at \in {"idle", "checked", "counted", "inside"}
        /\ callback[c].kind \in Kinds /\ callback[c].paths \in Seq(Paths)
        /\ callback[c].lossy \in BOOLEAN /\ callback[c].about \in SUBSET Sources
    BY DEF Threads
  <2>i. Idle \in Threads
    BY EmptySeq DEF Idle, Threads, Kinds
  <2>1. CASE Count(c)
    BY <2>1, <2>0 DEF Count, files, job, Threads
  <2>2. CASE Admit(c)
    <3>1. promised' \in [Sources -> Sizes]
      BY <2>2, SMT DEF Admit, Sizes
    <3> QED
      BY <2>2, <2>0, <3>1 DEF Admit, files, job, bridge, Threads
  <2>3. CASE Refuse(c)
    BY <2>3, <2>i DEF Refuse, files, job
  <2>4. CASE PushPath(c)
    <3>1. PICK rest \in Seq(Paths) : Took(c, Head(callback[c].paths), rest)
      BY <2>4, PushPathTakes
    <3>2. callback' \in [Callbacks -> Threads] /\ overflow' \in BOOLEAN
      BY <3>1 DEF Took
    <3>3. signals' \in Seq(Signals)
      <4>1. signals' = signals \/ \E g \in Signals : signals' = Append(signals, g)
        BY <3>1 DEF Took
      <4>2. ASSUME NEW g \in Signals PROVE Append(signals, g) \in Seq(Signals)
        BY AppendToSet
      <4> QED
        BY <4>1, <4>2
    <3> QED
      BY <2>4, <3>2, <3>3 DEF PushPath, files, job
  <2>5. CASE Leave(c)
    BY <2>5, <2>i DEF Leave, files, job
  <2> QED
    BY <1>5, <2>1, <2>2, <2>3, <2>4, <2>5 DEF CallbackStep
<1>6. CASE LoopStep
  <2>c. Catalog \in Seq(Sources)
    BY CatalogFacts
  <2>1. CASE SnapshotOne
    <3>1. pc = "snapshot" /\ todo # <<>>
      BY <2>1 DEF SnapshotOne, Phases
    <3>2. Head(todo) \in Sources /\ todo' \in Seq(Sources)
      BY <2>1, <3>1, HeadTailToSet DEF SnapshotOne
    <3>3. baseline' \in [Sources -> Sizes] /\ pc' \in Places
      BY <2>1, <3>2 DEF SnapshotOne, Places
    <3> QED
      BY <2>1, <3>2, <3>3 DEF SnapshotOne, files, bridge
  <2>2. CASE Register
    BY <2>2, <2>c DEF Register, Start, bridge, Places, Modes
  <2>3. CASE Visit
    <3>1. PICK s : s = Head(todo)
      OBVIOUS
    <3>2. s \in Sources /\ Tail(todo) \in Seq(Sources)
      BY <2>3, <3>1, HeadTailToSet DEF Visit
    <3>3. CASE size[s] = 0
      BY <2>3, <3>1, <3>2, <3>3 DEF Visit, files, bridge
    <3>4. CASE size[s] # 0
      <4>1. [source |-> s, target |-> size[s], live |-> Urgent(s)] \in Items
        BY <3>2, <3>4 DEF Items, Sizes, Urgent
      <4>2. Append(read, [source |-> s, target |-> size[s], live |-> Urgent(s)]) \in Seq(Items)
        BY <4>1, AppendToSet
      <4> QED
        BY <2>3, <3>1, <3>2, <3>4, <4>2 DEF Visit, files, bridge
    <3> QED
      BY <3>3, <3>4
  <2>4. CASE Send
    <3>1. Head(read) \in Items /\ Tail(read) \in Seq(Items)
      BY <2>4, HeadTailToSet DEF Send
    <3>2. Append(output, Head(read)) \in Seq(Items)
      BY <3>1, AppendToSet
    <3> QED
      BY <2>4, <3>1, <3>2 DEF Send, files, bridge
  <2>5. CASE EndJob
    <3>1. pc = "reconcile" /\ mode \in {"startup", "signal", "poll", "overflow"}
      BY <2>5 DEF EndJob, Phases, Modes
    <3>2. pc' \in Places
      BY <2>5, <3>1 DEF EndJob, AfterJob, Places
    <3>3. baseline' \in [Sources -> Sizes]
      BY <2>5 DEF EndJob, Sizes
    <3> QED
      BY <2>5, <3>2, <3>3 DEF EndJob, files, bridge, Modes
  <2>6. CASE TakeSignal
    <3>1. PICK g : g = Head(signals)
      OBVIOUS
    <3>2. g \in Signals /\ Tail(signals) \in Seq(Signals)
      BY <2>6, <3>1, HeadTailToSet DEF TakeSignal
    <3>3. ScopeOf(g) \in Seq(Sources)
      BY <2>c, <3>2 DEF ScopeOf, Signals
    <3> QED
      BY <2>6, <3>1, <3>2, <3>3 DEF TakeSignal, Start, files, Places, Modes
  <2>7. CASE Poll
    BY <2>7, <2>c DEF Poll, Start, files, bridge, Places, Modes
  <2>8. CASE SeeOverflow
    BY <2>8 DEF SeeOverflow, files, bridge, job, Places
  <2>9. CASE TakeOverflow
    BY <2>9, <2>c DEF TakeOverflow, Start, files, Places, Modes
  <2>10. CASE CloseAdmission
    BY <2>10 DEF CloseAdmission, files, job, Places
  <2>11. CASE SeeNoCallback
    BY <2>11 DEF SeeNoCallback, files, bridge, job, Places
  <2>12. CASE Drained
    BY <2>12 DEF Drained, files, job, Places
  <2> QED
    BY <1>6, <2>1, <2>2, <2>3, <2>4, <2>5, <2>6, <2>7, <2>8, <2>9, <2>10, <2>11, <2>12
       DEF LoopStep
<1> QED
  BY <1>0, <1>1, <1>2, <1>3, <1>4, <1>5, <1>6 DEF Next


-----------------------------------------------------------------------------
(* What is covered stays covered: an item only moves on, from read to sent *)
(* to received.                                                            *)
LEMMA CoveredStays ==
  ASSUME Types, [Next]_vars, NEW s \in Sources, NEW n \in Nat, Covered(s, n)
  PROVE  Covered(s, n)'
<1>1. CASE UNCHANGED <<got, output, read>>
  BY <1>1 DEF Covered
<1>2. CASE Receive
  <2>1. PICK h : h = Head(output)
    OBVIOUS
  <2>2. /\ h \in Items /\ ToSet(output) = {h} \cup ToSet(output') /\ read' = read
    BY <1>2, <2>1, HeadTailToSet DEF Types, Receive, job
  <2>3. /\ h.source \in Sources /\ h.target \in Nat
        /\ \A r \in Sources : got[r].any \in Nat /\ got[r].live \in Nat
    BY <2>2 DEF Types, Items, Gotten, Sizes
  <2>4. got' = [got EXCEPT ![h.source].any = Furthest({@, h.target}),
                           ![h.source].live = IF h.live THEN Furthest({@, h.target}) ELSE @]
    BY <1>2, <2>1 DEF Receive
  <2>5. /\ got'[h.source].any = Furthest({got[h.source].any, h.target})
        /\ \A r \in Sources : r # h.source => got'[r] = got[r]
    BY <2>3, <2>4 DEF Types, Gotten
  <2>6. got'[h.source].any >= got[h.source].any /\ got'[h.source].any >= h.target
        /\ got'[h.source].any \in Nat
    BY <2>3, <2>5, FurthestOfTwo
  <2>7. CASE got[s].any >= n
    <3>1. got'[s].any >= n
      BY <2>3, <2>5, <2>6, <2>7
    <3> QED
      BY <3>1 DEF Covered
  <2>8. CASE \E i \in ToSet(output) : Reaches(i, s, n)
    <3>1. PICK i \in ToSet(output) : Reaches(i, s, n)
      BY <2>8
    <3>2. CASE i = h
      <4>1. got'[s].any >= n
        BY <2>3, <2>6, <3>1, <3>2 DEF Reaches
      <4> QED
        BY <4>1 DEF Covered
    <3>3. CASE i # h
      BY <2>2, <3>1, <3>3 DEF Covered, Reaches
    <3> QED
      BY <3>2, <3>3
  <2> QED
    BY <2>2, <2>7, <2>8 DEF Covered, Reaches
<1>3. CASE Visit
  <2>1. got' = got /\ output' = output
    BY <1>3 DEF Visit
  <2>2. ToSet(read) \subseteq ToSet(read')
    <3>1. CASE size[Head(todo)] = 0
      BY <1>3, <3>1 DEF Visit
    <3>2. CASE size[Head(todo)] # 0
      <4>1. PICK i : i = [source |-> Head(todo), target |-> size[Head(todo)],
                          live |-> Urgent(Head(todo))]
        OBVIOUS
      <4>2. i \in Items
        <5>1. Head(todo) \in Sources
          BY <1>3, HeadTailToSet DEF Types, Visit
        <5> QED
          BY <3>2, <4>1, <5>1 DEF Types, Items, Sizes, Urgent
      <4>3. read' = Append(read, i)
        BY <1>3, <3>2, <4>1 DEF Visit
      <4> QED
        BY <4>2, <4>3, AppendToSet DEF Types
    <3> QED
      BY <3>1, <3>2
  <2> QED
    BY <2>1, <2>2 DEF Covered
<1>4. CASE Send
  <2>1. PICK h : h = Head(read)
    OBVIOUS
  <2>2. h \in Items /\ ToSet(read) = {h} \cup ToSet(read') /\ got' = got
    BY <1>4, <2>1, HeadTailToSet DEF Types, Send
  <2>3. ToSet(output') = ToSet(output) \cup {h}
    BY <1>4, <2>1, <2>2, AppendToSet DEF Types, Send
  <2> QED
    BY <2>2, <2>3 DEF Covered
<1>5. CASE ~Receive /\ ~Visit /\ ~Send
  <2>1. UNCHANGED <<got, output, read>>
    BY <1>5 DEF Next, vars, Append1, AskToStop, Report, CallbackStep, Count, Admit,
         Refuse, PushPath, Leave, LoopStep, SnapshotOne, Register, EndJob, TakeSignal, Poll,
         SeeOverflow, TakeOverflow, CloseAdmission, SeeNoCallback, Drained, job
  <2> QED
    BY <1>1, <2>1
<1> QED
  BY <1>2, <1>3, <1>4, <1>5

(* The visit of a source covers what the file has by then. *)
LEMMA VisitCovers ==
  ASSUME Types, Visit, NEW s, s = Head(todo), NEW n \in Nat, n <= size[s]
  PROVE  Covered(s, n)'
<1>2. s \in Sources /\ size[s] \in Nat
  BY HeadTailToSet DEF Types, Visit, Sizes
<1>3. CASE size[s] = 0
  <2>1. got'[s].any \in Nat /\ n = 0
    BY <1>2, <1>3 DEF Types, Visit, Gotten, Sizes
  <2> QED
    BY <2>1 DEF Covered
<1>4. CASE size[s] # 0
  <2>1. PICK i : i = [source |-> s, target |-> size[s], live |-> Urgent(s)]
    OBVIOUS
  <2>2. i \in Items
    BY <1>2, <1>4, <2>1 DEF Items, Urgent
  <2>3. read' = Append(read, i)
    BY <1>4, <2>1 DEF Visit
  <2>4. i \in ToSet(read')
    BY <2>2, <2>3, AppendToSet DEF Types
  <2>5. Reaches(i, s, n)
    BY <1>2, <2>1 DEF Reaches
  <2> QED
    BY <2>4, <2>5 DEF Covered
<1> QED
  BY <1>3, <1>4

(* What the queue, the flag or the reconciliation has goes on to the next  *)
(* of them, or is visited.                                                 *)
LEMMA ToVisitStays ==
  ASSUME Types, Phases, [Next]_vars,
         NEW s \in Sources, NEW n \in Nat, n <= size[s], ToVisit(s)
  PROVE  Covered(s, n)' \/ ToVisit(s)'
<1> DEFINE InQueue == \E signal \in ToSet(signals) : s \in ToSet(ScopeOf(signal))
<1>0. ToSet(Catalog) = Sources
  BY CatalogFacts
<1>1. CASE UNCHANGED <<signals, overflow, pc, todo>>
  BY <1>1 DEF ToVisit
<1>2. ASSUME NEW c \in Callbacks, PushPath(c) PROVE ToVisit(s)'
  <2>1. UNCHANGED <<pc, todo>>
    BY <1>2 DEF PushPath, job
  <2>2. \/ overflow'
        \/ overflow' = overflow /\ \E g \in Signals : signals' = Append(signals, g)
    <3>1. PICK rest \in Seq(Paths) : Took(c, Head(callback[c].paths), rest)
      BY <1>2, PushPathTakes
    <3> QED
      BY <3>1 DEF Took
  <2>3. CASE overflow'
    BY <2>3 DEF ToVisit
  <2>4. ASSUME NEW g \in Signals, signals' = Append(signals, g), overflow' = overflow
        PROVE  ToVisit(s)'
    <3>1. ToSet(signals) \subseteq ToSet(signals')
      BY <2>4, AppendToSet DEF Types
    <3> QED
      BY <2>1, <2>4, <3>1 DEF ToVisit
  <2> QED
    BY <2>2, <2>3, <2>4
<1>3. ASSUME NEW c \in Callbacks, Leave(c) PROVE ToVisit(s)'
  BY <1>3 DEF Leave, ToVisit, job
<1>4. CASE SnapshotOne \/ Register
  <2>1. UNCHANGED <<signals, overflow>> /\ pc # "reconcile"
    BY <1>4 DEF SnapshotOne, Register, bridge
  <2> QED
    BY <2>1 DEF ToVisit
<1>5. CASE Visit
  <2>1. PICK h : h = Head(todo)
    OBVIOUS
  <2>2. UNCHANGED <<signals, overflow, pc>> /\ ToSet(todo) = {h} \cup ToSet(todo')
    BY <1>5, <2>1, HeadTailToSet DEF Types, Visit, bridge
  <2>3. CASE s = h
    BY <1>5, <2>1, <2>3, VisitCovers
  <2>4. CASE s # h
    BY <2>2, <2>4 DEF ToVisit
  <2> QED
    BY <2>3, <2>4
<1>6. CASE EndJob
  <2>1. UNCHANGED <<signals, overflow>> /\ s \notin ToSet(todo)
    BY <1>6, EmptyToSet DEF EndJob, bridge
  <2> QED
    BY <2>1 DEF ToVisit
<1>7. CASE TakeSignal
  <2>1. PICK h : h = Head(signals)
    OBVIOUS
  <2>2. /\ overflow' = overflow /\ pc # "reconcile" /\ pc' = "reconcile"
        /\ todo' = ScopeOf(h) /\ ToSet(signals) = {h} \cup ToSet(signals')
    BY <1>7, <2>1, HeadTailToSet DEF Types, TakeSignal, Start
  <2> QED
    BY <2>2 DEF ToVisit
<1>8. CASE Poll
  BY <1>0, <1>8 DEF Poll, Start, ToVisit
<1>9. CASE SeeOverflow \/ CloseAdmission \/ SeeNoCallback \/ Drained
  <2>1. UNCHANGED <<signals, overflow>> /\ pc # "reconcile"
    BY <1>9 DEF SeeOverflow, CloseAdmission, SeeNoCallback, Drained, bridge
  <2> QED
    BY <2>1 DEF ToVisit
<1>10. CASE TakeOverflow
  <2>1. signals' = signals /\ pc # "reconcile"
    BY <1>10 DEF TakeOverflow
  <2>2. overflow => pc' = "reconcile" /\ todo' = Catalog
    BY <1>10 DEF TakeOverflow, Start
  <2> QED
    BY <1>0, <2>1, <2>2 DEF ToVisit
<1>11. CASE /\ \A c \in Callbacks : ~PushPath(c) /\ ~Leave(c)
            /\ ~LoopStep \/ Send
  <2>1. UNCHANGED <<signals, overflow, pc, todo>>
    BY <1>11 DEF Next, vars, Append1, AskToStop, Receive, Report, CallbackStep, Count, Admit,
         Refuse, Send, job, bridge
  <2> QED
    BY <1>1, <2>1
<1> QED
  BY <1>2, <1>3, <1>4, <1>5, <1>6, <1>7, <1>8, <1>9, <1>10, <1>11 DEF LoopStep


(* A step of another thread, or of the loop, leaves a thread alone. *)
LEMMA OthersStay ==
  ASSUME Types, [Next]_vars, NEW c \in Callbacks, ~Report(c), ~CallbackStep(c)
  PROVE  callback'[c] = callback[c]
<1>1. CASE callback' = callback
  BY <1>1
<1>2. ASSUME NEW d \in Callbacks, Report(d) \/ CallbackStep(d)
      PROVE  callback'[c] = callback[c]
  <2>1. d # c
    BY <1>2
  <2>2. callback' = callback \/ \E t : callback' = [callback EXCEPT ![d] = t]
    BY <1>2, Zenon DEF Report, CallbackStep, Count, Admit, Refuse, PushPath, Leave
  <2> QED
    BY <2>1, <2>2 DEF Types
<1>3. CASE ~\E d \in Callbacks : Report(d) \/ CallbackStep(d)
  <2>1. callback' = callback
    BY <1>3 DEF Next, vars, Append1, AskToStop, Receive, LoopStep, SnapshotOne, Register,
         Visit, Send, EndJob, TakeSignal, Poll, SeeOverflow, TakeOverflow, CloseAdmission,
         SeeNoCallback, Drained
  <2> QED
    BY <2>1
<1> QED
  BY <1>2, <1>3

(* A thread tells what it has to tell, unless it is refused. *)
LEMMA TellsStay ==
  ASSUME Types, ThreadsOK, [Next]_vars,
         NEW c \in Callbacks, NEW s \in Sources, Tells(c, s), ~Refuse(c)
  PROVE  \/ ToVisit(s)'
         \/ Tells(c, s)' /\ (callback[c].at = "inside" => callback'[c].at = "inside")
<1>0. /\ callback \in [Callbacks -> Threads] /\ callback[c] \in Threads
      /\ callback[c].paths \in Seq(Paths)
  BY DEF Types, Threads
<1>1. CASE ~Report(c) /\ ~CallbackStep(c)
  <2>1. callback'[c] = callback[c]
    BY <1>1, OthersStay
  <2> QED
    BY <2>1 DEF Tells
<1>2. CASE Report(c)
  <2>1. callback[c].about = {}
    BY <1>2 DEF Report, ThreadsOK, ThreadOK
  <2> QED
    BY <2>1 DEF Tells
<1>3. CASE Count(c) \/ Admit(c)
  <2>1. /\ callback'[c].about = callback[c].about /\ callback'[c].lossy = callback[c].lossy
        /\ callback'[c].paths = callback[c].paths /\ callback[c].at # "inside"
    BY <1>0, <1>3 DEF Count, Admit, Threads
  <2> QED
    BY <2>1 DEF Tells
<1>4. CASE PushPath(c)
  <2>1. PICK h : h = Head(callback[c].paths)
    OBVIOUS
  <2>2. PICK rest \in Seq(Paths) : Took(c, h, rest)
    BY <1>4, <2>1, PushPathTakes
  <2>3. callback[c].paths # <<>> /\ callback[c].at = "inside"
    BY <1>4 DEF PushPath
  <2>4. ToSet(callback[c].paths) = {h} \cup ToSet(Tail(callback[c].paths))
    BY <1>0, <2>1, <2>3, HeadTailToSet
  <2>5. /\ callback'[c].paths = rest /\ callback'[c].about = callback[c].about
        /\ callback'[c].lossy = callback[c].lossy /\ callback'[c].at = "inside"
    BY <1>0, <2>2, <2>3 DEF Took, Threads
  <2>6. CASE overflow'
    BY <2>6 DEF ToVisit
  <2>7. CASE ~overflow'
    <3>1. PICK g : g = [source |-> h, kind |-> callback[c].kind]
      OBVIOUS
    <3>2. /\ h \in Sources /\ rest = Tail(callback[c].paths)
          /\ signals' = Append(signals, g) /\ g \in Signals
      BY <2>2, <2>7, <3>1 DEF Took
    <3>3. CASE s = h
      <4>1. g \in ToSet(signals')
        BY <3>2, AppendToSet DEF Types
      <4>2. s \in ToSet(ScopeOf(g))
        <5>1. CASE g.kind = "write"
          <6>1. PICK one : one = <<h>>
            OBVIOUS
          <6>2. one \in Seq(Sources) /\ 1 \in 1 .. Len(one) /\ one[1] = h
            BY <3>2, <6>1
          <6>3. h \in ToSet(one)
            BY <6>2, ToSetType
          <6> QED
            BY <3>1, <3>3, <5>1, <6>1, <6>3 DEF ScopeOf
        <5>2. CASE g.kind # "write"
          BY <5>2, CatalogFacts DEF ScopeOf
        <5> QED
          BY <5>1, <5>2
      <4> QED
        BY <4>1, <4>2 DEF ToVisit
    <3>4. CASE s # h
      <4>1. Tells(c, s)'
        BY <2>4, <2>5, <3>2, <3>4 DEF Tells
      <4> QED
        BY <2>5, <4>1
    <3> QED
      BY <3>3, <3>4
  <2> QED
    BY <2>6, <2>7
<1>5. CASE Leave(c)
  <2>1. callback[c].paths = <<>> /\ overflow' = (overflow \/ callback[c].lossy)
    BY <1>5 DEF Leave
  <2>2. s \notin ToSet(callback[c].paths)
    BY <2>1, EmptyToSet
  <2>3. callback[c].lossy
    BY <2>2 DEF Tells
  <2> QED
    BY <2>1, <2>3 DEF ToVisit
<1> QED
  BY <1>1, <1>2, <1>3, <1>4, <1>5 DEF CallbackStep

(* A thread that takes a report while the watcher accepts has not told it  *)
(* yet, and tells of every source it is about.                             *)
LEMMA ReportTells ==
  ASSUME Types, NEW c \in Callbacks, Report(c), accepting
  PROVE  /\ callback'[c].at = "checked" /\ owed' = owed \ callback'[c].about
         /\ \A s \in callback'[c].about : Tells(c, s)'
<1>1. PICK E \in SUBSET owed :
        /\ \E e \in Events(E) :
             callback' = [callback EXCEPT ![c] =
               [at |-> "checked", kind |-> e.kind, paths |-> FirstPaths(e.paths),
                lossy |-> Len(e.paths) \notin 1..MaxPaths, about |-> E]]
        /\ owed' = owed \ E
  BY DEF Report
<1>2. PICK e \in Events(E) :
        callback'[c] = [at |-> "checked", kind |-> e.kind, paths |-> FirstPaths(e.paths),
                        lossy |-> Len(e.paths) \notin 1..MaxPaths, about |-> E]
  BY <1>1 DEF Types
<1>3. /\ callback'[c].at = "checked" /\ callback'[c].about = E
      /\ callback'[c].paths = FirstPaths(e.paths)
      /\ callback'[c].lossy = (Len(e.paths) \notin 1..MaxPaths)
  BY <1>2
<1>4. E \in SUBSET Sources
  BY DEF Types
<1>5. Len(e.paths) \in 1..MaxPaths => E \subseteq ToSet(FirstPaths(e.paths))
  BY <1>4, EventPaths
<1>6. CASE Len(e.paths) \in 1..MaxPaths
  BY <1>1, <1>3, <1>5, <1>6 DEF Tells
<1>7. CASE Len(e.paths) \notin 1..MaxPaths
  <2>1. callback'[c].lossy
    BY <1>3, <1>7
  <2> QED
    BY <1>1, <1>3, <2>1 DEF Tells
<1> QED
  BY <1>6, <1>7

-----------------------------------------------------------------------------
(* Where the loop is, the bounds and the threads are kept by every step.   *)
LEMMA PhasesStay ==
  ASSUME Types, Phases, [Next]_vars PROVE Phases'
<1> USE DEF Phases, Starting, Early
<1>0. CASE UNCHANGED <<pc, mode, watched, closing, todo, read, accepting, owed>>
  BY <1>0
<1>c. todo \in Seq(Sources) /\ read \in Seq(Items) /\ Catalog # <<>>
  BY CatalogFacts, EmptySeq DEF Types
<1>1. ASSUME NEW s \in Sources, Append1(s) PROVE Phases'
  BY <1>1 DEF Append1, bridge, job
<1>2. CASE AskToStop \/ Receive \/ UNCHANGED vars
  BY <1>0, <1>2 DEF AskToStop, Receive, files, bridge, job, vars
<1>3. ASSUME NEW c \in Callbacks, Report(c) PROVE Phases'
  BY <1>3 DEF Report, bridge, job
<1>4. ASSUME NEW c \in Callbacks, CallbackStep(c) PROVE Phases'
  BY <1>0, <1>4 DEF CallbackStep, Count, Admit, Refuse, PushPath, Leave, files, bridge, job
<1>5. CASE SnapshotOne
  <2>1. Len(todo) \in Nat /\ Tail(todo) \in Seq(Sources) /\ Len(Tail(todo)) = Len(todo) - 1
    BY <1>5, <1>c, HeadTailToSet DEF SnapshotOne
  <2>2. PICK tail \in Seq(Sources) : tail = Tail(todo)
    BY <2>1
  <2>3. Len(tail) = 0 <=> tail = <<>>
    BY EmptySeq
  <2>4. Len(todo) = 1 <=> Tail(todo) = <<>>
    BY <2>1, <2>2, <2>3
  <2> QED
    BY <1>5, <2>4 DEF SnapshotOne, files, bridge
<1>6. CASE Register
  BY <1>6 DEF Register, Start, bridge
<1>7. CASE Visit
  BY <1>7 DEF Visit, files, bridge
<1>8. CASE Send
  BY <1>8 DEF Send, files, bridge
<1>9. CASE EndJob
  BY <1>9 DEF EndJob, AfterJob, files, bridge, Types, Modes
<1>10. CASE TakeSignal
  BY <1>10 DEF TakeSignal, Start, files
<1>11. CASE Poll
  BY <1>11 DEF Poll, Start, files, bridge
<1>12. CASE SeeOverflow
  BY <1>12 DEF SeeOverflow, files, bridge, job
<1>13. CASE TakeOverflow
  BY <1>13 DEF TakeOverflow, Start, files
<1>14. CASE CloseAdmission
  BY <1>14 DEF CloseAdmission, files, job
<1>15. CASE SeeNoCallback \/ Drained
  BY <1>15 DEF SeeNoCallback, Drained, files, bridge, job
<1> QED
  BY <1>1, <1>2, <1>3, <1>4, <1>5, <1>6, <1>7, <1>8, <1>9, <1>10, <1>11, <1>12, <1>13,
     <1>14, <1>15 DEF Next, LoopStep


(* The queues stay within their capacities, and the counter counts.        *)
LEMMA BoundsStay ==
  ASSUME Types, Phases, Bounds, [Next]_vars PROVE Bounds'
<1> USE DEF Bounds
<1>0. /\ Len(signals) \in Nat /\ Len(output) \in Nat /\ Len(todo) \in Nat /\ Len(read) \in Nat
      /\ Len(Catalog) \in Nat /\ Len(Catalog) >= 1
      /\ SignalCapacity \in Nat \ {0} /\ OutputCapacity \in Nat \ {0} /\ MaxPaths \in Nat \ {0}
      /\ IsFiniteSet(Inside)
  <2>1. IsFiniteSet(Inside)
    BY WatcherAssumption, FS_Subset DEF Inside
  <2> QED
    BY <2>1, WatcherAssumption, CatalogFacts DEF Types
<1>1. (Len(signals) <= SignalCapacity)'
  <2>1. CASE signals' = signals
    BY <2>1
  <2>2. ASSUME NEW c \in Callbacks, PushPath(c) PROVE Len(signals') <= SignalCapacity
    <3>1. PICK rest \in Seq(Paths) : Took(c, Head(callback[c].paths), rest)
      BY <2>2, PushPathTakes
    <3>2. \/ signals' = signals
          \/ Len(signals) < SignalCapacity /\ \E g \in Signals : signals' = Append(signals, g)
      BY <3>1 DEF Took
    <3>3. ASSUME NEW g \in Signals, signals' = Append(signals, g)
          PROVE  Len(signals') = Len(signals) + 1
      BY <3>3, AppendToSet DEF Types
    <3> QED
      BY <1>0, <2>1, <3>2, <3>3
  <2>3. CASE TakeSignal
    <3>1. Len(signals') = Len(signals) - 1
      BY <2>3, HeadTailToSet DEF TakeSignal, Types
    <3> QED
      BY <1>0, <3>1
  <2>4. CASE ~TakeSignal /\ \A c \in Callbacks : ~PushPath(c)
    <3>1. signals' = signals
      BY <2>4 DEF Next, vars, Append1, AskToStop, Receive, Report, CallbackStep, Count, Admit,
         Refuse, Leave, LoopStep, SnapshotOne, Register, Visit, Send, EndJob, Poll,
         SeeOverflow, TakeOverflow, CloseAdmission, SeeNoCallback, Drained, bridge
    <3> QED
      BY <2>1, <3>1
  <2> QED
    BY <2>2, <2>3, <2>4
<1>2. (Len(output) <= OutputCapacity)'
  <2>1. CASE output' = output
    BY <2>1
  <2>2. CASE Receive
    <3>1. Len(output') = Len(output) - 1
      BY <2>2, HeadTailToSet DEF Receive, Types
    <3> QED
      BY <1>0, <3>1
  <2>3. CASE Send
    <3>1. Head(read) \in Items
      BY <2>3, HeadTailToSet DEF Send, Types
    <3>2. Len(output') = Len(output) + 1 /\ Len(output) < OutputCapacity
      BY <2>3, <3>1, AppendToSet DEF Send, Types
    <3> QED
      BY <1>0, <3>2
  <2>4. CASE ~Receive /\ ~Send
    <3>1. output' = output
      BY <2>4 DEF Next, vars, Append1, AskToStop, Report, CallbackStep, Count, Admit,
         Refuse, PushPath, Leave, LoopStep, SnapshotOne, Register, Visit, EndJob, TakeSignal,
         Poll, SeeOverflow, TakeOverflow, CloseAdmission, SeeNoCallback, Drained
    <3> QED
      BY <2>1, <3>1
  <2> QED
    BY <2>2, <2>3, <2>4
<1>3. (Len(todo) + Len(read) <= Len(Catalog))'
  <2>1. CASE UNCHANGED <<todo, read>>
    BY <2>1
  <2>e. Len(<<>>) = 0
    BY EmptySeq
  <2>2. CASE SnapshotOne
    <3>1. Len(todo') = Len(todo) - 1 /\ read' = read
      BY <2>2, HeadTailToSet DEF SnapshotOne, Types, Phases
    <3> QED
      BY <1>0, <3>1
  <2>3. ASSUME NEW scope \in {Catalog} \cup {ScopeOf(g) : g \in ToSet(signals)},
               pc # "reconcile", todo' = scope, read' = read
        PROVE  Len(todo') + Len(read') <= Len(Catalog)
    <3>1. read = <<>>
      BY <2>3 DEF Phases
    <3>2. Len(scope) = Len(Catalog) \/ Len(scope) = 1
      BY <2>3 DEF ScopeOf
    <3>3. Len(read') = 0 /\ Len(todo') = Len(scope)
      BY <2>3, <2>e, <3>1
    <3>4. PICK n : n = Len(scope)
      OBVIOUS
    <3>5. PICK k : k = Len(Catalog)
      OBVIOUS
    <3>6. k \in Nat /\ k >= 1 /\ (n = k \/ n = 1)
      BY <1>0, <3>2, <3>4, <3>5
    <3>7. n + 0 <= k
      BY <3>6
    <3> QED
      BY <3>3, <3>4, <3>5, <3>7
  <2>4. CASE Register \/ Poll
    <3>1. pc # "reconcile" /\ todo' = Catalog /\ read' = read
      BY <2>4 DEF Register, Poll, Start
    <3> QED
      BY <2>3, <3>1
  <2>5. CASE TakeSignal
    <3>1. pc # "reconcile" /\ todo' = ScopeOf(Head(signals)) /\ read' = read
      BY <2>5 DEF TakeSignal, Start
    <3>2. Head(signals) \in ToSet(signals)
      BY <2>5, HeadTailToSet DEF TakeSignal, Types
    <3> QED
      BY <2>3, <3>1, <3>2
  <2>6. CASE TakeOverflow
    <3>1. pc # "reconcile" /\ (todo' = Catalog \/ todo' = todo) /\ read' = read
      BY <2>6 DEF TakeOverflow, Start
    <3> QED
      BY <2>1, <2>3, <3>1
  <2>7. CASE Visit
    <3>1. Head(todo) \in Sources /\ Len(todo') = Len(todo) - 1
      BY <2>7, HeadTailToSet DEF Visit, Types
    <3>2. CASE size[Head(todo)] = 0
      <4>1. read' = read
        BY <2>7, <3>2 DEF Visit
      <4> QED
        BY <1>0, <3>1, <4>1
    <3>3. CASE size[Head(todo)] # 0
      <4>1. PICK i : i = [source |-> Head(todo), target |-> size[Head(todo)],
                          live |-> Urgent(Head(todo))]
        OBVIOUS
      <4>2. i \in Items
        BY <3>1, <3>3, <4>1 DEF Types, Items, Sizes, Urgent
      <4>3. read' = Append(read, i)
        BY <2>7, <3>3, <4>1 DEF Visit
      <4>4. Len(read') = Len(read) + 1
        BY <4>2, <4>3, AppendToSet DEF Types
      <4> QED
        BY <1>0, <3>1, <4>4
    <3> QED
      BY <3>2, <3>3
  <2>8. CASE Send
    <3>1. Len(read') = Len(read) - 1 /\ todo' = todo
      BY <2>8, HeadTailToSet DEF Send, Types
    <3> QED
      BY <1>0, <3>1
  <2>9. CASE ~LoopStep \/ EndJob \/ SeeOverflow \/ CloseAdmission \/ SeeNoCallback \/ Drained
    <3>1. UNCHANGED <<todo, read>>
      BY <2>9 DEF Next, vars, Append1, AskToStop, Receive, Report, CallbackStep, Count, Admit,
         Refuse, PushPath, Leave, EndJob, SeeOverflow, CloseAdmission, SeeNoCallback,
         Drained, job
    <3> QED
      BY <2>1, <3>1
  <2> QED
    BY <2>2, <2>4, <2>5, <2>6, <2>7, <2>8, <2>9 DEF LoopStep
<1>4. (\A c \in Callbacks : Len(callback[c].paths) <= MaxPaths)'
  <2> SUFFICES ASSUME NEW c \in Callbacks PROVE Len(callback'[c].paths) <= MaxPaths
    OBVIOUS
  <2>1. CASE callback'[c].paths = callback[c].paths
    BY <2>1
  <2>2. /\ callback \in [Callbacks -> Threads] /\ callback[c] \in Threads
        /\ callback[c].paths \in Seq(Paths)
    BY DEF Types, Threads
  <2>3. CASE ~Report(c) /\ ~CallbackStep(c)
    BY <2>1, <2>3, OthersStay
  <2>4. CASE Report(c)
    <3>1. PICK E \in SUBSET owed :
            IF accepting
              THEN \E e \in Events(E) :
                     callback' = [callback EXCEPT ![c] =
                       [at |-> "checked", kind |-> e.kind, paths |-> FirstPaths(e.paths),
                        lossy |-> Len(e.paths) \notin 1..MaxPaths, about |-> E]]
              ELSE UNCHANGED callback
      BY <2>4 DEF Report
    <3>2. CASE ~accepting
      BY <2>1, <3>1, <3>2
    <3>3. CASE accepting
      <4>1. PICK e \in Events(E) : callback'[c].paths = FirstPaths(e.paths)
        BY <2>2, <3>1, <3>3
      <4> QED
        BY <4>1, EventPaths DEF Types
    <3> QED
      BY <3>2, <3>3
  <2>5. CASE Count(c) \/ Admit(c)
    <3>1. callback'[c].paths = callback[c].paths
      BY <2>2, <2>5 DEF Count, Admit, Threads
    <3> QED
      BY <2>1, <3>1
  <2>6. CASE Refuse(c) \/ Leave(c)
    <3>1. callback'[c].paths = <<>>
      BY <2>2, <2>6 DEF Refuse, Leave, Idle
    <3> QED
      BY <1>0, <3>1, EmptySeq
  <2>7. CASE PushPath(c)
    <3>1. PICK rest \in Seq(Paths) : Took(c, Head(callback[c].paths), rest)
      BY <2>7, PushPathTakes
    <3>2. callback'[c].paths = rest /\ (rest = <<>> \/ rest = Tail(callback[c].paths))
      BY <2>2, <3>1 DEF Took, Threads
    <3>3. Len(Tail(callback[c].paths)) = Len(callback[c].paths) - 1
      BY <2>2, <2>7, HeadTailToSet DEF PushPath
    <3> QED
      BY <1>0, <2>2, <3>2, <3>3, EmptySeq
  <2> QED
    BY <2>3, <2>4, <2>5, <2>6, <2>7 DEF CallbackStep
<1>5. (inFlight = Cardinality(Inside))'
  <2>1. CASE inFlight' = inFlight /\ Inside' = Inside
    BY <2>1
  <2>2. ASSUME NEW c \in Callbacks, Report(c) \/ Count(c) \/ Admit(c) \/ PushPath(c)
                                    \/ Refuse(c) \/ Leave(c)
        PROVE  inFlight' = Cardinality(Inside')
    <3>0. callback \in [Callbacks -> Threads] /\ callback[c] \in Threads
      BY DEF Types
    <3>1. CASE Report(c)
      <4>1. inFlight' = inFlight /\ callback[c].at = "idle"
        BY <3>1 DEF Report, bridge
      <4>2. callback' = callback \/ \E t : t.at = "checked" /\ callback' = [callback EXCEPT ![c] = t]
        BY <3>1 DEF Report
      <4>3. Inside' = Inside
        BY <3>0, <4>1, <4>2 DEF Inside
      <4> QED
        BY <2>1, <4>1, <4>3
    <3>2. CASE Count(c)
      <4>1. /\ inFlight' = inFlight + 1 /\ callback[c].at = "checked"
            /\ callback' = [callback EXCEPT ![c].at = "counted"]
        BY <3>2 DEF Count
      <4>2. c \notin Inside /\ Inside' = Inside \cup {c}
        BY <3>0, <4>1 DEF Inside, Threads
      <4> QED
        BY <1>0, <4>1, <4>2, FS_AddElement
    <3>3. CASE Admit(c)
      <4>1. /\ inFlight' = inFlight /\ callback[c].at = "counted"
            /\ callback' = [callback EXCEPT ![c].at = "inside"]
        BY <3>3 DEF Admit, bridge
      <4>2. Inside' = Inside
        BY <3>0, <4>1 DEF Inside, Threads
      <4> QED
        BY <2>1, <4>1, <4>2
    <3>4. CASE PushPath(c)
      <4>1. PICK rest \in Seq(Paths) : Took(c, Head(callback[c].paths), rest)
        BY <3>4, PushPathTakes
      <4>2. inFlight' = inFlight /\ callback' = [callback EXCEPT ![c].paths = rest]
        BY <3>4, <4>1 DEF PushPath, Took
      <4>3. Inside' = Inside
        BY <3>0, <4>2 DEF Inside, Threads
      <4> QED
        BY <2>1, <4>2, <4>3
    <3>5. CASE Refuse(c) \/ Leave(c)
      <4>1. /\ inFlight' = inFlight - 1 /\ callback[c].at \in {"counted", "inside"}
            /\ callback' = [callback EXCEPT ![c] = Idle]
        BY <3>5 DEF Refuse, Leave
      <4>2. c \in Inside /\ Inside' = Inside \ {c}
        BY <3>0, <4>1 DEF Inside, Idle
      <4> QED
        BY <1>0, <4>1, <4>2, FS_RemoveElement
    <3> QED
      BY <2>2, <3>1, <3>2, <3>3, <3>4, <3>5
  <2>3. CASE ~\E c \in Callbacks : Report(c) \/ CallbackStep(c)
    <3>1. UNCHANGED <<inFlight, callback>>
      BY <2>3 DEF Next, vars, Append1, AskToStop, Receive, LoopStep, SnapshotOne, Register,
         Visit, Send, EndJob, TakeSignal, Poll, SeeOverflow, TakeOverflow, CloseAdmission,
         SeeNoCallback, Drained, bridge
    <3>2. Inside' = Inside
      BY <3>1 DEF Inside
    <3> QED
      BY <2>1, <3>1, <3>2
  <2> QED
    BY <2>2, <2>3 DEF CallbackStep
<1> QED
  BY <1>1, <1>2, <1>3, <1>4, <1>5


(* Each thread goes on telling all it is about until it is inside.         *)
LEMMA ThreadsStay ==
  ASSUME Types, ThreadsOK, [Next]_vars PROVE ThreadsOK'
<1> SUFFICES ASSUME NEW c \in Callbacks PROVE ThreadOK(c)'
  BY DEF ThreadsOK
<1>0. /\ callback \in [Callbacks -> Threads] /\ callback[c] \in Threads /\ ThreadOK(c)
  BY DEF Types, ThreadsOK
<1>1. CASE ~Report(c) /\ ~CallbackStep(c)
  <2>1. callback'[c] = callback[c]
    BY <1>1, OthersStay
  <2> QED
    BY <1>0, <2>1 DEF ThreadOK, Tells
<1>2. CASE Report(c)
  <2>1. CASE ~accepting
    <3>1. callback' = callback
      BY <1>2, <2>1 DEF Report
    <3> QED
      BY <1>0, <3>1 DEF ThreadOK, Tells
  <2>2. CASE accepting
    BY <1>2, <2>2, ReportTells DEF ThreadOK
  <2> QED
    BY <2>1, <2>2
<1>3. CASE Count(c) \/ Admit(c)
  <2>1. /\ callback'[c].about = callback[c].about /\ callback'[c].lossy = callback[c].lossy
        /\ callback'[c].paths = callback[c].paths /\ callback[c].at \notin {"idle", "inside"}
        /\ callback'[c].at # "idle"
    BY <1>0, <1>3 DEF Count, Admit, Threads
  <2> QED
    BY <1>0, <2>1 DEF ThreadOK, Tells
<1>4. CASE Refuse(c) \/ Leave(c)
  <2>1. callback'[c] = Idle
    BY <1>0, <1>4 DEF Refuse, Leave
  <2> QED
    BY <2>1 DEF ThreadOK, Idle
<1>5. CASE PushPath(c)
  <2>1. PICK rest \in Seq(Paths) : Took(c, Head(callback[c].paths), rest)
    BY <1>5, PushPathTakes
  <2>2. callback'[c].at = "inside"
    BY <1>0, <1>5, <2>1 DEF PushPath, Took, Threads
  <2> QED
    BY <2>2 DEF ThreadOK
<1> QED
  BY <1>1, <1>2, <1>3, <1>4, <1>5 DEF CallbackStep

-----------------------------------------------------------------------------
(* Sizes only grow, and one that grows is owed from registration on.       *)
LEMMA SizesGrow ==
  ASSUME Types, [Next]_vars, NEW s \in Sources
  PROVE  /\ size[s] \in Nat /\ size'[s] \in Nat /\ size[s] <= size'[s]
         /\ size'[s] # size[s] => watched' = watched /\ (watched => s \in owed')
<1>0. size[s] \in Nat
  BY DEF Types, Sizes
<1>1. ASSUME NEW r \in Sources, Append1(r)
      PROVE  /\ size'[s] = size[s] \/ size'[s] = size[s] + 1
             /\ size'[s] # size[s] => watched' = watched /\ (watched => s \in owed')
  BY <1>1 DEF Append1, Types
<1>2. CASE ~\E r \in Sources : Append1(r)
  <2>1. size' = size
    BY <1>2 DEF Next, vars, AskToStop, Receive, Report, CallbackStep, Count, Admit, Refuse,
         PushPath, Leave, LoopStep, SnapshotOne, Register, Visit, Send, EndJob, TakeSignal,
         Poll, SeeOverflow, TakeOverflow, CloseAdmission, SeeNoCallback, Drained, files
  <2> QED
    BY <1>0, <2>1
<1> QED
  BY <1>0, <1>1, <1>2

(* What a backend owes it goes on owing, or a thread of it tells, as long  *)
(* as the watcher accepts.                                                 *)
LEMMA OwedStays ==
  ASSUME Types, [Next]_vars, accepting, NEW s \in owed
  PROVE  s \in owed' \/ \E c \in Callbacks : Tells(c, s)'
<1>1. ASSUME NEW c \in Callbacks, Report(c)
      PROVE  s \in owed' \/ \E d \in Callbacks : Tells(d, s)'
  <2>1. owed' = owed \ callback'[c].about /\ \A r \in callback'[c].about : Tells(c, r)'
    BY <1>1, ReportTells
  <2> QED
    BY <2>1
<1>2. CASE ~\E c \in Callbacks : Report(c)
  <2>1. owed \subseteq owed'
    BY <1>2 DEF Next, vars, Append1, AskToStop, Receive, CallbackStep, Count, Admit, Refuse,
         PushPath, Leave, LoopStep, SnapshotOne, Register, Visit, Send, EndJob, TakeSignal,
         Poll, SeeOverflow, TakeOverflow, CloseAdmission, SeeNoCallback, Drained, files
  <2> QED
    BY <2>1
<1> QED
  BY <1>1, <1>2

(* No growth is forgotten by any step between readiness and shutdown.      *)
LEMMA AllKeptStays ==
  ASSUME IInv, [Next]_vars, Phases' PROVE AllKept'
<1> USE DEF IInv
<1> SUFFICES ASSUME ~Early', ~closing', NEW s \in Sources PROVE Kept(s)'
  BY DEF AllKept
<1>1. CASE Early
  <2>1. pc' \in {"reconcile"} /\ todo' = Catalog
    BY <1>1 DEF Next, vars, Append1, AskToStop, Receive, Report, CallbackStep, Count, Admit,
         Refuse, PushPath, Leave, LoopStep, SnapshotOne, Register, Visit, Send, EndJob,
         TakeSignal, Poll, SeeOverflow, TakeOverflow, CloseAdmission, SeeNoCallback, Drained,
         files, bridge, job, Early, Start
  <2> QED
    BY <2>1, CatalogFacts DEF Kept, ToVisit
<1>2. CASE ~Early
  <2>1. ~closing
    BY DEF Next, vars, Append1, AskToStop, Receive, Report, CallbackStep, Count, Admit,
         Refuse, PushPath, Leave, LoopStep, SnapshotOne, Register, Visit, Send, EndJob,
         TakeSignal, Poll, SeeOverflow, TakeOverflow, CloseAdmission, SeeNoCallback, Drained
  <2>2. accepting /\ watched /\ Kept(s)
    BY <1>2, <2>1 DEF Phases, AllKept
  <2>3. CASE size'[s] # size[s]
    BY <2>2, <2>3, SizesGrow DEF Kept
  <2>4. CASE size'[s] = size[s]
    <3>1. PICK n \in Nat : n = size[s]
      BY DEF Types, Sizes
    <3>2. CASE Covered(s, n)
      <4>1. Covered(s, n)'
        BY <3>2, CoveredStays
      <4>2. Covered(s, size[s])'
        BY <2>4, <3>1, <4>1 DEF Covered
      <4> QED
        BY <4>2 DEF Kept
    <3>3. CASE s \in owed
      BY <2>2, <3>3, OwedStays DEF Kept
    <3>4. ASSUME NEW c \in Callbacks, Tells(c, s) PROVE Kept(s)'
      <4>1. ~Refuse(c)
        BY <2>2 DEF Refuse
      <4> QED
        BY <3>4, <4>1, TellsStay DEF Kept
    <3>5. CASE ToVisit(s)
      <4>1. Covered(s, n)' \/ ToVisit(s)'
        BY <3>1, <3>5, ToVisitStays
      <4>2. Covered(s, n)' => Covered(s, size[s])'
        BY <2>4, <3>1 DEF Covered
      <4> QED
        BY <4>1, <4>2 DEF Kept
    <3> QED
      BY <2>2, <3>1, <3>2, <3>3, <3>4, <3>5 DEF Kept
  <2> QED
    BY <2>3, <2>4
<1> QED
  BY <1>1, <1>2

(* What is to be taken stays so, or is visited, also while the loop drains: *)
(* it empties the queue before it takes the flag, and visits what that asks *)
(* for.                                                                     *)
LEMMA ToTakeStays ==
  ASSUME Types, Phases, [Next]_vars,
         NEW s \in Sources, NEW n \in Nat, n <= size[s], ToTake(s)
  PROVE  Covered(s, n)' \/ ToTake(s)'
<1>0. ToVisit(s) /\ ToSet(Catalog) = Sources
  BY CatalogFacts DEF ToTake, ToVisit
<1>1. CASE closing' => ~Drains(pc', mode')
  <2>1. ToVisit(s)' => ToTake(s)'
    BY <1>1 DEF ToVisit, ToTake, Drains, Flushed
  <2> QED
    BY <1>0, <2>1, ToVisitStays
<1>2. CASE closing' /\ Drains(pc', mode')
  <2>1. closing
    BY <1>2 DEF Next, vars, Append1, AskToStop, Receive, Report, CallbackStep, Count, Admit,
         Refuse, PushPath, Leave, LoopStep, SnapshotOne, Register, Visit, Send, EndJob,
         TakeSignal, Poll, SeeOverflow, TakeOverflow, CloseAdmission, SeeNoCallback, Drained,
         Drains
  <2>2. /\ pc \notin {"snapshot", "register", "select"}
        /\ pc = "reconcile" => mode \in {"signal", "overflow"}
    BY <2>1 DEF Phases, Starting, Early
  <2>3. CASE Drained
    <3>1. /\ pc = "drain" /\ signals = <<>> /\ overflow' = overflow /\ pc' = "overflow"
      BY <2>3 DEF Drained
    <3> QED
      BY <3>1, EmptyToSet DEF ToTake, Flushed
  <2>4. CASE TakeOverflow
    <3>1. pc = "overflow" /\ overflow
      BY <2>1, <2>4 DEF TakeOverflow, ToTake, Drains
    <3>2. pc' = "reconcile" /\ todo' = Catalog
      BY <2>4, <3>1 DEF TakeOverflow, Start
    <3> QED
      BY <1>0, <3>2 DEF ToTake
  <2>5. CASE Visit
    <3>1. PICK h : h = Head(todo)
      OBVIOUS
    <3>2. /\ UNCHANGED <<signals, overflow, pc, mode, closing>>
          /\ ToSet(todo) = {h} \cup ToSet(todo')
      BY <2>5, <3>1, HeadTailToSet DEF Types, Visit, bridge
    <3>3. CASE s = h
      BY <2>5, <3>1, <3>3, VisitCovers
    <3>4. CASE s # h
      BY <3>2, <3>4 DEF ToTake
    <3> QED
      BY <3>3, <3>4
  <2>6. ~EndJob
    <3> SUFFICES ASSUME EndJob PROVE FALSE
      OBVIOUS
    <3>1. pc = "reconcile" /\ todo = <<>> /\ mode \in {"signal", "overflow"}
      BY <2>2 DEF EndJob
    <3>2. pc' = AfterJob /\ mode' = "none"
      BY DEF EndJob
    <3>3. mode = "overflow"
      BY <1>2, <2>1, <3>1, <3>2 DEF AfterJob, Drains
    <3> QED
      BY <2>1, <3>1, <3>3, EmptyToSet DEF ToTake, Drains, Flushed
  <2>7. CASE ~LoopStep \/ Send
    <3>1. UNCHANGED <<pc, mode, closing, todo>>
      BY <2>7 DEF Next, vars, Append1, AskToStop, Receive, Report, CallbackStep, Count, Admit,
           Refuse, PushPath, Leave, Send, job
    <3>2. overflow => overflow'
      <4>1. ASSUME NEW c \in Callbacks, PushPath(c), overflow PROVE overflow'
        BY <4>1 DEF PushPath
      <4>2. ASSUME NEW c \in Callbacks, Leave(c), overflow PROVE overflow'
        BY <4>2 DEF Leave
      <4>3. (\A c \in Callbacks : ~PushPath(c) /\ ~Leave(c)) => overflow' = overflow
        BY <2>7 DEF Next, vars, Append1, AskToStop, Receive, Report, CallbackStep, Count,
             Admit, Refuse, Send, bridge
      <4> QED
        BY <4>1, <4>2, <4>3
    <3> QED
      BY <1>2, <2>1, <3>1, <3>2 DEF ToTake
  <2>8. ~SnapshotOne /\ ~Register /\ ~Poll /\ ~SeeOverflow /\ ~CloseAdmission
    BY <2>2 DEF SnapshotOne, Register, Poll, SeeOverflow, CloseAdmission
  <2>9. ~TakeSignal /\ ~SeeNoCallback
    BY <1>2 DEF TakeSignal, SeeNoCallback, Start, Drains
  <2> QED
    BY <2>3, <2>4, <2>5, <2>6, <2>7, <2>8, <2>9 DEF LoopStep
<1> QED
  BY <1>1, <1>2

(* The loop stops waiting only when it finds no thread inside.              *)
LEMMA WaitingEnds ==
  ASSUME Types, Bounds, Phases, [Next]_vars, Awaits, ~Awaits'
  PROVE  \A c \in Callbacks : callback[c].at # "inside"
<1>1. SeeNoCallback
  <2>1. ~CloseAdmission
    BY DEF CloseAdmission, Awaits
  <2>2. (~SeeNoCallback /\ ~CloseAdmission) => closing' = closing
    BY DEF Next, vars, Append1, AskToStop, Receive, Report, CallbackStep, Count, Admit,
         Refuse, PushPath, Leave, LoopStep, SnapshotOne, Register, Visit, Send, EndJob,
         TakeSignal, Poll, SeeOverflow, TakeOverflow, Drained
  <2>3. (pc = "close" /\ ~SeeNoCallback) => pc' = pc
    BY DEF Next, vars, Append1, AskToStop, Receive, Report, CallbackStep, Count, Admit,
         Refuse, PushPath, Leave, LoopStep, SnapshotOne, Register, Visit, Send, EndJob,
         TakeSignal, Poll, SeeOverflow, TakeOverflow, CloseAdmission, Drained
  <2> QED
    BY <2>1, <2>2, <2>3 DEF Awaits
<1>2. IsFiniteSet(Inside)
  BY WatcherAssumption, FS_Subset DEF Inside
<1>3. inFlight = 0
  BY <1>1 DEF SeeNoCallback
<1>4. Inside = {}
  BY <1>2, <1>3, FS_EmptySet DEF Bounds
<1> QED
  BY <1>4 DEF Inside

(* A promise is kept by every step.                                        *)
LEMMA PromisesStay ==
  ASSUME IInv, [Next]_vars PROVE Promises'
<1> USE DEF IInv
<1> SUFFICES ASSUME NEW s \in Sources
             PROVE  promised'[s] <= size'[s] /\ PromiseKept(s)'
  BY DEF Promises
<1>0. /\ promised[s] \in Nat /\ promised[s] <= size[s] /\ PromiseKept(s)
      /\ size[s] \in Nat /\ size'[s] \in Nat /\ size[s] <= size'[s]
  BY SizesGrow DEF Types, Sizes, Promises
<1>1. CASE promised'[s] = promised[s]
  <2>1. PICK n \in Nat : n = promised[s]
    BY <1>0
  <2>2. Covered(s, n)' => PromiseKept(s)'
    BY <1>1, <2>1 DEF PromiseKept, Covered
  <2>3. ASSUME Covered(s, n) PROVE PromiseKept(s)'
    <3>1. Covered(s, n)'
      BY <2>3, CoveredStays
    <3> QED
      BY <2>2, <3>1
  <2>4. ASSUME NEW c \in Callbacks, Awaits, TellsInside(c, s) PROVE PromiseKept(s)'
    <3>1. ~Refuse(c) /\ Tells(c, s) /\ callback[c].at = "inside"
      BY <2>4 DEF TellsInside, Refuse
    <3>2. Awaits'
      BY <2>4, <3>1, WaitingEnds
    <3>3. ToVisit(s)' \/ TellsInside(c, s)'
      BY <3>1, TellsStay DEF TellsInside
    <3>4. ToVisit(s)' => ToTake(s)'
      BY <3>2 DEF Awaits, ToVisit, ToTake, Drains, Flushed
    <3> QED
      BY <3>2, <3>3, <3>4 DEF PromiseKept
  <2>5. ASSUME ToTake(s) PROVE PromiseKept(s)'
    <3>1. Covered(s, n)' \/ ToTake(s)'
      BY <1>0, <2>1, <2>5, ToTakeStays
    <3>2. CASE ToTake(s)'
      BY <3>2 DEF PromiseKept
    <3> QED
      BY <2>2, <3>1, <3>2
  <2>6. PromiseKept(s)'
    BY <1>0, <2>1, <2>3, <2>4, <2>5 DEF PromiseKept
  <2> QED
    BY <1>0, <1>1, <2>6
<1>2. CASE promised'[s] # promised[s]
  <2>1. PICK c \in Callbacks : Admit(c)
    BY <1>2 DEF Next, vars, Append1, AskToStop, Receive, Report, CallbackStep, Count,
         Refuse, PushPath, Leave, LoopStep, SnapshotOne, Register, Visit, Send, EndJob,
         TakeSignal, Poll, SeeOverflow, TakeOverflow, CloseAdmission, SeeNoCallback, Drained
  <2>2. /\ callback[c].at = "counted" /\ callback' = [callback EXCEPT ![c].at = "inside"]
        /\ size' = size /\ UNCHANGED <<pc, closing>>
        /\ promised'[s] = IF s \in callback[c].about /\ Awaits THEN size[s] ELSE promised[s]
    BY <2>1 DEF Admit, files
  <2>3. s \in callback[c].about /\ Awaits /\ promised'[s] = size[s]
    BY <1>2, <2>2
  <2>4. Tells(c, s)
    BY <2>2, <2>3 DEF ThreadsOK, ThreadOK
  <2>5. TellsInside(c, s)' /\ Awaits'
    BY <2>2, <2>3, <2>4 DEF Types, Threads, TellsInside, Tells, Awaits
  <2> QED
    BY <1>0, <2>2, <2>3, <2>5 DEF PromiseKept
<1> QED
  BY <1>1, <1>2


(* The watcher does not start twice; only the snapshot changes what was     *)
(* seen before registration, and a reconciliation only visits.             *)
LEMMA StartingSteps ==
  ASSUME Types, Phases, [Next]_vars, Starting'
  PROVE  /\ Starting /\ (Early' => Early)
         /\ \/ SnapshotOne /\ Early
            \/ baseline' = baseline
         /\ pc' = "reconcile" => \/ Register
                                 \/ pc = "reconcile" /\ mode = "startup"
                                    /\ (todo' = todo \/ Visit)
<1> USE DEF Starting, Early, Phases
<1>1. CASE UNCHANGED <<pc, mode, todo, baseline>>
  BY <1>1
<1>2. CASE SnapshotOne
  BY <1>2 DEF SnapshotOne
<1>3. CASE Register
  BY <1>3 DEF Register
<1>4. CASE Visit
  BY <1>4 DEF Visit
<1>5. CASE Send
  BY <1>1, <1>5 DEF Send
<1>6. CASE EndJob
  BY <1>6 DEF EndJob, AfterJob, Types, Modes
<1>7. CASE TakeSignal \/ Poll \/ SeeOverflow \/ TakeOverflow \/ CloseAdmission
           \/ SeeNoCallback \/ Drained
  BY <1>7 DEF TakeSignal, Poll, SeeOverflow, TakeOverflow, CloseAdmission, SeeNoCallback,
       Drained, Start, job
<1>8. CASE ~LoopStep
  <2>1. UNCHANGED <<pc, mode, todo, baseline>>
    BY <1>8 DEF Next, vars, Append1, AskToStop, Receive, Report, CallbackStep, Count, Admit,
         Refuse, PushPath, Leave, job
  <2> QED
    BY <1>1, <2>1
<1> QED
  BY <1>2, <1>3, <1>4, <1>5, <1>6, <1>7, <1>8 DEF LoopStep

(* What the runtime receives moves its furthest sizes on.                  *)
LEMMA ReceiveGets ==
  ASSUME Types, Receive
  PROVE  \E h \in Items :
           /\ ToSet(output) = {h} \cup ToSet(output')
           /\ h.source \in Sources /\ h.target \in Nat
           /\ \A r \in Sources : r # h.source => got'[r] = got[r]
           /\ got'[h.source].any = (IF got[h.source].any >= h.target
                                    THEN got[h.source].any ELSE h.target)
           /\ got'[h.source].live = (IF h.live /\ ~(got[h.source].live >= h.target)
                                     THEN h.target ELSE got[h.source].live)
<1>1. PICK h : h = Head(output)
  OBVIOUS
<1>2. h \in Items /\ ToSet(output) = {h} \cup ToSet(output')
  BY <1>1, HeadTailToSet DEF Types, Receive
<1>3. h.source \in Sources /\ h.target \in Nat
  BY <1>2 DEF Items
<1>4. got[h.source].any \in Nat /\ got[h.source].live \in Nat
  BY <1>3 DEF Types, Gotten, Sizes
<1>5. got' = [got EXCEPT ![h.source].any = Furthest({@, h.target}),
                         ![h.source].live = IF h.live THEN Furthest({@, h.target}) ELSE @]
  BY <1>1 DEF Receive
<1>6. /\ got'[h.source].any = Furthest({got[h.source].any, h.target})
      /\ got'[h.source].live = IF h.live THEN Furthest({got[h.source].live, h.target})
                                         ELSE got[h.source].live
      /\ \A r \in Sources : r # h.source => got'[r] = got[r]
  BY <1>3, <1>5 DEF Types, Gotten
<1>7. /\ Furthest({got[h.source].any, h.target}) =
           (IF got[h.source].any >= h.target THEN got[h.source].any ELSE h.target)
      /\ Furthest({got[h.source].live, h.target}) =
           (IF got[h.source].live >= h.target THEN got[h.source].live ELSE h.target)
  BY <1>3, <1>4, FurthestOfTwo
<1>8. got'[h.source].live = (IF h.live /\ ~(got[h.source].live >= h.target)
                             THEN h.target ELSE got[h.source].live)
  BY <1>6, <1>7
<1> QED
  BY <1>2, <1>3, <1>6, <1>7, <1>8

(* What startup relies on is kept by every step.                           *)
LEMMA BeginningStays ==
  ASSUME IInv, [Next]_vars, Types', Phases' PROVE Beginning'
<1> USE DEF IInv
<1>0. /\ \A s \in Sources : /\ got[s].any \in Nat /\ got[s].live \in Nat
                             /\ got[s].live <= got[s].any
      /\ \A s \in Sources : baseline[s] \in Nat /\ size[s] \in Nat
  BY DEF Types, Gotten, Sizes, Beginning
<1>1. ~Receive => got' = got
  BY DEF Next, vars, Append1, AskToStop, Report, CallbackStep, Count, Admit,
     Refuse, PushPath, Leave, LoopStep, SnapshotOne, Register, Visit, Send, EndJob,
     TakeSignal, Poll, SeeOverflow, TakeOverflow, CloseAdmission, SeeNoCallback, Drained
<1>2. ~Receive /\ ~Send => output' = output
  BY DEF Next, vars, Append1, AskToStop, Report, CallbackStep, Count, Admit,
     Refuse, PushPath, Leave, LoopStep, SnapshotOne, Register, Visit, EndJob,
     TakeSignal, Poll, SeeOverflow, TakeOverflow, CloseAdmission, SeeNoCallback, Drained
<1>3. ~Send /\ ~Visit => read' = read
  BY DEF Next, vars, Append1, AskToStop, Receive, Report, CallbackStep, Count, Admit,
     Refuse, PushPath, Leave, LoopStep, SnapshotOne, Register, EndJob,
     TakeSignal, Poll, SeeOverflow, TakeOverflow, CloseAdmission, SeeNoCallback, Drained, job
<1>4. Receive =>
        \E h \in Items :
           /\ ToSet(output) = {h} \cup ToSet(output')
           /\ h.source \in Sources /\ h.target \in Nat
           /\ \A r \in Sources : r # h.source => got'[r] = got[r]
           /\ got'[h.source].any = (IF got[h.source].any >= h.target
                                    THEN got[h.source].any ELSE h.target)
           /\ got'[h.source].live = (IF h.live /\ ~(got[h.source].live >= h.target)
                                     THEN h.target ELSE got[h.source].live)
  BY ReceiveGets
<1>5. ASSUME NEW s \in Sources PROVE got'[s].live <= got'[s].any
  <2>1. CASE ~Receive
    BY <1>0, <1>1, <2>1
  <2>2. CASE Receive
    <3>1. PICK h \in Items :
           /\ h.source \in Sources /\ h.target \in Nat
           /\ \A r \in Sources : r # h.source => got'[r] = got[r]
           /\ got'[h.source].any = (IF got[h.source].any >= h.target
                                    THEN got[h.source].any ELSE h.target)
           /\ got'[h.source].live = (IF h.live /\ ~(got[h.source].live >= h.target)
                                     THEN h.target ELSE got[h.source].live)
      BY <1>4, <2>2
    <3>2. CASE s # h.source
      BY <1>0, <3>1, <3>2
    <3>3. CASE s = h.source
      BY <1>0, <3>1, <3>3
    <3> QED
      BY <3>2, <3>3
  <2> QED
    BY <2>1, <2>2
<1>6. Early' => output' = <<>> /\ \A s \in Sources : got'[s].any = 0
  <2> SUFFICES ASSUME Early' PROVE output' = <<>> /\ \A s \in Sources : got'[s].any = 0
    OBVIOUS
  <2>1. Early /\ output = <<>> /\ \A s \in Sources : got[s].any = 0
    BY StartingSteps DEF Starting, Early, Beginning
  <2>2. ~Receive /\ ~Send
    BY <2>1 DEF Receive, Send, Early
  <2> QED
    BY <1>1, <1>2, <2>1, <2>2
<1>7. ASSUME Starting', NEW s \in Sources PROVE baseline'[s] <= size'[s]
  <2>1. baseline[s] <= size[s]
    BY <1>7, StartingSteps DEF Beginning
  <2>2. size[s] <= size'[s] /\ size'[s] \in Nat
    BY SizesGrow
  <2>3. baseline'[s] = baseline[s] \/ baseline'[s] = size[s]
    <3>1. CASE SnapshotOne
      BY <3>1 DEF SnapshotOne, Types
    <3> QED
      BY <1>7, <3>1, StartingSteps
  <2> QED
    BY <1>0, <2>1, <2>2, <2>3
<1>8. ASSUME Starting', ~Early
      PROVE  /\ baseline' = baseline /\ mode = "startup"
             /\ \A i \in ToSet(output) : LiveBeyond(i)
             /\ \A i \in ToSet(read) : LiveBeyond(i)
             /\ \A s \in Sources : got[s].any > baseline[s] => got[s].live = got[s].any
  BY <1>8, StartingSteps DEF Beginning, Starting, Early
<1>9. ASSUME Starting', NEW i \in ToSet(output')
      PROVE  i.target > baseline'[i.source] => i.live
  <2>1. ~Early
    <3> SUFFICES ASSUME Early PROVE FALSE
      OBVIOUS
    <3>1. output = <<>> /\ ~Receive /\ ~Send
      BY DEF Beginning, Receive, Send, Early
    <3> QED
      BY <1>2, <1>9, <3>1, EmptyToSet
  <2>2. ToSet(output') \subseteq ToSet(output) \cup ToSet(read)
    <3>1. CASE Receive
      BY <1>4, <3>1
    <3>2. CASE Send
      <4>1. PICK h : h = Head(read)
        OBVIOUS
      <4>2. h \in Items /\ h \in ToSet(read)
        BY <3>2, <4>1, HeadTailToSet DEF Types, Send
      <4>3. output' = Append(output, h)
        BY <3>2, <4>1 DEF Send
      <4> QED
        BY <4>2, <4>3, AppendToSet DEF Types
    <3>3. CASE ~Receive /\ ~Send
      BY <1>2, <3>3
    <3> QED
      BY <3>1, <3>2, <3>3
  <2> QED
    BY <1>8, <1>9, <2>1, <2>2 DEF LiveBeyond
<1>10. ASSUME Starting', NEW i \in ToSet(read')
       PROVE  i.target > baseline'[i.source] => i.live
  <2>1. ~Early /\ (read = <<>> => Visit)
    <3>1. read' # <<>>
      BY <1>10, EmptyToSet
    <3>2. pc' = "reconcile"
      BY <3>1 DEF Phases
    <3>3. CASE Early
      <4>1. read = <<>> /\ ~Send /\ ~Visit
        BY <3>3 DEF Phases, Early, Send, Visit
      <4> QED
        BY <1>3, <3>1, <4>1
    <3>4. CASE read = <<>> /\ ~Visit
      BY <1>3, <3>1, <3>4 DEF Send
    <3> QED
      BY <3>3, <3>4
  <2>2. CASE i \in ToSet(read)
    BY <1>8, <1>10, <2>1, <2>2 DEF LiveBeyond
  <2>3. CASE i \notin ToSet(read)
    <3>1. ~Send
      <4>1. Send => ToSet(read') \subseteq ToSet(read)
        BY HeadTailToSet DEF Send, Types
      <4> QED
        BY <1>10, <2>3, <4>1
    <3>2. Visit
      BY <1>3, <1>10, <2>3, <3>1
    <3>3. PICK s : s = Head(todo)
      OBVIOUS
    <3>4. s \in Sources
      BY <3>2, <3>3, HeadTailToSet DEF Types, Visit
    <3>5. PICK new : new = [source |-> s, target |-> size[s], live |-> Urgent(s)]
      OBVIOUS
    <3>6. size[s] # 0 /\ read' = Append(read, new)
      BY <1>10, <2>3, <3>2, <3>3, <3>5 DEF Visit
    <3>7. new \in Items
      BY <1>0, <3>4, <3>5, <3>6 DEF Items, Urgent
    <3>8. i = new
      BY <1>10, <2>3, <3>6, <3>7, AppendToSet DEF Types
    <3>9. i.source = s /\ i.target = size[s] /\ i.live = Urgent(s)
      BY <3>5, <3>8
    <3>10. mode = "startup" /\ baseline' = baseline
      BY <1>8, <1>10, <2>1
    <3> QED
      BY <3>9, <3>10 DEF Urgent
  <2> QED
    BY <2>2, <2>3
<1>11. ASSUME Starting', NEW s \in Sources, got'[s].any > baseline'[s]
       PROVE  got'[s].live = got'[s].any
  <2>0. baseline'[s] \in Nat
    BY DEF Types, Sizes
  <2>1. ~Early
    <3>1. Early => got'[s].any = 0
      BY <1>0, <1>1 DEF Beginning, Receive, Early
    <3> QED
      BY <1>11, <2>0, <3>1
  <2>2. CASE ~Receive
    BY <1>1, <1>8, <1>11, <2>1, <2>2
  <2>3. CASE Receive
    <3>1. PICK h \in Items :
           /\ ToSet(output) = {h} \cup ToSet(output')
           /\ h.source \in Sources /\ h.target \in Nat
           /\ \A r \in Sources : r # h.source => got'[r] = got[r]
           /\ got'[h.source].any = (IF got[h.source].any >= h.target
                                    THEN got[h.source].any ELSE h.target)
           /\ got'[h.source].live = (IF h.live /\ ~(got[h.source].live >= h.target)
                                     THEN h.target ELSE got[h.source].live)
      BY <1>4, <2>3
    <3>2. CASE s # h.source
      BY <1>8, <1>11, <2>1, <3>1, <3>2
    <3>3. CASE s = h.source
      <4>1. h.target > baseline[s] => h.live
        BY <1>8, <1>11, <2>1, <3>1, <3>3 DEF LiveBeyond
      <4>2. (got[s].any > baseline[s] => got[s].live = got[s].any) /\ baseline'[s] = baseline[s]
        BY <1>8, <1>11, <2>1
      <4>3. CASE got[s].any >= h.target
        <5>1. got'[s].any = got[s].any
          BY <3>1, <3>3, <4>3
        <5>2. got[s].live = got[s].any
          BY <1>11, <4>2, <5>1
        <5>3. got'[s].live = got[s].live
          BY <3>1, <3>3, <4>3, <5>2
        <5> QED
          BY <5>1, <5>2, <5>3
      <4>4. CASE ~(got[s].any >= h.target)
        <5>1. got'[s].any = h.target
          BY <3>1, <3>3, <4>4
        <5>2. h.live
          BY <1>11, <4>1, <4>2, <5>1
        <5>3. ~(got[s].live >= h.target)
          BY <1>0, <3>1, <4>4
        <5>4. got'[s].live = h.target
          BY <3>1, <3>3, <5>2, <5>3
        <5> QED
          BY <5>1, <5>4
      <4> QED
        BY <4>3, <4>4
    <3> QED
      BY <3>2, <3>3
  <2> QED
    BY <2>2, <2>3
<1>12. ASSUME Starting', pc' = "reconcile", NEW s \in Sources
       PROVE  s \in ToSet(todo') \/ Covered(s, baseline[s])'
  <2>1. CASE Register
    BY <2>1, CatalogFacts DEF Register, Start
  <2>2. CASE ~Register
    <3>1. pc = "reconcile" /\ mode = "startup" /\ (todo' = todo \/ Visit) /\ Starting
          /\ baseline' = baseline
      BY <1>12, <2>2, StartingSteps DEF SnapshotOne, Early
    <3>2. PICK n \in Nat : n = baseline[s]
      BY <1>0
    <3>3. n <= size[s] /\ (s \in ToSet(todo) \/ Covered(s, n))
      BY <3>1, <3>2 DEF Beginning, Covered
    <3>4. Covered(s, n)' => Covered(s, baseline[s])'
      BY <3>1, <3>2 DEF Covered
    <3>5. CASE Covered(s, n)
      <4>1. Covered(s, n)'
        BY <3>5, CoveredStays
      <4> QED
        BY <3>4, <4>1
    <3>6. CASE s \in ToSet(todo) /\ Visit
      <4>1. PICK h : h = Head(todo)
        OBVIOUS
      <4>2. ToSet(todo) = {h} \cup ToSet(todo')
        BY <3>6, <4>1, HeadTailToSet DEF Types, Visit
      <4>3. s = h => Covered(s, n)'
        BY <3>3, <3>6, <4>1, VisitCovers
      <4> QED
        BY <3>4, <3>6, <4>2, <4>3
    <3>7. CASE s \in ToSet(todo) /\ ~Visit
      BY <3>1, <3>7
    <3> QED
      BY <3>3, <3>5, <3>6, <3>7
  <2> QED
    BY <2>1, <2>2
<1> QED
  BY <1>5, <1>6, <1>7, <1>9, <1>10, <1>11, <1>12 DEF Beginning, LiveBeyond

-----------------------------------------------------------------------------
(* The invariant holds at the start.                                       *)
LEMMA InitGood == Init => IInv
<1> SUFFICES ASSUME Init PROVE IInv
  OBVIOUS
<1> USE DEF Init
<1>0. /\ \A s \in Sources : size[s] = 0 /\ baseline[s] = 0 /\ promised[s] = 0
                            /\ got[s].any = 0 /\ got[s].live = 0
      /\ \A c \in Callbacks : callback[c] = Idle
  OBVIOUS
<1>1. Types
  <2>1. Idle \in Threads
    BY EmptySeq DEF Idle, Threads, Kinds
  <2>2. got \in [Sources -> Gotten]
    BY DEF Gotten, Sizes
  <2>3. promised \in [Sources -> Sizes]
    BY DEF Sizes
  <2> QED
    BY <2>1, <2>2, <2>3, CatalogFacts, EmptySeq DEF Types, Sizes, Places, Modes
<1>2. Bounds
  <2>1. Inside = {}
    BY <1>0 DEF Inside, Idle
  <2>2. Cardinality(Inside) = 0
    BY <2>1, FS_EmptySet
  <2>3. Len(<<>>) = 0
    BY EmptySeq
  <2>4. \A c \in Callbacks : Len(callback[c].paths) = 0
    BY <1>0, <2>3 DEF Idle
  <2> QED
    BY <2>2, <2>3, <2>4, CatalogFacts, WatcherAssumption DEF Bounds
<1>3. Phases
  BY CatalogFacts, EmptySeq DEF Phases, Early, Starting
<1>4. ThreadsOK
  BY <1>0 DEF ThreadsOK, ThreadOK, Idle
<1>5. AllKept
  BY DEF AllKept, Early
<1>6. Promises
  BY <1>0 DEF Promises, PromiseKept, Covered
<1>7. Beginning
  BY <1>0, EmptyToSet DEF Beginning, Early
<1> QED
  BY <1>1, <1>2, <1>3, <1>4, <1>5, <1>6, <1>7 DEF IInv

(* The inductive invariant: types, bounds and phases, and what the threads, *)
(* the queue, the flag and the loop together remember of every change.     *)
THEOREM WatcherInvariant == Spec => []IInv
<1>1. ASSUME IInv, [Next]_vars PROVE IInv'
  <2>1. Types' /\ Phases'
    BY <1>1, TypesStay, PhasesStay DEF IInv
  <2>2. Bounds' /\ ThreadsOK'
    BY <1>1, BoundsStay, ThreadsStay DEF IInv
  <2>3. AllKept' /\ Promises'
    BY <1>1, <2>1, AllKeptStays, PromisesStay
  <2>4. Beginning'
    BY <1>1, <2>1, BeginningStays
  <2> QED
    BY <2>1, <2>2, <2>3, <2>4 DEF IInv
<1> QED
  BY <1>1, InitGood, PTL DEF Spec


-----------------------------------------------------------------------------
(* The sizes of finitely many items are finitely many numbers.             *)
LEMMA TargetsFinite ==
  ASSUME NEW T \in SUBSET Items, IsFiniteSet(T)
  PROVE  {i.target : i \in T} \in SUBSET Nat /\ IsFiniteSet({i.target : i \in T})
<1> DEFINE f == [i \in T |-> i.target]
           R == {i.target : i \in T}
<1>1. f \in Surjection(T, R)
  BY DEF Surjection
<1>2. IsFiniteSet(R)
  BY <1>1, FS_Surjection
<1>3. R \subseteq Nat
  BY DEF Items
<1> QED
  BY <1>2, <1>3

(* The sizes given and upcoming of a source have a furthest, which is what *)
(* "covered" speaks of.                                                    *)
LEMMA GivenFacts ==
  ASSUME Types, NEW s \in Sources
  PROVE  /\ Given(s) \in SUBSET Nat /\ IsFiniteSet(Given(s)) /\ Given(s) # {}
         /\ Upcoming(s) \in SUBSET Nat /\ IsFiniteSet(Upcoming(s))
         /\ got[s].any \in Nat /\ got[s].live \in Nat
<1>1. got[s].any \in Nat /\ got[s].live \in Nat
  BY DEF Types, Gotten, Sizes
<1>2. /\ ToSet(output) \subseteq Items /\ IsFiniteSet(ToSet(output))
      /\ ToSet(read) \subseteq Items /\ IsFiniteSet(ToSet(read))
  BY ToSetType DEF Types
<1> DEFINE T == {j \in ToSet(output) : j.source = s}
           U == {j \in ToSet(read) : j.source = s}
<1>3. T \in SUBSET Items /\ IsFiniteSet(T) /\ U \in SUBSET Items /\ IsFiniteSet(U)
  BY <1>2, FS_Subset
<1> DEFINE X == {i.target : i \in T}
           Y == {i.target : i \in U}
<1>4. X \in SUBSET Nat /\ IsFiniteSet(X) /\ Y \in SUBSET Nat /\ IsFiniteSet(Y)
  <2> HIDE DEF T, U
  <2> QED
    BY <1>3, TargetsFinite
<1>5. Given(s) = (X \cup {got[s].any}) \cup {0} /\ Upcoming(s) = Y
  BY DEF Given, Upcoming
<1> HIDE DEF X, Y
<1>6. IsFiniteSet(X \cup {got[s].any})
  BY <1>4, FS_AddElement
<1>7. IsFiniteSet((X \cup {got[s].any}) \cup {0})
  BY <1>6, FS_AddElement
<1>8. (X \cup {got[s].any}) \cup {0} \in SUBSET Nat
  <2>1. X \subseteq Nat /\ {got[s].any} \subseteq Nat /\ {0} \subseteq Nat
    BY <1>1, <1>4
  <2> QED
    BY <2>1, Zenon
<1>9. IsFiniteSet(Given(s)) /\ Given(s) \in SUBSET Nat /\ Given(s) # {}
  BY <1>5, <1>7, <1>8
<1> QED
  BY <1>1, <1>4, <1>5, <1>9

(* A size that is covered is not beyond the furthest.                      *)
LEMMA CoveredIsGiven ==
  ASSUME Types, NEW s \in Sources, NEW n \in Nat, Covered(s, n)
  PROVE  /\ n <= Furthest(Given(s) \cup Upcoming(s))
         /\ read = <<>> => n <= Furthest(Given(s))
<1> DEFINE A == Given(s)
           B == Given(s) \cup Upcoming(s)
<1>1. /\ A \in SUBSET Nat /\ IsFiniteSet(A) /\ A # {}
      /\ B \in SUBSET Nat /\ IsFiniteSet(B) /\ B # {}
  BY GivenFacts, FS_Union
<1>2. (\E m \in B : m >= n) /\ (read = <<>> => \E m \in A : m >= n)
  <2>1. CASE got[s].any >= n
    BY <2>1 DEF Given
  <2>2. CASE \E i \in ToSet(output) : Reaches(i, s, n)
    BY <2>2 DEF Given, Reaches
  <2>3. CASE \E i \in ToSet(read) : Reaches(i, s, n)
    BY <2>3, EmptyToSet DEF Upcoming, Reaches
  <2> QED
    BY <2>1, <2>2, <2>3 DEF Covered
<1> HIDE DEF A, B
<1>3. /\ Furthest(A) \in A /\ \A m \in A : m <= Furthest(A)
      /\ Furthest(B) \in B /\ \A m \in B : m <= Furthest(B)
  BY <1>1, FurthestIs
<1>4. n <= Furthest(B) /\ (read = <<>> => n <= Furthest(A))
  <2>1. ASSUME NEW S \in {A, B}, NEW m \in S, m >= n PROVE n <= Furthest(S)
    <3>1. m \in Nat /\ Furthest(S) \in Nat /\ m <= Furthest(S)
      BY <1>1, <1>3, <2>1
    <3> QED
      BY <2>1, <3>1
  <2> QED
    BY <1>2, <2>1
<1> QED
  BY <1>4 DEF A, B

(* The types and bounds of the proofs are those of the specification.      *)
LEMMA InvariantTypes == ASSUME IInv PROVE TypeOK
<1> USE DEF IInv, Types, Bounds
<1>1. inFlight \in 0 .. Cardinality(Callbacks)
  <2>1. Inside \subseteq Callbacks /\ IsFiniteSet(Callbacks)
    BY WatcherAssumption DEF Inside
  <2>2. IsFiniteSet(Inside) /\ Cardinality(Inside) <= Cardinality(Callbacks)
    BY <2>1, FS_Subset
  <2>3. Cardinality(Inside) \in Nat /\ Cardinality(Callbacks) \in Nat
    BY <2>1, <2>2, FS_CardinalityType
  <2> QED
    BY <2>2, <2>3
<1>2. Len(todo) <= Len(Catalog) /\ Len(read) <= Len(Catalog)
  <2>1. Len(todo) \in Nat /\ Len(read) \in Nat /\ Len(Catalog) \in Nat
    BY CatalogFacts
  <2> QED
    BY <2>1
<1>3. \A c \in Callbacks :
        /\ callback[c].at \in {"idle", "checked", "counted", "inside"}
        /\ callback[c].kind \in Kinds
        /\ callback[c].paths \in Seq(Paths) /\ Len(callback[c].paths) <= MaxPaths
        /\ callback[c].about \subseteq Sources /\ callback[c].lossy \in BOOLEAN
  BY DEF Threads
<1> QED
  BY <1>1, <1>2, <1>3 DEF TypeOK, Places, Modes, Gotten

(* No growth of a file is forgotten between readiness and shutdown, and     *)
(* what the threads, the queue and the loop hold is well formed, for every  *)
(* catalog, number of threads and capacity (WatchSignalBridge::push_paths,  *)
(* reconcile_overflow).                                                    *)
THEOREM ChangesAreAlwaysKnown == Spec => []ChangesAreKnown
<1>1. ASSUME IInv PROVE ChangesAreKnown
  <2>1. TypeOK
    BY <1>1, InvariantTypes
  <2>2. ASSUME ~Starting, ~closing, NEW s \in Sources,
               size[s] > Furthest(Given(s) \cup Upcoming(s))
        PROVE  Known(s)
    <3>1. Types /\ Kept(s)
      BY <1>1, <2>2 DEF IInv, AllKept, Starting, Early
    <3>2. PICK n \in Nat : n = size[s]
      BY <3>1 DEF Types, Sizes
    <3>3. ~Covered(s, n)
      <4>1. Furthest(Given(s) \cup Upcoming(s)) \in Nat
        <5>1. /\ Given(s) \cup Upcoming(s) \in SUBSET Nat
              /\ IsFiniteSet(Given(s) \cup Upcoming(s)) /\ Given(s) \cup Upcoming(s) # {}
          BY <3>1, GivenFacts, FS_Union
        <5> QED
          BY <5>1, FurthestIs
      <4>2. Covered(s, n) => n <= Furthest(Given(s) \cup Upcoming(s))
        BY <3>1, CoveredIsGiven
      <4> QED
        BY <2>2, <3>2, <4>1, <4>2
    <3> QED
      BY <3>1, <3>2, <3>3 DEF Kept, Tells, ToVisit, Known
  <2> QED
    BY <2>1, <2>2 DEF ChangesAreKnown, NothingIsForgotten
<1> QED
  BY <1>1, WatcherInvariant, PTL

(* Shutdown loses nothing it waited for, for every catalog, number of       *)
(* threads and capacity, and in both memory orders: what a thread was       *)
(* admitted to tell before close_admission returned was given to the        *)
(* runtime when the loop has ended (close_admission, drain_signals).        *)
THEOREM AwaitedIsAlwaysReconciled == Spec => []AwaitedIsReconciled
<1>1. ASSUME IInv PROVE AwaitedIsReconciled
  <2> SUFFICES ASSUME pc = "ended", NEW s \in Sources
               PROVE  Furthest(Given(s)) >= promised[s]
    BY DEF AwaitedIsReconciled
  <2>1. Types /\ closing /\ read = <<>>
    BY <1>1 DEF IInv, Phases
  <2>2. PICK n \in Nat : n = promised[s]
    BY <2>1 DEF Types, Sizes
  <2>3. PromiseKept(s) /\ ~Awaits /\ ~ToTake(s)
    BY <1>1, <2>1 DEF IInv, Promises, Awaits, ToTake, Drains, Flushed
  <2>4. Covered(s, n)
    BY <2>2, <2>3 DEF PromiseKept
  <2>5. n <= Furthest(Given(s))
    BY <2>1, <2>4, CoveredIsGiven
  <2>6. Furthest(Given(s)) \in Nat
    <3>1. Given(s) \in SUBSET Nat /\ IsFiniteSet(Given(s)) /\ Given(s) # {}
      BY <2>1, GivenFacts
    <3> QED
      BY <3>1, FurthestIs
  <2> QED
    BY <2>2, <2>5, <2>6
<1> QED
  BY <1>1, WatcherInvariant, PTL

(* When readiness is published, whatever grew since the snapshot was given  *)
(* as Live up to what the visit saw, and what came later is known           *)
(* (WatcherRuntime::start_inner, reconcile_startup).                        *)
THEOREM StartupAlwaysMissesNothing == Spec => StartupMissesNothing
<1> DEFINE Ready == Starting /\ pc' = "select" =>
       \A s \in Sources :
         /\ Furthest(Given(s)) > baseline[s] => Furthest(Given(s)) \in GivenLive(s)
         /\ Furthest(Given(s)) >= baseline[s]
         /\ size[s] > Furthest(Given(s)) => Known(s)'
<1>1. ASSUME IInv, [Next]_vars PROVE Ready
  <2> SUFFICES ASSUME Starting, pc' = "select", NEW s \in Sources
               PROVE  /\ Furthest(Given(s)) > baseline[s] =>
                           Furthest(Given(s)) \in GivenLive(s)
                      /\ Furthest(Given(s)) >= baseline[s]
                      /\ size[s] > Furthest(Given(s)) => Known(s)'
    OBVIOUS
  <2>1. EndJob
    BY <1>1 DEF Next, vars, Append1, AskToStop, Receive, Report, CallbackStep, Count, Admit,
         Refuse, PushPath, Leave, LoopStep, SnapshotOne, Register, Visit, Send, TakeSignal,
         Poll, SeeOverflow, TakeOverflow, CloseAdmission, SeeNoCallback, Drained, files,
         bridge, job, Starting, Start
  <2>2. /\ pc = "reconcile" /\ todo = <<>> /\ read = <<>>
        /\ UNCHANGED <<owed, callback, signals, overflow>>
    BY <2>1 DEF EndJob, files, bridge
  <2>3. Types /\ ~closing /\ ToSet(todo) = {}
    BY <1>1, <2>2, EmptyToSet DEF IInv, Phases
  <2>4. /\ \A i \in ToSet(output) : LiveBeyond(i)
        /\ got[s].any > baseline[s] => got[s].live = got[s].any
        /\ Covered(s, baseline[s]) /\ Kept(s)
    BY <1>1, <2>2, <2>3 DEF IInv, Beginning, AllKept, Early
  <2>5. Furthest(Given(s)) \in Given(s) /\ Furthest(Given(s)) \in Nat
    <3>1. Given(s) \in SUBSET Nat /\ IsFiniteSet(Given(s)) /\ Given(s) # {}
      BY <2>3, GivenFacts
    <3> QED
      BY <3>1, FurthestIs
  <2>6. baseline[s] \in Nat /\ size[s] \in Nat
    BY <2>3 DEF Types, Sizes
  <2>7. ASSUME NEW f \in Nat, f \in Given(s), f > baseline[s] PROVE f \in GivenLive(s)
    <3>1. CASE f = 0
      BY <2>6, <2>7, <3>1
    <3>2. CASE f = got[s].any
      BY <2>4, <2>7, <3>2 DEF GivenLive
    <3>3. ASSUME NEW i \in ToSet(output), i.source = s, f = i.target
          PROVE  f \in GivenLive(s)
      <4>1. i.live
        BY <2>4, <2>7, <3>3 DEF LiveBeyond
      <4> QED
        BY <3>3, <4>1 DEF GivenLive
    <3> QED
      BY <2>7, <3>1, <3>2, <3>3 DEF Given
  <2>8. ASSUME NEW n \in Nat, Covered(s, n) PROVE n <= Furthest(Given(s))
    BY <2>2, <2>3, <2>8, CoveredIsGiven
  <2>9. ASSUME size[s] > Furthest(Given(s)) PROVE Known(s)'
    <3>1. ~Covered(s, size[s])
      BY <2>5, <2>6, <2>8, <2>9
    <3>2. CASE s \in owed
      BY <2>2, <3>2 DEF Known
    <3>3. CASE \E c \in Callbacks : Tells(c, s)
      BY <2>2, <3>3 DEF Known, Tells
    <3>4. CASE ToVisit(s)
      BY <2>2, <2>3, <3>4 DEF Known, ToVisit
    <3> QED
      BY <2>4, <3>1, <3>2, <3>3, <3>4 DEF Kept
  <2> QED
    BY <2>4, <2>5, <2>6, <2>7, <2>8, <2>9
<1>2. ASSUME IInv, [Next]_vars PROVE [Ready]_vars
  BY <1>1, <1>2
<1> QED
  BY <1>2, WatcherInvariant, PTL DEF Spec, StartupMissesNothing
=============================================================================
