-------------------------- MODULE KeyedQueueProofs --------------------------
(***************************************************************************)
(* Proofs about KeyedQueue for every set of keys, every capacity and every *)
(* offset: the two maps and the three lanes always describe the same work, *)
(* within capacity, no interleaving makes a source's work shrink, and the  *)
(* queue implements PriorityLine.                                          *)
(***************************************************************************)
EXTENDS KeyedQueue, FiniteSetTheorems, SequenceTheorems, TLAPS

-----------------------------------------------------------------------------
(* Indexes apart from the queue's state. *)
Lanes == [Priorities -> Seq(Keys)]

Distinct(idx) ==
  \A p, q \in Priorities : \A i \in DOMAIN idx[p], j \in DOMAIN idx[q] :
    idx[p][i] = idx[q][j] => p = q /\ i = j

Absent(idx, k) == \A p \in Priorities : \A i \in DOMAIN idx[p] : idx[p][i] # k

(* A lane without k keeps every other key and no k, in distinct slots. *)
LEMMA WithoutLane ==
  ASSUME NEW lane \in Seq(Keys), NEW k,
         \A i, j \in DOMAIN lane : lane[i] = lane[j] => i = j
  PROVE  /\ Without(lane, k) \in Seq(Keys)
         /\ \A i \in DOMAIN Without(lane, k) :
              /\ Without(lane, k)[i] # k
              /\ \E j \in DOMAIN lane : lane[j] = Without(lane, k)[i]
         /\ \A j \in DOMAIN lane : lane[j] # k =>
              \E i \in DOMAIN Without(lane, k) : Without(lane, k)[i] = lane[j]
         /\ \A i, j \in DOMAIN Without(lane, k) :
              Without(lane, k)[i] = Without(lane, k)[j] => i = j
<1>1. CASE ~ \E i \in DOMAIN lane : lane[i] = k
  BY <1>1 DEF Without
<1>2. CASE \E i \in DOMAIN lane : lane[i] = k
  <2> DEFINE m == CHOOSE i \in DOMAIN lane : lane[i] = k
             L == SubSeq(lane, 1, m - 1)
             R == SubSeq(lane, m + 1, Len(lane))
             W == L \o R
  <2>1. m \in 1 .. Len(lane) /\ lane[m] = k
    BY <1>2
  <2>2. Without(lane, k) = W
    BY <1>2 DEF Without
  <2> HIDE DEF m
  <2>3. L \in Seq(Keys) /\ Len(L) = m - 1 /\ \A i \in 1 .. m - 1 : L[i] = lane[i]
    BY <2>1
  <2>4. /\ R \in Seq(Keys)
        /\ Len(R) = Len(lane) - m
        /\ \A i \in 1 .. Len(lane) - m : R[i] = lane[i + m]
    BY <2>1
  <2> HIDE DEF L, R
  <2>5. /\ W \in Seq(Keys)
        /\ Len(W) = Len(lane) - 1
        /\ \A i \in 1 .. Len(lane) - 1 :
             W[i] = IF i < m THEN lane[i] ELSE lane[i + 1]
    <3>1. /\ W \in Seq(Keys)
          /\ Len(W) = Len(L) + Len(R)
          /\ \A i \in 1 .. Len(L) + Len(R) :
               W[i] = IF i <= Len(L) THEN L[i] ELSE R[i - Len(L)]
      BY <2>3, <2>4, ConcatProperties
    <3>2. /\ Len(L) = m - 1
          /\ Len(L) + Len(R) = Len(lane) - 1
          /\ Len(lane) \in Nat
      BY <2>1, <2>3, <2>4
    <3>3. \A i \in 1 .. Len(lane) - 1 :
            W[i] = IF i <= m - 1 THEN L[i] ELSE R[i - (m - 1)]
      BY <3>1, <3>2
    <3> HIDE DEF W
    <3>4. ASSUME NEW i \in 1 .. Len(lane) - 1
          PROVE  W[i] = IF i < m THEN lane[i] ELSE lane[i + 1]
      <4>1. CASE i < m
        <5>1. i \in 1 .. m - 1
          BY <4>1, <2>1, <3>2
        <5> QED BY <5>1, <4>1, <2>3, <3>3
      <4>2. CASE i >= m
        <5>1. i - (m - 1) \in 1 .. Len(lane) - m /\ i - (m - 1) + m = i + 1
          BY <4>2, <2>1, <3>2
        <5>2. W[i] = R[i - (m - 1)] /\ ~ (i < m)
          BY <4>2, <2>1, <3>3
        <5>3. R[i - (m - 1)] = lane[i + 1]
          BY <5>1, <2>4
        <5> QED BY <5>2, <5>3
      <4> QED BY <4>1, <4>2, <2>1
    <3> QED BY <3>1, <3>2, <3>4
  <2> HIDE DEF W
  <2>6. DOMAIN W = 1 .. Len(lane) - 1 /\ DOMAIN lane = 1 .. Len(lane)
    BY <2>5
  <2>7. \A i \in DOMAIN W :
          W[i] # k /\ \E j \in DOMAIN lane : lane[j] = W[i]
    BY <2>1, <2>5, <2>6
  <2>8. ASSUME NEW j \in DOMAIN lane, lane[j] # k
        PROVE  \E i \in DOMAIN W : W[i] = lane[j]
    <3>1. CASE j < m
      BY <3>1, <2>1, <2>5, <2>6
    <3>2. CASE j > m
      <4>1. j - 1 \in DOMAIN W /\ W[j - 1] = lane[j]
        BY <3>2, <2>1, <2>5, <2>6
      <4> QED BY <4>1
    <3> QED BY <3>1, <3>2, <2>1, <2>6, <2>8
  <2>9. ASSUME NEW i \in DOMAIN W, NEW j \in DOMAIN W, W[i] = W[j]
        PROVE  i = j
    <3> DEFINE at(n) == IF n < m THEN n ELSE n + 1
    <3>1. \A n \in DOMAIN W : at(n) \in DOMAIN lane /\ W[n] = lane[at(n)]
      BY <2>1, <2>5, <2>6
    <3>2. at(i) = at(j)
      BY <3>1, <2>9
    <3> QED BY <3>2, <2>1, <2>6
  <2> QED BY <2>2, <2>5, <2>7, <2>8, <2>9
<1> QED BY <1>1, <1>2

(* Appending an absent key keeps the slots distinct and puts that key, and *)
(* nothing else, into the index.                                           *)
LEMMA JoinLane ==
  ASSUME NEW idx \in Lanes, NEW k \in Keys, NEW p \in Priorities,
         Distinct(idx), Absent(idx, k)
  PROVE  /\ Joined(idx, k, p) \in Lanes
         /\ Distinct(Joined(idx, k, p))
         /\ \A q \in Priorities : \A i \in DOMAIN idx[q] :
              i \in DOMAIN Joined(idx, k, p)[q] /\ Joined(idx, k, p)[q][i] = idx[q][i]
         /\ \A q \in Priorities : \A i \in DOMAIN Joined(idx, k, p)[q] :
              \/ i \in DOMAIN idx[q] /\ Joined(idx, k, p)[q][i] = idx[q][i]
              \/ q = p /\ Joined(idx, k, p)[q][i] = k
         /\ \E i \in DOMAIN Joined(idx, k, p)[p] : Joined(idx, k, p)[p][i] = k
<1> DEFINE J == Joined(idx, k, p)
<1>1. J \in Lanes /\ J[p] = Append(idx[p], k)
  BY DEF Joined, Lanes
<1>2. \A q \in Priorities : q # p => J[q] = idx[q]
  BY DEF Joined, Lanes
<1>3. /\ DOMAIN J[p] = 1 .. Len(idx[p]) + 1
      /\ DOMAIN idx[p] = 1 .. Len(idx[p])
      /\ Len(idx[p]) \in Nat
      /\ J[p][Len(idx[p]) + 1] = k
      /\ \A i \in DOMAIN idx[p] : J[p][i] = idx[p][i]
  BY <1>1 DEF Lanes
<1> HIDE DEF J
<1>4. \A q \in Priorities : \A i \in DOMAIN idx[q] :
        i \in DOMAIN J[q] /\ J[q][i] = idx[q][i]
  BY <1>2, <1>3
<1>5. \A q \in Priorities : \A i \in DOMAIN J[q] :
        \/ i \in DOMAIN idx[q] /\ J[q][i] = idx[q][i]
        \/ q = p /\ i = Len(idx[p]) + 1 /\ J[q][i] = k
  BY <1>2, <1>3
<1>6. Distinct(J)
  BY <1>5 DEF Distinct, Absent
<1>7. \E i \in DOMAIN J[p] : J[p][i] = k
  BY <1>3
<1> QED BY <1>1, <1>4, <1>5, <1>6, <1>7 DEF J

-----------------------------------------------------------------------------
(* The inductive invariant.  Each conjunct needs the others: a lane entry  *)
(* is current only because no key is indexed twice, a requeued key is      *)
(* absent from the lanes only because it was not waiting, and it needs no  *)
(* capacity check only because the lease already owned its slot.           *)
IInv == TypeOK /\ IndexMatchesPending /\ NeverWaitingAndLeased /\ WithinCapacity

(* A key that does not wait is in no lane. *)
LEMMA NotWaitingIsAbsent ==
  ASSUME NoStaleSlot, NEW k \in Keys, pending[k] = None
  PROVE  Absent(index, k)
BY DEF NoStaleSlot, Absent

(* Under the invariant nothing is skipped: pop takes the head of the most  *)
(* urgent lane that is not empty, and the lanes above it are empty.        *)
LEMMA PopTakesAHead ==
  ASSUME TypeOK, NoStaleSlot, ReadyLanes # {}
  PROVE  /\ NextLane \in Priorities
         /\ index[NextLane] # <<>>
         /\ 1 \in DOMAIN index[NextLane]
         /\ NextKey = index[NextLane][1]
         /\ NextKey \in Keys
         /\ LanesAfterPop = [index EXCEPT ![NextLane] = Tail(@)]
         /\ \A q \in Priorities : q > NextLane => index[q] = <<>>
<1>1. \A p \in Priorities : CurrentSlots(p) = 1 .. Len(index[p]) /\ Len(index[p]) \in Nat
  BY DEF NoStaleSlot, CurrentSlots, TypeOK
<1>2. ReadyLanes = {p \in Priorities : Len(index[p]) > 0}
  <2>1. \A p \in Priorities : CurrentSlots(p) # {} <=> Len(index[p]) > 0
    BY <1>1
  <2> QED BY <2>1 DEF ReadyLanes
<1>3. \E p \in ReadyLanes : \A q \in ReadyLanes : q <= p
  <2>1. ReadyLanes \subseteq {0, 1, 2}
    BY DEF ReadyLanes, Priorities, Archive, Live
  <2>2. CASE 2 \in ReadyLanes
    <3>1. \A q \in ReadyLanes : q <= 2
      BY <2>1
    <3> QED BY <2>2, <3>1
  <2>3. CASE 2 \notin ReadyLanes /\ 1 \in ReadyLanes
    <3>1. \A q \in ReadyLanes : q <= 1
      BY <2>1, <2>3
    <3> QED BY <2>3, <3>1
  <2>4. CASE 2 \notin ReadyLanes /\ 1 \notin ReadyLanes
    <3>1. ReadyLanes = {0}
      BY <2>1, <2>4
    <3> QED BY <3>1
  <2> QED BY <2>2, <2>3, <2>4
<1>4. NextLane \in ReadyLanes /\ \A q \in ReadyLanes : q <= NextLane
  BY <1>3 DEF NextLane
<1>5. NextLane \in Priorities /\ Len(index[NextLane]) > 0
  BY <1>2, <1>4
<1>6. NextSlot = 1
  <2>1. 1 \in CurrentSlots(NextLane) /\ \A j \in CurrentSlots(NextLane) : 1 <= j
    BY <1>1, <1>5
  <2>2. \A i \in CurrentSlots(NextLane) :
          (\A j \in CurrentSlots(NextLane) : i <= j) => i = 1
    BY <2>1, <1>1, <1>5
  <2> QED BY <2>1, <2>2 DEF NextSlot
<1>7. index[NextLane] \in Seq(Keys) /\ index[NextLane] # <<>> /\ 1 \in DOMAIN index[NextLane]
  BY <1>5 DEF TypeOK
<1>8. NextKey = index[NextLane][1] /\ NextKey \in Keys
  BY <1>6, <1>7 DEF NextKey
<1>9. \A p \in Priorities : p > NextLane => index[p] = <<>>
  <2> SUFFICES ASSUME NEW p \in Priorities, p > NextLane
               PROVE  index[p] = <<>>
    OBVIOUS
  <2>1. ~ (p <= NextLane)
    BY <1>5 DEF Priorities, Archive, Live
  <2>2. Len(index[p]) = 0
    BY <2>1, <1>1, <1>2, <1>4
  <2> QED BY <2>2 DEF TypeOK
<1>10. SubSeq(index[NextLane], NextSlot + 1, Len(index[NextLane])) = Tail(index[NextLane])
  BY <1>6, <1>7
<1>11. LanesAfterPop = [index EXCEPT ![NextLane] = Tail(@)]
  <2> DEFINE T == [index EXCEPT ![NextLane] = Tail(@)]
  <2>1. index = [p \in Priorities |-> index[p]]
    BY DEF TypeOK
  <2>2. \A p \in Priorities : T[p] = IF p = NextLane THEN Tail(index[p]) ELSE index[p]
    BY <1>5, <2>1
  <2>3. T = [p \in Priorities |-> T[p]]
    BY <2>1
  <2> HIDE DEF T
  <2>4. ASSUME NEW p \in Priorities
        PROVE  LanesAfterPop[p] = T[p]
    <3>1. CASE p > NextLane
      <4>1. p # NextLane
        BY <3>1, <1>5 DEF Priorities, Archive, Live
      <4> QED BY <3>1, <4>1, <2>2, <1>9 DEF LanesAfterPop
    <3>2. CASE p = NextLane
      <4>1. ~ (p > NextLane)
        BY <3>2, <1>5 DEF Priorities, Archive, Live
      <4> QED BY <3>2, <4>1, <2>2, <1>10 DEF LanesAfterPop
    <3>3. CASE ~ (p > NextLane) /\ p # NextLane
      BY <3>3, <2>2 DEF LanesAfterPop
    <3> QED BY <3>1, <3>2, <3>3
  <2>5. LanesAfterPop = [p \in Priorities |-> LanesAfterPop[p]]
    BY DEF LanesAfterPop
  <2>6. LanesAfterPop = T
    BY <2>3, <2>4, <2>5
  <2> QED BY <2>6 DEF T
<1> QED BY <1>5, <1>7, <1>8, <1>9, <1>11

(* Dropping the head of one lane keeps the other slots, one place nearer.  *)
LEMMA TailLane ==
  ASSUME NEW idx \in Lanes, NEW p \in Priorities, idx[p] # <<>>, Distinct(idx)
  PROVE  LET T == [idx EXCEPT ![p] = Tail(@)]
         IN  /\ T \in Lanes
             /\ Distinct(T)
             /\ Absent(T, idx[p][1])
             /\ \A q \in Priorities : \A i \in DOMAIN T[q] :
                  \E j \in DOMAIN idx[q] : T[q][i] = idx[q][j]
             /\ \A q \in Priorities : \A j \in DOMAIN idx[q] :
                  \/ idx[q][j] = idx[p][1]
                  \/ \E i \in DOMAIN T[q] : T[q][i] = idx[q][j]
<1> DEFINE T == [idx EXCEPT ![p] = Tail(@)]
           at(q, i) == IF q = p THEN i + 1 ELSE i
<1>1. idx[p] \in Seq(Keys) /\ Len(idx[p]) \in Nat /\ Len(idx[p]) > 0
  BY DEF Lanes
<1>2. T \in Lanes /\ T[p] = Tail(idx[p]) /\ \A q \in Priorities : q # p => T[q] = idx[q]
  BY <1>1 DEF Lanes
<1>3. /\ DOMAIN T[p] = 1 .. Len(idx[p]) - 1
      /\ \A i \in DOMAIN T[p] : T[p][i] = idx[p][i + 1]
  <2> DEFINE s == idx[p]
  <2>1. s \in Seq(Keys) /\ s # <<>> /\ T[p] = Tail(s)
    BY <1>1, <1>2
  <2> HIDE DEF s, T
  <2>2. /\ T[p] \in Seq(Keys)
        /\ Len(T[p]) = Len(s) - 1
        /\ \A i \in 1 .. Len(T[p]) : T[p][i] = s[i + 1]
    BY <2>1, HeadTailProperties
  <2>3. DOMAIN T[p] = 1 .. Len(T[p])
    BY <2>2
  <2> QED BY <2>2, <2>3 DEF s
<1>3a. \A q \in Priorities : DOMAIN idx[q] = 1 .. Len(idx[q]) /\ Len(idx[q]) \in Nat
  BY DEF Lanes
<1> HIDE DEF T
<1>4. \A q \in Priorities : \A i \in DOMAIN T[q] :
        /\ i \in Nat \ {0}
        /\ at(q, i) \in DOMAIN idx[q]
        /\ T[q][i] = idx[q][at(q, i)]
  <2> SUFFICES ASSUME NEW q \in Priorities, NEW i \in DOMAIN T[q]
               PROVE  /\ i \in Nat \ {0}
                      /\ at(q, i) \in DOMAIN idx[q]
                      /\ T[q][i] = idx[q][at(q, i)]
    OBVIOUS
  <2>1. CASE q = p
    <3>1. i \in 1 .. Len(idx[p]) - 1 /\ T[p][i] = idx[p][i + 1]
      BY <2>1, <1>3
    <3>2. i \in Nat \ {0} /\ i + 1 \in 1 .. Len(idx[p])
      BY <3>1, <1>1
    <3> QED BY <3>1, <3>2, <2>1, <1>3a
  <2>2. CASE q # p
    <3>1. T[q] = idx[q] /\ i \in 1 .. Len(idx[q]) /\ Len(idx[q]) \in Nat
      BY <2>2, <1>2, <1>3a
    <3>2. i \in Nat \ {0}
      BY <3>1
    <3> QED BY <3>1, <3>2, <2>2, <1>3a
  <2> QED BY <2>1, <2>2
<1>5. Distinct(T)
  <2> SUFFICES ASSUME NEW q \in Priorities, NEW r \in Priorities,
                      NEW i \in DOMAIN T[q], NEW j \in DOMAIN T[r], T[q][i] = T[r][j]
               PROVE  q = r /\ i = j
    BY DEF Distinct
  <2>1. q = r /\ at(q, i) = at(r, j)
    BY <1>4 DEF Distinct
  <2> QED BY <2>1, <1>4
<1>6. Absent(T, idx[p][1])
  <2> SUFFICES ASSUME NEW q \in Priorities, NEW i \in DOMAIN T[q], T[q][i] = idx[p][1]
               PROVE  FALSE
    BY DEF Absent
  <2>1. 1 \in DOMAIN idx[p]
    BY <1>1
  <2>2. q = p /\ at(q, i) = 1
    BY <2>1, <1>4 DEF Distinct
  <2> QED BY <2>2, <1>4
<1>7. \A q \in Priorities : \A i \in DOMAIN T[q] :
        \E j \in DOMAIN idx[q] : T[q][i] = idx[q][j]
  BY <1>4
<1>8. ASSUME NEW q \in Priorities, NEW j \in DOMAIN idx[q], idx[q][j] # idx[p][1]
      PROVE  \E i \in DOMAIN T[q] : T[q][i] = idx[q][j]
  <2>1. CASE q = p
    <3>1. j - 1 \in DOMAIN T[p] /\ T[p][j - 1] = idx[p][j]
      BY <2>1, <1>8, <1>1, <1>3, <1>3a
    <3> QED BY <3>1, <2>1
  <2>2. CASE q # p
    BY <2>2, <1>2
  <2> QED BY <2>1, <2>2
<1> QED BY <1>2, <1>5, <1>6, <1>7, <1>8 DEF T

-----------------------------------------------------------------------------
(* IndexMatchesPending of any index and any map of waiting items. *)
Describes(idx, pend) ==
  /\ Distinct(idx)
  /\ \A p \in Priorities : \A i \in DOMAIN idx[p] :
       pend[idx[p][i]] # None /\ pend[idx[p][i]].priority = p
  /\ \A k \in Keys : pend[k] # None =>
       \E i \in DOMAIN idx[pend[k].priority] : idx[pend[k].priority][i] = k

Waits == [Keys -> Item \cup {None}]

(* The property the runs check, as a predicate of its two arguments.       *)
LEMMA DescribesIsMatch == IndexMatchesPending <=> Describes(index, pending)
BY DEF IndexMatchesPending, OneSlotPerKey, NoStaleSlot, EveryItemIndexed, Describes, Distinct

(* What stands in a lane is a key. *)
LEMMA EntryIsKey ==
  ASSUME NEW idx \in Lanes, NEW p \in Priorities, NEW i \in DOMAIN idx[p]
  PROVE  idx[p][i] \in Keys
BY DEF Lanes

(* Changing a waiting item without changing its priority. *)
LEMMA DescribesSame ==
  ASSUME NEW idx \in Lanes, NEW pend \in Waits, Describes(idx, pend),
         NEW k \in Keys, pend[k] # None,
         NEW item \in Item, item.priority = pend[k].priority
  PROVE  Describes(idx, [pend EXCEPT ![k] = item])
<1> DEFINE new == [pend EXCEPT ![k] = item]
<1>1. \A j \in Keys : (new[j] # None <=> pend[j] # None)
                      /\ (pend[j] # None => new[j].priority = pend[j].priority)
  BY NoneAssumption DEF Waits
<1> HIDE DEF new
<1>2. \A p \in Priorities : \A i \in DOMAIN idx[p] :
        new[idx[p][i]] # None /\ new[idx[p][i]].priority = p
  BY <1>1, EntryIsKey DEF Describes
<1>3. \A j \in Keys : new[j] # None =>
        \E i \in DOMAIN idx[new[j].priority] : idx[new[j].priority][i] = j
  BY <1>1 DEF Describes
<1> QED BY <1>2, <1>3 DEF Describes, new

(* A key that did not wait joins the end of its lane. *)
LEMMA DescribesJoin ==
  ASSUME NEW idx \in Lanes, NEW pend \in Waits, Describes(idx, pend),
         NEW k \in Keys, pend[k] = None, NEW item \in Item
  PROVE  /\ Joined(idx, k, item.priority) \in Lanes
         /\ Describes(Joined(idx, k, item.priority), [pend EXCEPT ![k] = item])
<1> DEFINE p == item.priority
           J == Joined(idx, k, p)
           new == [pend EXCEPT ![k] = item]
<1>1. p \in Priorities /\ item # None
  BY NoneAssumption DEF Item
<1>2. Absent(idx, k)
  BY DEF Describes, Absent
<1>3. new[k] = item /\ \A j \in Keys : j # k => new[j] = pend[j]
  BY DEF Waits
<1> HIDE DEF new, p
<1>4. /\ J \in Lanes
      /\ Distinct(J)
      /\ \A q \in Priorities : \A i \in DOMAIN idx[q] : i \in DOMAIN J[q] /\ J[q][i] = idx[q][i]
      /\ \A q \in Priorities : \A i \in DOMAIN J[q] :
           \/ i \in DOMAIN idx[q] /\ J[q][i] = idx[q][i]
           \/ q = p /\ J[q][i] = k
      /\ \E i \in DOMAIN J[p] : J[p][i] = k
  BY <1>1, <1>2, JoinLane DEF Describes
<1> HIDE DEF J
<1>5. ASSUME NEW q \in Priorities, NEW i \in DOMAIN J[q]
      PROVE  new[J[q][i]] # None /\ new[J[q][i]].priority = q
  <2>1. CASE i \in DOMAIN idx[q] /\ J[q][i] = idx[q][i]
    BY <2>1, <1>2, <1>3, EntryIsKey DEF Absent, Describes
  <2>2. CASE q = p /\ J[q][i] = k
    BY <2>2, <1>1, <1>3 DEF p
  <2> QED BY <2>1, <2>2, <1>4
<1>6. ASSUME NEW j \in Keys, new[j] # None
      PROVE  \E i \in DOMAIN J[new[j].priority] : J[new[j].priority][i] = j
  <2>1. CASE j = k
    BY <2>1, <1>3, <1>4 DEF p
  <2>2. CASE j # k
    <3>1. new[j] = pend[j] /\ new[j].priority \in Priorities
      BY <2>2, <1>3, <1>6 DEF Waits, Item
    <3>2. PICK i \in DOMAIN idx[new[j].priority] : idx[new[j].priority][i] = j
      BY <3>1, <1>6 DEF Describes
    <3> QED BY <3>1, <3>2, <1>4
  <2> QED BY <2>1, <2>2
<1> QED BY <1>4, <1>5, <1>6 DEF Describes, J, new, p

(* The head of a lane leaves. *)
LEMMA DescribesTail ==
  ASSUME NEW idx \in Lanes, NEW pend \in Waits, Describes(idx, pend),
         NEW p \in Priorities, idx[p] # <<>>, 1 \in DOMAIN idx[p]
  PROVE  /\ [idx EXCEPT ![p] = Tail(@)] \in Lanes
         /\ Describes([idx EXCEPT ![p] = Tail(@)], [pend EXCEPT ![idx[p][1]] = None])
<1> DEFINE k == idx[p][1]
           T == [idx EXCEPT ![p] = Tail(@)]
           new == [pend EXCEPT ![k] = None]
<1>1. k \in Keys
  BY EntryIsKey
<1>2. new[k] = None /\ \A j \in Keys : j # k => new[j] = pend[j]
  BY <1>1 DEF Waits
<1> HIDE DEF new, k
<1>3. /\ T \in Lanes
      /\ Distinct(T)
      /\ Absent(T, k)
      /\ \A q \in Priorities : \A i \in DOMAIN T[q] : \E j \in DOMAIN idx[q] : T[q][i] = idx[q][j]
      /\ \A q \in Priorities : \A j \in DOMAIN idx[q] :
           idx[q][j] = k \/ \E i \in DOMAIN T[q] : T[q][i] = idx[q][j]
  BY TailLane DEF Describes, k
<1> HIDE DEF T
<1>4. ASSUME NEW q \in Priorities, NEW i \in DOMAIN T[q]
      PROVE  new[T[q][i]] # None /\ new[T[q][i]].priority = q
  <2>1. PICK j \in DOMAIN idx[q] : T[q][i] = idx[q][j]
    BY <1>3
  <2>2. T[q][i] # k /\ T[q][i] \in Keys
    BY <2>1, <1>3, EntryIsKey DEF Absent
  <2> QED BY <2>1, <2>2, <1>2 DEF Describes
<1>5. ASSUME NEW j \in Keys, new[j] # None
      PROVE  \E i \in DOMAIN T[new[j].priority] : T[new[j].priority][i] = j
  <2>1. j # k /\ new[j] = pend[j] /\ new[j].priority \in Priorities
    BY <1>2, <1>5 DEF Waits, Item
  <2>2. PICK i \in DOMAIN idx[new[j].priority] : idx[new[j].priority][i] = j
    BY <2>1, <1>5 DEF Describes
  <2> QED BY <2>1, <2>2, <1>3
<1> QED BY <1>3, <1>4, <1>5 DEF Describes, T, new, k

(* A waiting key leaves its lane from wherever it stands. *)
LEMMA DescribesDrop ==
  ASSUME NEW idx \in Lanes, NEW pend \in Waits, Describes(idx, pend),
         NEW k \in Keys, pend[k] # None
  PROVE  /\ [idx EXCEPT ![pend[k].priority] = Without(@, k)] \in Lanes
         /\ Describes([idx EXCEPT ![pend[k].priority] = Without(@, k)],
                      [pend EXCEPT ![k] = None])
<1> DEFINE p == pend[k].priority
           lane == idx[p]
           W == Without(lane, k)
           T == [idx EXCEPT ![p] = W]
           new == [pend EXCEPT ![k] = None]
<1>1. p \in Priorities
  BY DEF Waits, Item
<1>2. new[k] = None /\ \A j \in Keys : j # k => new[j] = pend[j]
  BY DEF Waits
<1>3. lane \in Seq(Keys) /\ \A i, j \in DOMAIN lane : lane[i] = lane[j] => i = j
  BY <1>1 DEF Lanes, Describes, Distinct
<1> HIDE DEF new, p, lane
<1>4. /\ W \in Seq(Keys)
      /\ \A i \in DOMAIN W : W[i] # k /\ \E j \in DOMAIN lane : lane[j] = W[i]
      /\ \A j \in DOMAIN lane : lane[j] # k => \E i \in DOMAIN W : W[i] = lane[j]
      /\ \A i, j \in DOMAIN W : W[i] = W[j] => i = j
  BY <1>3, WithoutLane
<1> HIDE DEF W
<1>5. T \in Lanes /\ T[p] = W /\ \A q \in Priorities : q # p => T[q] = idx[q]
  BY <1>1, <1>4 DEF Lanes
<1> HIDE DEF T
<1>6. \A q \in Priorities : \A i \in DOMAIN T[q] :
        T[q][i] # k /\ \E j \in DOMAIN idx[q] : idx[q][j] = T[q][i]
  <2> SUFFICES ASSUME NEW q \in Priorities, NEW i \in DOMAIN T[q]
               PROVE  T[q][i] # k /\ \E j \in DOMAIN idx[q] : idx[q][j] = T[q][i]
    OBVIOUS
  <2>1. CASE q = p
    BY <2>1, <1>4, <1>5 DEF lane
  <2>2. CASE q # p
    <3>1. T[q] = idx[q]
      BY <2>2, <1>5
    <3>2. T[q][i] # k
      BY <3>1, <2>2 DEF Describes, p
    <3> QED BY <3>1, <3>2
  <2> QED BY <2>1, <2>2
<1>7. Distinct(T)
  <2> SUFFICES ASSUME NEW q \in Priorities, NEW r \in Priorities,
                      NEW i \in DOMAIN T[q], NEW j \in DOMAIN T[r], T[q][i] = T[r][j]
               PROVE  q = r /\ i = j
    BY DEF Distinct
  <2>1. q = r
    <3>1. PICK a \in DOMAIN idx[q] : idx[q][a] = T[q][i]
      BY <1>6
    <3>2. PICK b \in DOMAIN idx[r] : idx[r][b] = T[r][j]
      BY <1>6
    <3> QED BY <3>1, <3>2 DEF Describes, Distinct
  <2>2. CASE q = p
    BY <2>1, <2>2, <1>4, <1>5
  <2>3. CASE q # p
    BY <2>1, <2>3, <1>5 DEF Describes, Distinct
  <2> QED BY <2>1, <2>2, <2>3
<1>8. ASSUME NEW q \in Priorities, NEW i \in DOMAIN T[q]
      PROVE  new[T[q][i]] # None /\ new[T[q][i]].priority = q
  <2>1. PICK j \in DOMAIN idx[q] : idx[q][j] = T[q][i]
    BY <1>6
  <2>2. T[q][i] # k /\ T[q][i] \in Keys
    BY <2>1, <1>6, EntryIsKey
  <2> QED BY <2>1, <2>2, <1>2 DEF Describes
<1>9. ASSUME NEW j \in Keys, new[j] # None
      PROVE  \E i \in DOMAIN T[new[j].priority] : T[new[j].priority][i] = j
  <2>1. j # k /\ new[j] = pend[j] /\ new[j].priority \in Priorities
    BY <1>2, <1>9 DEF Waits, Item
  <2>2. PICK i \in DOMAIN idx[new[j].priority] : idx[new[j].priority][i] = j
    BY <2>1, <1>9 DEF Describes
  <2>3. CASE new[j].priority = p
    BY <2>1, <2>2, <2>3, <1>4, <1>5 DEF lane
  <2>4. CASE new[j].priority # p
    BY <2>1, <2>2, <2>4, <1>5
  <2> QED BY <2>3, <2>4
<1> QED BY <1>5, <1>7, <1>8, <1>9 DEF Describes, T, W, lane, p, new

-----------------------------------------------------------------------------
(* Cardinalities: the keys of a map once one entry was set. *)
Held(m) == {k \in Keys : m[k] # None}

(* Giving a key an item adds it to the held keys, unless it was there. *)
LEMMA HeldSet ==
  ASSUME NEW m \in Waits, NEW k \in Keys, NEW item \in Item, IsFiniteSet(Held(m))
  PROVE  LET new == [m EXCEPT ![k] = item]
         IN  /\ IsFiniteSet(Held(new))
             /\ Cardinality(Held(new)) =
                  IF m[k] # None THEN Cardinality(Held(m)) ELSE Cardinality(Held(m)) + 1
<1> DEFINE new == [m EXCEPT ![k] = item]
<1>1. Held(new) = Held(m) \cup {k}
  BY NoneAssumption DEF Held, Waits
<1>2. k \in Held(m) <=> m[k] # None
  BY DEF Held
<1> HIDE DEF new
<1> QED BY <1>1, <1>2, FS_AddElement DEF new

(* Taking a key's item away takes it from the held keys, if it was there. *)
LEMMA HeldClear ==
  ASSUME NEW m \in Waits, NEW k \in Keys, IsFiniteSet(Held(m))
  PROVE  LET new == [m EXCEPT ![k] = None]
         IN  /\ IsFiniteSet(Held(new))
             /\ Cardinality(Held(new)) =
                  IF m[k] # None THEN Cardinality(Held(m)) - 1 ELSE Cardinality(Held(m))
<1> DEFINE new == [m EXCEPT ![k] = None]
<1>1. Held(new) = Held(m) \ {k}
  BY DEF Held, Waits
<1>2. k \in Held(m) <=> m[k] # None
  BY DEF Held
<1> HIDE DEF new
<1> QED BY <1>1, <1>2, FS_RemoveElement DEF new

(* The invariant over maps given as arguments, for the steps below. *)
Good(pend, flight, idx) ==
  /\ pend \in Waits
  /\ flight \in Waits
  /\ idx \in Lanes
  /\ Describes(idx, pend)
  /\ \A k \in Keys : pend[k] = None \/ flight[k] = None
  /\ IsFiniteSet(Held(pend))
  /\ IsFiniteSet(Held(flight))
  /\ Cardinality(Held(pend)) + Cardinality(Held(flight)) <= Capacity

(* The invariant of the theorems is Good of the state. *)
LEMMA IInvIsGood == IInv <=> Good(pending, inFlight, index)
BY DescribesIsMatch
   DEF IInv, Good, TypeOK, Waits, Lanes, NeverWaitingAndLeased, WithinCapacity, OwnedSlots,
       PendingKeys, LeasedKeys, Held

(* try_enqueue's max of two offsets is one of them and below neither. *)
LEMMA GreaterOffset ==
  ASSUME NEW a \in Offsets, NEW b \in Offsets
  PROVE  Greater(a, b) \in Offsets /\ Greater(a, b) >= a
BY QueueAssumption DEF Greater

(* A coalesced item is an item that lowers neither target nor priority. *)
LEMMA CoalesceItem ==
  ASSUME NEW item \in Item, NEW t \in Offsets, NEW p \in Priorities
  PROVE  /\ Coalesce(item, t, p) \in Item
         /\ Coalesce(item, t, p).target >= item.target
         /\ Coalesce(item, t, p).priority >= item.priority
         /\ Coalesce(item, t, p).priority = IF p > item.priority THEN p ELSE item.priority
<1>1. /\ Greater(item.priority, p) \in Priorities
      /\ Greater(item.priority, p) >= item.priority
      /\ Greater(item.priority, p) = IF p > item.priority THEN p ELSE item.priority
  BY DEF Greater, Item, Priorities, Archive, Live
<1>2. Greater(item.target, t) \in Offsets /\ Greater(item.target, t) >= item.target
  BY GreaterOffset DEF Item
<1> QED BY <1>1, <1>2 DEF Coalesce, Item

(* A lease that ends, one way or the other. *)
LEMMA RequeueGood ==
  ASSUME Good(pending, inFlight, index), NEW k \in Keys, inFlight[k] # None, Requeue(k)
  PROVE  Good(pending', inFlight', index')
<1>1. inFlight[k] \in Item /\ pending[k] = None
  BY DEF Good, Waits
<1>2. Joined(index, k, inFlight[k].priority) \in Lanes
      /\ Describes(Joined(index, k, inFlight[k].priority), [pending EXCEPT ![k] = inFlight[k]])
  BY <1>1, DescribesJoin DEF Good
<1>3. pending' \in Waits /\ inFlight' \in Waits
  BY <1>1 DEF Requeue, Good, Waits
<1>4. \A j \in Keys : pending'[j] = None \/ inFlight'[j] = None
  BY DEF Requeue, Good, Waits
<1>5. /\ IsFiniteSet(Held(pending'))
      /\ Cardinality(Held(pending')) = Cardinality(Held(pending)) + 1
  BY <1>1, HeldSet DEF Requeue, Good
<1>6. /\ IsFiniteSet(Held(inFlight'))
      /\ Cardinality(Held(inFlight')) = Cardinality(Held(inFlight)) - 1
  BY HeldClear DEF Requeue, Good
<1>7. /\ Cardinality(Held(pending)) \in Nat
      /\ Cardinality(Held(inFlight)) \in Nat
  BY FS_CardinalityType DEF Good
<1>8. Cardinality(Held(pending')) + Cardinality(Held(inFlight')) <= Capacity
  BY <1>5, <1>6, <1>7, QueueAssumption DEF Good
<1> QED BY <1>2, <1>3, <1>4, <1>5, <1>6, <1>8 DEF Requeue, Good

(* A lease that ends without a requeue frees its slot. *)
LEMMA ReleaseGood ==
  ASSUME Good(pending, inFlight, index), NEW k \in Keys, inFlight[k] # None, Release(k)
  PROVE  Good(pending', inFlight', index')
<1>1. inFlight' \in Waits /\ \A j \in Keys : pending[j] = None \/ inFlight'[j] = None
  BY DEF Release, Good, Waits
<1>2. /\ IsFiniteSet(Held(inFlight'))
      /\ Cardinality(Held(inFlight')) = Cardinality(Held(inFlight)) - 1
  BY HeldClear DEF Release, Good
<1>3. Cardinality(Held(pending)) \in Nat /\ Cardinality(Held(inFlight)) \in Nat
  BY FS_CardinalityType DEF Good
<1>4. Cardinality(Held(pending)) + Cardinality(Held(inFlight')) <= Capacity
  BY <1>2, <1>3, QueueAssumption DEF Good
<1> QED BY <1>1, <1>2, <1>4 DEF Release, Good

(* When there is nothing to take the lanes are empty already. *)
LEMMA NothingToTake ==
  ASSUME Good(pending, inFlight, index), TakeNothing
  PROVE  index' = index
<1>1. \A p \in Priorities : index[p] = <<>>
  <2> SUFFICES ASSUME NEW p \in Priorities PROVE index[p] = <<>>
    OBVIOUS
  <2>1. CurrentSlots(p) = {}
    BY DEF TakeNothing, ReadyLanes
  <2>2. /\ CurrentSlots(p) = 1 .. Len(index[p])
        /\ index[p] \in Seq(Keys)
        /\ Len(index[p]) \in Nat
    BY IInvIsGood DEF IInv, TypeOK, IndexMatchesPending, NoStaleSlot, CurrentSlots
  <2>3. Len(index[p]) = 0
    <3>1. 1 \notin 1 .. Len(index[p])
      BY <2>1, <2>2
    <3> QED BY <3>1, <2>2
  <2> QED BY <2>2, <2>3, EmptySeq
<1> QED BY <1>1 DEF TakeNothing, Good, Lanes

(* Each action keeps the invariant. *)
LEMMA NextGood ==
  ASSUME Good(pending, inFlight, index), [Next]_vars
  PROVE  Good(pending', inFlight', index')
<1>1. ASSUME NEW k \in Keys, NEW t \in Offsets, NEW p \in Priorities, EnqueuePending(k, t, p)
      PROVE  Good(pending', inFlight', index')
  <2> DEFINE item == Coalesce(pending[k], t, p)
  <2>1. pending[k] \in Item /\ pending[k] # None
    BY <1>1 DEF EnqueuePending, Good, Waits
  <2>2. item \in Item /\ item.priority = IF p > pending[k].priority THEN p ELSE pending[k].priority
    BY <2>1, CoalesceItem
  <2>3. pending' = [pending EXCEPT ![k] = item] /\ inFlight' = inFlight
    BY <1>1 DEF EnqueuePending, EnqueueMoving, EnqueueStaying
  <2> HIDE DEF item
  <2>4. pending' \in Waits /\ \A j \in Keys : pending'[j] = None \/ inFlight'[j] = None
    BY <2>1, <2>2, <2>3 DEF Good, Waits
  <2>5. /\ IsFiniteSet(Held(pending'))
        /\ Cardinality(Held(pending')) = Cardinality(Held(pending))
    BY <2>1, <2>2, <2>3, HeldSet DEF Good
  <2>6. index' \in Lanes /\ Describes(index', pending')
    <3>1. CASE p > pending[k].priority
      <4> DEFINE cleared == [pending EXCEPT ![k] = None]
                 dropped == [index EXCEPT ![pending[k].priority] = Without(@, k)]
      <4>1. cleared \in Waits /\ cleared[k] = None /\ [cleared EXCEPT ![k] = item] = pending'
        BY <2>2, <2>3 DEF Good, Waits
      <4>2. index' = Joined(dropped, k, item.priority)
        BY <1>1, <2>2, <3>1 DEF EnqueuePending, EnqueueMoving
      <4>3. dropped \in Lanes /\ Describes(dropped, cleared)
        BY <2>1, DescribesDrop DEF Good
      <4> HIDE DEF cleared, dropped
      <4> QED BY <2>2, <4>1, <4>2, <4>3, DescribesJoin
    <3>2. CASE ~ (p > pending[k].priority)
      <4>1. index' = index /\ item.priority = pending[k].priority
        BY <1>1, <2>2, <3>2 DEF EnqueuePending, EnqueueStaying
      <4> QED BY <4>1, <2>1, <2>2, <2>3, DescribesSame DEF Good
    <3> QED BY <3>1, <3>2
  <2> QED BY <2>3, <2>4, <2>5, <2>6 DEF Good
<1>2. ASSUME NEW k \in Keys, NEW t \in Offsets, NEW p \in Priorities, EnqueueLeased(k, t, p)
      PROVE  Good(pending', inFlight', index')
  <2> DEFINE item == Coalesce(inFlight[k], t, p)
  <2>1. inFlight[k] \in Item /\ inFlight[k] # None /\ pending[k] = None
    BY <1>2 DEF EnqueueLeased, Good, Waits
  <2>2. item \in Item
    BY <2>1, CoalesceItem
  <2>3. inFlight' = [inFlight EXCEPT ![k] = item] /\ pending' = pending /\ index' = index
    BY <1>2 DEF EnqueueLeased
  <2> HIDE DEF item
  <2>4. inFlight' \in Waits /\ \A j \in Keys : pending[j] = None \/ inFlight'[j] = None
    BY <2>1, <2>2, <2>3 DEF Good, Waits
  <2>5. /\ IsFiniteSet(Held(inFlight'))
        /\ Cardinality(Held(inFlight')) = Cardinality(Held(inFlight))
    BY <2>1, <2>2, <2>3, HeldSet DEF Good
  <2> QED BY <2>3, <2>4, <2>5 DEF Good
<1>3. ASSUME NEW k \in Keys, NEW t \in Offsets, NEW p \in Priorities, EnqueueNew(k, t, p)
      PROVE  Good(pending', inFlight', index')
  <2> DEFINE item == [target |-> t, priority |-> p]
  <2>1. item \in Item /\ item.priority = p
    BY DEF Item
  <2>2. /\ pending' = [pending EXCEPT ![k] = item] /\ pending[k] = None
        /\ inFlight' = inFlight /\ inFlight[k] = None
        /\ index' = Joined(index, k, item.priority)
    BY <1>3 DEF EnqueueNew
  <2> HIDE DEF item
  <2>3. pending' \in Waits /\ \A j \in Keys : pending'[j] = None \/ inFlight'[j] = None
    BY <2>1, <2>2 DEF Good, Waits
  <2>4. index' \in Lanes /\ Describes(index', pending')
    BY <2>1, <2>2, DescribesJoin DEF Good
  <2>5. /\ IsFiniteSet(Held(pending'))
        /\ Cardinality(Held(pending')) = Cardinality(Held(pending)) + 1
    BY <2>1, <2>2, HeldSet DEF Good
  <2>6. Cardinality(Held(pending)) + Cardinality(Held(inFlight)) # Capacity
    BY <1>3 DEF EnqueueNew, OwnedSlots, PendingKeys, LeasedKeys, Held
  <2>7. Cardinality(Held(pending)) \in Nat /\ Cardinality(Held(inFlight)) \in Nat
    BY FS_CardinalityType DEF Good
  <2>8. Cardinality(Held(pending')) + Cardinality(Held(inFlight')) <= Capacity
    BY <2>2, <2>5, <2>6, <2>7, QueueAssumption DEF Good
  <2> QED BY <2>2, <2>3, <2>4, <2>5, <2>8 DEF Good
<1>4. ASSUME ReadyLanes # {}, Pop \/ LeaseNext
      PROVE  Good(pending', inFlight', index')
  <2>1. TypeOK /\ NoStaleSlot
    BY IInvIsGood DEF IInv, IndexMatchesPending
  <2>2. /\ NextLane \in Priorities
        /\ index[NextLane] # <<>>
        /\ 1 \in DOMAIN index[NextLane]
        /\ NextKey = index[NextLane][1]
        /\ NextKey \in Keys
        /\ LanesAfterPop = [index EXCEPT ![NextLane] = Tail(@)]
    BY <1>4, <2>1, PopTakesAHead
  <2>3. pending[NextKey] \in Item /\ pending[NextKey] # None /\ inFlight[NextKey] = None
    BY <2>1, <2>2 DEF NoStaleSlot, TypeOK, Good
  <2>4. pending' = [pending EXCEPT ![NextKey] = None] /\ index' = LanesAfterPop
    BY <1>4 DEF Pop, LeaseNext
  <2>5. pending' \in Waits /\ index' \in Lanes /\ Describes(index', pending')
    <3>1. pending' \in Waits
      BY <2>4 DEF Good, Waits
    <3> QED BY <3>1, <2>2, <2>4, DescribesTail DEF Good
  <2>6. /\ IsFiniteSet(Held(pending'))
        /\ Cardinality(Held(pending')) = Cardinality(Held(pending)) - 1
    BY <2>2, <2>3, <2>4, HeldClear DEF Good
  <2>7. Cardinality(Held(pending)) \in Nat /\ Cardinality(Held(inFlight)) \in Nat
    BY FS_CardinalityType DEF Good
  <2>8. CASE Pop
    <3>1. inFlight' = inFlight /\ \A j \in Keys : pending'[j] = None \/ inFlight'[j] = None
      BY <2>4, <2>8 DEF Pop, Good, Waits
    <3>2. Cardinality(Held(pending')) + Cardinality(Held(inFlight')) <= Capacity
      BY <3>1, <2>6, <2>7, QueueAssumption DEF Good
    <3> QED BY <3>1, <3>2, <2>5, <2>6 DEF Good
  <2>9. CASE LeaseNext
    <3>1. inFlight' = [inFlight EXCEPT ![NextKey] = pending[NextKey]]
      BY <2>9 DEF LeaseNext
    <3>2. inFlight' \in Waits /\ \A j \in Keys : pending'[j] = None \/ inFlight'[j] = None
      BY <2>2, <2>3, <2>4, <3>1 DEF Good, Waits
    <3>3. /\ IsFiniteSet(Held(inFlight'))
          /\ Cardinality(Held(inFlight')) = Cardinality(Held(inFlight)) + 1
      BY <2>2, <2>3, <3>1, HeldSet DEF Good
    <3>4. Cardinality(Held(pending')) + Cardinality(Held(inFlight')) <= Capacity
      BY <3>3, <2>6, <2>7, QueueAssumption DEF Good
    <3> QED BY <3>2, <3>3, <3>4, <2>5, <2>6 DEF Good
  <2> QED BY <1>4, <2>8, <2>9
<1>5. ASSUME TakeNothing
      PROVE  Good(pending', inFlight', index')
  <2>1. index' = index
    BY <1>5, NothingToTake
  <2> QED BY <1>5, <2>1 DEF TakeNothing, Good
<1>6. ASSUME NEW k \in Keys, NEW t \in Offsets, NEW force \in BOOLEAN, NEW allowGap \in BOOLEAN,
             FinishLease(k, t, force, allowGap)
      PROVE  Good(pending', inFlight', index')
  BY <1>6, RequeueGood, ReleaseGood DEF FinishLease
<1>7. ASSUME NEW k \in Keys, CancelLease(k)
      PROVE  Good(pending', inFlight', index')
  BY <1>7, RequeueGood DEF CancelLease
<1>8. ASSUME NEW k \in Keys, AbandonLease(k)
      PROVE  Good(pending', inFlight', index')
  BY <1>8, ReleaseGood DEF AbandonLease
<1>9. ASSUME NEW k \in Keys, EnqueueFull(k)
      PROVE  Good(pending', inFlight', index')
  BY <1>9 DEF EnqueueFull, vars
<1>10. CASE UNCHANGED vars
  BY <1>10 DEF vars
<1> QED
  BY <1>1, <1>2, <1>3, <1>4, <1>5, <1>6, <1>7, <1>8, <1>9, <1>10
     DEF Next, Signal, Pop, LeaseNext

-----------------------------------------------------------------------------
(* The queue's invariant holds of every behavior, for every capacity. *)
THEOREM QueueInvariant == Spec => []IInv
<1>1. Init => IInv
  <2> SUFFICES ASSUME Init PROVE IInv
    OBVIOUS
  <2>1. PendingKeys = {} /\ LeasedKeys = {}
    BY DEF Init, PendingKeys, LeasedKeys
  <2>2. OwnedSlots = 0 /\ IsFiniteSet(PendingKeys) /\ IsFiniteSet(LeasedKeys)
    BY <2>1, FS_EmptySet DEF OwnedSlots
  <2>3. WithinCapacity
    BY <2>2, QueueAssumption DEF WithinCapacity
  <2>4. TypeOK /\ NeverWaitingAndLeased
    BY DEF Init, TypeOK, NeverWaitingAndLeased
  <2>5. IndexMatchesPending
    BY DEF Init, IndexMatchesPending, OneSlotPerKey, NoStaleSlot, EveryItemIndexed
  <2> QED BY <2>3, <2>4, <2>5 DEF IInv
<1>2. IInv /\ [Next]_vars => IInv'
  <2> SUFFICES ASSUME IInv, [Next]_vars PROVE IInv'
    OBVIOUS
  <2>1. Good(pending', inFlight', index')
    BY IInvIsGood, NextGood
  <2>2. (IInv <=> Good(pending, inFlight, index))'
    BY IInvIsGood, PTL
  <2> QED BY <2>1, <2>2
<1> QED BY <1>1, <1>2, PTL DEF Spec

(* queue.rs index_len: each pending item has exactly one index slot. *)
THEOREM IndexAlwaysMatches == Spec => []IndexMatchesPending
<1>1. IInv => IndexMatchesPending
  BY DEF IInv
<1> QED BY <1>1, QueueInvariant, PTL

(* The types of the queue's maps. *)
THEOREM QueueTypes == Spec => []TypeOK
<1>1. IInv => TypeOK
  BY DEF IInv
<1> QED BY <1>1, QueueInvariant, PTL

(* No source is read by two workers, nor waiting while it is read. *)
THEOREM OneOwnerPerSource == Spec => []NeverWaitingAndLeased
<1>1. IInv => NeverWaitingAndLeased
  BY DEF IInv
<1> QED BY <1>1, QueueInvariant, PTL

(* Waiting and leased work never exceeds the configured capacity. *)
THEOREM CapacityIsKept == Spec => []WithinCapacity
<1>1. IInv => WithinCapacity
  BY DEF IInv
<1> QED BY <1>1, QueueInvariant, PTL

(* The two maps and the three lanes describe the same work, own no source  *)
(* twice and stay within the capacity, under every order of calls.         *)
THEOREM QueueAlwaysSound == Spec => []QueueIsSound
<1>1. IInv => QueueIsSound
  BY DEF IInv, QueueIsSound
<1> QED BY <1>1, QueueInvariant, PTL

(* A step can change what a key is owed only by a signal, which adds to    *)
(* it, or by moving the very item between the two maps.                    *)
THEOREM OwedWorkNeverShrinks == Spec => WorkNeverShrinks
<1> DEFINE Grows == \A k \in Keys : Owed(k) # None /\ Owed(k)' # None =>
                      /\ Owed(k)'.target >= Owed(k).target
                      /\ Owed(k)'.priority >= Owed(k).priority
<1>1. ASSUME IInv, [Next]_vars PROVE [Grows]_vars
  <2> SUFFICES ASSUME NEW k \in Keys, Owed(k) # None, Owed(k)' # None, Next
               PROVE  /\ Owed(k)'.target >= Owed(k).target
                      /\ Owed(k)'.priority >= Owed(k).priority
    BY <1>1
  <2>1. /\ pending \in Waits
        /\ inFlight \in Waits
        /\ pending[k] = None \/ inFlight[k] = None
        /\ \A item \in Item : item.target >= item.target /\ item.priority >= item.priority
    <3>1. pending \in Waits /\ inFlight \in Waits
      BY <1>1 DEF IInv, TypeOK, Waits
    <3>2. pending[k] = None \/ inFlight[k] = None
      BY <1>1 DEF IInv, NeverWaitingAndLeased
    <3>3. ASSUME NEW item \in Item
          PROVE  item.target >= item.target /\ item.priority >= item.priority
      <4>1. item.target \in Offsets /\ item.priority \in Priorities
        BY DEF Item
      <4>2. item.target \in Nat
        BY <4>1, QueueAssumption
      <4>3. item.priority \in Nat
        BY <4>1 DEF Priorities, Archive, Live
      <4> QED BY <4>2, <4>3
    <3> QED BY <3>1, <3>2, <3>3
  <2>2. Owed(k) \in Item
    BY <2>1 DEF Owed, Waits
  <2>3. CASE Owed(k)' = Owed(k)
    BY <2>1, <2>2, <2>3
  <2>4. ASSUME NEW j \in Keys, NEW t \in Offsets, NEW p \in Priorities, Signal(j, t, p)
        PROVE  Owed(k)' = Owed(k) \/ Owed(k)' = Coalesce(Owed(k), t, p)
    <3>1. CASE EnqueuePending(j, t, p)
      <4>1. /\ pending[j] # None
            /\ pending' = [pending EXCEPT ![j] = Coalesce(pending[j], t, p)]
            /\ inFlight' = inFlight
        BY <3>1 DEF EnqueuePending, EnqueueMoving, EnqueueStaying
      <4>2. Coalesce(pending[j], t, p) # None
        BY <2>1, <4>1, CoalesceItem, NoneAssumption DEF Waits
      <4> QED BY <2>1, <4>1, <4>2 DEF Owed, Waits
    <3>2. CASE EnqueueLeased(j, t, p)
      BY <2>1, <3>2 DEF EnqueueLeased, Owed, Waits
    <3>3. CASE EnqueueNew(j, t, p)
      <4>1. j # k
        BY <3>3, <2>2, NoneAssumption DEF EnqueueNew, Owed
      <4> QED BY <2>1, <3>3, <4>1 DEF EnqueueNew, Owed, Waits
    <3> QED BY <2>4, <3>1, <3>2, <3>3 DEF Signal
  <2>5. ASSUME ReadyLanes # {}, Pop \/ LeaseNext
        PROVE  Owed(k)' = Owed(k)
    <3>1. NextKey \in Keys /\ NextKey = index[NextLane][1]
          /\ NextLane \in Priorities /\ 1 \in DOMAIN index[NextLane]
      BY <1>1, <2>5, PopTakesAHead DEF IInv, IndexMatchesPending
    <3>2. pending[NextKey] # None
      BY <1>1, <3>1 DEF IInv, IndexMatchesPending, NoStaleSlot
    <3> QED BY <2>1, <2>5, <3>1, <3>2 DEF Pop, LeaseNext, Owed, Waits
  <2>6. ASSUME NEW j \in Keys, inFlight[j] # None, Requeue(j) \/ Release(j)
        PROVE  Owed(k)' = Owed(k)
    BY <2>1, <2>6 DEF Requeue, Release, Owed, Waits
  <2>7. Owed(k)' = Owed(k)
        \/ \E j \in Keys, t \in Offsets, p \in Priorities : Signal(j, t, p)
    <3>1. CASE \E j \in Keys, t \in Offsets, p \in Priorities : Signal(j, t, p)
      BY <3>1
    <3>2. CASE Pop \/ LeaseNext
      BY <3>2, <2>5 DEF Pop, LeaseNext
    <3>3. CASE TakeNothing
      BY <3>3 DEF TakeNothing, Owed
    <3>4. CASE \E j \in Keys : EnqueueFull(j)
      BY <3>4 DEF EnqueueFull, vars, Owed
    <3>5. CASE \E j \in Keys, t \in Offsets, force, allowGap \in BOOLEAN :
                 FinishLease(j, t, force, allowGap)
      BY <3>5, <2>6 DEF FinishLease
    <3>6. CASE \E j \in Keys : CancelLease(j) \/ AbandonLease(j)
      BY <3>6, <2>6 DEF CancelLease, AbandonLease
    <3> QED BY <3>1, <3>2, <3>3, <3>4, <3>5, <3>6 DEF Next
  <2> QED BY <2>2, <2>3, <2>4, <2>7, CoalesceItem
<1>2. Spec => [][Grows]_vars
  BY <1>1, QueueInvariant, PTL DEF Spec
<1> QED BY <1>2 DEF WorkNeverShrinks

-----------------------------------------------------------------------------
(* The line that the lanes stand for, over an index and a map of waiting   *)
(* items given as arguments.                                               *)
Entry == [key : Keys, work : Item \cup {None}]

Marked(lane, pend) ==
  [i \in DOMAIN lane |-> [key |-> lane[i], work |-> pend[lane[i]]]]

Whole(idx, pend) ==
  Marked(idx[Live], pend) \o Marked(idx[ActiveCatchup], pend) \o Marked(idx[Archive], pend)

(* What stands before and behind the lane of priority p. *)
Above(idx, pend, p) ==
  IF p = Live THEN <<>>
  ELSE IF p = ActiveCatchup THEN Marked(idx[Live], pend)
  ELSE Marked(idx[Live], pend) \o Marked(idx[ActiveCatchup], pend)

Below(idx, pend, p) ==
  IF p = Archive THEN <<>>
  ELSE IF p = ActiveCatchup THEN Marked(idx[Archive], pend)
  ELSE Marked(idx[ActiveCatchup], pend) \o Marked(idx[Archive], pend)

(* Marking a lane keeps its length and its order. *)
LEMMA MarkedSeq ==
  ASSUME NEW lane \in Seq(Keys), NEW pend \in Waits
  PROVE  /\ Marked(lane, pend) \in Seq(Entry)
         /\ Len(Marked(lane, pend)) = Len(lane)
         /\ \A i \in 1 .. Len(lane) :
              Marked(lane, pend)[i] = [key |-> lane[i], work |-> pend[lane[i]]]
<1>1. DOMAIN lane = 1 .. Len(lane) /\ Len(lane) \in Nat
  OBVIOUS
<1>2. \A i \in 1 .. Len(lane) : [key |-> lane[i], work |-> pend[lane[i]]] \in Entry
  BY DEF Entry, Waits
<1>3. Marked(lane, pend) = [i \in 1 .. Len(lane) |-> [key |-> lane[i], work |-> pend[lane[i]]]]
  BY <1>1 DEF Marked
<1>4. Marked(lane, pend) \in Seq(Entry)
  BY <1>1, <1>2, <1>3
<1> QED BY <1>1, <1>3, <1>4

(* Marking two lanes in a row is marking one after the other. *)
LEMMA MarkedConcat ==
  ASSUME NEW s \in Seq(Keys), NEW t \in Seq(Keys), NEW pend \in Waits
  PROVE  Marked(s \o t, pend) = Marked(s, pend) \o Marked(t, pend)
<1> DEFINE A == Marked(s, pend)
           B == Marked(t, pend)
           C == Marked(s \o t, pend)
           mark(k) == [key |-> k, work |-> pend[k]]
<1>1. /\ s \o t \in Seq(Keys)
      /\ Len(s \o t) = Len(s) + Len(t)
      /\ \A i \in 1 .. Len(s) + Len(t) :
           (s \o t)[i] = IF i <= Len(s) THEN s[i] ELSE t[i - Len(s)]
  BY ConcatProperties
<1>2. A \in Seq(Entry) /\ Len(A) = Len(s) /\ \A i \in 1 .. Len(s) : A[i] = mark(s[i])
  BY MarkedSeq
<1>3. B \in Seq(Entry) /\ Len(B) = Len(t) /\ \A i \in 1 .. Len(t) : B[i] = mark(t[i])
  BY MarkedSeq
<1>4. C \in Seq(Entry) /\ Len(C) = Len(s) + Len(t)
      /\ \A i \in 1 .. Len(s) + Len(t) : C[i] = mark((s \o t)[i])
  BY <1>1, MarkedSeq
<1> HIDE DEF A, B, C, mark
<1>5. A \o B \in Seq(Entry) /\ Len(A \o B) = Len(s) + Len(t)
      /\ \A i \in 1 .. Len(s) + Len(t) :
           (A \o B)[i] = IF i <= Len(s) THEN A[i] ELSE B[i - Len(s)]
  <2>1. /\ A \o B \in Seq(Entry)
        /\ Len(A \o B) = Len(A) + Len(B)
        /\ \A i \in 1 .. Len(A) + Len(B) :
             (A \o B)[i] = IF i <= Len(A) THEN A[i] ELSE B[i - Len(A)]
    <3>1. A \in Seq(Entry) /\ B \in Seq(Entry)
      BY <1>2, <1>3
    <3> QED BY <3>1, ConcatProperties
  <2> QED BY <2>1, <1>2, <1>3, Zenon
<1>6. ASSUME NEW i \in 1 .. Len(s) + Len(t)
      PROVE  C[i] = (A \o B)[i]
  <2>0. Len(s) \in Nat /\ Len(t) \in Nat
    OBVIOUS
  <2>1. CASE i <= Len(s)
    <3>1. i \in 1 .. Len(s)
      BY <2>0, <2>1
    <3> QED BY <3>1, <2>1, <1>1, <1>2, <1>4, <1>5
  <2>2. CASE ~ (i <= Len(s))
    <3>1. i - Len(s) \in 1 .. Len(t)
      BY <2>0, <2>2
    <3> QED BY <3>1, <2>2, <1>1, <1>3, <1>4, <1>5
  <2> QED BY <2>1, <2>2
<1>7. C = A \o B
  BY <1>4, <1>5, <1>6, SeqEqual
<1> QED BY <1>7 DEF A, B, C

(* A lane looks the same as long as the items of its keys are the same. *)
LEMMA MarkedSame ==
  ASSUME NEW lane \in Seq(Keys), NEW pend, NEW after,
         \A i \in DOMAIN lane : after[lane[i]] = pend[lane[i]]
  PROVE  Marked(lane, after) = Marked(lane, pend)
BY DEF Marked

(* The lane of one key. *)
LEMMA MarkedOne ==
  ASSUME NEW k \in Keys, NEW pend
  PROVE  Marked(<<k>>, pend) = <<[key |-> k, work |-> pend[k]]>>
<1> DEFINE e == [key |-> k, work |-> pend[k]]
           M == Marked(<<k>>, pend)
<1>1. DOMAIN <<k>> = 1 .. 1 /\ <<k>>[1] = k
  OBVIOUS
<1>2. M = [i \in 1 .. 1 |-> e]
  BY <1>1 DEF Marked
<1> HIDE DEF e, M
<1>3. <<e>> = [i \in 1 .. 1 |-> e]
  OBVIOUS
<1> QED BY <1>2, <1>3 DEF e, M

-----------------------------------------------------------------------------
(* Sequences that consist of a front, one entry and a back. *)

(* Where the parts of such a sequence are. *)
LEMMA Between ==
  ASSUME NEW S, NEW X \in Seq(S), NEW Y \in Seq(S), NEW e \in S
  PROVE  /\ (X \o <<e>>) \o Y \in Seq(S)
         /\ Len((X \o <<e>>) \o Y) = Len(X) + 1 + Len(Y)
         /\ \A i \in 1 .. Len(X) : ((X \o <<e>>) \o Y)[i] = X[i]
         /\ ((X \o <<e>>) \o Y)[Len(X) + 1] = e
         /\ \A i \in 1 .. Len(Y) : ((X \o <<e>>) \o Y)[Len(X) + 1 + i] = Y[i]
<1> DEFINE P == X \o <<e>>
           W == P \o Y
<1>0. Len(X) \in Nat /\ Len(Y) \in Nat /\ <<e>> \in Seq(S) /\ Len(<<e>>) = 1 /\ <<e>>[1] = e
  OBVIOUS
<1>1. /\ P \in Seq(S)
      /\ Len(P) = Len(X) + 1
      /\ \A i \in 1 .. Len(X) + 1 : P[i] = IF i <= Len(X) THEN X[i] ELSE <<e>>[i - Len(X)]
  BY <1>0, ConcatProperties
<1>2. (\A i \in 1 .. Len(X) : P[i] = X[i]) /\ P[Len(X) + 1] = e
  <2>1. P[Len(X) + 1] = <<e>>[Len(X) + 1 - Len(X)]
    BY <1>0, <1>1
  <2>2. Len(X) + 1 - Len(X) = 1
    BY <1>0
  <2> QED BY <1>0, <1>1, <2>1, <2>2
<1> HIDE DEF P
<1>3. /\ W \in Seq(S)
      /\ Len(W) = Len(X) + 1 + Len(Y)
      /\ \A i \in 1 .. Len(X) + 1 + Len(Y) :
           W[i] = IF i <= Len(X) + 1 THEN P[i] ELSE Y[i - (Len(X) + 1)]
  <2>1. /\ W \in Seq(S)
        /\ Len(W) = Len(P) + Len(Y)
        /\ \A i \in 1 .. Len(P) + Len(Y) : W[i] = IF i <= Len(P) THEN P[i] ELSE Y[i - Len(P)]
    BY <1>1, ConcatProperties
  <2> HIDE DEF W
  <2> QED BY <2>1, <1>1, Zenon
<1> HIDE DEF W
<1>4. \A i \in 1 .. Len(X) + 1 : W[i] = P[i]
  BY <1>0, <1>3
<1>5. \A i \in 1 .. Len(Y) : W[Len(X) + 1 + i] = Y[i]
  <2> SUFFICES ASSUME NEW i \in 1 .. Len(Y) PROVE W[Len(X) + 1 + i] = Y[i]
    OBVIOUS
  <2>1. /\ Len(X) + 1 + i \in 1 .. Len(X) + 1 + Len(Y)
        /\ ~ (Len(X) + 1 + i <= Len(X) + 1)
        /\ Len(X) + 1 + i - (Len(X) + 1) = i
    BY <1>0
  <2> QED BY <2>1, <1>3
<1>6. (\A i \in 1 .. Len(X) : W[i] = X[i]) /\ W[Len(X) + 1] = e
  BY <1>0, <1>2, <1>4
<1> QED BY <1>3, <1>5, <1>6 DEF W, P

(* The front and the back of a sequence cut at a place between entries.    *)
LEMMA CutConcat ==
  ASSUME NEW S, NEW X \in Seq(S), NEW Y \in Seq(S)
  PROVE  /\ SubSeq(X \o Y, 1, Len(X)) = X
         /\ SubSeq(X \o Y, Len(X) + 1, Len(X \o Y)) = Y
<1> DEFINE W == X \o Y
<1>0. Len(X) \in Nat /\ Len(Y) \in Nat
  OBVIOUS
<1>1. /\ W \in Seq(S)
      /\ Len(W) = Len(X) + Len(Y)
      /\ \A i \in 1 .. Len(X) + Len(Y) : W[i] = IF i <= Len(X) THEN X[i] ELSE Y[i - Len(X)]
  BY ConcatProperties
<1> HIDE DEF W
<1>2. SubSeq(W, 1, Len(X)) = X
  <2>1. /\ SubSeq(W, 1, Len(X)) \in Seq(S)
        /\ Len(SubSeq(W, 1, Len(X))) = Len(X)
        /\ \A i \in 1 .. Len(X) : SubSeq(W, 1, Len(X))[i] = W[i]
    BY <1>0, <1>1
  <2>2. \A i \in 1 .. Len(X) : W[i] = X[i]
    BY <1>0, <1>1
  <2> HIDE DEF W
  <2> QED BY <2>1, <2>2, SeqEqual
<1>3. SubSeq(W, Len(X) + 1, Len(W)) = Y
  <2> DEFINE B == SubSeq(W, Len(X) + 1, Len(W))
  <2>1. /\ B \in Seq(S)
        /\ Len(B) = Len(Y)
        /\ \A i \in 1 .. Len(Y) : B[i] = W[Len(X) + i]
    BY <1>0, <1>1
  <2>2. ASSUME NEW i \in 1 .. Len(Y) PROVE W[Len(X) + i] = Y[i]
    <3>1. /\ Len(X) + i \in 1 .. Len(X) + Len(Y)
          /\ ~ (Len(X) + i <= Len(X))
          /\ Len(X) + i - Len(X) = i
      BY <1>0
    <3> QED BY <3>1, <1>1
  <2> HIDE DEF B
  <2>3. B = Y
    BY <2>1, <2>2, SeqEqual
  <2> QED BY <2>3 DEF B
<1> QED BY <1>2, <1>3 DEF W

(* The front and the back of a sequence with an entry between them. *)
LEMMA CutBetween ==
  ASSUME NEW S, NEW X \in Seq(S), NEW Y \in Seq(S), NEW e \in S
  PROVE  /\ SubSeq((X \o <<e>>) \o Y, 1, Len(X)) = X
         /\ SubSeq((X \o <<e>>) \o Y, Len(X) + 2, Len((X \o <<e>>) \o Y)) = Y
<1> DEFINE P == X \o <<e>>
           W == P \o Y
<1>0. Len(X) \in Nat /\ <<e>> \in Seq(S) /\ Len(<<e>>) = 1
  OBVIOUS
<1>1. P \in Seq(S) /\ Len(P) + 1 = Len(X) + 2
  BY <1>0, ConcatProperties
<1>2. W = X \o (<<e>> \o Y)
  BY <1>0, ConcatAssociative
<1>3. <<e>> \o Y \in Seq(S)
  BY <1>0, ConcatProperties
<1>4. SubSeq(W, 1, Len(X)) = X
  BY <1>2, <1>3, CutConcat
<1> HIDE DEF P
<1>5. SubSeq(W, Len(P) + 1, Len(W)) = Y
  BY <1>1, CutConcat
<1> HIDE DEF W
<1>6. SubSeq(W, Len(X) + 2, Len(W)) = Y
  BY <1>1, <1>5
<1> QED BY <1>4, <1>6 DEF W, P

(* An entry enters the line where the entries as urgent as it is end. *)
LEMMA EntersAt ==
  ASSUME NEW ln, NEW k, NEW w, NEW X, NEW Y, NEW n \in 1 .. Len(ln) + 1,
         SubSeq(ln, 1, n - 1) = X, SubSeq(ln, n, Len(ln)) = Y,
         \A i \in DOMAIN ln : i < n <=> ln[i].work.priority >= w.priority
  PROVE  Line!Enters(ln, k, w, (X \o <<[key |-> k, work |-> w]>>) \o Y)
BY Zenon DEF Line!Enters, Line!InsertAt

(* An entry behind a front that is at least as urgent, before a back that  *)
(* is less urgent, has entered the line of the two.                        *)
LEMMA EntersBetween ==
  ASSUME NEW X \in Seq(Entry), NEW Y \in Seq(Entry), NEW k, NEW w,
         \A i \in 1 .. Len(X) : X[i].work.priority >= w.priority,
         \A i \in 1 .. Len(Y) : ~ (Y[i].work.priority >= w.priority)
  PROVE  Line!Enters(X \o Y, k, w, (X \o <<[key |-> k, work |-> w]>>) \o Y)
<1> DEFINE W == X \o Y
<1>0. Len(X) \in Nat /\ Len(Y) \in Nat
  OBVIOUS
<1>1. /\ W \in Seq(Entry)
      /\ Len(W) = Len(X) + Len(Y)
      /\ \A i \in 1 .. Len(X) + Len(Y) : W[i] = IF i <= Len(X) THEN X[i] ELSE Y[i - Len(X)]
  BY ConcatProperties
<1>2. SubSeq(W, 1, Len(X)) = X /\ SubSeq(W, Len(X) + 1, Len(W)) = Y
  BY CutConcat
<1> HIDE DEF W
<1>3. DOMAIN W = 1 .. Len(X) + Len(Y)
  BY <1>1
<1>4. PICK n \in 1 .. Len(W) + 1 : n = Len(X) + 1
  BY <1>0, <1>1
<1>5. ASSUME NEW i \in DOMAIN W
      PROVE  i < n <=> W[i].work.priority >= w.priority
  <2>1. CASE i <= Len(X)
    <3>1. i \in 1 .. Len(X) /\ i < n
      BY <1>0, <1>3, <1>4, <2>1
    <3> QED BY <3>1, <2>1, <1>1, <1>3
  <2>2. CASE ~ (i <= Len(X))
    <3>1. i - Len(X) \in 1 .. Len(Y) /\ ~ (i < n)
      BY <1>0, <1>3, <1>4, <2>2
    <3>2. W[i] = Y[i - Len(X)]
      BY <2>2, <1>1, <1>3
    <3> QED BY <3>1, <3>2
  <2> QED BY <2>1, <2>2
<1>6. SubSeq(W, 1, n - 1) = X /\ SubSeq(W, n, Len(W)) = Y
  <2>1. n - 1 = Len(X)
    BY <1>0, <1>4
  <2> QED BY <2>1, <1>2, <1>4
<1>7. Line!Enters(W, k, w, (X \o <<[key |-> k, work |-> w]>>) \o Y)
  BY <1>5, <1>6, EntersAt, Zenon
<1> QED BY <1>7 DEF W

(* Two sequences that differ in the entry between front and back. *)
LEMMA SwapBetween ==
  ASSUME NEW S, NEW X \in Seq(S), NEW Y \in Seq(S), NEW e \in S, NEW d \in S
  PROVE  \A i \in 1 .. Len((X \o <<e>>) \o Y) :
           ((X \o <<d>>) \o Y)[i] = IF i = Len(X) + 1 THEN d ELSE ((X \o <<e>>) \o Y)[i]
<1> DEFINE W == (X \o <<e>>) \o Y
           V == (X \o <<d>>) \o Y
           n == Len(X) + 1
<1>0. Len(X) \in Nat /\ Len(Y) \in Nat
  OBVIOUS
<1>1. /\ Len(W) = Len(X) + 1 + Len(Y)
      /\ \A i \in 1 .. Len(X) : W[i] = X[i]
      /\ \A i \in 1 .. Len(Y) : W[n + i] = Y[i]
  BY Between
<1>2. /\ \A i \in 1 .. Len(X) : V[i] = X[i]
      /\ V[n] = d
      /\ \A i \in 1 .. Len(Y) : V[n + i] = Y[i]
  BY Between
<1> HIDE DEF V, W
<1> SUFFICES ASSUME NEW i \in 1 .. Len(W) PROVE V[i] = IF i = n THEN d ELSE W[i]
  BY DEF V, W
<1>3. CASE i \in 1 .. Len(X)
  <2>1. i # n
    BY <1>0, <1>3
  <2> QED BY <2>1, <1>1, <1>2, <1>3
<1>4. CASE i = n
  BY <1>2, <1>4
<1>5. CASE i > n
  <2>1. i - n \in 1 .. Len(Y) /\ n + (i - n) = i /\ i # n
    BY <1>0, <1>1, <1>5
  <2> HIDE DEF n
  <2>2. W[i] = Y[i - n] /\ V[i] = Y[i - n]
    BY <2>1, <1>1, <1>2
  <2> QED BY <2>1, <2>2
<1>6. i \in 1 .. Len(X) \/ i = n \/ i > n
  BY <1>0, <1>1
<1> HIDE DEF n
<1> QED BY <1>3, <1>4, <1>5, <1>6

(* Giving one entry other work changes that entry only. *)
LEMMA ReviseAt ==
  ASSUME NEW ln \in Seq(Entry), NEW V \in Seq(Entry), Len(V) = Len(ln),
         NEW n \in 1 .. Len(ln), NEW w \in Item,
         \A i \in 1 .. Len(ln) : V[i] = IF i = n THEN [key |-> ln[n].key, work |-> w] ELSE ln[i]
  PROVE  [ln EXCEPT ![n].work = w] = V
<1> DEFINE d == [ln[n] EXCEPT !.work = w]
           R == [ln EXCEPT ![n] = d]
<1>1. ln[n] \in Entry
  OBVIOUS
<1>2. d = [key |-> ln[n].key, work |-> w] /\ d \in Entry
  BY <1>1 DEF Entry
<1>3. [ln EXCEPT ![n].work = w] = R
  OBVIOUS
<1> HIDE DEF d
<1>4. /\ R \in Seq(Entry)
      /\ Len(R) = Len(ln)
      /\ \A i \in 1 .. Len(ln) : R[i] = IF i = n THEN d ELSE ln[i]
  BY <1>2, ExceptSeq
<1> HIDE DEF R
<1>5. R = V
  BY <1>2, <1>4, SeqEqual
<1> QED BY <1>3, <1>5
-----------------------------------------------------------------------------
(* The whole line around one lane. *)

(* A lane's priority is one of three. *)
LEMMA ThreeLanes ==
  ASSUME NEW p \in Priorities
  PROVE  p = Live \/ p = ActiveCatchup \/ p = Archive
BY DEF Priorities, Archive, ActiveCatchup, Live

(* The three lanes are different lanes. *)
LEMMA LanesDiffer ==
  /\ Live \in Priorities /\ ActiveCatchup \in Priorities /\ Archive \in Priorities
  /\ Live # ActiveCatchup /\ Live # Archive /\ ActiveCatchup # Archive
BY DEF Priorities, Archive, ActiveCatchup, Live

(* Every lane is marked as a sequence of entries. *)
LEMMA MarkedLane ==
  ASSUME NEW idx \in Lanes, NEW pend \in Waits, NEW p \in Priorities
  PROVE  Marked(idx[p], pend) \in Seq(Entry)
<1>1. idx[p] \in Seq(Keys)
  BY DEF Lanes
<1> QED BY <1>1, MarkedSeq

(* The whole line is a lane with what stands before and behind it. *)
LEMMA WholeSplits ==
  ASSUME NEW idx \in Lanes, NEW pend \in Waits, NEW p \in Priorities
  PROVE  /\ Above(idx, pend, p) \in Seq(Entry)
         /\ Below(idx, pend, p) \in Seq(Entry)
         /\ Whole(idx, pend)
            = (Above(idx, pend, p) \o Marked(idx[p], pend)) \o Below(idx, pend, p)
<1> DEFINE a == Marked(idx[Live], pend)
           b == Marked(idx[ActiveCatchup], pend)
           c == Marked(idx[Archive], pend)
<1>1. a \in Seq(Entry) /\ b \in Seq(Entry) /\ c \in Seq(Entry)
  BY MarkedLane, LanesDiffer
<1>2. Whole(idx, pend) = (a \o b) \o c
  BY DEF Whole
<1>3. CASE p = Live
  <2>1. Above(idx, pend, p) = <<>> /\ Below(idx, pend, p) = b \o c /\ Marked(idx[p], pend) = a
    BY <1>3, LanesDiffer DEF Above, Below
  <2> HIDE DEF a, b, c
  <2>2. <<>> \in Seq(Entry) /\ b \o c \in Seq(Entry)
    BY <1>1, ConcatProperties
  <2>3. (a \o b) \o c = a \o (b \o c)
    BY <1>1, ConcatAssociative
  <2>4. <<>> \o a = a
    BY <1>1, ConcatEmptySeq
  <2> QED BY <1>2, <2>1, <2>2, <2>3, <2>4
<1>4. CASE p = ActiveCatchup
  <2>1. Above(idx, pend, p) = a /\ Below(idx, pend, p) = c /\ Marked(idx[p], pend) = b
    BY <1>4, LanesDiffer DEF Above, Below
  <2> QED BY <1>1, <1>2, <2>1
<1>5. CASE p = Archive
  <2>1. Above(idx, pend, p) = a \o b /\ Below(idx, pend, p) = <<>> /\ Marked(idx[p], pend) = c
    BY <1>5, LanesDiffer DEF Above, Below
  <2> HIDE DEF a, b, c
  <2>2. <<>> \in Seq(Entry) /\ a \o b \in Seq(Entry)
    BY <1>1, ConcatProperties
  <2>3. (a \o b) \o c \in Seq(Entry)
    BY <1>1, <2>2, ConcatProperties
  <2>4. ((a \o b) \o c) \o <<>> = (a \o b) \o c
    BY <2>3, ConcatEmptySeq
  <2> QED BY <1>2, <2>1, <2>2, <2>4
<1> QED BY <1>3, <1>4, <1>5, ThreeLanes

(* A change of one lane, and of the items of its keys, leaves what stands  *)
(* before and behind it alone.                                             *)
LEMMA AroundIsKept ==
  ASSUME NEW idx \in Lanes, NEW new \in Lanes, NEW pend \in Waits, NEW after \in Waits,
         NEW p \in Priorities,
         \A q \in Priorities : q # p =>
           Marked(new[q], after) = Marked(idx[q], pend)
  PROVE  /\ Above(new, after, p) = Above(idx, pend, p)
         /\ Below(new, after, p) = Below(idx, pend, p)
<1>1. CASE p = Live
  BY <1>1, LanesDiffer DEF Above, Below
<1>2. CASE p = ActiveCatchup
  BY <1>2, LanesDiffer DEF Above, Below
<1>3. CASE p = Archive
  BY <1>3, LanesDiffer DEF Above, Below
<1> QED BY <1>1, <1>2, <1>3, ThreeLanes

(* Each lane holds entries of its own priority. *)
LEMMA MarkedPriority ==
  ASSUME NEW idx \in Lanes, NEW pend \in Waits, Describes(idx, pend), NEW p \in Priorities,
         NEW i \in 1 .. Len(Marked(idx[p], pend))
  PROVE  Marked(idx[p], pend)[i].work.priority = p
<1>1. idx[p] \in Seq(Keys)
  BY DEF Lanes
<1>2. i \in DOMAIN idx[p] /\ Marked(idx[p], pend)[i] = [key |-> idx[p][i], work |-> pend[idx[p][i]]]
  BY <1>1, MarkedSeq
<1>3. pend[idx[p][i]].priority = p
  BY <1>2 DEF Describes
<1> QED BY <1>2, <1>3

(* Two sequences of one kind of entry make a sequence of that kind. *)
LEMMA ConcatOf ==
  ASSUME NEW S, NEW X \in Seq(S), NEW Y \in Seq(S), NEW T,
         \A i \in 1 .. Len(X) : X[i] \in T,
         \A i \in 1 .. Len(Y) : Y[i] \in T
  PROVE  \A i \in 1 .. Len(X \o Y) : (X \o Y)[i] \in T
<1>0. Len(X) \in Nat /\ Len(Y) \in Nat
  OBVIOUS
<1>1. /\ Len(X \o Y) = Len(X) + Len(Y)
      /\ \A i \in 1 .. Len(X) + Len(Y) : (X \o Y)[i] = IF i <= Len(X) THEN X[i] ELSE Y[i - Len(X)]
  BY ConcatProperties
<1> SUFFICES ASSUME NEW i \in 1 .. Len(X) + Len(Y) PROVE (X \o Y)[i] \in T
  BY <1>1
<1>2. CASE i <= Len(X)
  <2>1. i \in 1 .. Len(X) /\ (X \o Y)[i] = X[i]
    BY <1>0, <1>1, <1>2
  <2> QED BY <2>1
<1>3. CASE ~ (i <= Len(X))
  <2>1. i - Len(X) \in 1 .. Len(Y) /\ (X \o Y)[i] = Y[i - Len(X)]
    BY <1>0, <1>1, <1>3
  <2> QED BY <2>1
<1> QED BY <1>2, <1>3

(* Entries more, and less, urgent than a lane. *)
Urgent(p)  == {e \in Entry : e.work.priority \in Priorities /\ e.work.priority > p}
Patient(p) == {e \in Entry : e.work.priority \in Priorities /\ e.work.priority < p}

(* The line is sorted: before a lane stands what is more urgent, behind it *)
(* what is less urgent.                                                    *)
LEMMA AroundIsSorted ==
  ASSUME NEW idx \in Lanes, NEW pend \in Waits, Describes(idx, pend), NEW p \in Priorities
  PROVE  /\ \A i \in 1 .. Len(Above(idx, pend, p)) : Above(idx, pend, p)[i] \in Urgent(p)
         /\ \A i \in 1 .. Len(Below(idx, pend, p)) : Below(idx, pend, p)[i] \in Patient(p)
<1> DEFINE lane(q) == Marked(idx[q], pend)
<1>1. \A q \in Priorities : lane(q) \in Seq(Entry)
  BY MarkedLane
<1>2. ASSUME NEW q \in Priorities
      PROVE  \A i \in 1 .. Len(lane(q)) : lane(q)[i] \in Entry /\ lane(q)[i].work.priority = q
  <2> SUFFICES ASSUME NEW i \in 1 .. Len(lane(q))
               PROVE  lane(q)[i] \in Entry /\ lane(q)[i].work.priority = q
    OBVIOUS
  <2>1. lane(q)[i].work.priority = q
    BY MarkedPriority
  <2>2. lane(q) \in Seq(Entry)
    BY <1>1
  <2> HIDE DEF lane
  <2> QED BY <2>1, <2>2
<1>3. /\ lane(Live) \in Seq(Entry) /\ lane(ActiveCatchup) \in Seq(Entry)
      /\ lane(Archive) \in Seq(Entry)
  BY <1>1, LanesDiffer
<1> HIDE DEF lane
<1>4. ASSUME NEW q \in Priorities, NEW r \in Priorities, q > r
      PROVE  /\ \A i \in 1 .. Len(lane(q)) : lane(q)[i] \in Urgent(r)
             /\ \A i \in 1 .. Len(lane(r)) : lane(r)[i] \in Patient(q)
  <2>1. \A i \in 1 .. Len(lane(q)) : lane(q)[i] \in Urgent(r)
    BY <1>2, <1>4 DEF Urgent
  <2>2. r < q
    BY <1>4 DEF Priorities, Archive, Live
  <2>3. \A i \in 1 .. Len(lane(r)) : lane(r)[i] \in Patient(q)
    BY <1>2, <2>2 DEF Patient
  <2> QED BY <2>1, <2>3
<1>5. Live > ActiveCatchup /\ Live > Archive /\ ActiveCatchup > Archive
  BY DEF Live, ActiveCatchup, Archive
<1>6. CASE p = Live
  <2>1. Above(idx, pend, p) = <<>> /\ Below(idx, pend, p) = lane(ActiveCatchup) \o lane(Archive)
    BY <1>6, LanesDiffer DEF Above, Below, lane
  <2>2. \A i \in 1 .. Len(Below(idx, pend, p)) : Below(idx, pend, p)[i] \in Patient(p)
    BY <1>3, <1>4, <1>5, <1>6, <2>1, LanesDiffer, ConcatOf
  <2> QED BY <2>1, <2>2
<1>7. CASE p = ActiveCatchup
  <2>1. Above(idx, pend, p) = lane(Live) /\ Below(idx, pend, p) = lane(Archive)
    BY <1>7, LanesDiffer DEF Above, Below, lane
  <2> QED BY <1>4, <1>5, <1>7, <2>1, LanesDiffer
<1>8. CASE p = Archive
  <2>1. Above(idx, pend, p) = lane(Live) \o lane(ActiveCatchup) /\ Below(idx, pend, p) = <<>>
    BY <1>8, LanesDiffer DEF Above, Below, lane
  <2>2. \A i \in 1 .. Len(Above(idx, pend, p)) : Above(idx, pend, p)[i] \in Urgent(p)
    BY <1>3, <1>4, <1>5, <1>8, <2>1, LanesDiffer, ConcatOf
  <2> QED BY <2>1, <2>2
<1> QED BY <1>6, <1>7, <1>8, ThreeLanes
-----------------------------------------------------------------------------
(* The steps of the line. *)

(* A key's own lane, cut where the key stands. *)
LEMMA LaneOfKey ==
  ASSUME NEW lane \in Seq(Keys), NEW k,
         \A i, j \in DOMAIN lane : lane[i] = lane[j] => i = j,
         \E i \in DOMAIN lane : lane[i] = k
  PROVE  \E L, R \in Seq(Keys) :
           /\ lane = (L \o <<k>>) \o R
           /\ Without(lane, k) = L \o R
           /\ \A i \in DOMAIN L : L[i] # k
           /\ \A i \in DOMAIN R : R[i] # k
<1> DEFINE m == CHOOSE i \in DOMAIN lane : lane[i] = k
           L == SubSeq(lane, 1, m - 1)
           R == SubSeq(lane, m + 1, Len(lane))
<1>1. m \in 1 .. Len(lane) /\ lane[m] = k /\ k \in Keys
  OBVIOUS
<1>2. Without(lane, k) = L \o R
  BY DEF Without
<1> HIDE DEF m
<1>3. Len(lane) \in Nat /\ DOMAIN lane = 1 .. Len(lane)
  OBVIOUS
<1>4. L \in Seq(Keys) /\ Len(L) = m - 1 /\ \A i \in 1 .. m - 1 : L[i] = lane[i]
  BY <1>1
<1>5. R \in Seq(Keys) /\ Len(R) = Len(lane) - m /\ \A i \in 1 .. Len(lane) - m : R[i] = lane[i + m]
  BY <1>1
<1>6. L \o <<k>> = SubSeq(lane, 1, m)
  <2>1. 1 \in 1 .. Len(lane) /\ m \in 1 .. Len(lane)
    BY <1>1, <1>3
  <2>2. SubSeq(lane, 1, m) = SubSeq(lane, 1, m - 1) \o <<lane[m]>>
    BY <2>1, SubSeqRecursiveSecond
  <2> QED BY <2>2, <1>1
<1>7. SubSeq(lane, 1, m) \o R = lane
  <2>1. /\ 1 \in 1 .. Len(lane) + 1
        /\ m \in 1 - 1 .. Len(lane)
        /\ Len(lane) \in m .. Len(lane)
    BY <1>1, <1>3
  <2>2. SubSeq(lane, 1, m) \o SubSeq(lane, m + 1, Len(lane)) = SubSeq(lane, 1, Len(lane))
    BY <2>1, ConcatAdjacentSubSeq
  <2> QED BY <2>2, SubSeqFull
<1>8. \A i \in DOMAIN L : L[i] # k
  <2> SUFFICES ASSUME NEW i \in DOMAIN L, L[i] = k PROVE FALSE
    OBVIOUS
  <2>1. i \in 1 .. m - 1
    BY <1>4
  <2>2. lane[i] = lane[m] /\ i \in DOMAIN lane /\ m \in DOMAIN lane /\ i # m
    BY <2>1, <1>1, <1>3, <1>4
  <2> QED BY <2>2
<1>9. \A i \in DOMAIN R : R[i] # k
  <2> SUFFICES ASSUME NEW i \in DOMAIN R, R[i] = k PROVE FALSE
    OBVIOUS
  <2>1. i \in 1 .. Len(lane) - m
    BY <1>5
  <2>2. i + m \in DOMAIN lane /\ m \in DOMAIN lane /\ i + m # m
    BY <2>1, <1>1, <1>3
  <2>3. lane[i + m] = lane[m]
    BY <2>1, <1>1, <1>5
  <2> QED BY <2>2, <2>3
<1> HIDE DEF L, R
<1> QED BY <1>2, <1>4, <1>5, <1>6, <1>7, <1>8, <1>9

(* Concatenation of entries is associative. *)
LEMMA Regroup == \A s, t, u \in Seq(Entry) : s \o (t \o u) = (s \o t) \o u
OBVIOUS

(* A lane without k looks the same when k's item changes. *)
LEMMA MarkedWithout ==
  ASSUME NEW lane \in Seq(Keys), NEW pend \in Waits, NEW k \in Keys, NEW item,
         \A i \in DOMAIN lane : lane[i] # k
  PROVE  Marked(lane, [pend EXCEPT ![k] = item]) = Marked(lane, pend)
<1> DEFINE new == [pend EXCEPT ![k] = item]
<1>1. \A j \in Keys : j # k => new[j] = pend[j]
  BY DEF Waits
<1>2. \A i \in DOMAIN lane : lane[i] \in Keys
  OBVIOUS
<1> HIDE DEF new
<1>3. \A i \in DOMAIN lane : new[lane[i]] = pend[lane[i]]
  BY <1>1, <1>2
<1>4. Marked(lane, new) = Marked(lane, pend)
  BY <1>3, MarkedSame
<1> QED BY <1>4 DEF new

(* A key that did not wait enters the line by joining its lane. *)
LEMMA JoinEnters ==
  ASSUME NEW idx \in Lanes, NEW pend \in Waits, Describes(idx, pend),
         NEW k \in Keys, pend[k] = None, NEW item \in Item
  PROVE  Line!Enters(Whole(idx, pend), k, item,
                     Whole(Joined(idx, k, item.priority), [pend EXCEPT ![k] = item]))
<1> DEFINE p == item.priority
           J == Joined(idx, k, p)
           new == [pend EXCEPT ![k] = item]
           A == Above(idx, pend, p)
           B == Below(idx, pend, p)
           L == Marked(idx[p], pend)
           e == [key |-> k, work |-> item]
<1>1. p \in Priorities
  BY DEF Item
<1>2. new \in Waits /\ new[k] = item /\ e \in Entry
  BY DEF Waits, Entry
<1>3. J \in Lanes
  BY DescribesJoin
<1>4. \A q \in Priorities : \A i \in DOMAIN idx[q] : idx[q][i] # k
  BY DEF Describes
<1>5. ASSUME NEW q \in Priorities
      PROVE  Marked(idx[q], new) = Marked(idx[q], pend)
  <2>1. idx[q] \in Seq(Keys)
    BY DEF Lanes
  <2> QED BY <2>1, <1>4, MarkedWithout
<1>6. J[p] = idx[p] \o <<k>> /\ \A q \in Priorities : q # p => J[q] = idx[q]
  <2>1. idx[p] \in Seq(Keys)
    BY <1>1 DEF Lanes
  <2>2. Append(idx[p], k) = idx[p] \o <<k>>
    BY <2>1, AppendIsConcat
  <2>3. J[p] = Append(idx[p], k) /\ \A q \in Priorities : q # p => J[q] = idx[q]
    BY <1>1 DEF Joined, Lanes
  <2> QED BY <2>2, <2>3
<1> HIDE DEF new, p, J
<1>7. Marked(J[p], new) = L \o <<e>>
  <2>1. idx[p] \in Seq(Keys) /\ <<k>> \in Seq(Keys)
    BY <1>1 DEF Lanes
  <2>2. Marked(idx[p] \o <<k>>, new) = Marked(idx[p], new) \o Marked(<<k>>, new)
    BY <2>1, <1>2, MarkedConcat
  <2>3. Marked(<<k>>, new) = <<e>>
    BY <1>2, MarkedOne
  <2> QED BY <2>2, <2>3, <1>1, <1>5, <1>6
<1>8. Above(J, new, p) = A /\ Below(J, new, p) = B
  BY <1>1, <1>2, <1>3, <1>5, <1>6, AroundIsKept
<1>9. /\ A \in Seq(Entry) /\ B \in Seq(Entry) /\ L \in Seq(Entry)
      /\ Whole(idx, pend) = (A \o L) \o B
  BY <1>1, WholeSplits, MarkedLane
<1>10. Whole(J, new) = (A \o (L \o <<e>>)) \o B
  BY <1>1, <1>2, <1>3, <1>7, <1>8, WholeSplits
<1>11. \A i \in 1 .. Len(A \o L) : (A \o L)[i].work.priority >= item.priority
  <2> DEFINE T == {x \in Entry : x.work.priority >= p}
  <2>1. \A i \in 1 .. Len(A) : A[i] \in T
    <3>1. \A i \in 1 .. Len(A) : A[i] \in Urgent(p)
      BY <1>1, AroundIsSorted
    <3>2. Urgent(p) \subseteq T
      BY <1>1 DEF Urgent, Priorities, Archive, Live
    <3> HIDE DEF T
    <3> QED BY <3>1, <3>2
  <2>2. \A i \in 1 .. Len(L) : L[i] \in T
    <3>1. \A i \in 1 .. Len(L) : L[i].work.priority = p
      BY <1>1, MarkedPriority
    <3>2. \A i \in 1 .. Len(L) : L[i] \in Entry
      BY <1>9
    <3>3. p >= p
      BY <1>1 DEF Priorities, Archive, Live
    <3> HIDE DEF L
    <3> QED BY <3>1, <3>2, <3>3
  <2> HIDE DEF T, A, L
  <2>3. \A i \in 1 .. Len(A \o L) : (A \o L)[i] \in T
    BY <1>9, <2>1, <2>2, ConcatOf
  <2> QED BY <2>3 DEF T, p
<1>12. \A i \in 1 .. Len(B) : ~ (B[i].work.priority >= item.priority)
  <2>1. \A i \in 1 .. Len(B) : B[i] \in Patient(p)
    BY <1>1, AroundIsSorted
  <2>2. \A x \in Patient(p) : ~ (x.work.priority >= p)
    BY <1>1 DEF Patient, Priorities, Archive, Live
  <2> HIDE DEF B
  <2> QED BY <2>1, <2>2 DEF p
<1> HIDE DEF A, B, L
<1>13. A \o L \in Seq(Entry) /\ (A \o (L \o <<e>>)) \o B = ((A \o L) \o <<e>>) \o B
  <2>1. <<e>> \in Seq(Entry)
    BY <1>2
  <2> QED BY <2>1, <1>9, ConcatProperties, ConcatAssociative
<1>14. Line!Enters((A \o L) \o B, k, item, ((A \o L) \o <<e>>) \o B)
  BY <1>9, <1>11, <1>12, <1>13, EntersBetween, Zenon
<1>15. Line!Enters(Whole(idx, pend), k, item, Whole(J, new))
  BY <1>9, <1>10, <1>13, <1>14, Zenon
<1> QED BY <1>15, Zenon DEF J, new, p
(* The line around a waiting key: what it becomes when the key's item      *)
(* changes in place, and what is left when the key leaves its lane.        *)
LEMMA WholeAtKey ==
  ASSUME NEW idx \in Lanes, NEW pend \in Waits, Describes(idx, pend),
         NEW k \in Keys, pend[k] # None
  PROVE  \E X, Y \in Seq(Entry) :
           /\ Whole(idx, pend) = (X \o <<[key |-> k, work |-> pend[k]]>>) \o Y
           /\ \A item \in Item : Whole(idx, [pend EXCEPT ![k] = item])
                                 = (X \o <<[key |-> k, work |-> item]>>) \o Y
           /\ Whole([idx EXCEPT ![pend[k].priority] = Without(@, k)],
                    [pend EXCEPT ![k] = None]) = X \o Y
<1> DEFINE p == pend[k].priority
           lane == idx[p]
           A == Above(idx, pend, p)
           B == Below(idx, pend, p)
           e(item) == [key |-> k, work |-> item]
<1>1. p \in Priorities /\ pend[k] \in Item
  BY DEF Waits, Item
<1> HIDE DEF p
<1>2. /\ lane \in Seq(Keys)
      /\ \A i, j \in DOMAIN lane : lane[i] = lane[j] => i = j
      /\ \E i \in DOMAIN lane : lane[i] = k
      /\ \A q \in Priorities : q # p => \A i \in DOMAIN idx[q] : idx[q][i] # k
  BY <1>1 DEF Lanes, Describes, Distinct, p
<1>3. PICK L \in Seq(Keys), R \in Seq(Keys) :
           /\ lane = (L \o <<k>>) \o R
           /\ Without(lane, k) = L \o R
           /\ \A i \in DOMAIN L : L[i] # k
           /\ \A i \in DOMAIN R : R[i] # k
  BY <1>2, LaneOfKey
<1> DEFINE ML == Marked(L, pend)
           MR == Marked(R, pend)
<1>4. A \in Seq(Entry) /\ B \in Seq(Entry) /\ ML \in Seq(Entry) /\ MR \in Seq(Entry)
  BY <1>1, WholeSplits, MarkedSeq
<1>5. <<k>> \in Seq(Keys) /\ L \o <<k>> \in Seq(Keys)
  <2>1. <<k>> \in Seq(Keys)
    OBVIOUS
  <2> QED BY <2>1, ConcatProperties
<1>6. ASSUME NEW item \in Item \cup {None}
      PROVE  LET new == [pend EXCEPT ![k] = item]
             IN  /\ new \in Waits
                 /\ Marked(L, new) = ML
                 /\ Marked(R, new) = MR
                 /\ Marked(lane, new) = (ML \o <<e(item)>>) \o MR
                 /\ \A q \in Priorities : q # p => Marked(idx[q], new) = Marked(idx[q], pend)
  <2> DEFINE new == [pend EXCEPT ![k] = item]
  <2>1. new \in Waits /\ new[k] = item
    BY DEF Waits
  <2>2. Marked(L, new) = ML /\ Marked(R, new) = MR
    BY <1>3, MarkedWithout
  <2>3. ASSUME NEW q \in Priorities, q # p
        PROVE  Marked(idx[q], new) = Marked(idx[q], pend)
    <3>1. idx[q] \in Seq(Keys)
      BY DEF Lanes
    <3> QED BY <3>1, <2>3, <1>2, MarkedWithout
  <2> HIDE DEF new
  <2>4. Marked(lane, new) = Marked(L \o <<k>>, new) \o Marked(R, new)
    <3>1. Marked((L \o <<k>>) \o R, new) = Marked(L \o <<k>>, new) \o Marked(R, new)
      BY <1>5, <2>1, MarkedConcat
    <3> QED BY <3>1, <1>3, Zenon
  <2>5. Marked(L \o <<k>>, new) = Marked(L, new) \o Marked(<<k>>, new)
    BY <1>5, <2>1, MarkedConcat
  <2>6. Marked(<<k>>, new) = <<e(item)>>
    BY <2>1, MarkedOne
  <2> QED BY <2>1, <2>2, <2>3, <2>4, <2>5, <2>6, Zenon DEF new
<1>7. \A item : item \in Item \cup {None} => <<e(item)>> \in Seq(Entry)
  BY DEF Entry
<1>8. ASSUME NEW item \in Item \cup {None}
      PROVE  Whole(idx, [pend EXCEPT ![k] = item]) = ((A \o ML) \o <<e(item)>>) \o (MR \o B)
  <2> DEFINE new == [pend EXCEPT ![k] = item]
  <2>1. /\ new \in Waits
        /\ Marked(lane, new) = (ML \o <<e(item)>>) \o MR
        /\ \A q \in Priorities : q # p => Marked(idx[q], new) = Marked(idx[q], pend)
    BY <1>6
  <2> HIDE DEF new, ML, MR, A, B
  <2>2. Above(idx, new, p) = Above(idx, pend, p) /\ Below(idx, new, p) = Below(idx, pend, p)
    BY <1>1, <2>1, AroundIsKept
  <2>3. Whole(idx, new) = (A \o ((ML \o <<e(item)>>) \o MR)) \o B
    BY <1>1, <2>1, <2>2, WholeSplits DEF A, B
  <2>4. (A \o ((ML \o <<e(item)>>) \o MR)) \o B = ((A \o ML) \o <<e(item)>>) \o (MR \o B)
    <3> DEFINE M == <<e(item)>>
    <3>1. M \in Seq(Entry)
      BY <1>7
    <3> HIDE DEF M
    <3>2. /\ A \o ML \in Seq(Entry)
          /\ ML \o M \in Seq(Entry)
          /\ (A \o ML) \o M \in Seq(Entry)
      BY <1>4, <3>1, ConcatProperties
    <3>3. A \o ((ML \o M) \o MR) = (A \o (ML \o M)) \o MR
      <4>1. PICK C \in Seq(Entry) : C = ML \o M
        BY <3>2
      <4>2. A \o (C \o MR) = (A \o C) \o MR
        BY <1>4, Regroup, Zenon
      <4> QED BY <4>1, <4>2, Zenon
    <3>4. A \o (ML \o M) = (A \o ML) \o M
      BY <1>4, <3>1, Regroup, Zenon
    <3>5. (((A \o ML) \o M) \o MR) \o B = ((A \o ML) \o M) \o (MR \o B)
      <4>1. PICK C \in Seq(Entry) : C = (A \o ML) \o M
        BY <3>2
      <4>2. (C \o MR) \o B = C \o (MR \o B)
        BY <1>4, Regroup, Zenon
      <4> QED BY <4>1, <4>2, Zenon
    <3>6. (A \o ((ML \o M) \o MR)) \o B = ((A \o ML) \o M) \o (MR \o B)
      BY <3>3, <3>4, <3>5, Zenon
    <3> QED BY <3>6 DEF M
  <2>5. Whole(idx, new) = ((A \o ML) \o <<e(item)>>) \o (MR \o B)
    BY <2>3, <2>4
  <2> QED BY <2>5 DEF new
<1>9. Whole([idx EXCEPT ![p] = Without(@, k)], [pend EXCEPT ![k] = None])
      = (A \o ML) \o (MR \o B)
  <2> DEFINE new == [pend EXCEPT ![k] = None]
             T == [idx EXCEPT ![p] = Without(@, k)]
  <2>1. T \in Lanes
    BY DescribesDrop DEF p
  <2>2. T[p] = L \o R /\ \A q \in Priorities : q # p => T[q] = idx[q]
    BY <1>1, <1>3 DEF Lanes
  <2>3. /\ new \in Waits
        /\ Marked(L, new) = ML
        /\ Marked(R, new) = MR
        /\ \A q \in Priorities : q # p => Marked(idx[q], new) = Marked(idx[q], pend)
    BY <1>6
  <2> HIDE DEF new, T, ML, MR, A, B
  <2>4. Marked(T[p], new) = ML \o MR
    BY <2>2, <2>3, MarkedConcat
  <2>5. Above(T, new, p) = A /\ Below(T, new, p) = B
    <3>1. \A q \in Priorities : q # p => Marked(T[q], new) = Marked(idx[q], pend)
      BY <2>2, <2>3
    <3> QED BY <1>1, <2>1, <2>3, <3>1, AroundIsKept DEF A, B
  <2>6. Whole(T, new) = (A \o (ML \o MR)) \o B
    BY <1>1, <2>1, <2>3, <2>4, <2>5, WholeSplits
  <2>7. (A \o (ML \o MR)) \o B = (A \o ML) \o (MR \o B)
    <3>1. A \o ML \in Seq(Entry)
      BY <1>4, ConcatProperties
    <3>2. A \o (ML \o MR) = (A \o ML) \o MR
      BY <1>4, Regroup, Zenon
    <3>3. ((A \o ML) \o MR) \o B = (A \o ML) \o (MR \o B)
      BY <1>4, <3>1, Regroup, Zenon
    <3> QED BY <3>2, <3>3, Zenon
  <2>8. Whole(T, new) = (A \o ML) \o (MR \o B)
    BY <2>6, <2>7
  <2> QED BY <2>8 DEF T, new
<1>10. Whole(idx, pend) = ((A \o ML) \o <<e(pend[k])>>) \o (MR \o B)
  <2>1. [pend EXCEPT ![k] = pend[k]] = pend
    BY DEF Waits
  <2> HIDE DEF ML, MR, A, B, e
  <2> QED BY <1>1, <1>8, <2>1
<1>11. A \o ML \in Seq(Entry) /\ MR \o B \in Seq(Entry)
  BY <1>4, ConcatProperties
<1> HIDE DEF A, B, ML, MR
<1>12. \A item \in Item : Whole(idx, [pend EXCEPT ![k] = item])
                          = ((A \o ML) \o <<e(item)>>) \o (MR \o B)
  BY <1>8
<1> QED BY <1>9, <1>10, <1>11, <1>12, Zenon DEF p

(* The most urgent lane's head is the head of the line. *)
LEMMA WholeAtHead ==
  ASSUME NEW idx \in Lanes, NEW pend \in Waits, Describes(idx, pend),
         NEW p \in Priorities, idx[p] # <<>>, 1 \in DOMAIN idx[p],
         \A q \in Priorities : q > p => idx[q] = <<>>
  PROVE  \E Y \in Seq(Entry) :
           /\ Whole(idx, pend) = <<[key |-> idx[p][1], work |-> pend[idx[p][1]]]>> \o Y
           /\ Whole([idx EXCEPT ![p] = Tail(@)], [pend EXCEPT ![idx[p][1]] = None]) = Y
<1> DEFINE k == idx[p][1]
           e == [key |-> k, work |-> pend[k]]
           R == Tail(idx[p])
           T == [idx EXCEPT ![p] = R]
           new == [pend EXCEPT ![k] = None]
           A == Above(idx, pend, p)
           B == Below(idx, pend, p)
           MR == Marked(R, pend)
<1>1. idx[p] \in Seq(Keys) /\ k \in Keys
  BY EntryIsKey DEF Lanes
<1>2. R \in Seq(Keys) /\ idx[p] = <<k>> \o R
  <2> DEFINE s == idx[p]
  <2>1. s \in Seq(Keys) /\ s # <<>>
    BY <1>1
  <2> HIDE DEF s
  <2>2. Tail(s) \in Seq(Keys) /\ s = <<s[1]>> \o Tail(s)
    BY <2>1
  <2> QED BY <2>2 DEF s
<1>3. new \in Waits
  BY <1>1 DEF Waits
<1>4. /\ T \in Lanes
      /\ Absent(T, k)
  BY TailLane DEF Describes
<1>5. T[p] = R /\ \A q \in Priorities : q # p => T[q] = idx[q]
  BY DEF Lanes, T
<1> HIDE DEF R, T
<1>6. \A q \in Priorities : Marked(T[q], new) = Marked(T[q], pend)
  <2> SUFFICES ASSUME NEW q \in Priorities PROVE Marked(T[q], new) = Marked(T[q], pend)
    OBVIOUS
  <2>1. T[q] \in Seq(Keys) /\ \A i \in DOMAIN T[q] : T[q][i] # k
    BY <1>4 DEF Lanes, Absent
  <2> QED BY <2>1, <1>1, MarkedWithout
<1>7. Marked(T[p], new) = MR
  BY <1>5, <1>6
<1> HIDE DEF new, k
<1>8. Marked(idx[p], pend) = <<e>> \o MR /\ MR \in Seq(Entry) /\ <<e>> \in Seq(Entry)
  <2>1. <<k>> \in Seq(Keys)
    BY <1>1
  <2>2. Marked(<<k>> \o R, pend) = Marked(<<k>>, pend) \o MR
    BY <1>2, <2>1, MarkedConcat
  <2>3. Marked(<<k>>, pend) = <<e>>
    BY <1>1, MarkedOne
  <2>4. Marked(<<k>>, pend) \in Seq(Entry) /\ MR \in Seq(Entry)
    BY <1>2, <2>1, MarkedSeq
  <2> QED BY <1>2, <2>2, <2>3, <2>4
<1>9. Above(T, new, p) = A /\ Below(T, new, p) = B
  BY <1>3, <1>4, <1>5, <1>6, AroundIsKept
<1>10. A = <<>>
  <2>1. \A s : s = <<>> => Marked(s, pend) = <<>>
    BY DEF Marked
  <2>2. <<>> \o <<>> = <<>>
    OBVIOUS
  <2>3. CASE p = Live
    BY <2>3 DEF Above
  <2>4. CASE p = ActiveCatchup
    <3>1. Live > p
      BY <2>4 DEF Live, ActiveCatchup
    <3> QED BY <3>1, <2>1, <2>4, LanesDiffer DEF Above
  <2>5. CASE p = Archive
    <3>1. Live > p /\ ActiveCatchup > p
      BY <2>5 DEF Live, ActiveCatchup, Archive
    <3>2. idx[Live] = <<>> /\ idx[ActiveCatchup] = <<>>
      BY <3>1, LanesDiffer
    <3>3. Marked(idx[Live], pend) = <<>> /\ Marked(idx[ActiveCatchup], pend) = <<>>
      BY <2>1, <3>2
    <3> QED BY <2>2, <2>5, <3>3, LanesDiffer DEF Above
  <2> QED BY <2>3, <2>4, <2>5, ThreeLanes
<1>11. B \in Seq(Entry)
  BY WholeSplits
<1>12. Whole(idx, pend) = (A \o (<<e>> \o MR)) \o B
  BY <1>8, WholeSplits
<1>13. Whole(T, new) = (A \o MR) \o B
  BY <1>3, <1>4, <1>7, <1>9, WholeSplits
<1> HIDE DEF A, B, MR, e
<1>14. <<>> \o MR = MR /\ <<>> \o (<<e>> \o MR) = <<e>> \o MR
  BY <1>8, ConcatEmptySeq, ConcatProperties
<1>15. (<<e>> \o MR) \o B = <<e>> \o (MR \o B) /\ MR \o B \in Seq(Entry)
  BY <1>8, <1>11, ConcatAssociative, ConcatProperties
<1>16. Whole(idx, pend) = <<e>> \o (MR \o B) /\ Whole(T, new) = MR \o B
  BY <1>10, <1>12, <1>13, <1>14, <1>15
<1> QED BY <1>15, <1>16, Zenon DEF e, k, T, R, new
(* Only waiting keys stand in the line. *)
LEMMA WholeHoldsWaiting ==
  ASSUME NEW idx \in Lanes, NEW pend \in Waits, Describes(idx, pend)
  PROVE  /\ Whole(idx, pend) \in Seq(Entry)
         /\ \A i \in 1 .. Len(Whole(idx, pend)) : Whole(idx, pend)[i].key \in Held(pend)
<1> DEFINE T == {e \in Entry : e.key \in Held(pend)}
           lane(q) == Marked(idx[q], pend)
<1>1. ASSUME NEW q \in Priorities
      PROVE  lane(q) \in Seq(Entry) /\ \A i \in 1 .. Len(lane(q)) : lane(q)[i] \in T
  <2>1. idx[q] \in Seq(Keys)
    BY DEF Lanes
  <2>2. /\ lane(q) \in Seq(Entry)
        /\ Len(lane(q)) = Len(idx[q])
        /\ \A i \in 1 .. Len(idx[q]) : lane(q)[i] = [key |-> idx[q][i], work |-> pend[idx[q][i]]]
    BY <2>1, MarkedSeq
  <2> SUFFICES ASSUME NEW i \in 1 .. Len(lane(q)) PROVE lane(q)[i] \in T
    BY <2>2
  <2>3. i \in DOMAIN idx[q] /\ idx[q][i] \in Keys
    BY <2>1, <2>2
  <2>4. idx[q][i] \in Held(pend)
    BY <2>3 DEF Held, Describes
  <2>5. lane(q)[i] \in Entry
    <3> HIDE DEF lane
    <3> QED BY <2>2
  <2>6. lane(q)[i].key = idx[q][i]
    <3> HIDE DEF lane
    <3>1. i \in 1 .. Len(idx[q])
      BY <2>2
    <3>2. lane(q)[i] = [key |-> idx[q][i], work |-> pend[idx[q][i]]]
      BY <3>1, <2>2
    <3> QED BY <3>2
  <2> QED BY <2>4, <2>5, <2>6
<1> HIDE DEF T
<1> DEFINE a == lane(Live)
           b == lane(ActiveCatchup)
           c == lane(Archive)
<1>2. /\ a \in Seq(Entry) /\ b \in Seq(Entry) /\ c \in Seq(Entry)
      /\ \A i \in 1 .. Len(a) : a[i] \in T
      /\ \A i \in 1 .. Len(b) : b[i] \in T
      /\ \A i \in 1 .. Len(c) : c[i] \in T
  BY <1>1, LanesDiffer
<1>3. Whole(idx, pend) = (a \o b) \o c
  BY DEF Whole
<1> HIDE DEF a, b, c
<1>4. a \o b \in Seq(Entry) /\ \A i \in 1 .. Len(a \o b) : (a \o b)[i] \in T
  BY <1>2, ConcatOf, ConcatProperties
<1> DEFINE d == a \o b
<1> HIDE DEF d
<1>5. d \in Seq(Entry) /\ \A i \in 1 .. Len(d) : d[i] \in T
  BY <1>4 DEF d
<1>6. d \o c \in Seq(Entry) /\ \A i \in 1 .. Len(d \o c) : (d \o c)[i] \in T
  BY <1>2, <1>5, ConcatOf, ConcatProperties
<1>7. Whole(idx, pend) = d \o c
  BY <1>3 DEF d
<1> QED BY <1>6, <1>7 DEF T

(* The line holds every waiting key once, so it is as long as they are     *)
(* many.                                                                   *)
LEMMA WholeCounts ==
  ASSUME NEW idx \in Lanes, NEW pend \in Waits, Describes(idx, pend)
  PROVE  /\ \A k \in Held(pend) : \E i \in 1 .. Len(Whole(idx, pend)) : Whole(idx, pend)[i].key = k
         /\ Len(Whole(idx, pend)) = Cardinality(Held(pend))
<1> DEFINE W == Whole(idx, pend)
           n == Len(W)
           f == [i \in 1 .. n |-> W[i].key]
<1>1. W \in Seq(Entry) /\ n \in Nat /\ \A i \in 1 .. n : W[i].key \in Held(pend)
  BY WholeHoldsWaiting
<1>2. ASSUME NEW k \in Held(pend)
      PROVE  \E m \in 1 .. n : W[m].key = k /\ \A i \in 1 .. n : W[i].key = k => i = m
  <2> DEFINE T == [idx EXCEPT ![pend[k].priority] = Without(@, k)]
             new == [pend EXCEPT ![k] = None]
             e == [key |-> k, work |-> pend[k]]
  <2>1. k \in Keys /\ pend[k] # None /\ pend[k] \in Item
    BY DEF Held, Waits
  <2>2. PICK X \in Seq(Entry), Y \in Seq(Entry) : W = (X \o <<e>>) \o Y /\ Whole(T, new) = X \o Y
    BY <2>1, WholeAtKey
  <2>3. T \in Lanes /\ Describes(T, new) /\ new \in Waits /\ k \notin Held(new)
    BY <2>1, DescribesDrop DEF Waits, Held
  <2>4. e \in Entry /\ e.key = k
    BY <2>1 DEF Entry
  <2> HIDE DEF T, new, e, W
  <2>5. \A i \in 1 .. Len(X \o Y) : (X \o Y)[i].key # k
    BY <2>2, <2>3, WholeHoldsWaiting
  <2>6. /\ Len(X) \in Nat /\ Len(Y) \in Nat
        /\ Len(X \o Y) = Len(X) + Len(Y)
        /\ \A i \in 1 .. Len(X) + Len(Y) : (X \o Y)[i] = IF i <= Len(X) THEN X[i] ELSE Y[i - Len(X)]
    BY ConcatProperties
  <2>7. \A i \in 1 .. Len(X) : X[i].key # k
    <3> SUFFICES ASSUME NEW i \in 1 .. Len(X) PROVE X[i].key # k
      OBVIOUS
    <3>1. i \in 1 .. Len(X) + Len(Y) /\ i <= Len(X)
      BY <2>6
    <3> QED BY <3>1, <2>5, <2>6
  <2>8. \A i \in 1 .. Len(Y) : Y[i].key # k
    <3> SUFFICES ASSUME NEW i \in 1 .. Len(Y) PROVE Y[i].key # k
      OBVIOUS
    <3>1. /\ Len(X) + i \in 1 .. Len(X) + Len(Y)
          /\ ~ (Len(X) + i <= Len(X))
          /\ Len(X) + i - Len(X) = i
      BY <2>6
    <3> QED BY <3>1, <2>5, <2>6
  <2>9. /\ n = Len(X) + 1 + Len(Y)
        /\ \A i \in 1 .. Len(X) : W[i] = X[i]
        /\ W[Len(X) + 1] = e
        /\ \A i \in 1 .. Len(Y) : W[Len(X) + 1 + i] = Y[i]
    BY <2>2, <2>4, Between
  <2>10. ASSUME NEW i \in 1 .. n, W[i].key = k
         PROVE  i = Len(X) + 1
    <3>1. CASE i <= Len(X)
      <4>1. i \in 1 .. Len(X)
        BY <2>6, <2>9, <3>1
      <4> QED BY <4>1, <2>7, <2>9, <2>10
    <3>2. CASE i > Len(X) + 1
      <4>1. i - (Len(X) + 1) \in 1 .. Len(Y) /\ Len(X) + 1 + (i - (Len(X) + 1)) = i
        BY <2>6, <2>9, <3>2
      <4>2. W[i] = Y[i - (Len(X) + 1)]
        BY <4>1, <2>9
      <4> QED BY <4>1, <4>2, <2>8, <2>10
    <3> QED BY <3>1, <3>2, <2>6, <2>9
  <2>11. Len(X) + 1 \in 1 .. n /\ W[Len(X) + 1].key = k
    BY <2>4, <2>6, <2>9
  <2> QED BY <2>10, <2>11
<1> HIDE DEF W
<1>3. \A i, j \in 1 .. n : W[i].key = W[j].key => i = j
  BY <1>1, <1>2
<1>4. f \in Bijection(1 .. n, Held(pend))
  <2>1. f \in [1 .. n -> Held(pend)]
    BY <1>1
  <2>2. \A i, j \in 1 .. n : f[i] = f[j] => i = j
    BY <1>3
  <2>3. \A k \in Held(pend) : \E i \in 1 .. n : f[i] = k
    BY <1>2
  <2> HIDE DEF f, n
  <2>4. f \in Injection(1 .. n, Held(pend))
    BY <2>1, <2>2 DEF Injection, IsInjective
  <2>5. f \in Surjection(1 .. n, Held(pend))
    BY <2>1, <2>3 DEF Surjection
  <2> QED BY <2>4, <2>5 DEF Bijection
<1>5. Cardinality(Held(pend)) = n
  <2>1. ExistsBijection(1 .. n, Held(pend))
    BY <1>4 DEF ExistsBijection
  <2> QED BY <1>1, <2>1, FS_CountingElements
<1> QED BY <1>2, <1>5 DEF W
-----------------------------------------------------------------------------
(* The line of the queue's state, which is what the instance Line sees.    *)
TheLine == LineOf(Live) \o LineOf(ActiveCatchup) \o LineOf(Archive)

(* The line of the state and the line of its lanes are the same. *)
LEMMA TheLineIs ==
  TheLine = Whole(index, pending) /\ TheLine' = Whole(index', pending')
BY DEF TheLine, LineOf, Whole, Marked

(* A signal that leaves a waiting key's urgency as it was. *)
LEMMA UrgeInPlace ==
  ASSUME NEW k, NEW t, NEW p, NEW i \in DOMAIN TheLine, NEW w,
         TheLine[i].key = k,
         Line!Merge(TheLine[i].work, t, p) = w,
         w.priority = TheLine[i].work.priority,
         TheLine' = [TheLine EXCEPT ![i].work = w],
         inFlight' = inFlight
  PROVE  Line!Urge(k, t, p)
BY Zenon DEF Line!Urge, TheLine

(* A signal that makes a waiting key more urgent. *)
LEMMA UrgeAndMove ==
  ASSUME NEW k, NEW t, NEW p, NEW i \in DOMAIN TheLine, NEW w, NEW rest,
         TheLine[i].key = k,
         Line!Merge(TheLine[i].work, t, p) = w,
         w.priority # TheLine[i].work.priority,
         Line!RemoveAt(TheLine, i) = rest,
         Line!Enters(rest, k, w, TheLine'),
         inFlight' = inFlight
  PROVE  Line!Urge(k, t, p)
BY Zenon DEF Line!Urge, TheLine

(* The abstract line merges a signal into an item as the queue does. *)
LEMMA MergeIsCoalesce ==
  ASSUME NEW item, NEW t, NEW p
  PROVE  Line!Merge(item, t, p) = Coalesce(item, t, p)
BY DEF Line!Merge, Line!Max2, Coalesce, Greater

(* A signal for a waiting key urges it in the line. *)
LEMMA PendingUrges ==
  ASSUME Good(pending, inFlight, index),
         NEW k \in Keys, NEW t \in Offsets, NEW p \in Priorities, EnqueuePending(k, t, p)
  PROVE  Line!Urge(k, t, p)
<1> DEFINE old == pending[k]
           item == Coalesce(old, t, p)
           e(w) == [key |-> k, work |-> w]
<1>1. /\ pending \in Waits /\ index \in Lanes /\ Describes(index, pending)
      /\ old \in Item /\ old # None
  BY DEF EnqueuePending, Good, Waits
<1>2. item \in Item /\ item.priority = IF p > old.priority THEN p ELSE old.priority
  BY <1>1, CoalesceItem
<1>3. pending' = [pending EXCEPT ![k] = item] /\ inFlight' = inFlight
  BY DEF EnqueuePending, EnqueueMoving, EnqueueStaying
<1>4. Line!Merge(old, t, p) = item
  BY MergeIsCoalesce
<1> DEFINE cleared == [pending EXCEPT ![k] = None]
           dropped == [index EXCEPT ![old.priority] = Without(@, k)]
<1>5. PICK X \in Seq(Entry), Y \in Seq(Entry) :
           /\ Whole(index, pending) = (X \o <<e(old)>>) \o Y
           /\ \A w \in Item : Whole(index, [pending EXCEPT ![k] = w]) = (X \o <<e(w)>>) \o Y
           /\ Whole(dropped, cleared) = X \o Y
  BY <1>1, WholeAtKey
<1>6. e(old) \in Entry
  BY <1>1 DEF Entry
<1>7. TheLine = (X \o <<e(old)>>) \o Y
  BY <1>5, TheLineIs
<1> HIDE DEF item
<1>8. PICK n \in 1 .. Len(X) + 1 + Len(Y) : n = Len(X) + 1
  OBVIOUS
<1>9. n \in DOMAIN TheLine /\ TheLine[n] = e(old)
  <2> HIDE DEF e, old
  <2> QED BY <1>6, <1>7, <1>8, Between
<1>10. TheLine[n].key = k /\ TheLine[n].work = old
  BY <1>9
<1>11. CASE p > old.priority
  <2>1. item.priority = p /\ item.priority # old.priority
    BY <1>1, <1>2, <1>11 DEF Item, Priorities, Archive, Live
  <2>2. index' = Joined(dropped, k, item.priority)
    BY <2>1, <1>11 DEF EnqueuePending, EnqueueMoving
  <2>3. dropped \in Lanes /\ Describes(dropped, cleared)
    BY <1>1, DescribesDrop
  <2>4. cleared \in Waits /\ cleared[k] = None /\ [cleared EXCEPT ![k] = item] = pending'
    BY <1>1, <1>2, <1>3 DEF Waits
  <2>5. Line!RemoveAt(TheLine, n) = X \o Y
    <3>1. n - 1 = Len(X) /\ n + 1 = Len(X) + 2
      BY <1>8
    <3>2. SubSeq(TheLine, 1, Len(X)) = X /\ SubSeq(TheLine, Len(X) + 2, Len(TheLine)) = Y
      <4> HIDE DEF e, old
      <4> QED BY <1>6, <1>7, CutBetween
    <3>3. SubSeq(TheLine, 1, n - 1) = X /\ SubSeq(TheLine, n + 1, Len(TheLine)) = Y
      BY <3>1, <3>2
    <3> QED BY <3>3, Zenon DEF Line!RemoveAt
  <2> HIDE DEF cleared, dropped
  <2>6. Line!Enters(Whole(dropped, cleared), k, item,
                    Whole(Joined(dropped, k, item.priority), [cleared EXCEPT ![k] = item]))
    BY <1>2, <2>3, <2>4, JoinEnters, Zenon
  <2>7. Line!Enters(X \o Y, k, item, TheLine')
    BY <1>5, <2>2, <2>4, <2>6, TheLineIs, Zenon
  <2> HIDE DEF old
  <2>8. item.priority # TheLine[n].work.priority /\ Line!Merge(TheLine[n].work, t, p) = item
    BY <2>1, <1>4, <1>10, Zenon
  <2> QED BY <1>3, <1>9, <1>10, <2>5, <2>7, <2>8, UrgeAndMove, Zenon
<1>12. CASE ~ (p > old.priority)
  <2>1. index' = index /\ item.priority = old.priority
    BY <1>2, <1>12 DEF EnqueuePending, EnqueueStaying
  <2>2. TheLine' = (X \o <<e(item)>>) \o Y
    BY <1>2, <1>3, <1>5, <2>1, TheLineIs
  <2>3. [TheLine EXCEPT ![n].work = item] = (X \o <<e(item)>>) \o Y
    <3> DEFINE V == (X \o <<e(item)>>) \o Y
    <3>1. e(item) \in Entry
      BY <1>2 DEF Entry
    <3>2. e(item) = [key |-> TheLine[n].key, work |-> item]
      BY <1>10
    <3> HIDE DEF e, old
    <3>3. TheLine \in Seq(Entry) /\ V \in Seq(Entry) /\ Len(V) = Len(TheLine)
      BY <1>6, <1>7, <3>1, Between
    <3>4. \A i \in 1 .. Len(TheLine) : V[i] = IF i = n THEN e(item) ELSE TheLine[i]
      BY <1>6, <1>7, <1>8, <3>1, SwapBetween
    <3>5. n \in 1 .. Len(TheLine)
      BY <1>9, <3>3
    <3> HIDE DEF V
    <3>6. [TheLine EXCEPT ![n].work = item] = V
      <4>1. PICK ln \in Seq(Entry) : ln = TheLine
        BY <3>3
      <4>2. [ln EXCEPT ![n].work = item] = V
        BY <1>2, <3>2, <3>3, <3>4, <3>5, <4>1, ReviseAt
      <4> QED BY <4>1, <4>2
    <3> QED BY <3>6 DEF V
  <2>4. TheLine' = [TheLine EXCEPT ![n].work = item]
    BY <2>2, <2>3
  <2> HIDE DEF old
  <2>5. item.priority = TheLine[n].work.priority /\ Line!Merge(TheLine[n].work, t, p) = item
    BY <2>1, <1>4, <1>10, Zenon
  <2> QED BY <1>3, <1>9, <1>10, <2>4, <2>5, UrgeInPlace, Zenon
<1> QED BY <1>11, <1>12
(* A signal for a leased key urges it behind the line's back. *)
LEMMA LeasedUrges ==
  ASSUME NEW k, NEW t, NEW p, EnqueueLeased(k, t, p)
  PROVE  Line!UrgeServed(k, t, p)
<1>1. TheLine' = TheLine
  BY DEF EnqueueLeased, TheLine, LineOf
<1>2. inFlight[k] # None /\ inFlight' = [inFlight EXCEPT ![k] = Coalesce(inFlight[k], t, p)]
  BY DEF EnqueueLeased
<1>3. inFlight' = [inFlight EXCEPT ![k] = Line!Merge(inFlight[k], t, p)]
  BY <1>2, MergeIsCoalesce, Zenon
<1> QED BY <1>1, <1>2, <1>3, Zenon DEF Line!UrgeServed, TheLine

(* The line's waiting and served keys are those of the two maps. *)
LEMMA WaitingAndServed ==
  ASSUME Good(pending, inFlight, index)
  PROVE  /\ Line!Waiting = Held(pending)
         /\ Line!Served = Held(inFlight)
         /\ Len(TheLine) = Cardinality(Held(pending))
<1>1. pending \in Waits /\ index \in Lanes /\ Describes(index, pending)
  BY DEF Good
<1>2. TheLine = Whole(index, pending)
  BY TheLineIs
<1>3. /\ TheLine \in Seq(Entry)
      /\ \A i \in 1 .. Len(TheLine) : TheLine[i].key \in Held(pending)
      /\ \A k \in Held(pending) : \E i \in 1 .. Len(TheLine) : TheLine[i].key = k
      /\ Len(TheLine) = Cardinality(Held(pending))
  BY <1>1, <1>2, WholeHoldsWaiting, WholeCounts
<1>4. DOMAIN TheLine = 1 .. Len(TheLine)
  BY <1>3
<1>5. {TheLine[i].key : i \in DOMAIN TheLine} = Held(pending)
  BY <1>3, <1>4
<1>6. Line!Waiting = {TheLine[i].key : i \in DOMAIN TheLine}
  BY DEF Line!Waiting, TheLine
<1>7. Line!Served = Held(inFlight)
  BY DEF Line!Served, Held
<1> QED BY <1>3, <1>5, <1>6, <1>7, Zenon

(* The line counts its served keys as the queue does. *)
LEMMA LineCardinality == \A S : Line!Cardinality(S) = Cardinality(S)
BY DEF Line!Cardinality, Cardinality

(* A new key is admitted to the line. *)
LEMMA NewIsAdmitted ==
  ASSUME Good(pending, inFlight, index),
         NEW k \in Keys, NEW t \in Offsets, NEW p \in Priorities, EnqueueNew(k, t, p)
  PROVE  Line!Admit(k, t, p)
<1> DEFINE item == [target |-> t, priority |-> p]
<1>1. item \in Item /\ item.priority = p
  BY DEF Item
<1>2. /\ pending[k] = None /\ inFlight[k] = None
      /\ pending' = [pending EXCEPT ![k] = item]
      /\ inFlight' = inFlight
      /\ index' = Joined(index, k, item.priority)
  BY DEF EnqueueNew
<1>3. pending \in Waits /\ index \in Lanes /\ Describes(index, pending)
  BY DEF Good
<1> HIDE DEF item
<1>4. Line!Enters(Whole(index, pending), k, item,
                  Whole(Joined(index, k, item.priority), [pending EXCEPT ![k] = item]))
  BY <1>1, <1>2, <1>3, JoinEnters, Zenon
<1>5. Line!Enters(TheLine, k, item, TheLine')
  BY <1>2, <1>4, TheLineIs, Zenon
<1>6. k \notin Held(pending) \cup Held(inFlight)
  BY <1>2 DEF Held
<1>7. k \notin Line!Waiting \cup Line!Served
  BY <1>6, WaitingAndServed, Zenon
<1>8. Len(TheLine) + Cardinality(Held(inFlight)) < Capacity
  <2>1. Cardinality(Held(pending)) \in Nat /\ Cardinality(Held(inFlight)) \in Nat
    BY FS_CardinalityType DEF Good
  <2>2. Cardinality(Held(pending)) + Cardinality(Held(inFlight)) # Capacity
    BY DEF EnqueueNew, OwnedSlots, PendingKeys, LeasedKeys, Held
  <2>3. Len(TheLine) = Cardinality(Held(pending))
    BY WaitingAndServed
  <2> QED BY <2>1, <2>2, <2>3, QueueAssumption DEF Good
<1>9. Len(TheLine) + Line!Cardinality(Line!Served) < Capacity
  BY <1>8, WaitingAndServed, LineCardinality, Zenon
<1>10. inFlight' = inFlight
  BY <1>2
<1>11. Line!Enters(TheLine, k, [target |-> t, priority |-> p], TheLine')
  BY <1>5, Zenon DEF item
<1> QED BY <1>7, <1>9, <1>10, <1>11, Zenon DEF Line!Admit, TheLine

(* A lease that is requeued returns to the line. *)
LEMMA RequeueReturns ==
  ASSUME Good(pending, inFlight, index), NEW k \in Keys, inFlight[k] # None, Requeue(k)
  PROVE  Line!Return(k)
<1> DEFINE item == inFlight[k]
<1>1. item \in Item /\ pending[k] = None
  BY DEF Good, Waits
<1>2. /\ pending' = [pending EXCEPT ![k] = item]
      /\ inFlight' = [inFlight EXCEPT ![k] = None]
      /\ index' = Joined(index, k, item.priority)
  BY DEF Requeue
<1>3. pending \in Waits /\ index \in Lanes /\ Describes(index, pending)
  BY DEF Good
<1> HIDE DEF item
<1>4. Line!Enters(Whole(index, pending), k, item,
                  Whole(Joined(index, k, item.priority), [pending EXCEPT ![k] = item]))
  BY <1>1, <1>3, JoinEnters, Zenon
<1>5. Line!Enters(TheLine, k, item, TheLine')
  BY <1>2, <1>4, TheLineIs, Zenon
<1> QED BY <1>2, <1>5, Zenon DEF Line!Return, TheLine, item

(* A lease that is released is closed. *)
LEMMA ReleaseCloses ==
  ASSUME NEW k, inFlight[k] # None, Release(k)
  PROVE  Line!Close(k)
<1>1. TheLine' = TheLine
  BY DEF Release, TheLine, LineOf
<1>2. inFlight' = [inFlight EXCEPT ![k] = None]
  BY DEF Release
<1> QED BY <1>1, <1>2, Zenon DEF Line!Close, TheLine

(* What pop and lease_next take is the head of the line. *)
LEMMA TakesTheHead ==
  ASSUME Good(pending, inFlight, index), ReadyLanes # {},
         pending' = [pending EXCEPT ![NextKey] = None], index' = LanesAfterPop
  PROVE  /\ TheLine # <<>>
         /\ Head(TheLine).key = NextKey
         /\ Head(TheLine).work = pending[NextKey]
         /\ TheLine' = Tail(TheLine)
<1>1. TypeOK /\ NoStaleSlot
  BY IInvIsGood DEF IInv, IndexMatchesPending
<1>2. /\ NextLane \in Priorities
      /\ index[NextLane] # <<>>
      /\ 1 \in DOMAIN index[NextLane]
      /\ NextKey = index[NextLane][1]
      /\ NextKey \in Keys
      /\ LanesAfterPop = [index EXCEPT ![NextLane] = Tail(@)]
  BY <1>1, PopTakesAHead
<1>3. \A q \in Priorities : q > NextLane => index[q] = <<>>
  BY <1>1, PopTakesAHead
<1>4. pending \in Waits /\ index \in Lanes /\ Describes(index, pending)
  BY DEF Good
<1> DEFINE e == [key |-> NextKey, work |-> pending[NextKey]]
<1>5. PICK Y \in Seq(Entry) :
           /\ Whole(index, pending) = <<e>> \o Y
           /\ Whole([index EXCEPT ![NextLane] = Tail(@)], [pending EXCEPT ![NextKey] = None]) = Y
  <2>1. \E Y \in Seq(Entry) :
          /\ Whole(index, pending)
             = <<[key |-> index[NextLane][1], work |-> pending[index[NextLane][1]]]>> \o Y
          /\ Whole([index EXCEPT ![NextLane] = Tail(@)],
                   [pending EXCEPT ![index[NextLane][1]] = None]) = Y
    BY <1>2, <1>3, <1>4, WholeAtHead
  <2> QED BY <2>1, <1>2, Zenon
<1>6. TheLine = <<e>> \o Y /\ TheLine' = Y
  BY <1>2, <1>5, TheLineIs
<1>7. e \in Entry /\ e.key = NextKey /\ e.work = pending[NextKey]
  BY <1>2, <1>4 DEF Entry, Waits
<1> HIDE DEF e
<1>8. <<e>> \o Y # <<>> /\ Head(<<e>> \o Y) = e /\ Tail(<<e>> \o Y) = Y
  BY <1>7
<1> QED BY <1>6, <1>7, <1>8

(* Every step of the queue is a step of the line or leaves it as it was. *)
LEMMA NextRefines ==
  ASSUME IInv, [Next]_vars
  PROVE  [Line!Next]_<<TheLine, inFlight>>
<1>1. Good(pending, inFlight, index)
  BY IInvIsGood
<1>2. ASSUME NEW k \in Keys, NEW t \in Offsets, NEW p \in Priorities, Signal(k, t, p)
      PROVE  Line!Next
  <2>1. p \in 0 .. 2
    BY DEF Priorities, Archive, Live
  <2>2. Line!Urge(k, t, p) \/ Line!UrgeServed(k, t, p) \/ Line!Admit(k, t, p)
    BY <1>1, <1>2, PendingUrges, LeasedUrges, NewIsAdmitted DEF Signal
  <2> QED BY <2>1, <2>2, Zenon DEF Line!Next
<1>3. ASSUME NEW k \in Keys, inFlight[k] # None, Requeue(k) \/ Release(k)
      PROVE  Line!Next
  <2>1. Line!Return(k) \/ Line!Close(k)
    BY <1>1, <1>3, RequeueReturns, ReleaseCloses
  <2> QED BY <2>1, Zenon DEF Line!Next
<1>4. ASSUME LeaseNext
      PROVE  Line!Next
  <2>1. /\ ReadyLanes # {}
        /\ pending' = [pending EXCEPT ![NextKey] = None]
        /\ index' = LanesAfterPop
        /\ inFlight' = [inFlight EXCEPT ![NextKey] = pending[NextKey]]
    BY <1>4 DEF LeaseNext
  <2>2. /\ TheLine # <<>>
        /\ Head(TheLine).key = NextKey
        /\ Head(TheLine).work = pending[NextKey]
        /\ TheLine' = Tail(TheLine)
    BY <1>1, <2>1, TakesTheHead
  <2>3. inFlight' = [inFlight EXCEPT ![Head(TheLine).key] = Head(TheLine).work]
    BY <2>1, <2>2, Zenon
  <2>4. Line!Serve
    BY <2>2, <2>3, Zenon DEF Line!Serve, TheLine
  <2> QED BY <2>4, Zenon DEF Line!Next
<1>5. ASSUME Pop
      PROVE  Line!Next
  <2>1. /\ ReadyLanes # {}
        /\ pending' = [pending EXCEPT ![NextKey] = None]
        /\ index' = LanesAfterPop
        /\ inFlight' = inFlight
    BY <1>5 DEF Pop
  <2>2. TheLine # <<>> /\ TheLine' = Tail(TheLine)
    BY <1>1, <2>1, TakesTheHead
  <2>3. Line!Discard
    BY <2>1, <2>2, Zenon DEF Line!Discard, TheLine
  <2> QED BY <2>3, Zenon DEF Line!Next
<1>6. ASSUME UNCHANGED <<pending, inFlight, index>>
      PROVE  UNCHANGED <<TheLine, inFlight>>
  BY <1>6 DEF TheLine, LineOf
<1>7. ASSUME TakeNothing
      PROVE  UNCHANGED <<TheLine, inFlight>>
  <2>1. index' = index /\ pending' = pending /\ inFlight' = inFlight
    BY <1>1, <1>7, NothingToTake DEF TakeNothing
  <2> QED BY <2>1, <1>6
<1>8. CASE \E k \in Keys, t \in Offsets, p \in Priorities : Signal(k, t, p)
  BY <1>2, <1>8, Zenon
<1>9. CASE LeaseNext \/ Pop \/ TakeNothing
  BY <1>4, <1>5, <1>7, <1>9, Zenon
<1>10. CASE \E k \in Keys, t \in Offsets, force, allowGap \in BOOLEAN :
              FinishLease(k, t, force, allowGap)
  BY <1>3, <1>10, Zenon DEF FinishLease
<1>11. CASE \E k \in Keys : CancelLease(k) \/ AbandonLease(k)
  BY <1>3, <1>11, Zenon DEF CancelLease, AbandonLease
<1>12. CASE (\E k \in Keys : EnqueueFull(k)) \/ UNCHANGED vars
  BY <1>6, <1>12, Zenon DEF EnqueueFull, vars
<1> QED BY <1>8, <1>9, <1>10, <1>11, <1>12, Zenon DEF Next

(* The three lanes with their skipped entries are one stable line served   *)
(* from its head: every behavior of the queue is one of PriorityLine.      *)
THEOREM QueueIsAPriorityLine == Spec => ServesOneStableLine
<1>1. Init => Line!Init
  <2> SUFFICES ASSUME Init PROVE Line!Init
    OBVIOUS
  <2>1. index[Live] = <<>> /\ index[ActiveCatchup] = <<>> /\ index[Archive] = <<>>
    BY LanesDiffer DEF Init
  <2>2. LineOf(Live) = <<>> /\ LineOf(ActiveCatchup) = <<>> /\ LineOf(Archive) = <<>>
    BY <2>1 DEF LineOf
  <2>3. <<>> \o <<>> = <<>>
    OBVIOUS
  <2>4. TheLine = <<>>
    BY <2>2, <2>3, Zenon DEF TheLine
  <2> QED BY <2>4, Zenon DEF Init, Line!Init, TheLine
<1>2. IInv /\ [Next]_vars => [Line!Next]_<<TheLine, inFlight>>
  BY NextRefines
<1> QED BY <1>1, <1>2, QueueInvariant, PTL DEF Spec, ServesOneStableLine, Line!Spec, TheLine
=============================================================================
