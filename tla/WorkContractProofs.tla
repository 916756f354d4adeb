------------------------ MODULE WorkContractProofs -------------------------
(***************************************************************************)
(* Proofs about WorkContract for any log, any requests, any answers of the *)
(* extractor and any bound:                                                *)
(*                                                                         *)
(*   - a page that nobody assigns joins a work item only over a common     *)
(*     file;                                                               *)
(*   - a refinement undoes nothing that happened while it was made;        *)
(*   - an instruction never says what only a model or a tool said;         *)
(*   - whatever a contract says it can trace to evidence it holds;         *)
(*   - while the actions fit the bound, a status follows from the newest   *)
(*     results, and only a success completes unfinished work.              *)
(***************************************************************************)
EXTENDS WorkContract, FiniteSetTheorems, WellFoundedInduction, TLAPS

-----------------------------------------------------------------------------
(* A share of a set is at most the whole, and nothing without a member in  *)
(* common.                                                                 *)
LEMMA OverlapBounds ==
  ASSUME NEW l, NEW r, IsFiniteSet(l), IsFiniteSet(r)
  PROVE  /\ Overlap(l, r) \in Nat
         /\ l \cap r = {} => Overlap(l, r) = 0
<1>1. /\ Cardinality(l) \in Nat /\ Cardinality(r) \in Nat
      /\ Cardinality(l \cap r) \in Nat
  BY FS_CardinalityType, FS_Intersection
<1>2. l \cap r = {} => Cardinality(l \cap r) = 0
  BY FS_EmptySet
<1> DEFINE whole == IF Cardinality(l) > Cardinality(r) THEN Cardinality(l) ELSE Cardinality(r)
<1>3. whole \in Nat
  BY <1>1
<1>4. Overlap(l, r) = IF whole = 0 THEN 0 ELSE (Cardinality(l \cap r) * 10000) \div whole
  BY DEF Overlap
<1> HIDE DEF whole
<1>5. CASE whole = 0
  BY <1>4, <1>5
<1>6. CASE whole # 0
  <2>1. whole \in Nat /\ whole > 0
    BY <1>3, <1>6
  <2>2. ASSUME NEW n \in Nat
        PROVE  n \div whole \in Nat /\ (n = 0 => n \div whole = 0)
    BY <2>1
  <2> QED BY <1>1, <1>2, <1>4, <1>6, <2>2
<1> QED BY <1>5, <1>6

(* What a bound leaves of a set is a part of it.                           *)
LEMMA BoundedIsPart ==
  ASSUME NEW S, NEW n, IsFiniteSet(S)
  PROVE  Bounded(S, n) \subseteq S /\ IsFiniteSet(Bounded(S, n))
<1>1. Bounded(S, n) \subseteq S
  BY DEF Bounded
<1> QED BY <1>1, FS_Subset

(* AtMost cuts at its bound.                                               *)
LEMMA AtMostBounds ==
  ASSUME NEW n \in Nat, NEW b \in Nat
  PROVE  AtMost(n, b) \in Nat /\ AtMost(n, b) <= b
BY DEF AtMost

(* A tenth of a score.                                                     *)
LEMMA TenthBounds ==
  ASSUME NEW n \in Nat, n <= 10000
  PROVE  (n * 1000) \div 10000 \in Nat /\ (n * 1000) \div 10000 <= 1000
OBVIOUS

(* The six terms of a score, for an input that names no work item and has  *)
(* no file in common with the candidate, stay below the threshold.         *)
LEMMA NoFileNoMatch ==
  ASSUME NEW in, NEW c,
         in.explicit = None, in.continuation = None, in.semantic \in Nat,
         IsFiniteSet(in.artifacts), IsFiniteSet(c.artifacts),
         IsFiniteSet(in.commands), IsFiniteSet(c.commands),
         in.artifacts \cap c.artifacts = {}
  PROVE  ~Qualifies(in, c)
<1>1. Named(in, c) = 0
  BY DEF Named, Explicit, Continues
<1>2. Place(in, c) \in Nat /\ Place(in, c) <= 2500
  BY DEF Place
<1>3. Artifacts(in, c) = 0
  <2> DEFINE l == Bounded(in.artifacts, MaxHashes)
             r == Bounded(c.artifacts, MaxHashes)
  <2>1. IsFiniteSet(l) /\ IsFiniteSet(r) /\ l \cap r = {}
    BY BoundedIsPart
  <2> HIDE DEF l, r
  <2>2. Overlap(l, r) = 0
    BY <2>1, OverlapBounds
  <2>3. AtMost(0, 10000) = 0
    BY DEF AtMost
  <2> QED BY <2>2, <2>3 DEF Artifacts, l, r
<1>4. Commands(in, c) \in Nat /\ Commands(in, c) <= 1000
  <2> DEFINE l == Bounded(in.commands, MaxHashes)
             r == Bounded(c.commands, MaxHashes)
             n == AtMost(Overlap(l, r), 10000)
  <2>1. IsFiniteSet(l) /\ IsFiniteSet(r)
    BY BoundedIsPart
  <2>2. Overlap(l, r) \in Nat
    BY <2>1, OverlapBounds
  <2>3. n \in Nat /\ n <= 10000
    <3>1. ASSUME NEW m \in Nat PROVE AtMost(m, 10000) \in Nat /\ AtMost(m, 10000) <= 10000
      BY AtMostBounds
    <3> QED BY <2>2, <3>1
  <2>4. Commands(in, c) = (n * 1000) \div 10000
    BY DEF Commands
  <2> HIDE DEF n
  <2> QED BY <2>3, <2>4, TenthBounds
<1>5. Recent(in, c) \in Nat /\ Recent(in, c) <= 1000
  BY DEF Recent
<1>6. Similar(in, c) \in Nat /\ Similar(in, c) <= 1000
  <2> DEFINE n == AtMost(in.semantic, 10000)
  <2>1. n \in Nat /\ n <= 10000
    BY AtMostBounds
  <2>2. Similar(in, c) = (n * 1000) \div 10000
    BY DEF Similar
  <2> HIDE DEF n
  <2> QED BY <2>1, <2>2, TenthBounds
<1>7. /\ NonSemantic(in, c) + Similar(in, c) \in Nat
      /\ NonSemantic(in, c) + Similar(in, c) <= 5500
  BY <1>1, <1>2, <1>3, <1>4, <1>5, <1>6 DEF NonSemantic
<1>8. Total(in, c) \in Nat /\ Total(in, c) <= 5500
  BY <1>7 DEF Total, AtMost
<1> QED BY <1>8 DEF Qualifies, CONTINUE_THRESHOLD

-----------------------------------------------------------------------------
(* The watermark stays within the log, so that what the store tells about  *)
(* a work item is finite.                                                  *)
LogOK == log \in Logs /\ read \in Nat /\ read <= Len(log)

(* The logs have lengths.                                                  *)
LEMMA LogLength ==
  ASSUME NEW l \in Logs
  PROVE  Len(l) \in Nat /\ DOMAIN l = 1 .. Len(l) /\ l \in Seq(Range(l))
BY WorkContractAssumption

(* No step takes the watermark beyond the log.                             *)
LEMMA LogStep ==
  ASSUME LogOK, [Next]_vars
  PROVE  LogOK'
<1>1. ASSUME NEW n \in 1 .. PageSize, Publish(n) \/ Skip(n) PROVE LogOK'
  <2>1. n \in Nat
    BY WorkContractAssumption
  <2>2. log' = log /\ read' = read + n /\ read + n <= Len(log)
    BY <1>1 DEF Publish, Skip
  <2> QED BY <2>1, <2>2 DEF LogOK
<1>2. ASSUME NEW w \in Works, NEW c \in Corrections, Correct(w, c[1], c[2], read)
      PROVE  LogOK'
  BY <1>2 DEF Correct, LogOK
<1>3. ASSUME NEW w \in Works, Ask(w) PROVE LogOK'
  BY <1>3 DEF Ask, LogOK
<1>4. ASSUME NEW answer \in Proposals, Answer(answer) \/ TooLate(answer)
      PROVE  LogOK'
  BY <1>4 DEF Answer, TooLate, LogOK
<1>5. CASE UNCHANGED vars
  BY <1>5 DEF vars, LogOK
<1> QED BY <1>1, <1>2, <1>3, <1>4, <1>5 DEF Next, Publications, Answers

(* Ingestion and publication keep to the log: the watermark of what was    *)
(* published never passes what was committed (publish_work).               *)
THEOREM LogInvariant == Spec => []LogOK
<1>1. Init => LogOK
  BY LogLength DEF Init, LogOK
<1>2. LogOK /\ [Next]_vars => LogOK'
  BY LogStep
<1> QED BY <1>1, <1>2, PTL DEF Spec

-----------------------------------------------------------------------------
(* What a function makes of a finite set is finite.                        *)
LEMMA ImageFinite ==
  ASSUME NEW D, IsFiniteSet(D), NEW f, f = [x \in D |-> f[x]]
  PROVE  IsFiniteSet({f[x] : x \in D})
<1>1. f \in Surjection(D, {f[x] : x \in D})
  BY DEF Surjection
<1> QED BY <1>1, FS_Surjection

(* What is known of a work item is finite, and so is a page.               *)
LEMMA TextsFinite ==
  ASSUME LogOK, NEW w, NEW kind
  PROVE  IsFiniteSet(TextsOf(Events(w), kind))
<1>1. IsFiniteSet(1 .. read)
  BY FS_Interval DEF LogOK
<1> DEFINE S == {j \in Events(w) : log[j].kind = kind}
           f == [i \in S |-> log[i].text]
<1>2. S \subseteq 1 .. read
  BY DEF Events
<1>3. IsFiniteSet(S)
  BY <1>1, <1>2, FS_Subset
<1>4. IsFiniteSet({f[i] : i \in S})
  <2>1. f = [i \in S |-> f[i]]
    OBVIOUS
  <2> HIDE DEF f
  <2> QED BY <1>3, <2>1, ImageFinite
<1>5. TextsOf(Events(w), kind) \subseteq {f[i] : i \in S}
  BY DEF TextsOf
<1> QED BY <1>4, <1>5, FS_Subset

(* The facts of a page are finitely many.                                  *)
LEMMA FactsFinite ==
  ASSUME LogOK, NEW n \in 1 .. PageSize, read + n <= Len(log)
  PROVE  IsFiniteSet(Reduce(Page(n)))
<1>1. n \in Nat /\ log \in Seq(Range(log)) /\ Len(log) \in Nat
  BY WorkContractAssumption, LogLength DEF LogOK
<1>2. DOMAIN Page(n) = 1 .. n
  BY <1>1 DEF Page, LogOK
<1> DEFINE D == {j \in DOMAIN Page(n) : IsFact(Page(n)[j])}
           f == [i \in D |->
                  [id |-> Page(n)[i].id, at |-> Page(n)[i].at, kind |-> Kind(Page(n), i),
                   key |-> Page(n)[i].key, good |-> Page(n)[i].good,
                   text |-> Page(n)[i].text, command |-> Command(Page(n), i)]]
<1>3. IsFiniteSet(1 .. n)
  BY <1>1, FS_Interval
<1>4. D \subseteq 1 .. n
  BY <1>2
<1>5. IsFiniteSet(D)
  BY <1>3, <1>4, FS_Subset
<1>6. Reduce(Page(n)) = {f[i] : i \in D}
  BY DEF Reduce
<1>7. f = [i \in D |-> f[i]]
  OBVIOUS
<1> HIDE DEF D, f
<1>8. IsFiniteSet({f[i] : i \in D})
  BY <1>5, <1>7, ImageFinite
<1> QED BY <1>6, <1>8

(* So are the texts of those of one kind.                                  *)
LEMMA PartFinite ==
  ASSUME NEW facts, IsFiniteSet(facts), NEW kind
  PROVE  IsFiniteSet({g.text : g \in {f \in facts : f.kind = kind}} \ {None})
<1> DEFINE S == {f \in facts : f.kind = kind}
           t == [g \in S |-> g.text]
<1>1. IsFiniteSet(S)
  BY FS_Subset
<1>2. IsFiniteSet({t[g] : g \in S})
  BY <1>1, ImageFinite
<1>3. {g.text : g \in S} \ {None} \subseteq {t[g] : g \in S}
  OBVIOUS
<1> QED BY <1>2, <1>3, FS_Subset

-----------------------------------------------------------------------------
(* The winner of a correlation that nobody directed is a candidate that    *)
(* qualifies.                                                              *)
LEMMA WinnerQualifies ==
  ASSUME NEW in, in.explicit = None, in.continuation = None,
         Correlate(in).decision = "continue"
  PROVE  \E c \in in.candidates : Correlate(in).work = c.work /\ Qualifies(in, c)
<1> DEFINE mine == {c \in in.candidates : c.project = in.project}
           best == Winners(in, mine)
<1>1. Correlate(in) = IF in.evidence = {} THEN Create
                      ELSE IF Cardinality(best) = 1 THEN Continue((CHOOSE c \in best : TRUE).work)
                      ELSE [decision |-> "create", proposals |-> {c.work : c \in best}]
  BY DEF Correlate
<1>2. Cardinality(best) = 1 /\ Correlate(in) = Continue((CHOOSE c \in best : TRUE).work)
  BY <1>1 DEF Create
<1>3. best # {}
  BY <1>2, FS_EmptySet
<1>4. \A c \in best : c \in in.candidates /\ Qualifies(in, c)
  BY DEF Winners
<1> DEFINE w == CHOOSE c \in best : TRUE
<1>5. w \in best
  BY <1>3
<1>6. Correlate(in).work = w.work
  BY <1>2 DEF Continue
<1>7. w \in in.candidates /\ Qualifies(in, w)
  BY <1>4, <1>5
<1> QED BY <1>6, <1>7

(* Every candidate is what the store tells about one work item.            *)
LEMMA CandidateIsWork ==
  ASSUME NEW r, NEW facts, NEW c \in Input(r, facts).candidates
  PROVE  c = Candidate(c.work, Observed(facts))
<1>1. c \in {Candidate(w, Observed(facts)) : w \in {v \in Works : Exists(v)}}
  BY DEF Input, Candidates
<1>2. PICK w \in Works : c = Candidate(w, Observed(facts))
  BY <1>1
<1>3. c.work = w
  BY <1>2 DEF Candidate
<1> QED BY <1>2, <1>3

(* A page nobody names a work item for joins one only over a common file,  *)
(* whatever its repository, branch, commands, time and similarity are      *)
(* (Correlator::correlate, score).                                         *)
THEOREM JoinsAlwaysShare == Spec => []JoinsShareAnArtifact
<1>1. LogOK => JoinsShareAnArtifact
  <2> SUFFICES ASSUME LogOK, NEW n \in 1 .. PageSize, NEW r \in Requests,
                      read + n <= Len(log), r.explicit = None, r.continuation = None,
                      Decision(r, Reduce(Page(n))).decision = "continue"
               PROVE  Query(r, Reduce(Page(n))).artifacts
                        \cap TextsOf(Events(Decision(r, Reduce(Page(n))).work), "artifact") # {}
    BY DEF JoinsShareAnArtifact
  <2> DEFINE facts == Reduce(Page(n))
             in    == Input(r, facts)
             q     == Query(r, facts)
  <2>1. IsFiniteSet(facts)
    BY FactsFinite
  <2> HIDE DEF facts
  <2>2. /\ in.explicit = None /\ in.continuation = None /\ in.semantic = r.semantic
        /\ in.artifacts = q.artifacts /\ in.commands = q.commands
    BY DEF Input
  <2>3. IsFiniteSet(q.artifacts) /\ IsFiniteSet(q.commands)
    BY <2>1, PartFinite DEF Query
  <2>4. in.semantic \in Nat
    BY <2>2, WorkContractAssumption
  <2>5. PICK c \in in.candidates : Decision(r, facts).work = c.work /\ Qualifies(in, c)
    BY <2>2, WinnerQualifies DEF Decision, facts
  <2>6. c = Candidate(c.work, Observed(facts))
    BY <2>5, CandidateIsWork
  <2>7. /\ c.artifacts = TextsOf(Events(c.work), "artifact")
        /\ c.commands = TextsOf(Events(c.work), "request")
    BY <2>6 DEF Candidate
  <2>8. IsFiniteSet(c.artifacts) /\ IsFiniteSet(c.commands)
    BY <2>7, TextsFinite
  <2> HIDE DEF in, q
  <2>9. in.artifacts \cap c.artifacts # {}
    BY <2>2, <2>3, <2>4, <2>5, <2>8, NoFileNoMatch
  <2> QED BY <2>2, <2>5, <2>7, <2>9 DEF q, facts
<1> QED BY <1>1, LogInvariant, PTL


-----------------------------------------------------------------------------
(* A finite set in which everything is comparable has a greatest element.  *)
LEMMA GreatestExists ==
  ASSUME NEW S, IsFiniteSet(S), S # {}, NEW R,
         \A x, y \in S : x = y \/ <<x, y>> \in R \/ <<y, x>> \in R,
         \A x, y, z \in S : <<x, y>> \in R /\ <<y, z>> \in R => <<x, z>> \in R
  PROVE  \E m \in S : \A y \in S \ {m} : <<m, y>> \in R
<1> DEFINE Top(T) == \E m \in T : \A y \in T \ {m} : <<m, y>> \in R
           F == {T \in SUBSET S : T # {} /\ ~Top(T)}
<1> SUFFICES ASSUME ~Top(S) PROVE FALSE
  OBVIOUS
<1>1. F \subseteq FiniteSubsetsOf(S) /\ F # {}
  BY FS_Subset DEF FiniteSubsetsOf
<1>2. PICK T \in F : \A U \in F : <<U, T>> \notin StrictSubsetOrdering(S)
  <2>1. IsWellFoundedOn(StrictSubsetOrdering(S), FiniteSubsetsOf(S))
    BY FS_StrictSubsetOrderingWellFounded
  <2> HIDE DEF F
  <2> QED BY <1>1, <2>1, WFMin
<1>3. T \in SUBSET S /\ T # {} /\ ~Top(T)
  OBVIOUS
<1>4. PICK x \in T : TRUE
  BY <1>3
<1> DEFINE U == T \ {x}
<1>5. U \in SUBSET S /\ U \subseteq T /\ U # T
  BY <1>3, <1>4
<1>6. U \notin F
  BY <1>2, <1>3, <1>5 DEF StrictSubsetOrdering
<1>7. U # {}
  BY <1>3, <1>4
<1>8. PICK m \in U : \A y \in U \ {m} : <<m, y>> \in R
  BY <1>5, <1>6, <1>7
<1>9. m \in S /\ x \in S /\ m \in T /\ x \in T /\ m # x
  BY <1>3, <1>4, <1>5
<1>10. CASE <<m, x>> \in R
  <2>1. \A y \in T \ {m} : <<m, y>> \in R
    BY <1>8, <1>10
  <2> QED BY <1>3, <1>9, <2>1
<1>11. CASE <<x, m>> \in R
  <2>1. ASSUME NEW y \in T \ {x} PROVE <<x, y>> \in R
    <3>1. y = m \/ <<m, y>> \in R
      BY <1>8
    <3>2. y \in S
      BY <1>3
    <3> QED BY <1>9, <1>11, <3>1, <3>2
  <2> QED BY <1>3, <1>9, <2>1
<1> QED BY <1>9, <1>10, <1>11

(* Things observed at their times, each under its own identifier.          *)
Stamped(S) ==
  /\ \A x \in S : x.id \in Nat /\ x.at \in Int
  /\ \A x, y \in S : x.id = y.id => x = y

(* The choice of the newest, among things observed at their times under    *)
(* their own identifiers (the sort keys of apply_text_facts).              *)
LEMMA NewestIsOne ==
  ASSUME NEW S, IsFiniteSet(S), S # {}, Stamped(S)
  PROVE  Newest(S) \in S /\ \A y \in S \ {Newest(S)} : After(Newest(S), y)
<1> DEFINE R == {p \in S \X S : After(p[1], p[2])}
<1>1. ASSUME NEW x \in S, NEW y \in S PROVE <<x, y>> \in R <=> After(x, y)
  OBVIOUS
<1>2. ASSUME NEW x \in S, NEW y \in S PROVE x = y \/ After(x, y) \/ After(y, x)
  BY DEF After, Stamped
<1>3. ASSUME NEW x \in S, NEW y \in S, NEW z \in S, After(x, y), After(y, z)
      PROVE  After(x, z)
  BY <1>3 DEF After, Stamped
<1> HIDE DEF R
<1>4. \A x, y \in S : x = y \/ <<x, y>> \in R \/ <<y, x>> \in R
  BY <1>1, <1>2
<1>5. \A x, y, z \in S : <<x, y>> \in R /\ <<y, z>> \in R => <<x, z>> \in R
  BY <1>1, <1>3
<1>6. PICK m \in S : \A y \in S \ {m} : <<m, y>> \in R
  BY <1>4, <1>5, GreatestExists
<1>7. \A y \in S \ {m} : After(m, y)
  BY <1>1, <1>6
<1> QED BY <1>7 DEF Newest

(* The request of an action is one of those that may be it.                *)
LEMMA RequestIsAsked ==
  ASSUME NEW old, NEW facts, IsFiniteSet(Asks(old, facts)),
         \A r \in Asks(old, facts) : r.id \in Int
  PROVE  Action(old, facts).request = None \/ Action(old, facts).request \in Asks(old, facts)
<1> DEFINE S == Asks(old, facts)
           R == {p \in S \X S : p[2].id <= p[1].id}
<1>1. Action(old, facts).request
        = IF S = {} THEN None ELSE CHOOSE r \in S : \A s \in S : s.id <= r.id
  BY DEF Action
<1> HIDE DEF S
<1> SUFFICES ASSUME S # {} PROVE (CHOOSE r \in S : \A s \in S : s.id <= r.id) \in S
  BY <1>1 DEF S
<1>2. \A r \in S : r.id \in Int
  BY DEF S
<1>3. ASSUME NEW x \in S, NEW y \in S PROVE <<x, y>> \in R <=> y.id <= x.id
  OBVIOUS
<1> HIDE DEF R
<1>4. \A x, y \in S : x = y \/ <<x, y>> \in R \/ <<y, x>> \in R
  <2>1. ASSUME NEW x \in S, NEW y \in S PROVE y.id <= x.id \/ x.id <= y.id
    <3>1. x.id \in Int /\ y.id \in Int
      BY <1>2
    <3> QED BY <3>1
  <2> QED BY <1>3, <2>1
<1>5. \A x, y, z \in S : <<x, y>> \in R /\ <<y, z>> \in R => <<x, z>> \in R
  <2>1. ASSUME NEW x \in S, NEW y \in S, NEW z \in S, y.id <= x.id, z.id <= y.id
        PROVE  z.id <= x.id
    BY <1>2, <2>1
  <2> QED BY <1>3, <2>1
<1>6. IsFiniteSet(S)
  BY DEF S
<1>7. PICK m \in S : \A y \in S \ {m} : <<m, y>> \in R
  BY <1>4, <1>5, <1>6, GreatestExists
<1>8. ASSUME NEW y \in S PROVE y.id <= m.id
  <2>1. m.id \in Int
    BY <1>2
  <2>2. y # m => <<m, y>> \in R
    BY <1>7
  <2> QED BY <1>3, <2>1, <2>2
<1> QED BY <1>8


-----------------------------------------------------------------------------
(* What a revision keeps: the fields of a contract, and the next number.   *)
ContractFields == DOMAIN NoContract
Shaped(c) == DOMAIN c = ContractFields /\ c.rev \in Nat

(* The fields by name.                                                     *)
LEMMA FieldsOfContracts ==
  ContractFields = {"rev", "by", "objective", "status", "summary", "completed", "next",
                    "blockers", "constraints", "criteria", "artifacts", "verification",
                    "created", "cites", "refs", "truncated", "facts", "actions",
                    "reopened", "active", "crowded"}
BY DEF ContractFields, NoContract

(* apply_text_facts, apply_artifact_facts and project_action_fields: what  *)
(* a page makes of the fields that instruct, and of the actions.           *)
LEMMA DraftedFields ==
  ASSUME NEW c, Shaped(c), NEW facts
  PROVE  LET d    == Drafted(c, facts)
             goal == Said(facts, {"objective", "abandon"})
             rule == Said(facts, {"constraint", "forbid"})
         IN  /\ Shaped(d) /\ d.rev = c.rev
             /\ d.objective = IF goal = {} THEN c.objective ELSE Newest(goal).text
             /\ d.constraints = IF rule = {} THEN c.constraints ELSE {Newest(rule).text}
             /\ d.criteria = c.criteria
             /\ d.actions = Projected(c.actions, facts)
             /\ d.next = Smallest(Texts(Open(d.actions)), MaxItems)
BY FieldsOfContracts DEF Drafted, Shaped

(* ProvisionalContractBuilder::build: the next number, the builder's name, *)
(* and the rest as drafted.                                                *)
LEMMA RevisedFields ==
  ASSUME NEW c, Shaped(c), NEW facts
  PROVE  LET d == Drafted(c, facts)
             r == Revised(c, facts)
         IN  /\ Shaped(r) /\ r.rev = c.rev + 1 /\ r.by = "builder"
             /\ r.objective = d.objective /\ r.constraints = d.constraints
             /\ r.criteria = d.criteria /\ r.next = d.next /\ r.actions = d.actions
<1> DEFINE d == Drafted(c, facts)
<1>1. Shaped(d) /\ d.rev = c.rev
  BY DraftedFields
<1> HIDE DEF d
<1> DEFINE r == Revised(c, facts)
<1>2. DOMAIN r = ContractFields
  BY <1>1, FieldsOfContracts DEF Revised, Shaped, d
<1>3. r.rev = c.rev + 1 /\ r.by = "builder"
  BY <1>1, FieldsOfContracts DEF Revised, Shaped, d
<1>4. /\ r.objective = d.objective /\ r.constraints = d.constraints
      /\ r.criteria = d.criteria /\ r.next = d.next /\ r.actions = d.actions
  BY <1>1, FieldsOfContracts DEF Revised, Shaped, d
<1> HIDE DEF r
<1> QED BY <1>1, <1>2, <1>3, <1>4 DEF Shaped, r, d

(* A build is nothing new, or the next revision.                           *)
LEMMA BuildRevises ==
  ASSUME NEW c, NEW facts
  PROVE  Build(c, facts) = c \/ Build(c, facts) = Revised(c, facts)
BY DEF Build

(* apply_human_correction: one field, the next number, the human's name.   *)
LEMMA CorrectedFields ==
  ASSUME NEW c, Shaped(c), NEW f \in Correctable, NEW text, NEW at
  PROVE  LET r == Corrected(c, f, text, at)
         IN  /\ Shaped(r) /\ r.rev = c.rev + 1 /\ r.by = "human"
             /\ r.actions = c.actions
             /\ r.objective \in {c.objective, text}
             /\ \A g \in {"constraints", "criteria", "next"} : r[g] \in {c[g], {text}}
<1> DEFINE p == Put(c, f, text)
<1>1. /\ Shaped(p) /\ p.rev = c.rev /\ p.actions = c.actions
      /\ p.objective \in {c.objective, text}
      /\ \A g \in {"constraints", "criteria", "next"} : p[g] \in {c[g], {text}}
  BY FieldsOfContracts DEF Put, Shaped, Correctable
<1> HIDE DEF p
<1> DEFINE r == Corrected(c, f, text, at)
<1>2. DOMAIN r = ContractFields
  BY <1>1, FieldsOfContracts DEF Corrected, Shaped, p
<1>3. r.rev = c.rev + 1 /\ r.by = "human"
  BY <1>1, FieldsOfContracts DEF Corrected, Shaped, p
<1>4. /\ r.actions = p.actions /\ r.objective = p.objective
      /\ r.constraints = p.constraints /\ r.criteria = p.criteria /\ r.next = p.next
  BY <1>1, FieldsOfContracts DEF Corrected, Shaped, p
<1> HIDE DEF r
<1> QED BY <1>1, <1>2, <1>3, <1>4 DEF Shaped, r, p

(* The accepted proposals about a field.                                   *)
For(accepted, f) == {p \in accepted : p.field = f}

(* refine_provisional_contract_at_with_policy: the next number, the model's*)
(* name, and all references and actions there were.                        *)
LEMMA RefinedRevision ==
  ASSUME NEW c, Shaped(c), NEW accepted, NEW at, Refined(c, accepted, at) # None
  PROVE  LET r == Refined(c, accepted, at)
         IN  /\ Shaped(r) /\ r.rev = c.rev + 1 /\ r.by = "model"
             /\ c.refs \subseteq r.refs
             /\ r.actions = c.actions /\ r.status = c.status
             /\ r.completed = c.completed /\ r.artifacts = c.artifacts
<1> DEFINE r == Refined(c, accepted, at)
<1> USE FieldsOfContracts DEF Shaped
<1>1. DOMAIN r = ContractFields /\ r.rev = c.rev + 1 /\ r.by = "model"
  BY DEF Refined
<1>2. c.refs \subseteq r.refs
  BY DEF Refined
<1>3. /\ r.actions = c.actions /\ r.status = c.status
      /\ r.completed = c.completed /\ r.artifacts = c.artifacts
  BY DEF Refined
<1> HIDE DEF r
<1> QED BY <1>1, <1>2, <1>3 DEF r

(* And only fields that an accepted proposal is about change: they say and *)
(* cite what it does.                                                      *)
LEMMA RefinedTexts ==
  ASSUME NEW c, Shaped(c), NEW accepted, NEW at, Refined(c, accepted, at) # None
  PROVE  LET r == Refined(c, accepted, at)
         IN  /\ \A f \in Fields : For(accepted, f) = {} => r[f] = c[f]
             /\ \A f \in Fields : \A p \in For(accepted, f) : p.refs \subseteq r.cites[f]
             /\ r.objective = c.objective
                  \/ \E p \in For(accepted, "objective") : r.objective = p.text
             /\ \A f \in {"constraints", "criteria", "next"} : \A t \in r[f] :
                  t \in c[f] \/ \E p \in For(accepted, f) : t = p.text
<1> DEFINE r == Refined(c, accepted, at)
<1> USE FieldsOfContracts DEF Shaped, For
<1>1. \A f \in {"objective", "summary"} :
        r[f] = IF For(accepted, f) = {} THEN c[f]
               ELSE (CHOOSE p \in For(accepted, f) : TRUE).text
  <2>1. r.objective = IF For(accepted, "objective") = {} THEN c.objective
                ELSE (CHOOSE p \in For(accepted, "objective") : TRUE).text
    BY DEF Refined
  <2>2. r.summary = IF For(accepted, "summary") = {} THEN c.summary
                ELSE (CHOOSE p \in For(accepted, "summary") : TRUE).text
    BY DEF Refined
  <2> HIDE DEF r, For
  <2> QED BY <2>1, <2>2
<1>2. \A f \in {"constraints", "criteria", "next", "blockers", "verification"} :
        r[f] = IF For(accepted, f) = {} THEN c[f]
               ELSE {p.text : p \in For(accepted, f)}
  <2>1. r.constraints = IF For(accepted, "constraints") = {} THEN c.constraints
                ELSE {p.text : p \in For(accepted, "constraints")}
    BY DEF Refined
  <2>2. r.criteria = IF For(accepted, "criteria") = {} THEN c.criteria
                ELSE {p.text : p \in For(accepted, "criteria")}
    BY DEF Refined
  <2>3. r.next = IF For(accepted, "next") = {} THEN c.next
                ELSE {p.text : p \in For(accepted, "next")}
    BY DEF Refined
  <2>4. r.blockers = IF For(accepted, "blockers") = {} THEN c.blockers
                ELSE {p.text : p \in For(accepted, "blockers")}
    BY DEF Refined
  <2>5. r.verification = IF For(accepted, "verification") = {} THEN c.verification
                ELSE {p.text : p \in For(accepted, "verification")}
    BY DEF Refined
  <2> HIDE DEF r, For
  <2> QED BY <2>1, <2>2, <2>3, <2>4, <2>5
<1>3. ASSUME NEW f \in Fields, For(accepted, f) # {}
      PROVE  r.cites[f] = UNION {p.refs : p \in For(accepted, f)}
  BY <1>3 DEF Refined
<1>4. r.status = c.status /\ r.completed = c.completed /\ r.artifacts = c.artifacts
  BY RefinedRevision
<1> HIDE DEF r, For
<1>5. \A f \in Fields : For(accepted, f) = {} => r[f] = c[f]
  BY <1>1, <1>2, <1>4 DEF Fields
<1>6. ASSUME NEW f \in Fields, NEW p \in For(accepted, f) PROVE p.refs \subseteq r.cites[f]
  BY <1>3
<1>7. r.objective = c.objective \/ \E p \in For(accepted, "objective") : r.objective = p.text
  BY <1>1
<1>8. ASSUME NEW f \in {"constraints", "criteria", "next"}, NEW t \in r[f]
      PROVE  t \in c[f] \/ \E p \in For(accepted, f) : t = p.text
  <2>1. r[f] = IF For(accepted, f) = {} THEN c[f] ELSE {p.text : p \in For(accepted, f)}
    BY <1>2
  <2> QED BY <2>1
<1> QED BY <1>5, <1>6, <1>7, <1>8 DEF r

-----------------------------------------------------------------------------
(* Every work item has a contract; the one that an extractor was shown is  *)
(* still the latest unless a revision with a greater number replaced it.   *)
ShapesOK == DOMAIN contract = Works /\ \A w \in Works : Shaped(contract[w])

AskedOK ==
  asked # Silent =>
    /\ asked.work \in Works /\ Exists(asked.work)
    /\ asked.upto \in Nat /\ asked.upto <= read
    /\ asked.parent.rev \in Nat /\ asked.parent.rev <= contract[asked.work].rev
    /\ asked.parent.rev = contract[asked.work].rev => asked.parent = contract[asked.work]

(* The ways a step changes the contract of a work item.                    *)
Published(w, n) ==
  /\ read' = read + n /\ read + n <= Len(log) /\ Reduce(Page(n)) # {}
  /\ contract'[w] = Revised(contract[w], Reduce(Page(n)))
CorrectedBy(w, c) ==
  Exists(w) /\ c[1] \in Correctable /\ contract'[w] = Corrected(contract[w], c[1], c[2], read)
Accepted(answer) == Filtered(Evidence(asked.upto), answer)
RefinedBy(w, answer) ==
  /\ asked # Silent /\ w = asked.work
  /\ Refined(contract[w], Accepted(answer), read) # None
  /\ contract'[w] = Refined(contract[w], Accepted(answer), read)

Revises(w) ==
  \/ \E n \in 1 .. PageSize : Published(w, n)
  \/ \E c \in Corrections : CorrectedBy(w, c)
  \/ \E answer \in Proposals : RefinedBy(w, answer)

(* A new value at one place of a table leaves the other places alone.      *)
LEMMA OnePlace ==
  ASSUME NEW t, NEW w, NEW new, NEW v \in DOMAIN t
  PROVE  /\ DOMAIN [t EXCEPT ![w] = new] = DOMAIN t
         /\ [t EXCEPT ![w] = new][v] = IF v = w THEN new ELSE t[v]
OBVIOUS

(* An answer refines the very contract the extractor was shown, or changes *)
(* nothing (validate_extractor_parent).                                    *)
LEMMA AnswerRefines ==
  ASSUME ShapesOK, AskedOK, NEW answer \in Proposals, Answer(answer), NEW w \in Works
  PROVE  contract'[w] = contract[w] \/ RefinedBy(w, answer)
<1> DEFINE run == Run(answer)
<1>1. /\ asked # Silent /\ IsParent(run)
      /\ IF run.refined = None THEN contract' = contract
         ELSE contract' = [contract EXCEPT ![run.work] = run.refined]
  BY DEF Answer
<1>2. /\ run.work = asked.work /\ run.parent = asked.parent
      /\ run.refined = Refined(asked.parent, Accepted(answer), read)
  BY DEF Run, Accepted
<1> HIDE DEF run
<1>3. asked.parent = contract[asked.work]
  BY <1>1, <1>2 DEF IsParent, AskedOK
<1>4. CASE run.refined = None
  BY <1>1, <1>4
<1>5. CASE run.refined # None
  BY <1>1, <1>2, <1>3, <1>5, OnePlace DEF ShapesOK, RefinedBy
<1> QED BY <1>4, <1>5

(* A step leaves a contract as it is, or revises it; an answer counts only *)
(* for the very contract the extractor was shown (validate_extractor_parent).*)
LEMMA StepRevises ==
  ASSUME ShapesOK, AskedOK, [Next]_vars, NEW w \in Works
  PROVE  contract'[w] = contract[w] \/ Revises(w)
<1>1. ASSUME NEW n \in 1 .. PageSize, Publish(n) PROVE contract'[w] = contract[w] \/ Published(w, n)
  <2> DEFINE facts == Reduce(Page(n))
  <2>1. PICK v : contract' = [contract EXCEPT ![v] = Build(contract[v], facts)]
    BY <1>1 DEF Publish
  <2>2. read' = read + n /\ read + n <= Len(log) /\ facts # {}
    BY <1>1 DEF Publish
  <2>3. contract'[w] = IF w = v THEN Build(contract[w], facts) ELSE contract[w]
    BY <2>1, OnePlace DEF ShapesOK
  <2> HIDE DEF facts
  <2>4. contract'[w] = contract[w] \/ contract'[w] = Revised(contract[w], facts)
    BY <2>3, BuildRevises
  <2> QED BY <2>2, <2>4 DEF Published, facts
<1>2. ASSUME NEW v \in Works, NEW c \in Corrections, Correct(v, c[1], c[2], read)
      PROVE  contract'[w] = contract[w] \/ CorrectedBy(w, c)
  <2>1. /\ Exists(v) /\ c[1] \in Correctable
        /\ contract' = [contract EXCEPT ![v] = Corrected(contract[v], c[1], c[2], read)]
    BY <1>2 DEF Correct
  <2> QED BY <2>1, OnePlace DEF ShapesOK, CorrectedBy
<1>3. ASSUME NEW answer \in Proposals, Answer(answer)
      PROVE  contract'[w] = contract[w] \/ RefinedBy(w, answer)
  BY <1>3, AnswerRefines
<1>4. ASSUME (\E n \in 1 .. PageSize : Skip(n)) \/ (\E v \in Works : Ask(v))
               \/ (\E answer \in Proposals : TooLate(answer)) \/ UNCHANGED vars
      PROVE  contract'[w] = contract[w]
  BY <1>4 DEF Skip, Ask, TooLate, vars
<1> QED BY <1>1, <1>2, <1>3, <1>4 DEF Next, Publications, Answers, Revises

(* A revised contract has the next number, and a model's name only if it   *)
(* is an extractor's.                                                      *)
LEMMA RevisionsAreNumbered ==
  ASSUME ShapesOK, NEW w \in Works, Revises(w)
  PROVE  /\ Shaped(contract'[w]) /\ contract'[w].rev = contract[w].rev + 1
         /\ contract'[w].by = "model" => \E answer \in Proposals : RefinedBy(w, answer)
<1>0. Shaped(contract[w])
  BY DEF ShapesOK
<1>1. ASSUME NEW n \in 1 .. PageSize, Published(w, n)
      PROVE  /\ Shaped(contract'[w]) /\ contract'[w].rev = contract[w].rev + 1
             /\ contract'[w].by = "builder"
  BY <1>0, <1>1, RevisedFields DEF Published
<1>2. ASSUME NEW c \in Corrections, CorrectedBy(w, c)
      PROVE  /\ Shaped(contract'[w]) /\ contract'[w].rev = contract[w].rev + 1
             /\ contract'[w].by = "human"
  BY <1>0, <1>2, CorrectedFields DEF CorrectedBy
<1>3. ASSUME NEW answer \in Proposals, RefinedBy(w, answer)
      PROVE  Shaped(contract'[w]) /\ contract'[w].rev = contract[w].rev + 1
  <2>1. /\ Refined(contract[w], Accepted(answer), read) # None
        /\ contract'[w] = Refined(contract[w], Accepted(answer), read)
    BY <1>3 DEF RefinedBy
  <2> QED BY <1>0, <2>1, RefinedRevision
<1> QED BY <1>1, <1>2, <1>3 DEF Revises

(* The watermark only grows, and the call in progress is the one that was, *)
(* or one that has just read the latest contract.                          *)
LEMMA StepOfTheCall ==
  ASSUME LogOK, [Next]_vars
  PROVE  /\ log' = log /\ read' \in Nat /\ read <= read'
         /\ \/ asked' = asked \/ asked' = Silent
            \/ \E w \in Works : /\ Exists(w)
                                /\ asked' = [pc |-> "asked", work |-> w,
                                             parent |-> contract[w], upto |-> read]
                                /\ UNCHANGED contract
<1>1. ASSUME NEW n \in 1 .. PageSize, Publish(n) \/ Skip(n)
      PROVE  log' = log /\ read' = read + n /\ n \in Nat /\ asked' = asked
  BY <1>1, WorkContractAssumption DEF Publish, Skip
<1>2. ASSUME NEW w \in Works, NEW c \in Corrections, Correct(w, c[1], c[2], read)
      PROVE  log' = log /\ read' = read /\ asked' = asked
  BY <1>2 DEF Correct
<1>3. ASSUME NEW w \in Works, Ask(w)
      PROVE  /\ log' = log /\ read' = read /\ UNCHANGED contract /\ Exists(w)
             /\ asked' = [pc |-> "asked", work |-> w, parent |-> contract[w], upto |-> read]
  BY <1>3 DEF Ask
<1>4. ASSUME NEW answer \in Proposals, Answer(answer) \/ TooLate(answer)
      PROVE  log' = log /\ read' = read /\ asked' = Silent
  BY <1>4 DEF Answer, TooLate
<1>5. CASE UNCHANGED vars
  BY <1>5 DEF vars, LogOK
<1>6. read \in Nat
  BY DEF LogOK
<1> QED BY <1>1, <1>2, <1>3, <1>4, <1>5, <1>6 DEF Next, Publications, Answers

(* The step lemma of the contracts and of the call.                        *)
LEMMA ShapesStep ==
  ASSUME LogOK, ShapesOK, AskedOK, [Next]_vars
  PROVE  ShapesOK' /\ AskedOK'
<1>1. ASSUME NEW w \in Works
      PROVE  /\ Shaped(contract'[w]) /\ contract[w].rev \in Nat /\ contract'[w].rev \in Nat
             /\ contract'[w] = contract[w] \/ contract'[w].rev = contract[w].rev + 1
  BY StepRevises, RevisionsAreNumbered DEF ShapesOK, Shaped
<1>2. DOMAIN contract' = Works
  <2>1. ASSUME NEW n \in 1 .. PageSize, Publish(n) PROVE DOMAIN contract' = DOMAIN contract
    BY <2>1 DEF Publish
  <2>2. ASSUME NEW w \in Works, NEW c \in Corrections, Correct(w, c[1], c[2], read)
        PROVE  DOMAIN contract' = DOMAIN contract
    BY <2>2 DEF Correct
  <2>3. ASSUME NEW answer \in Proposals, Answer(answer) PROVE DOMAIN contract' = DOMAIN contract
    BY <2>3 DEF Answer
  <2>4. ASSUME (\E n \in 1 .. PageSize : Skip(n)) \/ (\E w \in Works : Ask(w))
                 \/ (\E answer \in Proposals : TooLate(answer)) \/ UNCHANGED vars
        PROVE  contract' = contract
    BY <2>4 DEF Skip, Ask, TooLate, vars
  <2> QED BY <2>1, <2>2, <2>3, <2>4 DEF Next, Publications, Answers, ShapesOK
<1>3. ShapesOK'
  BY <1>1, <1>2 DEF ShapesOK
<1>4. AskedOK'
  <2>0. read' \in Nat /\ read \in Nat /\ read <= read'
    BY StepOfTheCall DEF LogOK
  <2>1. CASE asked' = Silent
    BY <2>1 DEF AskedOK, Silent
  <2>2. ASSUME NEW w \in Works, UNCHANGED contract, Exists(w),
               asked' = [pc |-> "asked", work |-> w, parent |-> contract[w], upto |-> read]
        PROVE  AskedOK'
    <3>1. asked'.work = w /\ asked'.upto = read /\ asked'.parent = contract'[w]
      BY <2>2
    <3> QED BY <1>1, <2>0, <2>2, <3>1 DEF AskedOK, Exists
  <2>3. CASE asked' = asked /\ asked # Silent
    <3> DEFINE w == asked.work
    <3>1. /\ w \in Works /\ contract[w].rev > 0 /\ asked.upto \in Nat /\ asked.upto <= read
          /\ asked.parent.rev \in Nat /\ asked.parent.rev <= contract[w].rev
          /\ asked.parent.rev = contract[w].rev => asked.parent = contract[w]
      BY <2>3 DEF AskedOK, Exists
    <3>2. /\ contract[w].rev \in Nat
          /\ contract'[w] = contract[w] \/ contract'[w].rev = contract[w].rev + 1
      BY <1>1, <3>1
    <3>3. CASE contract'[w] = contract[w]
      BY <2>0, <2>3, <3>1, <3>3 DEF AskedOK, Exists
    <3>4. CASE contract'[w].rev = contract[w].rev + 1
      <4>1. ~(asked.parent.rev = contract'[w].rev) /\ asked.parent.rev <= contract'[w].rev
        BY <3>1, <3>2, <3>4
      <4>2. asked.upto <= read' /\ contract'[w].rev > 0
        BY <2>0, <3>1, <3>2, <3>4
      <4> QED BY <2>3, <3>1, <4>1, <4>2 DEF AskedOK, Exists
    <3> QED BY <3>2, <3>3, <3>4
  <2> QED BY <2>1, <2>2, <2>3, StepOfTheCall
<1> QED BY <1>3, <1>4


-----------------------------------------------------------------------------
(* A field that a refinement changes is one that an accepted proposal is   *)
(* about, and cites what the proposal rests on.                            *)
LEMMA RefinedKeeps ==
  ASSUME NEW c, Shaped(c), NEW accepted, NEW at, Refined(c, accepted, at) # None,
         NEW f \in Fields
  PROVE  LET r == Refined(c, accepted, at)
         IN  r[f] = c[f] \/ \E p \in accepted : p.field = f /\ p.refs \subseteq r.cites[f]
<1> DEFINE r == Refined(c, accepted, at)
<1>1. /\ For(accepted, f) = {} => r[f] = c[f]
      /\ \A p \in For(accepted, f) : p.refs \subseteq r.cites[f]
  BY RefinedTexts
<1> HIDE DEF r
<1> QED BY <1>1 DEF For, r

(* The policy accepts only what was proposed.                              *)
LEMMA FilteredIsProposed ==
  ASSUME NEW evidence, NEW proposals
  PROVE  /\ Filtered(evidence, proposals) \subseteq Range(proposals)
         /\ \A p \in Filtered(evidence, proposals) : Acceptable(evidence, p)
BY DEF Filtered, Range

(* A log, the contracts and the call in progress hang together.            *)
THEOREM CallInvariant == Spec => [](LogOK /\ ShapesOK /\ AskedOK)
<1>1. Init => ShapesOK /\ AskedOK
  BY DEF Init, ShapesOK, AskedOK, Shaped, ContractFields, NoContract, Silent
<1>2. LogOK /\ ShapesOK /\ AskedOK /\ [Next]_vars => (ShapesOK /\ AskedOK)'
  BY ShapesStep
<1> QED BY <1>1, <1>2, LogInvariant, PTL DEF Spec

(* A refinement is the next revision of the latest contract, with all its  *)
(* references and actions; nothing published or corrected while the        *)
(* extractor was thinking is undone (publish_semantic, apply_extractor).   *)
THEOREM RefinementsLoseNothing == Spec => RefinementLosesNothing
<1> DEFINE Keeps(w) ==
      contract'[w].by = "model" /\ contract'[w] # contract[w] =>
        /\ contract'[w].rev = contract[w].rev + 1
        /\ contract[w].refs \subseteq contract'[w].refs
        /\ contract[w].actions = contract'[w].actions
        /\ \A f \in Fields : contract'[w][f] = contract[w][f]
                             \/ \E p \in UNION {Range(a) : a \in Proposals} :
                                  p.field = f /\ p.refs \subseteq contract'[w].cites[f]
<1>1. ASSUME LogOK, ShapesOK, AskedOK, [Next]_vars, NEW w \in Works PROVE Keeps(w)
  <2> SUFFICES ASSUME contract'[w].by = "model", contract'[w] # contract[w]
               PROVE  Keeps(w)
    OBVIOUS
  <2>1. PICK answer \in Proposals : RefinedBy(w, answer)
    BY <1>1, StepRevises, RevisionsAreNumbered
  <2>2. PICK accepted : accepted = Accepted(answer)
    OBVIOUS
  <2>3. PICK c : c = contract[w]
    OBVIOUS
  <2>4. PICK r : r = contract'[w]
    OBVIOUS
  <2>5. PICK at : at = read
    OBVIOUS
  <2>6. Shaped(c) /\ Refined(c, accepted, at) # None /\ r = Refined(c, accepted, at)
    BY <1>1, <2>1, <2>2, <2>3, <2>4, <2>5 DEF RefinedBy, ShapesOK
  <2>7. r.rev = c.rev + 1 /\ c.refs \subseteq r.refs /\ r.actions = c.actions
    BY <2>6, RefinedRevision
  <2>8. ASSUME NEW f \in Fields
        PROVE  r[f] = c[f] \/ \E p \in UNION {Range(a) : a \in Proposals} :
                                p.field = f /\ p.refs \subseteq r.cites[f]
    <3>1. r[f] = c[f] \/ \E p \in accepted : p.field = f /\ p.refs \subseteq r.cites[f]
      BY <2>6, RefinedKeeps
    <3>2. accepted \subseteq Range(answer)
      BY <2>2, FilteredIsProposed DEF Accepted
    <3> QED BY <3>1, <3>2
  <2> QED BY <2>3, <2>4, <2>7, <2>8
<1>2. LogOK /\ ShapesOK /\ AskedOK /\ [Next]_vars => [\A w \in Works : Keeps(w)]_vars
  BY <1>1
<1>3. [\A w \in Works : Keeps(w)]_vars => [\A w \in Works :
       contract'[w].by = "model" /\ contract'[w] # contract[w] =>
         /\ contract'[w].rev = contract[w].rev + 1
         /\ contract[w].refs \subseteq contract'[w].refs
         /\ contract[w].actions = contract'[w].actions
         /\ \A f \in Fields : contract'[w][f] = contract[w][f]
                              \/ \E p \in UNION {Range(a) : a \in Proposals} :
                                   p.field = f /\ p.refs \subseteq contract'[w].cites[f]]_vars
  OBVIOUS
<1> QED BY <1>2, <1>3, CallInvariant, PTL DEF Spec, RefinementLosesNothing


-----------------------------------------------------------------------------
(* A text of the log stays one while the log is read on.                   *)
LEMMA TextsGrow ==
  ASSUME NEW m \in Nat, NEW n \in Nat, m <= n, NEW kind
  PROVE  TextsOf(1 .. m, kind) \subseteq TextsOf(1 .. n, kind)
<1>1. 1 .. m \subseteq 1 .. n
  OBVIOUS
<1> QED BY <1>1 DEF TextsOf

(* What is said at a place is a text of the log.                           *)
LEMMA SaidIsText ==
  ASSUME NEW n \in Nat, NEW i \in 1 .. n, log[i].text # None
  PROVE  log[i].text \in TextsOf(1 .. n, log[i].kind)
BY DEF TextsOf

(* Each fact of a page is what the reducer makes of one of its events.     *)
FactAt(n, i) ==
  [id |-> Page(n)[i].id, at |-> Page(n)[i].at, kind |-> Kind(Page(n), i),
   key |-> Page(n)[i].key, good |-> Page(n)[i].good,
   text |-> Page(n)[i].text, command |-> Command(Page(n), i)]

(* It has the event's identifier, time and text, and what counts as said   *)
(* is of the event's kind (DeterministicReducer::reduce).                  *)
LEMMA FactsAreEvents ==
  ASSUME LogOK, NEW n \in 1 .. PageSize, read + n <= Len(log)
  PROVE  /\ \A f \in Reduce(Page(n)) : \E i \in 1 .. n : f = FactAt(n, i)
         /\ \A i \in 1 .. n :
              /\ read + i \in 1 .. Len(log) /\ FactAt(n, i).id = log[read + i].id
              /\ FactAt(n, i).at = log[read + i].at /\ FactAt(n, i).text = log[read + i].text
              /\ FactAt(n, i).kind \in {"objective", "constraint", "abandon", "forbid", "request"} =>
                   FactAt(n, i).kind = log[read + i].kind
<1>1. n \in Nat /\ read \in Nat /\ log \in Seq(Range(log)) /\ Len(log) \in Nat
  BY WorkContractAssumption, LogLength DEF LogOK
<1>2. DOMAIN Page(n) = 1 .. n /\ \A i \in 1 .. n : Page(n)[i] = log[read + i]
  BY <1>1 DEF Page, LogOK
<1>3. ASSUME NEW f \in Reduce(Page(n)) PROVE \E i \in 1 .. n : f = FactAt(n, i)
  BY <1>2 DEF Reduce, FactAt
<1>4. ASSUME NEW i \in 1 .. n
      PROVE  /\ read + i \in 1 .. Len(log) /\ FactAt(n, i).id = log[read + i].id
             /\ FactAt(n, i).at = log[read + i].at /\ FactAt(n, i).text = log[read + i].text
  BY <1>1, <1>2 DEF FactAt
<1>5. ASSUME NEW i \in 1 .. n,
             FactAt(n, i).kind \in {"objective", "constraint", "abandon", "forbid", "request"}
      PROVE  FactAt(n, i).kind = log[read + i].kind
  <2>1. FactAt(n, i).kind = Kind(Page(n), i)
    BY DEF FactAt
  <2>2. Kind(Page(n), i) \in {Page(n)[i].kind, "finished", "eligible", "verification"}
    BY DEF Kind
  <2> QED BY <1>2, <1>5, <2>1, <2>2
<1> QED BY <1>3, <1>4, <1>5

(* So the facts of a page are stamped, and those that say something are    *)
(* texts of the log (DeterministicReducer::reduce).                        *)
LEMMA FactsAreStamped ==
  ASSUME LogOK, NEW n \in 1 .. PageSize, read + n <= Len(log)
  PROVE  /\ Stamped(Reduce(Page(n)))
         /\ \A f \in Reduce(Page(n)) :
              /\ f.kind \in {"objective", "constraint", "abandon", "forbid", "request"}
              /\ f.text # None
              => f.text \in TextsOf(1 .. (read + n), f.kind)
<1>0. read \in Nat /\ n \in Nat /\ DOMAIN log = 1 .. Len(log)
  BY WorkContractAssumption, LogLength DEF LogOK
<1>1. \A i, j \in 1 .. Len(log) : /\ log[i].id \in Nat /\ log[i].at \in Int
                                  /\ log[i].id = log[j].id => i = j
  BY <1>0, WorkContractAssumption DEF LogOK
<1>2. ASSUME NEW f \in Reduce(Page(n)) PROVE f.id \in Nat /\ f.at \in Int
  <2>1. PICK i \in 1 .. n : f = FactAt(n, i)
    BY FactsAreEvents
  <2>2. read + i \in 1 .. Len(log) /\ f.id = log[read + i].id /\ f.at = log[read + i].at
    BY <2>1, FactsAreEvents
  <2> QED BY <1>1, <2>2
<1>3. ASSUME NEW f \in Reduce(Page(n)), NEW g \in Reduce(Page(n)), f.id = g.id PROVE f = g
  <2>1. PICK i \in 1 .. n : f = FactAt(n, i)
    BY FactsAreEvents
  <2>2. PICK j \in 1 .. n : g = FactAt(n, j)
    BY FactsAreEvents
  <2>3. /\ read + i \in 1 .. Len(log) /\ f.id = log[read + i].id
        /\ read + j \in 1 .. Len(log) /\ g.id = log[read + j].id
    BY <2>1, <2>2, FactsAreEvents
  <2>4. read + i = read + j
    BY <1>1, <1>3, <2>3
  <2>5. i = j
    BY <1>0, <2>4
  <2> QED BY <2>1, <2>2, <2>5
<1>4. ASSUME NEW f \in Reduce(Page(n)), f.text # None,
             f.kind \in {"objective", "constraint", "abandon", "forbid", "request"}
      PROVE  f.text \in TextsOf(1 .. (read + n), f.kind)
  <2>1. PICK i \in 1 .. n : f = FactAt(n, i)
    BY FactsAreEvents
  <2>2. /\ f.kind = log[read + i].kind /\ f.text = log[read + i].text
    BY <1>4, <2>1, FactsAreEvents
  <2>3. read + n \in Nat /\ read + i \in 1 .. (read + n)
    BY <1>0
  <2> QED BY <1>4, <2>2, <2>3, SaidIsText
<1> QED BY <1>2, <1>3, <1>4 DEF Stamped

(* What the newest of some of those facts says is said by one of them.     *)
LEMMA NewestIsSaid ==
  ASSUME NEW facts, IsFiniteSet(facts), Stamped(facts), NEW kinds, Said(facts, kinds) # {}
  PROVE  Newest(Said(facts, kinds)) \in Said(facts, kinds)
<1>1. Said(facts, kinds) \subseteq facts
  BY DEF Said
<1>2. IsFiniteSet(Said(facts, kinds))
  BY <1>1, FS_Subset
<1>3. Stamped(Said(facts, kinds))
  BY <1>1 DEF Stamped
<1> QED BY <1>2, <1>3, NewestIsOne

-----------------------------------------------------------------------------
(* The words of a contract, where human are the words of humans and asked  *)
(* the inputs of requests.                                                 *)
Spoken(c, human, inputs) ==
  /\ c.objective \in human \cup {None}
  /\ c.constraints \cup c.criteria \subseteq human
  /\ c.next \subseteq human \cup inputs

(* The requests that a contract's actions remember.                        *)
RequestsOK(c, inputs) ==
  \A k \in DOMAIN c.actions :
    LET r == c.actions[k].request
    IN  r = None \/ (r.id \in Nat /\ r.text \in inputs)

HumanOK(c, human, inputs) == Spoken(c, human, inputs) /\ RequestsOK(c, inputs)

(* More words do no harm.                                                  *)
LEMMA HumanGrows ==
  ASSUME NEW c, NEW human, NEW inputs, HumanOK(c, human, inputs),
         NEW more, NEW others, human \subseteq more, inputs \subseteq others
  PROVE  HumanOK(c, more, others)
<1>1. Spoken(c, more, others)
  BY DEF HumanOK, Spoken
<1>2. RequestsOK(c, others)
  BY DEF HumanOK, RequestsOK
<1> QED BY <1>1, <1>2 DEF HumanOK

(* update_action_projection: an action remembers a request that was made.  *)
LEMMA ProjectedRequests ==
  ASSUME NEW c, NEW inputs, RequestsOK(c, inputs), NEW facts, IsFiniteSet(facts), Stamped(facts),
         \A f \in facts : f.kind = "request" /\ f.text # None => f.text \in inputs
  PROVE  \A k \in DOMAIN Projected(c.actions, facts) :
           LET r == Projected(c.actions, facts)[k].request
           IN  r = None \/ (r.id \in Nat /\ r.text \in inputs)
<1> DEFINE old(k) == IF k \in DOMAIN c.actions THEN c.actions[k] ELSE NoAction
           mine(k) == {f \in facts : OfAction(f) /\ f.key = k}
           asks(k) == {f \in mine(k) : f.kind = "request" /\ f.text # None}
           made(k) == [f \in asks(k) |-> [id |-> f.id, text |-> f.text]]
<1>1. ASSUME NEW k \in DOMAIN Projected(c.actions, facts)
      PROVE  Projected(c.actions, facts)[k] = Action(old(k), mine(k))
  BY DEF Projected
<1>2. ASSUME NEW k PROVE old(k).request = None
                         \/ (old(k).request.id \in Nat /\ old(k).request.text \in inputs)
  BY DEF RequestsOK, NoAction
<1>3. ASSUME NEW k
      PROVE  /\ IsFiniteSet(Asks(old(k), mine(k)))
             /\ \A r \in Asks(old(k), mine(k)) : r.id \in Nat /\ r.text \in inputs
  <2>1. Asks(old(k), mine(k)) = {made(k)[f] : f \in asks(k)}
          \cup (IF old(k).request = None THEN {} ELSE {old(k).request})
    BY DEF Asks
  <2>2. \A f \in asks(k) : f.id \in Nat /\ f.text \in inputs
    BY DEF Stamped
  <2>3. IsFiniteSet(asks(k))
    BY FS_Subset
  <2>4. made(k) = [f \in asks(k) |-> made(k)[f]]
    OBVIOUS
  <2>5. \A f \in asks(k) : made(k)[f].id = f.id /\ made(k)[f].text = f.text
    OBVIOUS
  <2> HIDE DEF made, asks, old, mine
  <2>6. IsFiniteSet({made(k)[f] : f \in asks(k)})
    BY <2>3, <2>4, ImageFinite
  <2>7. IsFiniteSet(IF old(k).request = None THEN {} ELSE {old(k).request})
    BY FS_EmptySet, FS_Singleton
  <2>8. IsFiniteSet(Asks(old(k), mine(k)))
    BY <2>1, <2>6, <2>7, FS_Union
  <2>9. \A r \in Asks(old(k), mine(k)) : r.id \in Nat /\ r.text \in inputs
    BY <1>2, <2>1, <2>2, <2>5
  <2> QED BY <2>8, <2>9
<1> HIDE DEF old, mine
<1>4. ASSUME NEW k
      PROVE  \/ Action(old(k), mine(k)).request = None
             \/ Action(old(k), mine(k)).request \in Asks(old(k), mine(k))
  BY <1>3, RequestIsAsked
<1> QED BY <1>1, <1>3, <1>4


(* A build on what humans said and asked keeps to it, if the page does     *)
(* (ProvisionalContractBuilder::build).                                    *)
LEMMA RevisedIsHuman ==
  ASSUME NEW c, Shaped(c), NEW human, NEW inputs, HumanOK(c, human, inputs),
         NEW facts, IsFiniteSet(facts), Stamped(facts),
         \A f \in facts : f.kind \in {"objective", "abandon", "constraint", "forbid"} /\ f.text # None
                            => f.text \in human,
         \A f \in facts : f.kind = "request" /\ f.text # None => f.text \in inputs
  PROVE  HumanOK(Revised(c, facts), human, inputs)
<1> DEFINE r    == Revised(c, facts)
           goal == Said(facts, {"objective", "abandon"})
           rule == Said(facts, {"constraint", "forbid"})
<1>1. /\ r.objective = IF goal = {} THEN c.objective ELSE Newest(goal).text
      /\ r.constraints = IF rule = {} THEN c.constraints ELSE {Newest(rule).text}
      /\ r.criteria = c.criteria
      /\ r.actions = Projected(c.actions, facts)
      /\ r.next = Smallest(Texts(Open(r.actions)), MaxItems)
  BY DraftedFields, RevisedFields
<1> HIDE DEF r
<1>2. r.objective \in human \cup {None}
  <2>1. ASSUME goal # {} PROVE Newest(goal).text \in human
    <3>1. Newest(goal) \in goal
      BY <2>1, NewestIsSaid
    <3> QED BY <3>1 DEF Said
  <2> QED BY <1>1, <2>1 DEF HumanOK, Spoken
<1>3. r.constraints \cup r.criteria \subseteq human
  <2>1. ASSUME rule # {} PROVE Newest(rule).text \in human
    <3>1. Newest(rule) \in rule
      BY <2>1, NewestIsSaid
    <3> QED BY <3>1 DEF Said
  <2> QED BY <1>1, <2>1 DEF HumanOK, Spoken
<1>4. RequestsOK(r, inputs)
  <2>1. RequestsOK(c, inputs)
    BY DEF HumanOK
  <2>2. \A k \in DOMAIN Projected(c.actions, facts) :
          LET q == Projected(c.actions, facts)[k].request
          IN  q = None \/ (q.id \in Nat /\ q.text \in inputs)
    BY <2>1, ProjectedRequests
  <2> QED BY <1>1, <2>2 DEF RequestsOK
<1>5. Texts(Open(r.actions)) \subseteq inputs
  BY <1>4 DEF RequestsOK, Texts, Open
<1>6. r.next \subseteq inputs
  BY <1>1, <1>5 DEF Smallest
<1> QED BY <1>2, <1>3, <1>4, <1>6 DEF HumanOK, Spoken, r

(* A correction says what the human who corrects says.                     *)
LEMMA CorrectedIsHuman ==
  ASSUME NEW c, Shaped(c), NEW human, NEW inputs, HumanOK(c, human, inputs),
         NEW f \in Correctable, NEW text \in human, NEW at
  PROVE  HumanOK(Corrected(c, f, text, at), human, inputs)
<1> DEFINE r == Corrected(c, f, text, at)
<1>1. /\ r.actions = c.actions /\ r.objective \in {c.objective, text}
      /\ r.constraints \in {c.constraints, {text}}
      /\ r.criteria \in {c.criteria, {text}} /\ r.next \in {c.next, {text}}
  BY CorrectedFields
<1> HIDE DEF r
<1>2. Spoken(r, human, inputs)
  BY <1>1 DEF HumanOK, Spoken
<1>3. RequestsOK(r, inputs)
  BY <1>1 DEF HumanOK, RequestsOK
<1> QED BY <1>2, <1>3 DEF HumanOK, r

(* The words of humans up to a place of the log, and in corrections.       *)
Words(n) ==
  TextsOf(1 .. n, "objective") \cup TextsOf(1 .. n, "constraint")
    \cup TextsOf(1 .. n, "abandon") \cup TextsOf(1 .. n, "forbid")
    \cup {c[2] : c \in Corrections}
Inputs(n) == TextsOf(1 .. n, "request")

(* An accepted proposal for an instruction repeats words of a human        *)
(* (allowed_for_field, matches_human_intent).                              *)
LEMMA AcceptedIsHuman ==
  ASSUME NEW n \in Nat, NEW p, Acceptable(Evidence(n), p), p.field \in InstructionFields
  PROVE  p.text \in Words(n)
<1>1. p.text # None /\ MatchesHuman(Evidence(n), p)
  BY DEF Acceptable
<1>2. PICK e \in Evidence(n) : e.authority = "human" /\ e.text = p.text
  BY <1>1 DEF MatchesHuman
<1>3. PICK i \in 1 .. n :
        e = [id |-> log[i].id, authority |-> AuthorityOf(log[i]), text |-> log[i].text]
  BY <1>2 DEF Evidence
<1>4. AuthorityOf(log[i]) = "human" /\ log[i].text = p.text
  BY <1>2, <1>3
<1>5. log[i].kind \in {"objective", "constraint", "abandon", "forbid"}
  BY <1>4 DEF AuthorityOf
<1>6. log[i].text \in TextsOf(1 .. n, log[i].kind)
  BY <1>1, <1>4, SaidIsText
<1> QED BY <1>4, <1>5, <1>6 DEF Words

(* So a refinement keeps to the words of humans (SemanticPolicy).          *)
LEMMA RefinedIsHuman ==
  ASSUME NEW c, Shaped(c), NEW human, NEW inputs, HumanOK(c, human, inputs),
         NEW accepted, NEW at, Refined(c, accepted, at) # None,
         \A p \in accepted : p.field \in InstructionFields => p.text \in human
  PROVE  HumanOK(Refined(c, accepted, at), human, inputs)
<1> DEFINE r == Refined(c, accepted, at)
<1>1. r.actions = c.actions
  BY RefinedRevision
<1>2. \A f \in InstructionFields : \A p \in For(accepted, f) : p.text \in human
  BY DEF For
<1>3. For(accepted, "criteria") = {} => r.criteria = c.criteria
  BY RefinedTexts DEF Fields
<1>4. r.objective \in human \cup {None}
  <2>1. r.objective = c.objective \/ \E p \in For(accepted, "objective") : r.objective = p.text
    BY RefinedTexts
  <2> HIDE DEF r
  <2> QED BY <1>2, <2>1 DEF InstructionFields, HumanOK, Spoken
<1>5. ASSUME NEW f \in {"constraints", "criteria", "next"}, NEW t \in r[f]
      PROVE  t \in c[f] \/ t \in human
  <2>1. t \in c[f] \/ \E p \in For(accepted, f) : t = p.text
    BY RefinedTexts
  <2> HIDE DEF r
  <2> QED BY <1>2, <2>1 DEF InstructionFields
<1> HIDE DEF r
<1>6. Spoken(r, human, inputs)
  <2>1. \A t \in r.constraints : t \in c.constraints \/ t \in human
    BY <1>5
  <2>2. \A t \in r.criteria : t \in c.criteria \/ t \in human
    BY <1>5
  <2>3. \A t \in r.next : t \in c.next \/ t \in human
    BY <1>5
  <2> QED BY <1>4, <2>1, <2>2, <2>3 DEF HumanOK, Spoken
<1>7. RequestsOK(r, inputs)
  BY <1>1 DEF HumanOK, RequestsOK
<1> QED BY <1>6, <1>7 DEF HumanOK, r

-----------------------------------------------------------------------------
(* Every contract keeps to the words said so far.                          *)
AllHuman == \A w \in Works : HumanOK(contract[w], Words(read), Inputs(read))

IInv == LogOK /\ ShapesOK /\ AskedOK /\ AllHuman

(* The words said so far grow with what is read.                           *)
LEMMA WordsGrow ==
  ASSUME NEW m \in Nat, NEW n \in Nat, m <= n
  PROVE  Words(m) \subseteq Words(n) /\ Inputs(m) \subseteq Inputs(n)
BY TextsGrow DEF Words, Inputs

(* Whatever revises a contract, it keeps to the words said so far.         *)
LEMMA RevisionsAreHuman ==
  ASSUME IInv, NEW w \in Works, Revises(w)
  PROVE  \/ HumanOK(contract'[w], Words(read), Inputs(read))
         \/ HumanOK(contract'[w], Words(read'), Inputs(read'))
<1> PICK c : c = contract[w]
  OBVIOUS
<1>0. Shaped(c) /\ HumanOK(c, Words(read), Inputs(read)) /\ read \in Nat
  BY DEF IInv, ShapesOK, AllHuman, LogOK
<1>1. ASSUME NEW n \in 1 .. PageSize, Published(w, n)
      PROVE  HumanOK(contract'[w], Words(read'), Inputs(read'))
  <2>1. PICK facts : facts = Reduce(Page(n))
    OBVIOUS
  <2>2. read + n <= Len(log) /\ read' = read + n /\ contract'[w] = Revised(c, facts)
    BY <1>1, <2>1 DEF Published
  <2>3. read + n \in Nat /\ read <= read + n
    BY <1>0, WorkContractAssumption
  <2>4. HumanOK(c, Words(read + n), Inputs(read + n))
    BY <1>0, <2>3, WordsGrow, HumanGrows
  <2>5. IsFiniteSet(facts) /\ Stamped(facts)
    BY <2>1, <2>2, FactsFinite, FactsAreStamped DEF IInv
  <2>6. \A f \in facts : f.kind \in {"objective", "abandon", "constraint", "forbid"} /\ f.text # None
                           => f.text \in Words(read + n)
    BY <2>1, <2>2, FactsAreStamped DEF IInv, Words
  <2>7. \A f \in facts : f.kind = "request" /\ f.text # None => f.text \in Inputs(read + n)
    BY <2>1, <2>2, FactsAreStamped DEF IInv, Inputs
  <2>8. HumanOK(Revised(c, facts), Words(read + n), Inputs(read + n))
    BY <1>0, <2>4, <2>5, <2>6, <2>7, RevisedIsHuman
  <2> QED BY <2>2, <2>8
<1>2. ASSUME NEW d \in Corrections, CorrectedBy(w, d)
      PROVE  HumanOK(contract'[w], Words(read), Inputs(read))
  <2>1. d[2] \in Words(read)
    BY DEF Words
  <2> QED BY <1>0, <1>2, <2>1, CorrectedIsHuman DEF CorrectedBy
<1>3. ASSUME NEW answer \in Proposals, RefinedBy(w, answer)
      PROVE  HumanOK(contract'[w], Words(read), Inputs(read))
  <2>1. PICK accepted : accepted = Accepted(answer)
    OBVIOUS
  <2>2. Refined(c, accepted, read) # None /\ contract'[w] = Refined(c, accepted, read)
    BY <1>3, <2>1 DEF RefinedBy
  <2>3. asked.upto \in Nat /\ asked.upto <= read
    BY <1>3 DEF RefinedBy, IInv, AskedOK
  <2>4. ASSUME NEW p \in accepted, p.field \in InstructionFields PROVE p.text \in Words(read)
    <3>1. Acceptable(Evidence(asked.upto), p)
      BY <2>1, FilteredIsProposed DEF Accepted
    <3>2. p.text \in Words(asked.upto)
      BY <2>3, <2>4, <3>1, AcceptedIsHuman
    <3> QED BY <1>0, <2>3, <3>2, WordsGrow
  <2> QED BY <1>0, <2>2, <2>4, RefinedIsHuman
<1> QED BY <1>1, <1>2, <1>3 DEF Revises

(* The inductive invariant of the contracts and their words.               *)
THEOREM WordsInvariant == Spec => []IInv
<1>1. Init => AllHuman
  BY DEF Init, AllHuman, HumanOK, Spoken, RequestsOK, NoContract
<1>2. IInv /\ [Next]_vars => AllHuman'
  <2> SUFFICES ASSUME IInv, [Next]_vars PROVE AllHuman'
    OBVIOUS
  <2>0. log' = log
    BY StepOfTheCall DEF IInv
  <2> SUFFICES ASSUME NEW w \in Works
               PROVE  HumanOK(contract'[w], Words(read'), Inputs(read'))
    BY <2>0 DEF AllHuman, Words, Inputs, TextsOf
  <2>1. read \in Nat /\ read' \in Nat /\ read <= read'
    BY StepOfTheCall DEF IInv, LogOK
  <2>2. Words(read) \subseteq Words(read') /\ Inputs(read) \subseteq Inputs(read')
    BY <2>1, WordsGrow
  <2>3. HumanOK(contract[w], Words(read), Inputs(read))
    BY DEF IInv, AllHuman
  <2>4. \/ HumanOK(contract'[w], Words(read), Inputs(read))
        \/ HumanOK(contract'[w], Words(read'), Inputs(read'))
    BY <2>3, StepRevises, RevisionsAreHuman DEF IInv
  <2> QED BY <2>2, <2>4, HumanGrows
<1> QED BY <1>1, <1>2, CallInvariant, PTL DEF Spec, IInv

(* However a refinement is worded and whatever it cites, an instruction    *)
(* never says what only a model or a tool said: it is a human's, or for    *)
(* what is to do next the input of a request (SemanticPolicy::validate,    *)
(* apply_text_facts, project_action_fields).                               *)
THEOREM InstructionsAreAlwaysHuman == Spec => []InstructionsAreHuman
<1>1. IInv => InstructionsAreHuman
  <2> SUFFICES ASSUME IInv, NEW w \in Works
               PROVE  /\ contract[w].objective \in HumanWords \cup {None}
                      /\ contract[w].constraints \cup contract[w].criteria \subseteq HumanWords
                      /\ contract[w].next \subseteq HumanWords \cup TextsOf(1 .. read, "request")
    BY DEF InstructionsAreHuman
  <2>1. Spoken(contract[w], Words(read), Inputs(read))
    BY DEF IInv, AllHuman, HumanOK
  <2>2. Words(read) = HumanWords /\ Inputs(read) = TextsOf(1 .. read, "request")
    BY DEF Words, Inputs, HumanWords
  <2> QED BY <2>1, <2>2 DEF Spoken
<1> QED BY <1>1, WordsInvariant, PTL


-----------------------------------------------------------------------------
(* The least of some references.                                           *)
LEMMA LeastReference ==
  ASSUME NEW S \in SUBSET Nat, S # {}
  PROVE  LET least == CHOOSE r \in S : \A s \in S : r <= s
         IN  least \in S /\ \A s \in S : least <= s
<1>1. PICK x \in S : TRUE
  OBVIOUS
<1> DEFINE T == {y \in S : y <= x}
           R == {p \in T \X T : p[1] <= p[2]}
<1>2. T \in SUBSET Nat /\ x \in Nat /\ x \in T /\ \A y \in T : y <= x
  <2>1. x \in Nat /\ x <= x
    BY <1>1
  <2> QED BY <1>1, <2>1
<1>3. IsFiniteSet(T)
  BY <1>2, FS_BoundedSetOfNaturals
<1>4. ASSUME NEW a \in T, NEW b \in T PROVE <<a, b>> \in R <=> a <= b
  OBVIOUS
<1>5. ASSUME NEW y \in S PROVE y \in T \/ x <= y
  BY <1>2
<1> HIDE DEF T, R
<1>6. \A a, b \in T : a = b \/ <<a, b>> \in R \/ <<b, a>> \in R
  <2>1. ASSUME NEW a \in T, NEW b \in T PROVE a <= b \/ b <= a
    <3>1. a \in Nat /\ b \in Nat
      BY <1>2
    <3> QED BY <3>1
  <2> QED BY <1>4, <2>1
<1>7. \A a, b, c \in T : <<a, b>> \in R /\ <<b, c>> \in R => <<a, c>> \in R
  BY <1>2, <1>4
<1>8. T # {}
  BY <1>2
<1>9. PICK m \in T : \A y \in T \ {m} : <<m, y>> \in R
  BY <1>3, <1>6, <1>7, <1>8, GreatestExists
<1>10. m \in S /\ m \in Nat /\ \A y \in T : m <= y
  <2>1. m \in S /\ m \in Nat
    BY <1>2, <1>9 DEF T
  <2>2. ASSUME NEW y \in T PROVE m <= y
    <3>1. y # m => <<m, y>> \in R
      BY <1>9
    <3> QED BY <1>4, <2>1, <3>1
  <2> QED BY <2>1, <2>2
<1>11. ASSUME NEW y \in S PROVE m <= y
  <2>1. y \in Nat /\ m <= x
    BY <1>2, <1>10
  <2> QED BY <1>2, <1>5, <1>10, <2>1
<1> QED BY <1>10, <1>11

(* The least is among the smallest.                                        *)
LEMMA LeastIsSmallest ==
  ASSUME NEW S \in SUBSET Nat, NEW least \in S, \A s \in S : least <= s,
         NEW n \in Nat \ {0}
  PROVE  least \in Smallest(S, n)
<1>1. {y \in S : y < least} = {}
  <2>1. ASSUME NEW y \in S, y < least PROVE FALSE
    <3>1. y \in Nat /\ least \in Nat /\ least <= y
      OBVIOUS
    <3> QED BY <2>1, <3>1
  <2> QED BY <2>1
<1>2. Cardinality({y \in S : y < least}) = 0
  BY <1>1, FS_EmptySet
<1> QED BY <1>2 DEF Smallest

(* bounded_provenance and retain_field_evidence: however many references   *)
(* there are, every field that cites something keeps a citation.           *)
LEMMA CitationsAreRetained ==
  ASSUME NEW cites, \A f \in Fields : cites[f] \in SUBSET Nat,
         NEW provenance \in SUBSET Nat, MaxRefs \in Nat \ {0}
  PROVE  /\ Retained(cites, provenance) \in SUBSET Nat
         /\ \A f \in Fields : cites[f] # {} =>
              Smallest(cites[f], MaxRefs) \cap Retained(cites, provenance) # {}
<1> DEFINE least(f) == CHOOSE r \in cites[f] : \A s \in cites[f] : r <= s
<1>1. ASSUME NEW f \in Fields, cites[f] # {}
      PROVE  least(f) \in cites[f] /\ \A s \in cites[f] : least(f) <= s
  BY <1>1, LeastReference
<1>2. Firsts(cites) = {least(f) : f \in {g \in Fields : cites[g] # {}}}
  BY DEF Firsts
<1> HIDE DEF least
<1>3. Firsts(cites) \in SUBSET Nat
  BY <1>1, <1>2
<1>4. Retained(cites, provenance) \in SUBSET Nat
  <2> DEFINE first == Firsts(cites)
             rest  == ((UNION {Smallest(cites[f], MaxRefs) : f \in Fields}) \cup provenance) \ first
             room  == MaxRefs - Cardinality(first)
  <2>1. Retained(cites, provenance) = first \cup (IF room < 0 THEN rest ELSE Smallest(rest, room))
    BY DEF Retained
  <2>2. \A S : \A n : Smallest(S, n) \subseteq S
    BY DEF Smallest
  <2>3. ASSUME NEW r \in rest PROVE r \in Nat
    <3>1. CASE r \in provenance
      BY <3>1
    <3>2. CASE r \in UNION {Smallest(cites[f], MaxRefs) : f \in Fields}
      <4>1. PICK f \in Fields : r \in Smallest(cites[f], MaxRefs)
        BY <3>2
      <4>2. r \in cites[f] /\ cites[f] \in SUBSET Nat
        BY <2>2, <4>1
      <4> QED BY <4>2
    <3> QED BY <3>1, <3>2
  <2> HIDE DEF first, rest, room
  <2>4. rest \in SUBSET Nat
    BY <2>3
  <2>5. Smallest(rest, room) \in SUBSET Nat
    BY <2>2, <2>4
  <2> QED BY <1>3, <2>1, <2>4, <2>5 DEF first
<1>5. ASSUME NEW f \in Fields, cites[f] # {}
      PROVE  Smallest(cites[f], MaxRefs) \cap Retained(cites, provenance) # {}
  <2>1. least(f) \in Smallest(cites[f], MaxRefs)
    BY <1>1, <1>5, LeastIsSmallest
  <2>2. least(f) \in Firsts(cites)
    BY <1>2, <1>5
  <2>3. Firsts(cites) \subseteq Retained(cites, provenance)
    BY DEF Retained
  <2> QED BY <2>1, <2>2, <2>3
<1> QED BY <1>4, <1>5

-----------------------------------------------------------------------------
(* The outcomes that a contract's actions remember are of past events.     *)
OutcomesOK(c, past) ==
  \A k \in DOMAIN c.actions :
    LET o == c.actions[k].outcome
    IN  o = None \/ (o.id \in past /\ o.at \in Int)

(* update_authoritative: the outcomes a page leaves to choose from are      *)
(* stamped, if its events are new.                                         *)
LEMMA OutcomesAreStamped ==
  ASSUME NEW old, NEW past \in SUBSET Nat,
         old.outcome = None \/ (old.outcome.id \in past /\ old.outcome.at \in Int),
         NEW facts, IsFiniteSet(facts), Stamped(facts), Ids(facts) \cap past = {}
  PROVE  /\ IsFiniteSet(Outcomes(old, facts)) /\ Stamped(Outcomes(old, facts))
         /\ \A o \in Outcomes(old, facts) : o.id \in past \cup Ids(facts) /\ o.at \in Int
<1> DEFINE ends == {f \in facts : Structured(f)}
           made == [f \in ends |-> [id |-> f.id, at |-> f.at, good |-> f.good,
                                    command |-> f.command]]
           rest == IF old.outcome = None THEN {} ELSE {old.outcome}
           all  == Outcomes(old, facts)
<1>1. \A o \in rest : o.id \in past /\ o.at \in Int
  OBVIOUS
<1>2. all = {made[f] : f \in ends} \cup rest
  BY DEF Outcomes
<1>3. \A f \in ends : f.id \in Nat /\ f.at \in Int /\ f.id \in Ids(facts)
  BY DEF Stamped, Ids
<1>4. \A f, g \in ends : f.id = g.id => f = g
  BY DEF Stamped
<1>5. IsFiniteSet(ends)
  BY FS_Subset
<1>6. made = [f \in ends |-> made[f]]
  OBVIOUS
<1>7. \A f \in ends : made[f].id = f.id /\ made[f].at = f.at
  OBVIOUS
<1>8. \A x, y \in rest : x = y
  OBVIOUS
<1>9. IsFiniteSet(rest)
  BY FS_EmptySet, FS_Singleton
<1> HIDE DEF made, ends, rest, all
<1>10. IsFiniteSet({made[f] : f \in ends})
  BY <1>5, <1>6, ImageFinite
<1>11. IsFiniteSet(all)
  BY <1>2, <1>9, <1>10, FS_Union
<1>12. \A o \in all : o.id \in past \cup Ids(facts) /\ o.at \in Int /\ o.id \in Nat
  <2>1. ASSUME NEW o \in rest
        PROVE  o.id \in past \cup Ids(facts) /\ o.at \in Int /\ o.id \in Nat
    BY <1>1
  <2>2. ASSUME NEW f \in ends
        PROVE  /\ made[f].id \in past \cup Ids(facts) /\ made[f].at \in Int
               /\ made[f].id \in Nat
    BY <1>3, <1>7
  <2> QED BY <1>2, <2>1, <2>2
<1>13. ASSUME NEW x \in all, NEW y \in all, x.id = y.id PROVE x = y
  <2>1. CASE x \in rest /\ y \in rest
    BY <1>8, <2>1
  <2>2. CASE x \notin rest /\ y \notin rest
    <3>1. PICK f \in ends : x = made[f]
      BY <1>2, <2>2
    <3>2. PICK g \in ends : y = made[g]
      BY <1>2, <2>2
    <3> QED BY <1>4, <1>7, <1>13, <3>1, <3>2
  <2>3. CASE x \in rest /\ y \notin rest
    <3>1. PICK g \in ends : y = made[g]
      BY <1>2, <2>3
    <3> QED BY <1>1, <1>3, <1>7, <1>13, <2>3, <3>1
  <2>4. CASE x \notin rest /\ y \in rest
    <3>1. PICK f \in ends : x = made[f]
      BY <1>2, <2>4
    <3> QED BY <1>1, <1>3, <1>7, <1>13, <2>4, <3>1
  <2> QED BY <2>1, <2>2, <2>3, <2>4
<1>14. Stamped(all)
  BY <1>12, <1>13 DEF Stamped
<1> QED BY <1>11, <1>12, <1>14 DEF all

(* So an action's outcome is one of them.                                  *)
LEMMA ProjectedOutcomes ==
  ASSUME NEW c, NEW past \in SUBSET Nat, OutcomesOK(c, past),
         NEW facts, IsFiniteSet(facts), Stamped(facts), Ids(facts) \cap past = {}
  PROVE  \A k \in DOMAIN Projected(c.actions, facts) :
           LET o == Projected(c.actions, facts)[k].outcome
           IN  o = None \/ (o.id \in past \cup Ids(facts) /\ o.at \in Int)
<1> DEFINE old(k)  == IF k \in DOMAIN c.actions THEN c.actions[k] ELSE NoAction
           mine(k) == {f \in facts : OfAction(f) /\ f.key = k}
<1> SUFFICES ASSUME NEW k \in DOMAIN Projected(c.actions, facts)
             PROVE  LET o == Projected(c.actions, facts)[k].outcome
                    IN  o = None \/ (o.id \in past \cup Ids(facts) /\ o.at \in Int)
  OBVIOUS
<1>1. Projected(c.actions, facts)[k] = Action(old(k), mine(k))
  BY DEF Projected
<1>2. PICK was : was = old(k)
  OBVIOUS
<1>3. PICK part : part = mine(k)
  OBVIOUS
<1>4. was.outcome = None \/ (was.outcome.id \in past /\ was.outcome.at \in Int)
  BY <1>2 DEF OutcomesOK, NoAction
<1>5. part \subseteq facts
  BY <1>3
<1>6. IsFiniteSet(part) /\ Stamped(part) /\ Ids(part) \subseteq Ids(facts)
  BY <1>5, FS_Subset DEF Stamped, Ids
<1>7. Ids(part) \cap past = {}
  BY <1>6
<1>8. PICK all : all = Outcomes(was, part)
  OBVIOUS
<1>9. /\ IsFiniteSet(all) /\ Stamped(all)
      /\ \A o \in all : o.id \in past \cup Ids(part) /\ o.at \in Int
  BY <1>4, <1>6, <1>7, <1>8, OutcomesAreStamped
<1>10. Action(was, part).outcome = IF all = {} THEN None ELSE Newest(all)
  BY <1>8 DEF Action
<1>11. Action(was, part).outcome = None \/ Action(was, part).outcome \in all
  BY <1>9, <1>10, NewestIsOne
<1> HIDE DEF old, mine
<1> QED BY <1>1, <1>2, <1>3, <1>6, <1>9, <1>11


-----------------------------------------------------------------------------
(* What a contract cites is evidence it holds, and whatever it says is     *)
(* cited.                                                                  *)
Lists == {"completed", "next", "blockers", "constraints", "criteria", "artifacts", "verification"}

Supported(c, f) ==
  /\ f \in Lists /\ c[f] # {} => c.cites[f] # {}
  /\ f \in {"objective", "summary"} /\ c[f] # None => c.cites[f] # {}

Sourced(c) ==
  /\ DOMAIN c.cites = Fields
  /\ c.refs \in SUBSET Nat
  /\ \A f \in Fields : c.cites[f] \subseteq c.refs /\ Supported(c, f)
  /\ c.rev > 0 => c.cites["status"] # {}
  /\ c.rev = 0 => c.facts = {} /\ c.by = "nobody"

(* So a contract that exists passes validate_field_evidence.               *)
LEMMA SourcedIsCited ==
  ASSUME NEW c, Sourced(c), c.rev > 0
  PROVE  Cited(c)
<1>1. Filled(c) \subseteq Fields
  BY DEF Filled, Fields
<1>2. ASSUME NEW f \in Filled(c) PROVE c.cites[f] # {}
  <2>1. CASE f = "status"
    BY <2>1 DEF Sourced
  <2>2. CASE f \in Lists /\ c[f] # {}
    BY <1>1, <2>2 DEF Sourced, Supported
  <2>3. CASE f \in {"objective", "summary"} /\ c[f] # None
    BY <1>1, <2>3 DEF Sourced, Supported
  <2> QED BY <2>1, <2>2, <2>3 DEF Filled, Lists
<1> QED BY <1>1, <1>2 DEF Cited, Sourced

(* What a page makes of the fields that report.                            *)
LEMMA DraftedReports ==
  ASSUME NEW c, Shaped(c), NEW facts
  PROVE  LET d     == Drafted(c, facts)
             says  == Said(facts, {"statement"})
             shown == Shown(Authority(d.actions))
         IN  /\ d.summary = IF says = {} THEN c.summary ELSE Newest(says).text
             /\ d.artifacts = Smallest(c.artifacts \cup Texts(Said(facts, {"artifact"})), MaxItems)
             /\ d.completed = Smallest(CommandTexts(shown \cap Succeeded(d.actions)), MaxItems)
             /\ d.blockers = Smallest(CommandTexts(shown \cap Failed(d.actions)), MaxItems)
             /\ d.verification = Smallest(CommandTexts(shown), MaxItems)
<1> USE FieldsOfContracts DEF Shaped
<1> DEFINE d == Drafted(c, facts)
           says  == Said(facts, {"statement"})
           shown == Shown(Authority(d.actions))
<1>1. d.summary = IF says = {} THEN c.summary ELSE Newest(says).text
  BY DEF Drafted
<1>2. d.artifacts = Smallest(c.artifacts \cup Texts(Said(facts, {"artifact"})), MaxItems)
  BY DEF Drafted
<1>3. d.completed = Smallest(CommandTexts(shown \cap Succeeded(d.actions)), MaxItems)
  BY DEF Drafted
<1>4. d.blockers = Smallest(CommandTexts(shown \cap Failed(d.actions)), MaxItems)
  BY DEF Drafted
<1>5. d.verification = Smallest(CommandTexts(shown), MaxItems)
  BY DEF Drafted
<1> HIDE DEF d
<1> QED BY <1>1, <1>2, <1>3, <1>4, <1>5 DEF d

(* And what the fields cite.                                               *)
LEMMA DraftedCites ==
  ASSUME NEW c, Shaped(c), NEW facts
  PROVE  LET d     == Drafted(c, facts)
             goal  == Said(facts, {"objective", "abandon"})
             rule  == Said(facts, {"constraint", "forbid"})
             says  == Said(facts, {"statement"})
         IN  /\ DOMAIN d.cites = Fields
             /\ d.cites["objective"] = IF goal = {} THEN c.cites["objective"] ELSE {Newest(goal).id}
             /\ d.cites["constraints"] = IF rule = {} THEN c.cites["constraints"] ELSE {Newest(rule).id}
             /\ d.cites["summary"] = IF says = {} THEN c.cites["summary"] ELSE {Newest(says).id}
<1> DEFINE acts  == Projected(c.actions, facts)
           goal  == Said(facts, {"objective", "abandon"})
           rule  == Said(facts, {"constraint", "forbid"})
           says  == Said(facts, {"statement"})
           shown == Shown(Authority(acts))
           cites == [f \in Fields |->
             CASE f = "objective"    -> IF goal = {} THEN c.cites[f] ELSE {Newest(goal).id}
               [] f = "constraints"  -> IF rule = {} THEN c.cites[f] ELSE {Newest(rule).id}
               [] f = "summary"      -> IF says = {} THEN c.cites[f] ELSE {Newest(says).id}
               [] f = "artifacts"    -> c.cites[f] \cup Ids(Said(facts, {"artifact"}))
               [] f = "next"         -> Ids(Open(acts))
               [] f = "completed"    -> Ids(shown \cap Succeeded(acts))
               [] f = "blockers"     -> Ids(shown \cap Failed(acts))
               [] f = "verification" -> Ids(shown)
               [] OTHER              -> c.cites[f]]
           d     == Drafted(c, facts)
<1>1. d.cites = cites
  BY FieldsOfContracts DEF Drafted, Shaped
<1> HIDE DEF d, acts, goal, rule, says, shown
<1>2. DOMAIN cites = Fields
  OBVIOUS
<1>3. /\ cites["objective"] = IF goal = {} THEN c.cites["objective"] ELSE {Newest(goal).id}
      /\ cites["constraints"] = IF rule = {} THEN c.cites["constraints"] ELSE {Newest(rule).id}
      /\ cites["summary"] = IF says = {} THEN c.cites["summary"] ELSE {Newest(says).id}
  BY DEF Fields
<1> HIDE DEF cites
<1> QED BY <1>1, <1>2, <1>3 DEF d, goal, rule, says

(* Results and requests are cited whole, and what a page does not touch    *)
(* keeps its references.                                                   *)
LEMMA DraftedCitesOfActions ==
  ASSUME NEW c, Shaped(c), NEW facts
  PROVE  LET d     == Drafted(c, facts)
             shown == Shown(Authority(d.actions))
         IN  /\ d.cites["artifacts"] = c.cites["artifacts"] \cup Ids(Said(facts, {"artifact"}))
             /\ d.cites["next"] = Ids(Open(d.actions))
             /\ d.cites["completed"] = Ids(shown \cap Succeeded(d.actions))
             /\ d.cites["blockers"] = Ids(shown \cap Failed(d.actions))
             /\ d.cites["verification"] = Ids(shown)
             /\ d.cites["criteria"] = c.cites["criteria"]
             /\ d.cites["status"] = c.cites["status"]
<1> DEFINE acts  == Projected(c.actions, facts)
           goal  == Said(facts, {"objective", "abandon"})
           rule  == Said(facts, {"constraint", "forbid"})
           says  == Said(facts, {"statement"})
           shown == Shown(Authority(acts))
           cites == [f \in Fields |->
             CASE f = "objective"    -> IF goal = {} THEN c.cites[f] ELSE {Newest(goal).id}
               [] f = "constraints"  -> IF rule = {} THEN c.cites[f] ELSE {Newest(rule).id}
               [] f = "summary"      -> IF says = {} THEN c.cites[f] ELSE {Newest(says).id}
               [] f = "artifacts"    -> c.cites[f] \cup Ids(Said(facts, {"artifact"}))
               [] f = "next"         -> Ids(Open(acts))
               [] f = "completed"    -> Ids(shown \cap Succeeded(acts))
               [] f = "blockers"     -> Ids(shown \cap Failed(acts))
               [] f = "verification" -> Ids(shown)
               [] OTHER              -> c.cites[f]]
           d     == Drafted(c, facts)
<1>1. d.cites = cites
  BY FieldsOfContracts DEF Drafted, Shaped
<1>2. d.actions = acts
  BY DraftedFields
<1> HIDE DEF d, acts, goal, rule, says, shown
<1>3. /\ cites["artifacts"] = c.cites["artifacts"] \cup Ids(Said(facts, {"artifact"}))
      /\ cites["next"] = Ids(Open(acts))
      /\ cites["completed"] = Ids(shown \cap Succeeded(acts))
      /\ cites["blockers"] = Ids(shown \cap Failed(acts))
  BY DEF Fields
<1>4. /\ cites["verification"] = Ids(shown)
      /\ cites["criteria"] = c.cites["criteria"]
      /\ cites["status"] = c.cites["status"]
  BY DEF Fields
<1> HIDE DEF cites
<1> QED BY <1>1, <1>2, <1>3, <1>4 DEF d, shown

(* ProvisionalContractBuilder::build: its evidence, and what it reports as *)
(* drafted.                                                                *)
LEMMA RevisedReports ==
  ASSUME NEW c, Shaped(c), NEW facts
  PROVE  LET d       == Drafted(c, facts)
             r       == Revised(c, facts)
             status  == Status(c, d, Reopened(c, d, facts), facts)
             cites   == [d.cites EXCEPT !["status"] = status[2]]
             refs    == Retained(cites, Smallest(c.refs \cup Ids(facts), MaxRefs))
         IN  /\ r.status = status[1]
             /\ r.summary = d.summary /\ r.artifacts = d.artifacts
             /\ r.completed = d.completed /\ r.blockers = d.blockers
             /\ r.verification = d.verification
             /\ r.refs = refs
             /\ r.cites = [f \in Fields |-> Smallest(cites[f], MaxRefs) \cap refs]
<1> DEFINE d       == Drafted(c, facts)
           r       == Revised(c, facts)
           status  == Status(c, d, Reopened(c, d, facts), facts)
           cites   == [d.cites EXCEPT !["status"] = status[2]]
           refs    == Retained(cites, Smallest(c.refs \cup Ids(facts), MaxRefs))
<1>0. Shaped(d)
  BY DraftedFields
<1> USE FieldsOfContracts DEF Shaped
<1> HIDE DEF d
<1>1. r.status = status[1]
  BY <1>0 DEF Revised, d
<1>2. r.summary = d.summary /\ r.artifacts = d.artifacts /\ r.completed = d.completed
  BY <1>0 DEF Revised, d
<1>3. r.blockers = d.blockers /\ r.verification = d.verification
  BY <1>0 DEF Revised, d
<1>4. r.refs = refs
  BY <1>0 DEF Revised, d
<1>5. r.cites = [f \in Fields |-> Smallest(cites[f], MaxRefs) \cap refs]
  BY <1>0 DEF Revised, d
<1> HIDE DEF r
<1> QED BY <1>1, <1>2, <1>3, <1>4, <1>5 DEF r, d


(* What actions remember has identifiers.                                  *)
LEMMA ActionsAreNumbered ==
  ASSUME NEW c, NEW inputs, RequestsOK(c, inputs), NEW past \in SUBSET Nat, OutcomesOK(c, past)
  PROVE  Ids(Open(c.actions)) \subseteq Nat /\ Ids(Authority(c.actions)) \subseteq Nat
<1>1. Ids(Open(c.actions)) \subseteq Nat
  BY DEF Ids, Open, RequestsOK
<1>2. Ids(Authority(c.actions)) \subseteq Nat
  BY DEF Ids, Authority, OutcomesOK
<1> QED BY <1>1, <1>2

(* Fewer things have fewer identifiers, and texts come from something.     *)
LEMMA IdsOfParts ==
  ASSUME NEW S, NEW T, S \subseteq T
  PROVE  /\ Ids(S) \subseteq Ids(T)
         /\ S # {} => Ids(S) # {}
         /\ S = {} => Texts(S) = {} /\ CommandTexts(S) = {}
BY DEF Ids, Texts, CommandTexts

(* Nothing bounded is nothing.                                             *)
LEMMA SmallestOfNothing ==
  ASSUME NEW n, NEW S, Smallest(S, n) # {}
  PROVE  S # {}
BY DEF Smallest

(* A bounded list of texts comes from something.                           *)
LEMMA ReportsAreOfSomething ==
  ASSUME NEW S, NEW n
  PROVE  /\ Smallest(Texts(S), n) # {} => Ids(S) # {}
         /\ Smallest(CommandTexts(S), n) # {} => Ids(S) # {}
<1>1. S # {} => Ids(S) # {}
  BY IdsOfParts
<1>2. S = {} => Texts(S) = {} /\ CommandTexts(S) = {}
  BY IdsOfParts
<1> QED BY <1>1, <1>2, SmallestOfNothing

(* Every field of the draft that says something cites something.           *)
LEMMA DraftedIsSupported ==
  ASSUME NEW c, Shaped(c), Sourced(c), NEW facts, IsFiniteSet(facts), Stamped(facts),
         Ids(Open(Drafted(c, facts).actions)) \subseteq Nat,
         Ids(Authority(Drafted(c, facts).actions)) \subseteq Nat
  PROVE  LET d == Drafted(c, facts)
         IN  \A f \in Fields : d.cites[f] \in SUBSET Nat /\ Supported(d, f)
<1> DEFINE d     == Drafted(c, facts)
           acts  == d.actions
           goal  == Said(facts, {"objective", "abandon"})
           rule  == Said(facts, {"constraint", "forbid"})
           says  == Said(facts, {"statement"})
           files == Said(facts, {"artifact"})
           shown == Shown(Authority(acts))
           good  == shown \cap Succeeded(acts)
           bad   == shown \cap Failed(acts)
<1>0. Ids(Open(acts)) \subseteq Nat /\ Ids(Authority(acts)) \subseteq Nat
  OBVIOUS
<1>1. /\ d.objective = IF goal = {} THEN c.objective ELSE Newest(goal).text
      /\ d.constraints = IF rule = {} THEN c.constraints ELSE {Newest(rule).text}
      /\ d.criteria = c.criteria /\ d.next = Smallest(Texts(Open(acts)), MaxItems)
  BY DraftedFields
<1>2. /\ d.summary = IF says = {} THEN c.summary ELSE Newest(says).text
      /\ d.artifacts = Smallest(c.artifacts \cup Texts(files), MaxItems)
      /\ d.completed = Smallest(CommandTexts(good), MaxItems)
      /\ d.blockers = Smallest(CommandTexts(bad), MaxItems)
      /\ d.verification = Smallest(CommandTexts(shown), MaxItems)
  BY DraftedReports
<1>3. /\ DOMAIN d.cites = Fields
      /\ d.cites["objective"] = IF goal = {} THEN c.cites["objective"] ELSE {Newest(goal).id}
      /\ d.cites["constraints"] = IF rule = {} THEN c.cites["constraints"] ELSE {Newest(rule).id}
      /\ d.cites["summary"] = IF says = {} THEN c.cites["summary"] ELSE {Newest(says).id}
  BY DraftedCites
<1>4. /\ d.cites["artifacts"] = c.cites["artifacts"] \cup Ids(files)
      /\ d.cites["next"] = Ids(Open(acts))
      /\ d.cites["completed"] = Ids(good) /\ d.cites["blockers"] = Ids(bad)
      /\ d.cites["verification"] = Ids(shown)
      /\ d.cites["criteria"] = c.cites["criteria"] /\ d.cites["status"] = c.cites["status"]
  BY DraftedCitesOfActions
<1> HIDE DEF d, acts
<1>5. \A f \in Fields : c.cites[f] \in SUBSET Nat /\ Supported(c, f)
  BY DEF Sourced
<1>6. Ids(facts) \subseteq Nat
  BY DEF Stamped, Ids
<1>7. ASSUME NEW kinds, Said(facts, kinds) # {}
      PROVE  Newest(Said(facts, kinds)).id \in Nat
  <2>1. Newest(Said(facts, kinds)) \in Said(facts, kinds)
    BY <1>7, NewestIsSaid
  <2>2. Newest(Said(facts, kinds)) \in facts
    BY <2>1 DEF Said
  <2> QED BY <2>2 DEF Stamped
<1>8. /\ shown \subseteq Authority(acts) /\ good \subseteq Authority(acts)
      /\ bad \subseteq Authority(acts) /\ files \subseteq facts
  BY DEF Shown, Said
<1>9. /\ Ids(shown) \subseteq Nat /\ Ids(good) \subseteq Nat /\ Ids(bad) \subseteq Nat
      /\ Ids(files) \subseteq Nat /\ Ids(Open(acts)) \subseteq Nat
  BY <1>0, <1>6, <1>8, IdsOfParts
<1>10. \A S : /\ Smallest(Texts(S), MaxItems) # {} => Ids(S) # {}
              /\ Smallest(CommandTexts(S), MaxItems) # {} => Ids(S) # {}
  BY ReportsAreOfSomething
<1> HIDE DEF goal, rule, says, files, shown, good, bad
<1>11. ASSUME NEW f \in Fields PROVE d.cites[f] \in SUBSET Nat
  <2>1. goal # {} => Newest(goal).id \in Nat
    BY <1>7 DEF goal
  <2>2. rule # {} => Newest(rule).id \in Nat
    BY <1>7 DEF rule
  <2>3. says # {} => Newest(says).id \in Nat
    BY <1>7 DEF says
  <2> QED BY <1>3, <1>4, <1>5, <1>9, <2>1, <2>2, <2>3 DEF Fields
<1>12. Supported(d, "objective") /\ Supported(d, "summary")
  BY <1>1, <1>2, <1>3, <1>5 DEF Supported, Fields, Lists
<1>13. Supported(d, "constraints") /\ Supported(d, "criteria")
  BY <1>1, <1>3, <1>4, <1>5 DEF Supported, Fields, Lists
<1>14. Supported(d, "next")
  <2>1. d.next # {} => Ids(Open(acts)) # {}
    BY <1>1, <1>10
  <2>2. d.cites["next"] = Ids(Open(acts))
    BY <1>4
  <2> QED BY <2>1, <2>2 DEF Supported
<1>15. Supported(d, "completed") /\ Supported(d, "blockers") /\ Supported(d, "verification")
  <2>1. /\ d.completed # {} => Ids(good) # {}
        /\ d.blockers # {} => Ids(bad) # {}
        /\ d.verification # {} => Ids(shown) # {}
    BY <1>2, <1>10
  <2>2. /\ d.cites["completed"] = Ids(good) /\ d.cites["blockers"] = Ids(bad)
        /\ d.cites["verification"] = Ids(shown)
    BY <1>4
  <2> QED BY <2>1, <2>2 DEF Supported
<1>16. Supported(d, "artifacts")
  <2>1. c.artifacts # {} => c.cites["artifacts"] # {}
    BY <1>5 DEF Supported, Fields, Lists
  <2>2. d.artifacts # {} => c.artifacts # {} \/ files # {}
    <3>1. d.artifacts # {} => c.artifacts \cup Texts(files) # {}
      BY <1>2, SmallestOfNothing
    <3>2. files = {} => Texts(files) = {}
      BY IdsOfParts
    <3> QED BY <3>1, <3>2
  <2>3. files # {} => Ids(files) # {}
    BY IdsOfParts
  <2>4. d.cites["artifacts"] = c.cites["artifacts"] \cup Ids(files)
    BY <1>4
  <2> QED BY <2>1, <2>2, <2>3, <2>4 DEF Supported
<1>17. Supported(d, "status")
  BY DEF Supported, Lists
<1> QED BY <1>11, <1>12, <1>13, <1>14, <1>15, <1>16, <1>17 DEF Fields, d

Statuses == {"observed", "active", "blocked", "completed", "abandoned"}

(* derive_status always gives evidence.                                    *)
LEMMA StatusIsCited ==
  ASSUME NEW c, NEW d, NEW reopened, NEW facts, facts # {}, Stamped(facts),
         Ids(Authority(d.actions)) \subseteq Nat
  PROVE  LET s == Status(c, d, reopened, facts)
         IN  /\ s[1] \in Statuses \cup {c.status}
             /\ s[2] \in SUBSET Nat /\ s[2] # {}
<1> DEFINE abandons == {f \in facts : Abandons(f)}
           active   == {f \in facts : Active(f)}
           s == Status(c, d, reopened, facts)
<1>1. Ids(facts) \subseteq Nat
  BY DEF Stamped, Ids
<1>2. abandons \subseteq facts /\ active \subseteq facts
      /\ Failed(d.actions) \subseteq Authority(d.actions)
      /\ Succeeded(d.actions) \subseteq Authority(d.actions)
  BY DEF Failed, Succeeded
<1>3. /\ Ids(abandons) \in SUBSET Nat /\ Ids(active) \in SUBSET Nat /\ Ids(facts) \in SUBSET Nat
      /\ Ids(Failed(d.actions)) \in SUBSET Nat /\ Ids(Succeeded(d.actions)) \in SUBSET Nat
  BY <1>1, <1>2, IdsOfParts
<1>4. /\ abandons # {} => Ids(abandons) # {}
      /\ active # {} => Ids(active) # {} 
      /\ Ids(facts) # {}
      /\ Failed(d.actions) # {} => Ids(Failed(d.actions)) # {}
      /\ Succeeded(d.actions) # {} => Ids(Succeeded(d.actions)) # {}
  BY IdsOfParts
<1>5. \/ s = <<"abandoned", Ids(abandons)>> /\ abandons # {}
      \/ s = <<"blocked", Ids(Failed(d.actions))>> /\ Failed(d.actions) # {}
      \/ s = <<"active", Ids(facts)>>
      \/ s = <<"completed", Ids(Succeeded(d.actions))>> /\ Succeeded(d.actions) # {}
      \/ s = <<"active", Ids(active)>> /\ active # {}
      \/ s = <<c.status, Ids(facts)>>
  BY DEF Status
<1> HIDE DEF s, abandons, active
<1> QED BY <1>3, <1>4, <1>5 DEF Statuses, s

(* The next revision is sourced whenever the contract before it was.       *)
LEMMA RevisedIsSourced ==
  ASSUME NEW c, Shaped(c), Sourced(c),
         NEW facts, facts # {}, IsFiniteSet(facts), Stamped(facts),
         Ids(Open(Drafted(c, facts).actions)) \subseteq Nat,
         Ids(Authority(Drafted(c, facts).actions)) \subseteq Nat
  PROVE  Sourced(Revised(c, facts)) /\ Revised(c, facts).status \in Statuses \cup {c.status}
<1> PICK d : d = Drafted(c, facts)
  OBVIOUS
<1> PICK r : r = Revised(c, facts)
  OBVIOUS
<1> PICK status : status = Status(c, d, Reopened(c, d, facts), facts)
  OBVIOUS
<1> PICK cites : cites = [d.cites EXCEPT !["status"] = status[2]]
  OBVIOUS
<1> PICK refs : refs = Retained(cites, Smallest(c.refs \cup Ids(facts), MaxRefs))
  OBVIOUS
<1>1. /\ r.rev = c.rev + 1 /\ c.rev \in Nat
      /\ r.objective = d.objective /\ r.constraints = d.constraints
      /\ r.criteria = d.criteria /\ r.next = d.next
  BY RevisedFields DEF Shaped
<1>2. /\ r.status = status[1] /\ r.summary = d.summary /\ r.artifacts = d.artifacts
      /\ r.completed = d.completed /\ r.blockers = d.blockers
      /\ r.verification = d.verification
      /\ r.refs = refs /\ r.cites = [f \in Fields |-> Smallest(cites[f], MaxRefs) \cap refs]
  BY RevisedReports
<1>3. \A f \in Fields : d.cites[f] \in SUBSET Nat /\ Supported(d, f)
  BY DraftedIsSupported
<1>4. status[1] \in Statuses \cup {c.status} /\ status[2] \in SUBSET Nat /\ status[2] # {}
  BY StatusIsCited
<1>5. DOMAIN d.cites = Fields
  BY DraftedCites
<1>6. \A f \in Fields : cites[f] = IF f = "status" THEN status[2] ELSE d.cites[f]
  BY <1>5
<1>7. \A f \in Fields : cites[f] \in SUBSET Nat
  BY <1>3, <1>4, <1>6
<1>8. Smallest(c.refs \cup Ids(facts), MaxRefs) \in SUBSET Nat
  <2>1. c.refs \in SUBSET Nat /\ Ids(facts) \in SUBSET Nat
    BY DEF Sourced, Stamped, Ids
  <2> QED BY <2>1 DEF Smallest
<1>9. MaxRefs \in Nat \ {0}
  BY WorkContractAssumption
<1>10. /\ refs \in SUBSET Nat
       /\ \A f \in Fields : cites[f] # {} => Smallest(cites[f], MaxRefs) \cap refs # {}
  BY <1>7, <1>8, <1>9, CitationsAreRetained
<1>11. \A f \in Fields : r.cites[f] = Smallest(cites[f], MaxRefs) \cap refs
  BY <1>2
<1>12. DOMAIN r.cites = Fields /\ "status" \in Fields
  BY <1>2 DEF Fields
<1>13. ASSUME NEW f \in Fields PROVE r.cites[f] \subseteq r.refs
  BY <1>2, <1>11
<1>14. ASSUME NEW f \in Fields PROVE Supported(r, f)
  <2>1. CASE f = "status"
    BY <2>1 DEF Supported, Lists
  <2>2. CASE f # "status"
    <3>1. r[f] = d[f]
      BY <1>1, <1>2, <2>2 DEF Fields
    <3>2. d.cites[f] # {} => r.cites[f] # {}
      BY <1>6, <1>10, <1>11, <2>2
    <3>3. Supported(d, f)
      BY <1>3
    <3> QED BY <3>1, <3>2, <3>3 DEF Supported
  <2> QED BY <2>1, <2>2
<1>15. r.cites["status"] # {}
  BY <1>4, <1>6, <1>10, <1>11, <1>12
<1>16. r.rev > 0 /\ r.rev # 0
  BY <1>1
<1>17. Sourced(r)
  BY <1>2, <1>10, <1>12, <1>13, <1>14, <1>15, <1>16 DEF Sourced
<1> QED BY <1>2, <1>4, <1>17

(* apply_human_correction keeps all fields but one, which now cites the    *)
(* least reference of the contract as well.                                *)
LEMMA CorrectedReports ==
  ASSUME NEW c, Shaped(c), DOMAIN c.cites = Fields, NEW f \in Correctable, NEW text, NEW at
  PROVE  LET r     == Corrected(c, f, text, at)
             first == CHOOSE x \in c.refs : \A s \in c.refs : x <= s
         IN  /\ r.status = c.status /\ r.refs = c.refs
             /\ r.cites = [c.cites EXCEPT ![f] = @ \cup {first}]
             /\ \A g \in Fields \ {f} : r[g] = c[g]
<1> DEFINE p     == Put(c, f, text)
           first == CHOOSE x \in c.refs : \A s \in c.refs : x <= s
           r     == Corrected(c, f, text, at)
<1>1. Shaped(p) /\ p.status = c.status /\ p.refs = c.refs /\ p.cites = c.cites
  BY FieldsOfContracts DEF Put, Shaped, Correctable
<1>2. \A g \in Fields \ {f} : p[g] = c[g]
  BY FieldsOfContracts DEF Put, Shaped, Correctable, Fields
<1>3. r = [p EXCEPT !.rev = @ + 1, !.by = "human", !.facts = {}, !.created = at,
                    !.cites[f] = @ \cup {first}]
  BY DEF Corrected
<1> HIDE DEF p, first
<1>4. r.status = p.status /\ r.refs = p.refs
  BY <1>1, <1>3, FieldsOfContracts DEF Shaped
<1>5. r.cites = [c.cites EXCEPT ![f] = @ \cup {first}]
  BY <1>1, <1>3, FieldsOfContracts DEF Shaped
<1>6. \A g \in Fields : r[g] = p[g]
  BY <1>1, <1>3, FieldsOfContracts DEF Shaped, Fields
<1> HIDE DEF r
<1> QED BY <1>1, <1>2, <1>4, <1>5, <1>6 DEF r, first

(* So a corrected contract is sourced.                                     *)
LEMMA CorrectedIsSourced ==
  ASSUME NEW c, Shaped(c), Sourced(c), c.rev > 0, NEW f \in Correctable, NEW text, NEW at
  PROVE  Sourced(Corrected(c, f, text, at)) /\ Corrected(c, f, text, at).status = c.status
<1> PICK r : r = Corrected(c, f, text, at)
  OBVIOUS
<1> PICK first : first = CHOOSE x \in c.refs : \A s \in c.refs : x <= s
  OBVIOUS
<1>1. DOMAIN c.cites = Fields /\ c.refs \in SUBSET Nat
  BY DEF Sourced
<1>2. /\ r.status = c.status /\ r.refs = c.refs
      /\ r.cites = [c.cites EXCEPT ![f] = @ \cup {first}]
      /\ \A g \in Fields \ {f} : r[g] = c[g]
  BY <1>1, CorrectedReports
<1>3. r.rev = c.rev + 1 /\ c.rev \in Nat
  BY CorrectedFields DEF Shaped
<1>4. "status" \in Fields /\ f \in Fields /\ f # "status"
  BY DEF Fields, Correctable
<1>5. first \in c.refs
  <2>1. c.refs # {}
    BY <1>4 DEF Sourced
  <2> QED BY <1>1, <2>1, LeastReference
<1>6. /\ DOMAIN r.cites = Fields
      /\ \A g \in Fields : r.cites[g] = IF g = f THEN c.cites[g] \cup {first} ELSE c.cites[g]
  BY <1>1, <1>2
<1>7. ASSUME NEW g \in Fields PROVE r.cites[g] \subseteq r.refs
  <2>1. c.cites[g] \subseteq c.refs
    BY DEF Sourced
  <2>2. r.cites[g] \subseteq c.cites[g] \cup {first}
    BY <1>6
  <2> QED BY <1>2, <1>5, <2>1, <2>2
<1>8. ASSUME NEW g \in Fields PROVE Supported(r, g)
  <2>1. CASE g = f
    BY <1>6, <2>1 DEF Supported
  <2>2. CASE g # f
    <3>1. Supported(c, g) /\ r[g] = c[g] /\ r.cites[g] = c.cites[g]
      BY <1>2, <1>6, <2>2 DEF Sourced
    <3> QED BY <3>1 DEF Supported
  <2> QED BY <2>1, <2>2
<1>9. r.cites["status"] # {}
  BY <1>4, <1>6 DEF Sourced
<1>10. r.rev # 0
  BY <1>3
<1>11. Sourced(r)
  BY <1>1, <1>2, <1>6, <1>7, <1>8, <1>9, <1>10 DEF Sourced
<1> QED BY <1>2, <1>11

(* The references of some proposals.                                       *)
RefsOf(accepted) == UNION {p.refs : p \in accepted}

(* What refine_provisional_contract_at_with_policy makes of references.    *)
LEMMA RefinedCites ==
  ASSUME NEW c, Shaped(c), NEW accepted, NEW at, Refined(c, accepted, at) # None
  PROVE  LET r == Refined(c, accepted, at)
         IN  /\ r.refs = c.refs \cup RefsOf(accepted)
             /\ DOMAIN r.cites = Fields
             /\ \A f \in Fields :
                  r.cites[f] = IF For(accepted, f) = {} THEN c.cites[f]
                               ELSE RefsOf(For(accepted, f))
<1> DEFINE r == Refined(c, accepted, at)
<1> USE FieldsOfContracts DEF Shaped, For, RefsOf
<1>1. r.refs = c.refs \cup RefsOf(accepted)
  BY DEF Refined
<1>2. r.cites = [f \in Fields |-> IF For(accepted, f) = {} THEN c.cites[f]
                                  ELSE RefsOf(For(accepted, f))]
  BY DEF Refined
<1> HIDE DEF r, For, RefsOf
<1> QED BY <1>1, <1>2 DEF r

(* And a refined contract is sourced, if what was accepted has references. *)
LEMMA RefinedIsSourced ==
  ASSUME NEW c, Shaped(c), Sourced(c), c.rev > 0, NEW accepted, NEW at,
         Refined(c, accepted, at) # None,
         \A p \in accepted : p.refs \in SUBSET Nat /\ p.refs # {} /\ p.field \in RefinableFields
  PROVE  Sourced(Refined(c, accepted, at)) /\ Refined(c, accepted, at).status = c.status
<1> PICK r : r = Refined(c, accepted, at)
  OBVIOUS
<1>1. r.rev = c.rev + 1 /\ c.rev \in Nat /\ r.status = c.status
  BY RefinedRevision DEF Shaped
<1>2. /\ r.refs = c.refs \cup RefsOf(accepted) /\ DOMAIN r.cites = Fields
      /\ \A f \in Fields : r.cites[f] = IF For(accepted, f) = {} THEN c.cites[f]
                                        ELSE RefsOf(For(accepted, f))
  BY RefinedCites
<1>3. \A f \in Fields : For(accepted, f) = {} => r[f] = c[f]
  BY RefinedTexts
<1>4. \A f : For(accepted, f) \subseteq accepted
  BY DEF For
<1>5. c.refs \in SUBSET Nat /\ \A f \in Fields : c.cites[f] \subseteq c.refs /\ Supported(c, f)
  BY DEF Sourced
<1>6. r.refs \in SUBSET Nat
  BY <1>2, <1>5 DEF RefsOf
<1>7. ASSUME NEW f \in Fields PROVE r.cites[f] \subseteq r.refs /\ Supported(r, f)
  <2>1. CASE For(accepted, f) = {}
    <3>1. r.cites[f] = c.cites[f] /\ r[f] = c[f]
      BY <1>2, <1>3, <2>1
    <3> QED BY <1>2, <1>5, <3>1 DEF Supported
  <2>2. CASE For(accepted, f) # {}
    <3>1. r.cites[f] = RefsOf(For(accepted, f))
      BY <1>2, <2>2
    <3>2. r.cites[f] # {}
      <4>1. PICK p \in For(accepted, f) : p.refs # {}
        BY <1>4, <2>2
      <4> QED BY <3>1, <4>1 DEF RefsOf
    <3>3. r.cites[f] \subseteq r.refs
      BY <1>2, <1>4, <3>1 DEF RefsOf
    <3> QED BY <3>2, <3>3 DEF Supported
  <2> QED BY <2>1, <2>2
<1>8. r.cites["status"] # {}
  <2>1. "status" \in Fields /\ For(accepted, "status") = {}
    BY DEF For, Fields, RefinableFields, InstructionFields
  <2>2. c.cites["status"] # {}
    BY DEF Sourced
  <2> QED BY <1>2, <2>1, <2>2
<1>9. r.rev # 0
  BY <1>1
<1>10. Sourced(r)
  BY <1>2, <1>6, <1>7, <1>8, <1>9 DEF Sourced
<1> QED BY <1>1, <1>10

(* effective_authority accepts a proposal only if it cites known events.   *)
LEMMA AcceptedIsCited ==
  ASSUME LogOK, NEW n \in Nat, n <= read, NEW p, Acceptable(Evidence(n), p)
  PROVE  p.refs \in SUBSET Nat /\ p.refs # {} /\ p.field \in RefinableFields
<1> DEFINE cited == {e \in Evidence(n) : e.id \in p.refs}
<1>1. Effective(Evidence(n), p) # None /\ p.field \in RefinableFields
  BY DEF Acceptable
<1>2. p.refs # {} /\ {e.id : e \in cited} = p.refs
  BY <1>1 DEF Effective
<1>3. ASSUME NEW e \in Evidence(n) PROVE e.id \in Nat
  <2>1. PICK i \in 1 .. n : e.id = log[i].id
    BY <1>3 DEF Evidence
  <2>2. read \in Nat /\ DOMAIN log = 1 .. Len(log) /\ Len(log) \in Nat /\ read <= Len(log)
    BY LogLength DEF LogOK
  <2>3. i \in DOMAIN log
    BY <2>2
  <2> QED BY <2>1, <2>3, WorkContractAssumption DEF LogOK
<1>4. p.refs \subseteq Nat
  BY <1>2, <1>3
<1> QED BY <1>1, <1>2, <1>4

-----------------------------------------------------------------------------
(* The events up to the watermark.                                         *)
Past(n) == {log[i].id : i \in 1 .. n}

(* The past grows with the watermark.                                      *)
LEMMA PastGrows ==
  ASSUME LogOK, NEW n \in Nat, read <= n, n <= Len(log)
  PROVE  Past(read) \subseteq Past(n) /\ Past(n) \in SUBSET Nat
<1>1. read \in Nat /\ Len(log) \in Nat /\ DOMAIN log = 1 .. Len(log)
  BY LogLength DEF LogOK
<1>2. Past(read) \subseteq Past(n)
  BY <1>1 DEF Past
<1>3. ASSUME NEW i \in 1 .. n PROVE log[i].id \in Nat
  <2>1. i \in DOMAIN log
    BY <1>1, <1>3
  <2> QED BY <2>1, WorkContractAssumption DEF LogOK
<1> QED BY <1>2, <1>3 DEF Past

(* A page's facts were in no page before, and are past once it is read.    *)
LEMMA FactsAreNew ==
  ASSUME LogOK, NEW n \in 1 .. PageSize, read + n <= Len(log)
  PROVE  /\ Ids(Reduce(Page(n))) \subseteq Past(read + n)
         /\ Ids(Reduce(Page(n))) \cap Past(read) = {}
<1>1. /\ read \in Nat /\ n \in Nat /\ DOMAIN log = 1 .. Len(log) /\ Len(log) \in Nat
      /\ read <= Len(log)
  BY WorkContractAssumption, LogLength DEF LogOK
<1>2. \A i, j \in 1 .. Len(log) : log[i].id = log[j].id => i = j
  BY <1>1, WorkContractAssumption DEF LogOK
<1>3. ASSUME NEW x \in Ids(Reduce(Page(n)))
      PROVE  x \in Past(read + n) /\ x \notin Past(read)
  <2>1. PICK f \in Reduce(Page(n)) : x = f.id
    BY <1>3 DEF Ids
  <2>2. PICK i \in 1 .. n : f = FactAt(n, i)
    BY FactsAreEvents
  <2>3. read + i \in 1 .. Len(log) /\ x = log[read + i].id
    BY <2>1, <2>2, FactsAreEvents
  <2>4. read + i \in 1 .. (read + n)
    BY <1>1
  <2>5. x \in Past(read + n)
    BY <2>3, <2>4 DEF Past
  <2>6. ASSUME NEW j \in 1 .. read PROVE x # log[j].id
    <3>1. j \in 1 .. Len(log) /\ j # read + i
      BY <1>1
    <3> QED BY <1>2, <2>3, <3>1
  <2>7. x \notin Past(read)
    BY <2>6 DEF Past
  <2> QED BY <2>5, <2>7
<1> QED BY <1>3

(* Every contract is sourced, has one of the statuses, and remembers       *)
(* results of the past only.                                               *)
SourceOK(c, past) == Sourced(c) /\ c.status \in Statuses /\ OutcomesOK(c, past)

SourcesOK == \A w \in Works : SourceOK(contract[w], Past(read))

(* No event is published twice.                                            *)
MembersOK ==
  /\ DOMAIN member = Works
  /\ \A w \in Works : member[w] \subseteq Past(read)
  /\ \A w, v \in Works : v # w => member[v] \cap member[w] = {}

(* The inductive invariant of what contracts cite.                         *)
TraceInv == IInv /\ SourcesOK /\ MembersOK

(* The results remembered stay past.                                       *)
LEMMA OutcomesGrow ==
  ASSUME NEW c, NEW past, OutcomesOK(c, past), NEW more, past \subseteq more
  PROVE  OutcomesOK(c, more)
BY DEF OutcomesOK

(* The draft of a page remembers identified requests and results.          *)
LEMMA DraftIsNumbered ==
  ASSUME TraceInv, NEW w \in Works, NEW n \in 1 .. PageSize, read + n <= Len(log),
         NEW d, d = Drafted(contract[w], Reduce(Page(n)))
  PROVE  /\ OutcomesOK(d, Past(read + n))
         /\ Ids(Open(d.actions)) \subseteq Nat /\ Ids(Authority(d.actions)) \subseteq Nat
<1> PICK c : c = contract[w]
  OBVIOUS
<1> PICK facts : facts = Reduce(Page(n))
  OBVIOUS
<1>1. /\ Shaped(c) /\ RequestsOK(c, Inputs(read)) /\ OutcomesOK(c, Past(read))
      /\ read \in Nat /\ LogOK
  BY DEF TraceInv, IInv, ShapesOK, AllHuman, HumanOK, SourcesOK, SourceOK, LogOK
<1>2. read + n \in Nat /\ read <= read + n
  BY <1>1, WorkContractAssumption
<1>3. IsFiniteSet(facts) /\ Stamped(facts)
  BY <1>1, FactsFinite, FactsAreStamped
<1>4. Ids(facts) \subseteq Past(read + n) /\ Ids(facts) \cap Past(read) = {}
  BY <1>1, FactsAreNew
<1>5. Past(read) \subseteq Past(read + n) /\ Past(read + n) \in SUBSET Nat
  BY <1>1, <1>2, PastGrows
<1>6. d.actions = Projected(c.actions, facts)
  BY <1>1, DraftedFields
<1>7. \A k \in DOMAIN d.actions :
        LET o == d.actions[k].outcome
        IN  o = None \/ (o.id \in Past(read) \cup Ids(facts) /\ o.at \in Int)
  BY <1>1, <1>3, <1>4, <1>5, <1>6, ProjectedOutcomes
<1>8. OutcomesOK(d, Past(read + n))
  BY <1>4, <1>5, <1>7 DEF OutcomesOK
<1>9. \A f \in facts : f.kind = "request" /\ f.text # None => f.text \in Inputs(read + n)
  BY <1>1, FactsAreStamped DEF Inputs
<1>10. RequestsOK(c, Inputs(read + n))
  <2>1. Inputs(read) \subseteq Inputs(read + n)
    BY <1>1, <1>2, WordsGrow
  <2> QED BY <1>1, <2>1 DEF RequestsOK
<1>11. RequestsOK(d, Inputs(read + n))
  BY <1>3, <1>6, <1>9, <1>10, ProjectedRequests DEF RequestsOK
<1> QED BY <1>5, <1>8, <1>11, ActionsAreNumbered

(* The revision a page would make is sourced, whatever was published,      *)
(* corrected or refined before.                                            *)
LEMMA PagesAreSourced ==
  ASSUME TraceInv, NEW w \in Works, NEW n \in 1 .. PageSize, read + n <= Len(log),
         Reduce(Page(n)) # {}
  PROVE  SourceOK(Revised(contract[w], Reduce(Page(n))), Past(read + n))
<1> PICK c : c = contract[w]
  OBVIOUS
<1> PICK facts : facts = Reduce(Page(n))
  OBVIOUS
<1> PICK d : d = Drafted(c, facts)
  OBVIOUS
<1>1. Shaped(c) /\ Sourced(c) /\ c.status \in Statuses /\ LogOK
  BY DEF TraceInv, IInv, ShapesOK, SourcesOK, SourceOK
<1>2. IsFiniteSet(facts) /\ Stamped(facts)
  BY <1>1, FactsFinite, FactsAreStamped
<1>3. /\ OutcomesOK(d, Past(read + n))
      /\ Ids(Open(d.actions)) \subseteq Nat /\ Ids(Authority(d.actions)) \subseteq Nat
  BY DraftIsNumbered
<1>4. Sourced(Revised(c, facts)) /\ Revised(c, facts).status \in Statuses \cup {c.status}
  BY <1>1, <1>2, <1>3, RevisedIsSourced
<1>5. Revised(c, facts).actions = d.actions
  BY <1>1, RevisedFields
<1>6. OutcomesOK(Revised(c, facts), Past(read + n))
  BY <1>3, <1>5 DEF OutcomesOK
<1> QED BY <1>1, <1>4, <1>6 DEF SourceOK

(* And so is every revision a step makes.                                  *)
LEMMA RevisionsAreSourced ==
  ASSUME TraceInv, NEW w \in Works, Revises(w)
  PROVE  SourceOK(contract'[w], Past(read)) \/ SourceOK(contract'[w], Past(read'))
<1> PICK c : c = contract[w]
  OBVIOUS
<1>0. /\ Shaped(c) /\ Sourced(c) /\ c.status \in Statuses /\ OutcomesOK(c, Past(read))
      /\ LogOK /\ AskedOK
  BY DEF TraceInv, IInv, ShapesOK, SourcesOK, SourceOK
<1>1. ASSUME NEW n \in 1 .. PageSize, Published(w, n)
      PROVE  SourceOK(contract'[w], Past(read'))
  BY <1>1, PagesAreSourced DEF Published
<1>2. ASSUME NEW d \in Corrections, CorrectedBy(w, d)
      PROVE  SourceOK(contract'[w], Past(read))
  <2>1. c.rev > 0 /\ d[1] \in Correctable /\ contract'[w] = Corrected(c, d[1], d[2], read)
    BY <1>2 DEF CorrectedBy, Exists
  <2>2. Sourced(contract'[w]) /\ contract'[w].status = c.status
    BY <1>0, <2>1, CorrectedIsSourced
  <2>3. contract'[w].actions = c.actions
    BY <1>0, <2>1, CorrectedFields
  <2> QED BY <1>0, <2>2, <2>3 DEF SourceOK, OutcomesOK
<1>3. ASSUME NEW answer \in Proposals, RefinedBy(w, answer)
      PROVE  SourceOK(contract'[w], Past(read))
  <2>1. PICK accepted : accepted = Accepted(answer)
    OBVIOUS
  <2>2. Refined(c, accepted, read) # None /\ contract'[w] = Refined(c, accepted, read)
    BY <1>3, <2>1 DEF RefinedBy
  <2>3. asked.upto \in Nat /\ asked.upto <= read /\ c.rev > 0
    BY <1>0, <1>3 DEF RefinedBy, AskedOK, Exists
  <2>4. ASSUME NEW p \in accepted
        PROVE  p.refs \in SUBSET Nat /\ p.refs # {} /\ p.field \in RefinableFields
    <3>1. Acceptable(Evidence(asked.upto), p)
      BY <2>1, FilteredIsProposed DEF Accepted
    <3> QED BY <1>0, <2>3, <3>1, AcceptedIsCited
  <2>5. Sourced(contract'[w]) /\ contract'[w].status = c.status
    BY <1>0, <2>2, <2>3, <2>4, RefinedIsSourced
  <2>6. contract'[w].actions = c.actions
    BY <1>0, <2>2, RefinedRevision
  <2> QED BY <1>0, <2>5, <2>6 DEF SourceOK, OutcomesOK
<1> QED BY <1>1, <1>2, <1>3 DEF Revises

(* A page's facts go to one work item, and none of them is another's.      *)
LEMMA MembersStep ==
  ASSUME LogOK, MembersOK, [Next]_vars
  PROVE  MembersOK'
<1>0. log' = log /\ read' \in Nat /\ read <= read'
  BY StepOfTheCall
<1>1. ASSUME NEW n \in 1 .. PageSize, Publish(n) PROVE MembersOK'
  <2>1. /\ read' = read + n /\ read + n <= Len(log)
        /\ \E w : member' = [member EXCEPT ![w] = @ \cup Ids(Reduce(Page(n)))]
    BY <1>1 DEF Publish
  <2>2. PICK new : new = Ids(Reduce(Page(n)))
    OBVIOUS
  <2>3. PICK w : member' = [member EXCEPT ![w] = @ \cup new]
    BY <2>1, <2>2
  <2>4. new \subseteq Past(read') /\ new \cap Past(read) = {}
    BY <2>1, <2>2, FactsAreNew
  <2>5. Past(read) \subseteq Past(read')
    BY <1>0, <2>1, PastGrows
  <2>6. Past(read)' = Past(read')
    BY <1>0 DEF Past
  <2>7. DOMAIN member' = Works
    BY <2>3 DEF MembersOK
  <2>8. ASSUME NEW v \in Works
        PROVE  member'[v] = IF v = w THEN member[v] \cup new ELSE member[v]
    BY <2>3 DEF MembersOK
  <2>9. ASSUME NEW v \in Works PROVE member'[v] \subseteq Past(read')
    BY <2>4, <2>5, <2>8 DEF MembersOK
  <2>10. ASSUME NEW u \in Works, NEW v \in Works, v # u PROVE member'[v] \cap member'[u] = {}
    <3>1. member[v] \cap member[u] = {} /\ member[u] \cap new = {} /\ member[v] \cap new = {}
      BY <2>4, <2>10 DEF MembersOK
    <3> QED BY <2>8, <2>10, <3>1
  <2> QED BY <2>6, <2>7, <2>9, <2>10 DEF MembersOK
<1>2. ASSUME member' = member, read' <= Len(log) PROVE MembersOK'
  <2>1. Past(read) \subseteq Past(read') /\ Past(read)' = Past(read')
    BY <1>0, <1>2, PastGrows DEF Past
  <2> QED BY <1>2, <2>1 DEF MembersOK
<1>3. read <= Len(log)
  BY DEF LogOK
<1>4. ASSUME NEW n \in 1 .. PageSize, Skip(n) PROVE MembersOK'
  BY <1>2, <1>4 DEF Skip
<1>5. ASSUME NEW w \in Works, NEW c \in Corrections, Correct(w, c[1], c[2], read) PROVE MembersOK'
  BY <1>2, <1>3, <1>5 DEF Correct
<1>6. ASSUME NEW w \in Works, Ask(w) PROVE MembersOK'
  BY <1>2, <1>3, <1>6 DEF Ask
<1>7. ASSUME NEW answer \in Proposals, Answer(answer) \/ TooLate(answer) PROVE MembersOK'
  BY <1>2, <1>3, <1>7 DEF Answer, TooLate
<1>8. ASSUME UNCHANGED vars PROVE MembersOK'
  BY <1>2, <1>3, <1>8 DEF vars
<1> QED BY <1>1, <1>4, <1>5, <1>6, <1>7, <1>8 DEF Next, Publications, Answers

(* Every contract is always sourced, and every event published once at most*)
(* (ProvisionalContractBuilder::build, apply_human_correction,             *)
(* refine_provisional_contract_at_with_policy, apply_work).                *)
THEOREM TraceInvariant == Spec => []TraceInv
<1>1. Init => SourcesOK /\ MembersOK
  <2> SUFFICES ASSUME Init PROVE SourcesOK /\ MembersOK
    OBVIOUS
  <2>1. SourceOK(NoContract, Past(read))
    <3>1. NoContract.cites = [f \in Fields |-> {}] /\ NoContract.refs = {} /\ NoContract.rev = 0
      BY DEF NoContract
    <3>2. NoContract.facts = {} /\ NoContract.by = "nobody" /\ NoContract.status = "observed"
      BY DEF NoContract
    <3>3. \A f \in Lists : NoContract[f] = {}
      BY DEF NoContract, Lists
    <3>4. \A f \in {"objective", "summary"} : NoContract[f] = None
      BY DEF NoContract
    <3>5. \A f \in Fields : Supported(NoContract, f)
      BY <3>3, <3>4 DEF Supported
    <3>6. OutcomesOK(NoContract, Past(read))
      BY DEF OutcomesOK, NoContract
    <3>7. Sourced(NoContract)
      BY <3>1, <3>2, <3>5 DEF Sourced
    <3> QED BY <3>2, <3>6, <3>7 DEF SourceOK, Statuses
  <2>2. SourcesOK
    BY <2>1 DEF Init, SourcesOK
  <2>3. MembersOK
    BY DEF Init, MembersOK
  <2> QED BY <2>2, <2>3
<1>2. TraceInv /\ [Next]_vars => SourcesOK' /\ MembersOK'
  <2> SUFFICES ASSUME TraceInv, [Next]_vars PROVE SourcesOK' /\ MembersOK'
    OBVIOUS
  <2>1. MembersOK'
    BY MembersStep DEF TraceInv, IInv
  <2>2. log' = log /\ Past(read)' = Past(read')
    BY StepOfTheCall DEF TraceInv, IInv, Past
  <2> SUFFICES ASSUME NEW w \in Works PROVE SourceOK(contract'[w], Past(read'))
    BY <2>1, <2>2 DEF SourcesOK
  <2>3. Past(read) \subseteq Past(read')
    <3>1. LogOK /\ LogOK'
      BY StepOfTheCall, LogStep DEF TraceInv, IInv
    <3>2. read' \in Nat /\ read <= read' /\ read' <= Len(log)
      BY <2>2, <3>1, StepOfTheCall DEF LogOK
    <3> QED BY <3>1, <3>2, PastGrows
  <2>4. SourceOK(contract[w], Past(read))
    BY DEF TraceInv, SourcesOK
  <2>5. SourceOK(contract'[w], Past(read)) \/ SourceOK(contract'[w], Past(read'))
    BY <2>4, StepRevises, RevisionsAreSourced DEF TraceInv, IInv
  <2> QED BY <2>3, <2>5, OutcomesGrow DEF SourceOK
<1> QED BY <1>1, <1>2, WordsInvariant, PTL DEF Spec, TraceInv

(* Each filled field cites evidence the contract still holds, in what is   *)
(* stored and in what any next page makes of it, so that                   *)
(* validate_field_evidence never refuses a page.                           *)
THEOREM ContractsAreAlwaysTraceable == Spec => []ContractsAreTraceable
<1>1. TraceInv => TypeOK
  <2> SUFFICES ASSUME TraceInv PROVE TypeOK
    OBVIOUS
  <2>1. read \in 0 .. Len(log)
    BY LogLength DEF TraceInv, IInv, LogOK
  <2>2. ASSUME NEW w \in Works
        PROVE  /\ contract[w].rev \in Nat
               /\ contract[w].status \in {"observed", "active", "blocked", "completed", "abandoned"}
    BY DEF TraceInv, IInv, ShapesOK, Shaped, SourcesOK, SourceOK, Statuses
  <2>3. ASSUME NEW w \in Works
        PROVE  /\ member[w] \subseteq {log[i].id : i \in 1 .. read}
               /\ \A v \in Works \ {w} : member[v] \cap member[w] = {}
    BY DEF TraceInv, MembersOK, Past
  <2>4. asked = Silent \/ Exists(asked.work)
    BY DEF TraceInv, IInv, AskedOK
  <2> QED BY <2>1, <2>2, <2>3, <2>4 DEF TypeOK
<1>2. TraceInv => EveryFieldIsCited
  <2> SUFFICES ASSUME TraceInv, NEW w \in Works
               PROVE  /\ Exists(w) => Cited(contract[w])
                      /\ \A n \in 1 .. PageSize :
                           read + n <= Len(log) /\ Reduce(Page(n)) # {} =>
                             Cited(Build(contract[w], Reduce(Page(n))))
    BY DEF EveryFieldIsCited
  <2>1. PICK c : c = contract[w]
    OBVIOUS
  <2>2. Shaped(c) /\ Sourced(c) /\ c.rev \in Nat
    BY <2>1 DEF TraceInv, IInv, ShapesOK, SourcesOK, SourceOK, Shaped
  <2>3. c.rev > 0 => Cited(c)
    BY <2>2, SourcedIsCited
  <2>4. ASSUME NEW n \in 1 .. PageSize, read + n <= Len(log), Reduce(Page(n)) # {}
        PROVE  Cited(Build(c, Reduce(Page(n))))
    <3>1. PICK facts : facts = Reduce(Page(n))
      OBVIOUS
    <3>2. Sourced(Revised(c, facts)) /\ Revised(c, facts).rev = c.rev + 1
      BY <2>1, <2>2, <2>4, <3>1, PagesAreSourced, RevisedFields DEF SourceOK
    <3>3. Cited(Revised(c, facts))
      BY <2>2, <3>2, SourcedIsCited
    <3>4. CASE c.rev = 0
      <4>1. c.facts = {} /\ c.by = "nobody" /\ Ids(facts) # {}
        BY <2>2, <2>4, <3>1, <3>4 DEF Sourced, Ids
      <4>2. Build(c, facts) = Revised(c, facts)
        BY <2>4, <3>1, <4>1 DEF Build
      <4> QED BY <3>1, <3>3, <4>2
    <3>5. CASE c.rev > 0
      BY <2>3, <3>1, <3>3, <3>5, BuildRevises
    <3> QED BY <2>2, <3>4, <3>5
  <2> QED BY <2>1, <2>3, <2>4 DEF Exists
<1> QED BY <1>1, <1>2, TraceInvariant, PTL DEF ContractsAreTraceable

-----------------------------------------------------------------------------
(* Events of the log are stamped.                                          *)
LEMMA PlacesAreStamped ==
  ASSUME LogOK
  PROVE  \A i, j \in 1 .. Len(log) :
           /\ log[i].id \in Nat /\ log[i].at \in Int /\ log[i].key \in Int
           /\ log[i].id = log[j].id => i = j
<1>1. DOMAIN log = 1 .. Len(log)
  BY LogLength DEF LogOK
<1> QED BY <1>1, WorkContractAssumption DEF LogOK

(* An outcome tells the result at a place of the log.                      *)
Tells(o, i) == o.id = log[i].id /\ o.at = log[i].at /\ o.good = log[i].good

(* It is None where there is no result, and otherwise tells the newest.    *)
Remembers(o, S) ==
  IF S = {} THEN o = None
  ELSE o # None /\ \E i \in S : Tells(o, i) /\ \A j \in S \ {i} : After(log[i], log[j])

(* The order in which things were observed.                                *)
LEMMA AfterIsTransitive ==
  ASSUME NEW x, NEW y, NEW z, x.id \in Nat, y.id \in Nat, z.id \in Nat,
         x.at \in Int, y.at \in Int, z.at \in Int, After(x, y), After(y, z)
  PROVE  After(x, z)
BY DEF After

(* Told in place of the events, that order is the same.                    *)
LEMMA AfterIsTold ==
  ASSUME NEW x, NEW y, NEW i, NEW j, Tells(x, i), Tells(y, j)
  PROVE  After(x, y) <=> After(log[i], log[j])
BY DEF After, Tells

(* The outcomes to choose from are the one remembered and those of the     *)
(* page's results (update_authoritative).                                  *)
LEMMA OutcomesTell ==
  ASSUME NEW S, NEW T, NEW old, Remembers(old.outcome, S), NEW facts,
         \A f \in facts : Structured(f) => \E i \in T : Tells(f, i),
         \A i \in T : \E f \in facts : Structured(f) /\ Tells(f, i)
  PROVE  /\ \A o \in Outcomes(old, facts) : \E i \in S \cup T : Tells(o, i)
         /\ \A i \in T : \E o \in Outcomes(old, facts) : Tells(o, i)
         /\ S # {} => \E o \in Outcomes(old, facts) : \E i \in S :
                        Tells(o, i) /\ \A j \in S \ {i} : After(log[i], log[j])
<1> DEFINE made(f) == [id |-> f.id, at |-> f.at, good |-> f.good, command |-> f.command]
           ends == {f \in facts : Structured(f)}
           rest == IF old.outcome = None THEN {} ELSE {old.outcome}
           all  == Outcomes(old, facts)
<1>1. all = {made(f) : f \in ends} \cup rest
  BY DEF Outcomes
<1>2. \A f \in ends, i \in S \cup T : Tells(f, i) <=> Tells(made(f), i)
  BY DEF Tells
<1>3. \A f \in ends : \E i \in T : Tells(f, i)
  OBVIOUS
<1>4. \A i \in T : \E f \in ends : Tells(f, i)
  OBVIOUS
<1>5. ASSUME NEW o \in rest PROVE o = old.outcome /\ S # {}
  BY DEF Remembers
<1>6. S # {} => /\ old.outcome \in rest
                /\ \E i \in S : /\ Tells(old.outcome, i)
                                /\ \A j \in S \ {i} : After(log[i], log[j])
  BY DEF Remembers
<1> HIDE DEF ends, rest, all, made
<1>7. ASSUME NEW o \in all PROVE \E i \in S \cup T : Tells(o, i)
  <2>1. CASE o \in rest
    BY <1>5, <1>6, <2>1
  <2>2. CASE o \notin rest
    <3>1. PICK f \in ends : o = made(f)
      BY <1>1, <2>2
    <3>2. PICK i \in T : Tells(f, i)
      BY <1>3
    <3> QED BY <1>2, <3>1, <3>2
  <2> QED BY <2>1, <2>2
<1>8. ASSUME NEW i \in T PROVE \E o \in all : Tells(o, i)
  <2>1. PICK f \in ends : Tells(f, i)
    BY <1>4
  <2>2. made(f) \in all /\ Tells(made(f), i)
    BY <1>1, <1>2, <2>1
  <2> QED BY <2>2
<1>9. S # {} => \E o \in all : \E i \in S :
                  Tells(o, i) /\ \A j \in S \ {i} : After(log[i], log[j])
  BY <1>1, <1>6
<1> QED BY <1>7, <1>8, <1>9 DEF all

(* The newest of all these is what the action remembers, whichever of the  *)
(* two came late.                                                          *)
LEMMA NewestIsRemembered ==
  ASSUME LogOK, NEW S \in SUBSET (1 .. Len(log)), NEW T \in SUBSET (1 .. Len(log)),
         NEW all, IsFiniteSet(all), Stamped(all), None \notin all,
         \A o \in all : \E i \in S \cup T : Tells(o, i),
         \A i \in T : \E o \in all : Tells(o, i),
         S # {} => \E o \in all : \E i \in S :
                     Tells(o, i) /\ \A j \in S \ {i} : After(log[i], log[j])
  PROVE  Remembers(IF all = {} THEN None ELSE Newest(all), S \cup T)
<1>0. \A i, j \in S \cup T : /\ log[i].id \in Nat /\ log[i].at \in Int
                             /\ log[i].id = log[j].id => i = j
  BY PlacesAreStamped
<1>1. CASE all = {}
  <2>1. S \cup T = {}
    BY <1>1
  <2> QED BY <1>1, <2>1 DEF Remembers
<1>2. CASE all # {}
  <2>1. PICK m \in all : m = Newest(all) /\ \A o \in all \ {m} : After(m, o)
    BY <1>2, NewestIsOne
  <2>2. PICK i \in S \cup T : Tells(m, i)
    OBVIOUS
  <2>3. ASSUME NEW o \in all, NEW j \in S \cup T, Tells(o, j), j # i PROVE After(log[i], log[j])
    <3>1. o # m
      BY <1>0, <2>2, <2>3 DEF Tells
    <3>2. After(m, o)
      BY <2>1, <3>1
    <3> QED BY <2>2, <2>3, <3>2, AfterIsTold
  <2>4. ASSUME NEW j \in (S \cup T) \ {i} PROVE After(log[i], log[j])
    <3>1. CASE j \in T
      BY <2>3, <2>4, <3>1
    <3>2. CASE j \in S
      <4>1. PICK o \in all, h \in S : Tells(o, h) /\ \A g \in S \ {h} : After(log[h], log[g])
        BY <3>2
      <4>2. h = j \/ After(log[h], log[j])
        BY <3>2, <4>1
      <4>3. h = i \/ After(log[i], log[h])
        BY <2>3, <4>1
      <4>4. /\ log[h].id \in Nat /\ log[i].id \in Nat /\ log[j].id \in Nat
            /\ log[h].at \in Int /\ log[i].at \in Int /\ log[j].at \in Int
        BY <1>0, <4>1
      <4> QED BY <2>4, <4>2, <4>3, <4>4, AfterIsTransitive
    <3> QED BY <2>4, <3>1, <3>2
  <2>5. S \cup T # {} /\ m # None
    BY <2>2
  <2> QED BY <1>2, <2>1, <2>2, <2>4, <2>5 DEF Remembers
<1> QED BY <1>1, <1>2
-----------------------------------------------------------------------------
(* The hypothesis: the actions of a log fit the bound of a contract, so    *)
(* that apply_action_facts drops none.                                     *)
KeysOfActions(events) ==
  {events[i].key : i \in {j \in DOMAIN events : events[j].kind \in {"request", "finish"}}}

ActionsFit == \A events \in Logs : Cardinality(KeysOfActions(events)) <= MaxRefs

(* Then no selection of its keys is cut.                                   *)
LEMMA NoActionIsDropped ==
  ASSUME ActionsFit, LogOK, NEW S \in SUBSET KeysOfActions(log)
  PROVE  Smallest(S, MaxRefs) = S
<1>1. DOMAIN log = 1 .. Len(log) /\ Len(log) \in Nat
  BY LogLength DEF LogOK
<1>2. MaxRefs \in Nat /\ Cardinality(KeysOfActions(log)) <= MaxRefs
  BY WorkContractAssumption DEF ActionsFit, LogOK
<1>3. IsFiniteSet(KeysOfActions(log))
  <2> DEFINE P == {j \in 1 .. Len(log) : log[j].kind \in {"request", "finish"}}
             key == [i \in P |-> log[i].key]
  <2>1. KeysOfActions(log) = {key[i] : i \in P}
    BY <1>1 DEF KeysOfActions
  <2>2. IsFiniteSet(P)
    <3>1. IsFiniteSet(1 .. Len(log))
      BY <1>1, FS_Interval
    <3> QED BY <3>1, FS_Subset
  <2>3. key = [i \in P |-> key[i]]
    OBVIOUS
  <2> HIDE DEF key, P
  <2> QED BY <2>1, <2>2, <2>3, ImageFinite
<1>4. KeysOfActions(log) \subseteq Int
  BY <1>1, PlacesAreStamped DEF KeysOfActions
<1>5. IsFiniteSet(S) /\ Cardinality(S) \in Nat /\ Cardinality(S) <= MaxRefs
  <2>1. Cardinality(S) <= Cardinality(KeysOfActions(log)) /\ IsFiniteSet(S)
    BY <1>3, FS_Subset
  <2> QED BY <1>2, <1>3, <2>1, FS_CardinalityType
<1>6. ASSUME NEW x \in S PROVE Cardinality({y \in S : y < x}) < MaxRefs
  <2> DEFINE B == {y \in S : y < x}
  <2>1. B \subseteq S /\ x \in S /\ x \notin B
    BY <1>4
  <2> HIDE DEF B
  <2>2. IsFiniteSet(B) /\ Cardinality(B) \in Nat /\ Cardinality(B) < Cardinality(S)
    BY <1>5, <2>1, FS_Subset, FS_CardinalityType
  <2>3. Cardinality(B) < MaxRefs
    BY <1>2, <1>5, <2>2
  <2> QED BY <2>3 DEF B
<1> QED BY <1>6 DEF Smallest

(* The greatest of finitely many places is one of them.                    *)
LEMMA GreatestPlace ==
  ASSUME NEW S, IsFiniteSet(S), S # {}, \A x \in S : x \in Int
  PROVE  (CHOOSE j \in S : \A k \in S : k <= j) \in S
<1> DEFINE R == {p \in S \X S : p[2] <= p[1]}
<1>1. \A x, y \in S : <<x, y>> \in R <=> y <= x
  OBVIOUS
<1> HIDE DEF R
<1>2. \A x, y \in S : x = y \/ <<x, y>> \in R \/ <<y, x>> \in R
  <2> SUFFICES ASSUME NEW x \in S, NEW y \in S PROVE y <= x \/ x <= y
    BY <1>1
  <2> QED OBVIOUS
<1>3. \A x, y, z \in S : <<x, y>> \in R /\ <<y, z>> \in R => <<x, z>> \in R
  <2> SUFFICES ASSUME NEW x \in S, NEW y \in S, NEW z \in S, y <= x, z <= y PROVE z <= x
    BY <1>1
  <2>1. x \in Int /\ y \in Int /\ z \in Int
    OBVIOUS
  <2> QED BY <2>1
<1>4. PICK m \in S : \A y \in S \ {m} : <<m, y>> \in R
  BY <1>2, <1>3, GreatestExists
<1>5. ASSUME NEW y \in S PROVE y <= m
  <2>1. y # m => <<m, y>> \in R
    BY <1>4
  <2> QED BY <1>1, <2>1
<1> QED BY <1>5

-----------------------------------------------------------------------------
(* The results among the events of a page.                                 *)
IsResult(i) == log[i].kind = "finish" /\ log[i].trusted
NewResults(n) == {i \in (read + 1) .. (read + n) : IsResult(i)}

(* A fact of an action is a request or the end of one, and an authoritative*)
(* one is a trusted end (DeterministicReducer::reduce).                    *)
LEMMA FactsOfActions ==
  ASSUME LogOK, NEW n \in 1 .. PageSize, read + n <= Len(log), NEW f \in Reduce(Page(n))
  PROVE  \E i \in (read + 1) .. (read + n) :
           /\ Tells(f, i) /\ f.key = log[i].key /\ i \in 1 .. Len(log)
           /\ OfAction(f) => log[i].kind \in {"request", "finish"}
           /\ Structured(f) => IsResult(i)
           /\ f.command \in {None} \cup {log[j].text : j \in 1 .. Len(log)}
<1>1. n \in Nat /\ read \in Nat /\ log \in Seq(Range(log)) /\ Len(log) \in Nat
  BY WorkContractAssumption, LogLength DEF LogOK
<1>2. DOMAIN Page(n) = 1 .. n /\ \A j \in 1 .. n : Page(n)[j] = log[read + j]
  BY <1>1 DEF Page, LogOK
<1>3. PICK i \in 1 .. n : f = FactAt(n, i) /\ IsFact(Page(n)[i])
  BY <1>2 DEF Reduce, FactAt
<1>4. read + i \in (read + 1) .. (read + n) /\ read + i \in 1 .. Len(log)
  BY <1>1
<1>5. Tells(f, read + i) /\ f.key = log[read + i].key
  BY <1>2, <1>3 DEF FactAt, Tells
<1>6. f.kind = Kind(Page(n), i) /\ f.command = Command(Page(n), i)
  BY <1>3 DEF FactAt
<1>7. OfAction(f) => log[read + i].kind \in {"request", "finish"}
  BY <1>2, <1>3, <1>6 DEF OfAction, Kind, IsFact
<1>8. Structured(f) => IsResult(read + i)
  BY <1>2, <1>3, <1>6 DEF Structured, Kind, IsFact, IsResult
<1>9. f.command \in {None} \cup {log[j].text : j \in 1 .. Len(log)}
  <2> DEFINE asks == Earlier(Page(n), i)
  <2>1. asks \subseteq 1 .. (i - 1) /\ i - 1 \in Int /\ i - 1 <= n
    BY <1>1 DEF Earlier
  <2>2. 1 .. (i - 1) \subseteq 1 .. n
    BY <1>1, <2>1
  <2>3. IsFiniteSet(1 .. (i - 1))
    BY <2>1, FS_Interval
  <2>4. Command(Page(n), i) = IF asks = {} THEN None
                              ELSE Page(n)[CHOOSE j \in asks : \A k \in asks : k <= j].text
    BY DEF Command
  <2> HIDE DEF asks
  <2>5. IsFiniteSet(asks) /\ asks \subseteq Int /\ asks \subseteq 1 .. n
    <3>1. IsFiniteSet(asks)
      BY <2>1, <2>3, FS_Subset
    <3> QED BY <2>1, <2>2, <3>1
  <2>6. CASE asks = {}
    BY <1>6, <2>4, <2>6
  <2>7. CASE asks # {}
    <3>1. PICK j \in asks : j = CHOOSE g \in asks : \A k \in asks : k <= g
      BY <2>5, <2>7, GreatestPlace
    <3>2. j \in 1 .. n /\ Command(Page(n), i) = Page(n)[j].text
      BY <2>4, <2>5, <2>7, <3>1
    <3>3. read + j \in 1 .. Len(log) /\ f.command = log[read + j].text
      BY <1>1, <1>2, <1>6, <3>2
    <3> QED BY <3>3
  <2> QED BY <2>6, <2>7
<1> QED BY <1>4, <1>5, <1>7, <1>8, <1>9

(* Each trusted result of the page is a fact.                              *)
LEMMA ResultsAreFacts ==
  ASSUME LogOK, NEW n \in 1 .. PageSize, read + n <= Len(log), NEW i \in NewResults(n)
  PROVE  \E f \in Reduce(Page(n)) :
           Structured(f) /\ OfAction(f) /\ Tells(f, i) /\ f.key = log[i].key
<1>1. n \in Nat /\ read \in Nat /\ log \in Seq(Range(log)) /\ Len(log) \in Nat
  BY WorkContractAssumption, LogLength DEF LogOK
<1>2. DOMAIN Page(n) = 1 .. n /\ \A j \in 1 .. n : Page(n)[j] = log[read + j]
  BY <1>1 DEF Page, LogOK
<1>3. PICK j \in 1 .. n : i = read + j
  <2>1. i - read \in 1 .. n /\ i = read + (i - read)
    BY <1>1 DEF NewResults
  <2> QED BY <2>1
<1>4. log[i].kind = "finish" /\ log[i].trusted /\ Page(n)[j] = log[i]
  BY <1>2, <1>3 DEF NewResults, IsResult
<1>5. IsFact(Page(n)[j])
  BY <1>4 DEF IsFact
<1>6. FactAt(n, j) \in Reduce(Page(n))
  BY <1>2, <1>5 DEF Reduce, FactAt
<1>7. FactAt(n, j).kind \in {"eligible", "verification"}
  BY <1>4 DEF FactAt, Kind
<1>8. Tells(FactAt(n, j), i) /\ FactAt(n, j).key = log[i].key
  BY <1>4 DEF FactAt, Tells
<1> QED BY <1>6, <1>7, <1>8 DEF Structured, OfAction
-----------------------------------------------------------------------------
(* The actions of a contract remember the results at the places R: of each *)
(* action the newest, and all of its actions are there.                    *)
Ours(R, k) == {i \in R : log[i].key = k}

Mirrors(actions, R) ==
  /\ DOMAIN actions \subseteq KeysOfActions(log)
  /\ \A k \in DOMAIN actions : Remembers(actions[k].outcome, Ours(R, k))
  /\ \A i \in R : log[i].key \in DOMAIN actions

(* One action after a page: old is what was known of it, and facts are the *)
(* page's facts of it (update_authoritative).                              *)
LEMMA ActionMirrors ==
  ASSUME LogOK, NEW n \in 1 .. PageSize, read + n <= Len(log), NEW k, NEW old,
         NEW R \in SUBSET (1 .. read), Remembers(old.outcome, Ours(R, k)),
         old.outcome = None \/ (old.outcome.id \in Past(read) /\ old.outcome.at \in Int),
         NEW facts, facts = {f \in Reduce(Page(n)) : OfAction(f) /\ f.key = k}
  PROVE  Remembers(Action(old, facts).outcome, Ours(R \cup NewResults(n), k))
<1>0. /\ n \in Nat /\ read \in Nat /\ Len(log) \in Nat /\ read + n \in Nat
      /\ DOMAIN log = 1 .. Len(log) /\ read <= Len(log) /\ read <= read + n
  BY WorkContractAssumption, LogLength DEF LogOK
<1>1. PICK S : S = Ours(R, k)
  OBVIOUS
<1>2. PICK T : T = Ours(NewResults(n), k)
  OBVIOUS
<1>3. /\ S \in SUBSET (1 .. Len(log)) /\ T \in SUBSET (1 .. Len(log))
      /\ Ours(R \cup NewResults(n), k) = S \cup T
  <2>1. S \subseteq 1 .. read /\ T \subseteq (read + 1) .. (read + n)
    BY <1>1, <1>2 DEF Ours, NewResults
  <2>2. 1 .. read \subseteq 1 .. Len(log) /\ (read + 1) .. (read + n) \subseteq 1 .. Len(log)
    BY <1>0
  <2>3. Ours(R \cup NewResults(n), k) = S \cup T
    BY <1>1, <1>2 DEF Ours
  <2> QED BY <2>1, <2>2, <2>3
<1>4. PICK page : page = Reduce(Page(n))
  OBVIOUS
<1>5. facts \subseteq page /\ IsFiniteSet(page) /\ Stamped(page) /\ Ids(page) \cap Past(read) = {}
  BY <1>4, FactsFinite, FactsAreStamped, FactsAreNew
<1>6. IsFiniteSet(facts) /\ Stamped(facts) /\ Ids(facts) \cap Past(read) = {}
  <2>1. IsFiniteSet(facts)
    BY <1>5, FS_Subset
  <2> QED BY <1>5, <2>1 DEF Stamped, Ids
<1>7. Past(read) \in SUBSET Nat
  BY <1>0, PastGrows
<1>8. PICK all : all = Outcomes(old, facts)
  OBVIOUS
<1>9. IsFiniteSet(all) /\ Stamped(all)
  BY <1>6, <1>7, <1>8, OutcomesAreStamped
<1>10. ASSUME NEW f \in facts, Structured(f) PROVE \E i \in T : Tells(f, i)
  <2>1. f \in Reduce(Page(n)) /\ f.key = k
    OBVIOUS
  <2>2. PICK i \in (read + 1) .. (read + n) : Tells(f, i) /\ f.key = log[i].key /\ IsResult(i)
    BY <1>10, <2>1, FactsOfActions
  <2>3. i \in T
    BY <1>2, <2>1, <2>2 DEF Ours, NewResults
  <2> QED BY <2>2, <2>3
<1>11. ASSUME NEW i \in T PROVE \E f \in facts : Structured(f) /\ Tells(f, i)
  <2>1. i \in NewResults(n) /\ log[i].key = k
    BY <1>2 DEF Ours
  <2>2. PICK f \in Reduce(Page(n)) :
          Structured(f) /\ OfAction(f) /\ Tells(f, i) /\ f.key = log[i].key
    BY <2>1, ResultsAreFacts
  <2> QED BY <2>1, <2>2
<1>12. None \notin all
  <2>1. ASSUME NEW f \in facts
        PROVE  None # [id |-> f.id, at |-> f.at, good |-> f.good, command |-> f.command]
    <3>1. PICK i \in 1 .. Len(log) :
            Tells(f, i) /\ f.command \in {None} \cup {log[j].text : j \in 1 .. Len(log)}
      BY <1>5, <1>4, FactsOfActions
    <3>2. PICK j \in 1 .. Len(log) : f.command \in {None, log[j].text}
      BY <3>1
    <3>3. None # [id |-> log[i].id, at |-> log[i].at, good |-> log[i].good,
                  command |-> f.command]
      BY <1>0, <3>2, ResultAssumption DEF LogOK
    <3> QED BY <3>1, <3>3 DEF Tells
  <2> QED BY <1>8, <2>1 DEF Outcomes
<1>13. Action(old, facts).outcome = IF all = {} THEN None ELSE Newest(all)
  BY <1>8 DEF Action
<1>14. /\ \A o \in all : \E i \in S \cup T : Tells(o, i)
       /\ \A i \in T : \E o \in all : Tells(o, i)
       /\ S # {} => \E o \in all : \E i \in S :
                      Tells(o, i) /\ \A j \in S \ {i} : After(log[i], log[j])
  <2>1. Remembers(old.outcome, S)
    BY <1>1
  <2>2. \A f \in facts : Structured(f) => \E i \in T : Tells(f, i)
    BY <1>10
  <2>3. \A i \in T : \E f \in facts : Structured(f) /\ Tells(f, i)
    BY <1>11
  <2> QED BY <1>8, <2>1, <2>2, <2>3, OutcomesTell
<1>15. Remembers(IF all = {} THEN None ELSE Newest(all), S \cup T)
  BY <1>3, <1>9, <1>12, <1>14, NewestIsRemembered
<1> QED BY <1>3, <1>13, <1>15

(* All actions after a page (apply_action_facts).                          *)
LEMMA ProjectedMirrors ==
  ASSUME ActionsFit, LogOK, NEW n \in 1 .. PageSize, read + n <= Len(log),
         NEW c, OutcomesOK(c, Past(read)),
         NEW R \in SUBSET (1 .. read), Mirrors(c.actions, R)
  PROVE  /\ Mirrors(Projected(c.actions, Reduce(Page(n))), R \cup NewResults(n))
         /\ DOMAIN c.actions \subseteq DOMAIN Projected(c.actions, Reduce(Page(n)))
<1>0. DOMAIN log = 1 .. Len(log)
  BY LogLength DEF LogOK
<1> PICK page : page = Reduce(Page(n))
  OBVIOUS
<1> PICK actions : actions = c.actions
  OBVIOUS
<1> DEFINE keys    == DOMAIN actions \cup {f.key : f \in {g \in page : OfAction(g)}}
           old(k)  == IF k \in DOMAIN actions THEN actions[k] ELSE NoAction
           mine(k) == {f \in page : OfAction(f) /\ f.key = k}
           new     == Projected(actions, page)
<1>1. keys \subseteq KeysOfActions(log)
  <2>1. ASSUME NEW f \in page, OfAction(f) PROVE f.key \in KeysOfActions(log)
    <3>1. PICK i \in 1 .. Len(log) : f.key = log[i].key /\ log[i].kind \in {"request", "finish"}
      BY <2>1, FactsOfActions
    <3> QED BY <1>0, <3>1 DEF KeysOfActions
  <2> QED BY <2>1 DEF Mirrors
<1>2. Smallest(keys, MaxRefs) = keys
  <2> HIDE DEF keys
  <2> QED BY <1>1, NoActionIsDropped
<1>3. DOMAIN new = keys /\ \A k \in keys : new[k] = Action(old(k), mine(k))
  BY <1>2 DEF Projected
<1>4. ASSUME NEW k PROVE Remembers(Action(old(k), mine(k)).outcome, Ours(R \cup NewResults(n), k))
  <2>1. PICK was : was = old(k)
    OBVIOUS
  <2>2. PICK part : part = mine(k)
    OBVIOUS
  <2>3. Remembers(was.outcome, Ours(R, k))
    <3>1. CASE k \in DOMAIN actions
      BY <2>1, <3>1 DEF Mirrors
    <3>2. CASE k \notin DOMAIN actions
      <4>1. Ours(R, k) = {}
        BY <3>2 DEF Mirrors, Ours
      <4>2. was.outcome = None
        BY <2>1, <3>2 DEF NoAction
      <4> QED BY <4>1, <4>2 DEF Remembers
    <3> QED BY <3>1, <3>2
  <2>4. was.outcome = None \/ (was.outcome.id \in Past(read) /\ was.outcome.at \in Int)
    BY <2>1 DEF OutcomesOK, NoAction
  <2>5. part = {f \in Reduce(Page(n)) : OfAction(f) /\ f.key = k}
    BY <2>2
  <2>6. Remembers(Action(was, part).outcome, Ours(R \cup NewResults(n), k))
    BY <2>3, <2>4, <2>5, ActionMirrors
  <2> HIDE DEF old, mine
  <2> QED BY <2>1, <2>2, <2>6
<1>5. ASSUME NEW i \in R \cup NewResults(n) PROVE log[i].key \in keys
  <2>1. CASE i \in R
    BY <2>1 DEF Mirrors
  <2>2. CASE i \in NewResults(n)
    BY <2>2, ResultsAreFacts
  <2> QED BY <2>1, <2>2
<1>6. DOMAIN actions \subseteq keys
  OBVIOUS
<1> HIDE DEF keys, old, mine, new
<1>7. Mirrors(new, R \cup NewResults(n))
  BY <1>1, <1>3, <1>4, <1>5 DEF Mirrors
<1> QED BY <1>3, <1>6, <1>7 DEF new

-----------------------------------------------------------------------------
(* The newest result of its action among the places R.                     *)
Latest(R, i) == \A j \in R \ {i} : log[j].key = log[i].key => After(log[i], log[j])

(* Actions that mirror results have a failure where the newest result of   *)
(* some action is one, and likewise a success.                             *)
LEMMA VerdictsFollow ==
  ASSUME LogOK, NEW R \in SUBSET (1 .. Len(log)), NEW actions, Mirrors(actions, R)
  PROVE  /\ Failed(actions) # {} <=> \E i \in R : ~log[i].good /\ Latest(R, i)
         /\ Succeeded(actions) # {} <=> \E i \in R : log[i].good /\ Latest(R, i)
         /\ R # {} => Failed(actions) # {} \/ Succeeded(actions) # {}
<1>1. \A i, j \in R : /\ log[i].id \in Nat /\ log[j].id \in Nat
                      /\ log[i].at \in Int /\ log[j].at \in Int
                      /\ log[i].id = log[j].id => i = j
  BY PlacesAreStamped
<1>2. ASSUME NEW i \in R, NEW j \in R, Latest(R, i), Latest(R, j), log[i].key = log[j].key
      PROVE  i = j
  <2> SUFFICES ASSUME i # j PROVE FALSE
    OBVIOUS
  <2>1. After(log[i], log[j]) /\ After(log[j], log[i])
    BY <1>2 DEF Latest
  <2> QED BY <1>1, <2>1 DEF After
<1>3. ASSUME NEW k \in DOMAIN actions, NEW o, o = actions[k].outcome, o # None
      PROVE  \E i \in R : log[i].key = k /\ Latest(R, i) /\ Tells(o, i)
  <2>1. Remembers(o, Ours(R, k))
    BY <1>3 DEF Mirrors
  <2>2. PICK i \in Ours(R, k) : Tells(o, i) /\ \A j \in Ours(R, k) \ {i} : After(log[i], log[j])
    BY <1>3, <2>1 DEF Remembers
  <2>3. i \in R /\ log[i].key = k /\ Latest(R, i)
    BY <2>2 DEF Ours, Latest
  <2> QED BY <2>2, <2>3
<1>4. ASSUME NEW i \in R
      PROVE  \E k \in DOMAIN actions : k = log[i].key /\ actions[k].outcome # None
  <2>1. log[i].key \in DOMAIN actions /\ i \in Ours(R, log[i].key)
    BY DEF Mirrors, Ours
  <2>2. Remembers(actions[log[i].key].outcome, Ours(R, log[i].key))
    BY <2>1 DEF Mirrors
  <2> QED BY <2>1, <2>2 DEF Remembers
<1>5. ASSUME NEW i \in R, Latest(R, i)
      PROVE  \E k \in DOMAIN actions : actions[k].outcome # None /\ Tells(actions[k].outcome, i)
  <2>1. PICK k \in DOMAIN actions : k = log[i].key /\ actions[k].outcome # None
    BY <1>4
  <2>2. PICK j \in R : log[j].key = k /\ Latest(R, j) /\ Tells(actions[k].outcome, j)
    BY <1>3, <2>1
  <2> QED BY <1>2, <1>5, <2>1, <2>2
<1>6. ASSUME NEW o \in Authority(actions)
      PROVE  \E i \in R : Latest(R, i) /\ Tells(o, i)
  <2>1. PICK k \in DOMAIN actions : o = actions[k].outcome /\ o # None
    BY <1>6 DEF Authority
  <2> QED BY <1>3, <2>1
<1>7. ASSUME NEW i \in R, Latest(R, i) PROVE \E o \in Authority(actions) : Tells(o, i)
  BY <1>5, <1>7 DEF Authority
<1>8. ASSUME Failed(actions) # {} PROVE \E i \in R : ~log[i].good /\ Latest(R, i)
  <2>1. PICK o \in Authority(actions) : ~o.good
    BY <1>8 DEF Failed
  <2> QED BY <1>6, <2>1 DEF Tells
<1>9. ASSUME NEW i \in R, ~log[i].good, Latest(R, i) PROVE Failed(actions) # {}
  BY <1>7, <1>9 DEF Failed, Tells
<1>10. ASSUME Succeeded(actions) # {} PROVE \E i \in R : log[i].good /\ Latest(R, i)
  <2>1. PICK o \in Authority(actions) : o.good
    BY <1>10 DEF Succeeded
  <2> QED BY <1>6, <2>1 DEF Tells
<1>11. ASSUME NEW i \in R, log[i].good, Latest(R, i) PROVE Succeeded(actions) # {}
  BY <1>7, <1>11 DEF Succeeded, Tells
<1>12. ASSUME NEW i \in R PROVE Failed(actions) # {} \/ Succeeded(actions) # {}
  <2>1. PICK k \in DOMAIN actions : actions[k].outcome # None
    BY <1>4
  <2>2. actions[k].outcome \in Authority(actions)
    BY <2>1 DEF Authority
  <2> QED BY <2>2 DEF Failed, Succeeded
<1> QED BY <1>8, <1>9, <1>10, <1>11, <1>12

(* Results without a success neither end a failure nor bring a success     *)
(* that was not there.                                                     *)
LEMMA FailuresStay ==
  ASSUME LogOK, NEW M \in SUBSET (1 .. Len(log)), NEW actions, Mirrors(actions, M),
         NEW R, R \subseteq M, \A i \in M \ R : ~log[i].good
  PROVE  /\ (\E i \in R : ~log[i].good /\ Latest(R, i)) => Failed(actions) # {}
         /\ Succeeded(actions) # {} => \E i \in R : log[i].good /\ Latest(R, i)
<1>1. \A i, j \in M : /\ log[i].id \in Nat /\ log[j].id \in Nat
                      /\ log[i].at \in Int /\ log[j].at \in Int
                      /\ log[i].id = log[j].id => i = j
  BY PlacesAreStamped
<1>2. ASSUME NEW i \in R, ~log[i].good, Latest(R, i)
      PROVE  \E j \in M : ~log[j].good /\ Latest(M, j)
  <2>1. i \in Ours(M, log[i].key) /\ log[i].key \in DOMAIN actions
    BY DEF Ours, Mirrors
  <2>2. Remembers(actions[log[i].key].outcome, Ours(M, log[i].key))
    BY <2>1 DEF Mirrors
  <2>3. PICK j \in Ours(M, log[i].key) :
          \A h \in Ours(M, log[i].key) \ {j} : After(log[j], log[h])
    BY <2>1, <2>2 DEF Remembers
  <2>4. j \in M /\ log[j].key = log[i].key /\ Latest(M, j)
    BY <2>3 DEF Ours, Latest
  <2>5. CASE j \notin R
    BY <2>4, <2>5
  <2>6. CASE j \in R /\ j # i
    <3>1. After(log[i], log[j]) /\ After(log[j], log[i])
      BY <1>2, <2>1, <2>3, <2>4, <2>6 DEF Latest
    <3> QED BY <1>1, <2>6, <3>1 DEF After
  <2>7. CASE j = i
    BY <1>2, <2>4, <2>7
  <2> QED BY <2>5, <2>6, <2>7
<1>3. ASSUME NEW j \in M, log[j].good, Latest(M, j) PROVE j \in R /\ Latest(R, j)
  <2>1. j \in R
    BY <1>3
  <2> QED BY <1>3, <2>1 DEF Latest
<1> QED BY <1>2, <1>3, VerdictsFollow
-----------------------------------------------------------------------------
(* A status fits the verdicts: blocked by a failure only, completed by     *)
(* successes alone, a failure shows unless the work was abandoned, and     *)
(* active work with a success was reopened.                                *)
Judged(c) ==
  /\ c.status = "blocked" => Failed(c.actions) # {}
  /\ c.status = "completed" => Failed(c.actions) = {} /\ Succeeded(c.actions) # {}
  /\ Failed(c.actions) # {} => c.status \in {"blocked", "abandoned"}
  /\ c.status = "active" => c.reopened \/ Succeeded(c.actions) = {}

(* The same status for the same reasons.                                   *)
SameVerdict(b, c) ==
  b.status = c.status /\ b.actions = c.actions /\ b.reopened = c.reopened

(* What is judged is judged by nothing else.                               *)
LEMMA SameIsJudged ==
  ASSUME NEW b, NEW c, SameVerdict(b, c), Judged(c)
  PROVE  Judged(b)
BY DEF SameVerdict, Judged

(* ProvisionalContractBuilder::build: the verdict of a revision.           *)
LEMMA RevisedVerdict ==
  ASSUME NEW c, Shaped(c), NEW facts
  PROVE  LET d == Drafted(c, facts)
             r == Revised(c, facts)
         IN  /\ r.actions = d.actions /\ d.actions = Projected(c.actions, facts)
             /\ r.reopened = Reopened(c, d, facts) /\ r.facts = Ids(facts)
             /\ r.status = Status(c, d, r.reopened, facts)[1]
<1> DEFINE d == Drafted(c, facts)
           r == Revised(c, facts)
<1>1. Shaped(d) /\ d.actions = Projected(c.actions, facts)
  BY DraftedFields
<1>2. r.actions = d.actions
  BY RevisedFields
<1> HIDE DEF d
<1>3. r.status = Status(c, d, Reopened(c, d, facts), facts)[1]
  BY <1>1, FieldsOfContracts DEF Revised, Shaped, d
<1>4. r.reopened = Reopened(c, d, facts)
  BY <1>1, FieldsOfContracts DEF Revised, Shaped, d
<1>5. r.facts = Ids(facts)
  BY <1>1, FieldsOfContracts DEF Revised, Shaped, d
<1> HIDE DEF r
<1> QED BY <1>1, <1>2, <1>3, <1>4, <1>5 DEF d, r

(* Where nothing material changed, the contract already has that verdict.  *)
LEMMA BuiltVerdict ==
  ASSUME NEW c, NEW facts, facts # {}, c.facts # Ids(facts)
  PROVE  /\ SameVerdict(Build(c, facts), Revised(c, facts))
         /\ Build(c, facts) = c \/ Build(c, facts) = Revised(c, facts)
<1>1. PICK next : next = Revised(c, facts)
  OBVIOUS
<1>2. Build(c, facts) = IF c.by = "builder" /\ Material(next) = Material(c) THEN c ELSE next
  BY <1>1 DEF Build
<1>3. Material(next) = Material(c) => SameVerdict(c, next)
  BY DEF Material, SameVerdict
<1> QED BY <1>1, <1>2, <1>3 DEF SameVerdict

(* apply_human_correction keeps the verdict.                               *)
LEMMA CorrectedVerdict ==
  ASSUME NEW c, Shaped(c), NEW f \in Correctable, NEW text, NEW at
  PROVE  LET r == Corrected(c, f, text, at)
         IN  SameVerdict(r, c) /\ r.facts = {}
<1> DEFINE p == Put(c, f, text)
<1>1. /\ Shaped(p) /\ p.actions = c.actions /\ p.status = c.status /\ p.reopened = c.reopened
  BY FieldsOfContracts DEF Put, Shaped, Correctable
<1> HIDE DEF p
<1> DEFINE r == Corrected(c, f, text, at)
<1>2. r.actions = p.actions /\ r.status = p.status /\ r.reopened = p.reopened /\ r.facts = {}
  BY <1>1, FieldsOfContracts DEF Corrected, Shaped, p
<1> HIDE DEF r
<1> QED BY <1>1, <1>2 DEF SameVerdict, r

(* And so does refine_provisional_contract_at_with_policy.                 *)
LEMMA RefinedVerdict ==
  ASSUME NEW c, Shaped(c), NEW accepted, NEW at, Refined(c, accepted, at) # None
  PROVE  LET r == Refined(c, accepted, at)
         IN  SameVerdict(r, c) /\ r.facts = {}
<1> DEFINE r == Refined(c, accepted, at)
<1>1. r.reopened = c.reopened /\ r.facts = {}
  BY FieldsOfContracts DEF Shaped, Refined
<1>2. r.actions = c.actions /\ r.status = c.status
  BY RefinedRevision
<1> HIDE DEF r
<1> QED BY <1>1, <1>2 DEF SameVerdict, r

(* derive_status: with results that do not vanish, the status of a revision*)
(* fits the verdicts if that of the contract before it did.                *)
LEMMA StatusIsJudged ==
  ASSUME NEW c, Judged(c), NEW d, NEW facts, NEW r,
         r.actions = d.actions, r.status = Status(c, d, r.reopened, facts)[1],
         Failed(c.actions) # {} \/ Succeeded(c.actions) # {} =>
           Failed(d.actions) # {} \/ Succeeded(d.actions) # {}
  PROVE  Judged(r)
<1> DEFINE abandons == {f \in facts : Abandons(f)}
           active   == {f \in facts : Active(f)}
<1>1. r.status = IF abandons # {} THEN "abandoned"
                 ELSE IF Failed(d.actions) # {} THEN "blocked"
                 ELSE IF r.reopened THEN "active"
                 ELSE IF Succeeded(d.actions) # {} THEN "completed"
                 ELSE IF Activity(d) # Activity(c) /\ active # {} THEN "active"
                 ELSE c.status
  BY DEF Status
<1> HIDE DEF abandons, active
<1>2. CASE abandons # {}
  BY <1>1, <1>2 DEF Judged
<1>3. CASE abandons = {} /\ Failed(d.actions) # {}
  BY <1>1, <1>3 DEF Judged
<1>4. CASE abandons = {} /\ Failed(d.actions) = {} /\ r.reopened
  BY <1>1, <1>4 DEF Judged
<1>5. CASE abandons = {} /\ Failed(d.actions) = {} /\ ~r.reopened /\ Succeeded(d.actions) # {}
  BY <1>1, <1>5 DEF Judged
<1>6. CASE abandons = {} /\ Failed(d.actions) = {} /\ ~r.reopened /\ Succeeded(d.actions) = {}
  <2>1. r.status \in {"active", c.status}
    BY <1>1, <1>6
  <2>2. c.status # "blocked" /\ c.status # "completed"
    BY <1>6 DEF Judged
  <2> QED BY <1>6, <2>1, <2>2 DEF Judged
<1> QED BY <1>2, <1>3, <1>4, <1>5, <1>6

(* completion_reopened and derive_status: unfinished work that is completed*)
(* has a fact with a success.                                              *)
LEMMA CompletionHasSuccess ==
  ASSUME NEW c, Judged(c), c.status \in {"active", "blocked"}, NEW d, NEW facts, NEW r,
         r.reopened = Reopened(c, d, facts), r.status = Status(c, d, r.reopened, facts)[1],
         r.status = "completed",
         ~\E f \in facts : Structured(f) /\ f.good,
         Failed(c.actions) # {} => Failed(d.actions) # {},
         Succeeded(d.actions) # {} => Succeeded(c.actions) # {}
  PROVE  FALSE
<1> DEFINE abandons == {f \in facts : Abandons(f)}
           active   == {f \in facts : Active(f)}
<1>1. r.status = IF abandons # {} THEN "abandoned"
                 ELSE IF Failed(d.actions) # {} THEN "blocked"
                 ELSE IF r.reopened THEN "active"
                 ELSE IF Succeeded(d.actions) # {} THEN "completed"
                 ELSE IF Activity(d) # Activity(c) /\ active # {} THEN "active"
                 ELSE c.status
  BY DEF Status
<1> HIDE DEF abandons, active
<1>2. Failed(d.actions) = {} /\ ~r.reopened /\ Succeeded(d.actions) # {}
  BY <1>1
<1>3. c.reopened => r.reopened
  BY DEF Reopened
<1>4. Failed(c.actions) = {} /\ Succeeded(c.actions) # {} /\ ~c.reopened
  BY <1>2, <1>3
<1> QED BY <1>4 DEF Judged
-----------------------------------------------------------------------------
(* The results among the first events, of those in m.                      *)
ResultsAt(m, n) == {i \in 1 .. n : log[i].id \in m /\ IsResult(i)}

(* Events read later are none of those published before.                   *)
LEMMA ResultsKept ==
  ASSUME LogOK, NEW m, m \subseteq Past(read), NEW n \in Nat, read <= n, n <= Len(log)
  PROVE  ResultsAt(m, n) = ResultsAt(m, read)
<1>1. read \in Nat /\ Len(log) \in Nat
  BY LogLength DEF LogOK
<1>2. ASSUME NEW i \in 1 .. n, log[i].id \in m PROVE i \in 1 .. read
  <2>1. PICK j \in 1 .. read : log[i].id = log[j].id
    BY <1>2 DEF Past
  <2>2. i \in 1 .. Len(log) /\ j \in 1 .. Len(log)
    BY <1>1, <2>1 DEF LogOK
  <2> QED BY <2>1, <2>2, PlacesAreStamped
<1>3. 1 .. read \subseteq 1 .. n
  BY <1>1
<1> QED BY <1>2, <1>3 DEF ResultsAt

(* A page brings its results to the work item it is published to.          *)
LEMMA ResultsGained ==
  ASSUME LogOK, NEW m, m \subseteq Past(read), NEW n \in 1 .. PageSize, read + n <= Len(log)
  PROVE  ResultsAt(m \cup Ids(Reduce(Page(n))), read + n) = ResultsAt(m, read) \cup NewResults(n)
<1>0. read \in Nat /\ Len(log) \in Nat /\ n \in Nat
  BY WorkContractAssumption, LogLength DEF LogOK
<1>1. PICK new : new = Ids(Reduce(Page(n)))
  OBVIOUS
<1>2. new \cap Past(read) = {}
  BY <1>1, FactsAreNew
<1>3. ASSUME NEW i \in ResultsAt(m \cup new, read + n)
      PROVE  i \in ResultsAt(m, read) \cup NewResults(n)
  <2>1. i \in 1 .. (read + n) /\ IsResult(i) /\ log[i].id \in m \cup new
    BY DEF ResultsAt
  <2>2. CASE i \in 1 .. read
    <3>1. log[i].id \in m
      BY <1>2, <2>1, <2>2 DEF Past
    <3> QED BY <2>1, <2>2, <3>1 DEF ResultsAt
  <2>3. CASE i \in (read + 1) .. (read + n)
    BY <2>1, <2>3 DEF NewResults
  <2> QED BY <1>0, <2>1, <2>2, <2>3
<1>4. ASSUME NEW i \in ResultsAt(m, read) PROVE i \in ResultsAt(m \cup new, read + n)
  BY <1>0 DEF ResultsAt
<1>5. ASSUME NEW i \in NewResults(n) PROVE i \in ResultsAt(m \cup new, read + n)
  <2>1. PICK f \in Reduce(Page(n)) : Tells(f, i)
    BY ResultsAreFacts
  <2>2. log[i].id \in new
    BY <1>1, <2>1 DEF Tells, Ids
  <2>3. i \in 1 .. (read + n) /\ IsResult(i)
    BY <1>0 DEF NewResults
  <2> QED BY <2>2, <2>3 DEF ResultsAt
<1> QED BY <1>1, <1>3, <1>4, <1>5

(* A contract remembers the results published to its work item, its status *)
(* fits them, and it was built from facts of the past.                     *)
Earned(c, m, n) ==
  Mirrors(c.actions, ResultsAt(m, n)) /\ Judged(c) /\ c.facts \subseteq Past(n)

(* What publish_work makes of a page: an earned contract, completed only by*)
(* a success in the page.                                                  *)
LEMMA PageIsEarned ==
  ASSUME ActionsFit, LogOK, NEW n \in 1 .. PageSize, read + n <= Len(log),
         NEW facts, facts = Reduce(Page(n)), facts # {},
         NEW c, Shaped(c), OutcomesOK(c, Past(read)),
         NEW m, m \subseteq Past(read), Earned(c, m, read)
  PROVE  /\ Earned(Build(c, facts), m \cup Ids(facts), read + n)
         /\ c.status \in {"active", "blocked"} /\ Build(c, facts).status = "completed"
            => \E i \in NewResults(n) : log[i].good
<1>0. /\ read \in Nat /\ n \in Nat /\ read + n \in Nat /\ read <= read + n
      /\ Len(log) \in Nat /\ read <= Len(log)
  BY WorkContractAssumption, LogLength DEF LogOK
<1>1. PICK R : R = ResultsAt(m, read)
  OBVIOUS
<1>2. PICK N : N = NewResults(n)
  OBVIOUS
<1>3. R \in SUBSET (1 .. read) /\ R \in SUBSET (1 .. Len(log)) /\ N \in SUBSET (1 .. Len(log))
  <2>1. 1 .. read \subseteq 1 .. Len(log) /\ (read + 1) .. (read + n) \subseteq 1 .. Len(log)
    BY <1>0
  <2>2. R \subseteq 1 .. read /\ N \subseteq (read + 1) .. (read + n)
    BY <1>1, <1>2 DEF ResultsAt, NewResults
  <2> QED BY <2>1, <2>2
<1>4. ResultsAt(m \cup Ids(facts), read + n) = R \cup N
  BY <1>1, <1>2, ResultsGained
<1>5. Mirrors(c.actions, R) /\ Judged(c) /\ c.facts \subseteq Past(read)
  BY <1>1 DEF Earned
<1>6. PICK d : d = Drafted(c, facts)
  OBVIOUS
<1>7. PICK r : r = Revised(c, facts)
  OBVIOUS
<1>8. PICK b : b = Build(c, facts)
  OBVIOUS
<1>9. /\ Ids(facts) \cap Past(read) = {} /\ Ids(facts) \subseteq Past(read + n)
      /\ Past(read) \subseteq Past(read + n)
  BY <1>0, FactsAreNew, PastGrows
<1>10. SameVerdict(b, r) /\ (b = c \/ b = r)
  <2>1. Ids(facts) # {}
    BY DEF Ids
  <2>2. c.facts # Ids(facts)
    BY <1>5, <1>9, <2>1
  <2> QED BY <1>7, <1>8, <2>2, BuiltVerdict
<1>11. /\ r.actions = d.actions /\ d.actions = Projected(c.actions, facts)
       /\ r.reopened = Reopened(c, d, facts) /\ r.facts = Ids(facts)
       /\ r.status = Status(c, d, r.reopened, facts)[1]
  BY <1>6, <1>7, RevisedVerdict
<1>12. Mirrors(d.actions, R \cup N)
  BY <1>2, <1>3, <1>5, <1>11, ProjectedMirrors
<1>13. Failed(c.actions) # {} \/ Succeeded(c.actions) # {} =>
         Failed(d.actions) # {} \/ Succeeded(d.actions) # {}
  <2>1. Failed(c.actions) # {} \/ Succeeded(c.actions) # {} => R # {}
    BY <1>3, <1>5, VerdictsFollow
  <2>2. PICK M \in SUBSET (1 .. Len(log)) : M = R \cup N
    BY <1>3
  <2>3. M # {} => Failed(d.actions) # {} \/ Succeeded(d.actions) # {}
    BY <1>12, <2>2, VerdictsFollow
  <2> QED BY <2>1, <2>2, <2>3
<1>14. Judged(b)
  <2>1. Judged(r)
    BY <1>5, <1>11, <1>13, StatusIsJudged
  <2> QED BY <1>10, <2>1, SameIsJudged
<1>15. Mirrors(b.actions, R \cup N)
  BY <1>10, <1>11, <1>12 DEF SameVerdict
<1>16. b.facts \subseteq Past(read + n)
  BY <1>5, <1>9, <1>10, <1>11
<1>17. Earned(b, m \cup Ids(facts), read + n)
  BY <1>4, <1>14, <1>15, <1>16 DEF Earned
<1>18. ASSUME c.status \in {"active", "blocked"}, b.status = "completed",
              ~\E i \in N : log[i].good
       PROVE  FALSE
  <2>1. ASSUME NEW f \in facts, Structured(f), f.good PROVE FALSE
    <3>1. PICK i \in (read + 1) .. (read + n) : Tells(f, i) /\ IsResult(i)
      BY <2>1, FactsOfActions
    <3>2. i \in N
      BY <1>2, <3>1 DEF NewResults
    <3> QED BY <1>18, <2>1, <3>1, <3>2 DEF Tells
  <2>2. \A i \in N : ~log[i].good
    BY <1>18
  <2>3. /\ Failed(c.actions) # {} => Failed(d.actions) # {}
        /\ Succeeded(d.actions) # {} => Succeeded(c.actions) # {}
    <3>1. PICK M \in SUBSET (1 .. Len(log)) : M = R \cup N
      BY <1>3
    <3>2. \A i \in M \ R : ~log[i].good
      BY <2>2, <3>1
    <3>3. R \subseteq M /\ Mirrors(d.actions, M)
      BY <1>12, <3>1
    <3>4. /\ (\E i \in R : ~log[i].good /\ Latest(R, i)) => Failed(d.actions) # {}
          /\ Succeeded(d.actions) # {} => \E i \in R : log[i].good /\ Latest(R, i)
      BY <3>2, <3>3, FailuresStay
    <3>5. /\ Failed(c.actions) # {} => \E i \in R : ~log[i].good /\ Latest(R, i)
          /\ (\E i \in R : log[i].good /\ Latest(R, i)) => Succeeded(c.actions) # {}
      BY <1>3, <1>5, VerdictsFollow
    <3> QED BY <3>4, <3>5
  <2>4. r.status = "completed"
    BY <1>10, <1>18 DEF SameVerdict
  <2>5. ~\E f \in facts : Structured(f) /\ f.good
    BY <2>1
  <2> QED BY <1>5, <1>11, <1>18, <2>3, <2>4, <2>5, CompletionHasSuccess
<1> QED BY <1>2, <1>8, <1>17, <1>18

-----------------------------------------------------------------------------
(* Every contract is earned by the results published to its work item.     *)
EarnedInv == \A w \in Works : Earned(contract[w], member[w], read)

(* Only a success in the page completes unfinished work.                   *)
Completes(w) ==
  contract[w].status \in {"active", "blocked"} /\ contract'[w].status = "completed"
    => \E i \in (read + 1) .. read' : log[i].kind = "finish" /\ log[i].trusted /\ log[i].good

(* The same log gives the same verdicts: Earned says nothing else of the   *)
(* state.                                                                  *)
LEMMA EarnedOfTheLog ==
  ASSUME log' = log, NEW w \in Works, Earned(contract'[w], member'[w], read')
  PROVE  Earned(contract[w], member[w], read)'
BY DEF Earned, Mirrors, Remembers, Tells, Ours, KeysOfActions, ResultsAt, IsResult, Past

(* A contract whose verdict is kept stays earned while the log is read on. *)
LEMMA EarnedIsKept ==
  ASSUME LogOK, NEW m, m \subseteq Past(read), NEW n \in Nat, read <= n, n <= Len(log),
         NEW c, Earned(c, m, read), NEW b, SameVerdict(b, c), b.facts = c.facts \/ b.facts = {}
  PROVE  Earned(b, m, n)
<1>1. ResultsAt(m, n) = ResultsAt(m, read)
  BY ResultsKept
<1>2. Past(read) \subseteq Past(n)
  BY PastGrows
<1>3. Judged(b)
  BY SameIsJudged DEF Earned
<1>4. Mirrors(b.actions, ResultsAt(m, n))
  BY <1>1 DEF Earned, SameVerdict
<1> QED BY <1>2, <1>3, <1>4 DEF Earned
(* The step lemma: publications by PageIsEarned, all others keep verdicts. *)
LEMMA EarnedStep ==
  ASSUME ActionsFit, TraceInv, EarnedInv, [Next]_vars, NEW w \in Works
  PROVE  Earned(contract'[w], member'[w], read') /\ Completes(w)
<1>0. LogOK /\ ShapesOK /\ AskedOK /\ MembersOK /\ read \in Nat /\ read <= Len(log)
  BY DEF TraceInv, IInv, LogOK
<1>1. PICK c : c = contract[w]
  OBVIOUS
<1>2. PICK m : m = member[w]
  OBVIOUS
<1>3. /\ Shaped(c) /\ OutcomesOK(c, Past(read)) /\ Earned(c, m, read) /\ m \subseteq Past(read)
      /\ w \in DOMAIN contract /\ w \in DOMAIN member
  BY <1>0, <1>1, <1>2 DEF ShapesOK, MembersOK, TraceInv, SourcesOK, SourceOK, EarnedInv
<1>4. ASSUME NEW n \in Nat, read' = n, read <= n, n <= Len(log), member'[w] = m,
             SameVerdict(contract'[w], c), contract'[w].facts = c.facts \/ contract'[w].facts = {}
      PROVE  Earned(contract'[w], member'[w], read') /\ Completes(w)
  <2>1. PICK b : b = contract'[w]
    OBVIOUS
  <2>2. Earned(b, m, n)
    BY <1>0, <1>3, <1>4, <2>1, EarnedIsKept
  <2>3. Completes(w)
    BY <1>1, <1>4 DEF Completes, SameVerdict
  <2> QED BY <1>4, <2>1, <2>2, <2>3
<1>5. ASSUME NEW n \in 1 .. PageSize, Publish(n)
      PROVE  Earned(contract'[w], member'[w], read') /\ Completes(w)
  <2>1. PICK facts : facts = Reduce(Page(n))
    OBVIOUS
  <2>2. /\ read' = read + n /\ read + n <= Len(log) /\ facts # {}
        /\ \E v : /\ contract' = [contract EXCEPT ![v] = Build(contract[v], facts)]
                  /\ member' = [member EXCEPT ![v] = @ \cup Ids(facts)]
    BY <1>5, <2>1 DEF Publish
  <2>3. PICK v : /\ contract' = [contract EXCEPT ![v] = Build(contract[v], facts)]
                 /\ member' = [member EXCEPT ![v] = @ \cup Ids(facts)]
    BY <2>2
  <2>4. read + n \in Nat /\ read <= read + n
    BY <1>0, WorkContractAssumption
  <2>5. CASE v = w
    <3>1. contract'[w] = Build(c, facts) /\ member'[w] = m \cup Ids(facts)
      BY <1>1, <1>2, <1>3, <2>3, <2>5
    <3>2. /\ Earned(Build(c, facts), m \cup Ids(facts), read + n)
          /\ c.status \in {"active", "blocked"} /\ Build(c, facts).status = "completed"
             => \E i \in NewResults(n) : log[i].good
      BY <1>0, <1>3, <2>1, <2>2, PageIsEarned
    <3>3. Completes(w)
      BY <1>1, <2>2, <3>1, <3>2 DEF Completes, NewResults, IsResult
    <3> QED BY <2>2, <3>1, <3>2, <3>3
  <2>6. CASE v # w
    <3>1. contract'[w] = c /\ member'[w] = m
      BY <1>1, <1>2, <1>3, <2>3, <2>6
    <3> QED BY <1>4, <2>2, <2>4, <3>1 DEF SameVerdict
  <2> QED BY <2>5, <2>6
<1>6. ASSUME NEW v \in Works, NEW d \in Corrections, Correct(v, d[1], d[2], read)
      PROVE  Earned(contract'[w], member'[w], read') /\ Completes(w)
  <2>1. /\ d[1] \in Correctable /\ read' = read /\ member' = member
        /\ contract' = [contract EXCEPT ![v] = Corrected(contract[v], d[1], d[2], read)]
    BY <1>6 DEF Correct
  <2>2. contract'[w] = IF v = w THEN Corrected(c, d[1], d[2], read) ELSE c
    BY <1>1, <1>3, <2>1
  <2>3. SameVerdict(contract'[w], c) /\ (contract'[w].facts = c.facts \/ contract'[w].facts = {})
    <3>1. PICK r : r = Corrected(c, d[1], d[2], read)
      OBVIOUS
    <3>2. SameVerdict(r, c) /\ r.facts = {}
      BY <1>3, <2>1, <3>1, CorrectedVerdict
    <3> QED BY <2>2, <3>1, <3>2 DEF SameVerdict
  <2> QED BY <1>0, <1>2, <1>4, <2>1, <2>3
<1>7. ASSUME NEW answer \in Proposals, Answer(answer)
      PROVE  Earned(contract'[w], member'[w], read') /\ Completes(w)
  <2>1. read' = read /\ member' = member
    BY <1>7 DEF Answer
  <2>2. contract'[w] = c \/ RefinedBy(w, answer)
    BY <1>0, <1>1, <1>7, AnswerRefines
  <2>3. SameVerdict(contract'[w], c) /\ (contract'[w].facts = c.facts \/ contract'[w].facts = {})
    <3>1. CASE contract'[w] = c
      BY <3>1 DEF SameVerdict
    <3>2. CASE RefinedBy(w, answer)
      <4>1. /\ Refined(c, Accepted(answer), read) # None
            /\ contract'[w] = Refined(c, Accepted(answer), read)
        BY <1>1, <3>2 DEF RefinedBy
      <4> QED BY <1>3, <4>1, RefinedVerdict
    <3> QED BY <2>2, <3>1, <3>2
  <2> QED BY <1>0, <1>2, <1>4, <2>1, <2>3
<1>8. ASSUME contract' = contract, member' = member, read' \in Nat, read <= read', read' <= Len(log)
      PROVE  Earned(contract'[w], member'[w], read') /\ Completes(w)
  <2>1. PICK n \in Nat : n = read'
    BY <1>8
  <2> QED BY <1>1, <1>2, <1>4, <1>8, <2>1 DEF SameVerdict
<1>9. ASSUME NEW n \in 1 .. PageSize, Skip(n)
      PROVE  Earned(contract'[w], member'[w], read') /\ Completes(w)
  <2>1. read' = read + n /\ read + n <= Len(log) /\ contract' = contract /\ member' = member
    BY <1>9 DEF Skip
  <2>2. read + n \in Nat /\ read <= read + n
    BY <1>0, WorkContractAssumption
  <2> QED BY <1>8, <2>1, <2>2
<1>10. ASSUME (\E v \in Works : Ask(v)) \/ (\E answer \in Proposals : TooLate(answer))
                \/ UNCHANGED vars
       PROVE  Earned(contract'[w], member'[w], read') /\ Completes(w)
  <2>1. contract' = contract /\ member' = member /\ read' = read
    BY <1>10 DEF Ask, TooLate, vars
  <2> QED BY <1>0, <1>8, <2>1
<1> QED BY <1>5, <1>6, <1>7, <1>9, <1>10 DEF Next, Publications, Answers

(* The inductive invariant of statuses: where the actions fit the bound,   *)
(* each contract remembers the newest result of every action of its work   *)
(* item, and its status fits them (update_authoritative, derive_status).   *)
THEOREM EarnedInvariant == ActionsFit => (Spec => [](TraceInv /\ EarnedInv))
<1> SUFFICES ASSUME ActionsFit PROVE Spec => [](TraceInv /\ EarnedInv)
  OBVIOUS
<1>1. Init => EarnedInv
  <2> SUFFICES ASSUME Init, NEW w \in Works PROVE Earned(contract[w], member[w], read)
    BY DEF EarnedInv
  <2>1. contract[w] = NoContract /\ member[w] = {}
    BY DEF Init
  <2>2. ResultsAt({}, read) = {}
    BY DEF ResultsAt
  <2>3. Mirrors(NoContract.actions, {})
    BY DEF Mirrors, NoContract
  <2>4. Failed(NoContract.actions) = {} /\ NoContract.status = "observed" /\ NoContract.facts = {}
    BY DEF Failed, Authority, NoContract
  <2>5. Judged(NoContract)
    BY <2>4 DEF Judged
  <2> QED BY <2>1, <2>2, <2>3, <2>4, <2>5 DEF Earned
<1>2. TraceInv /\ EarnedInv /\ [Next]_vars => EarnedInv'
  <2> SUFFICES ASSUME TraceInv, EarnedInv, [Next]_vars, NEW w \in Works
               PROVE  Earned(contract[w], member[w], read)'
    BY DEF EarnedInv
  <2>1. log' = log
    BY StepOfTheCall DEF TraceInv, IInv
  <2> QED BY <2>1, EarnedStep, EarnedOfTheLog
<1> QED BY <1>1, <1>2, TraceInvariant, PTL DEF Spec

(* Neither the cut into pages nor the order in which sources deliver       *)
(* decides a status: work is blocked just when the last result of some of  *)
(* its actions is a failure (a human may have abandoned it), and completed *)
(* only when it has results and none of those is (derive_status).          *)
THEOREM StatusAlwaysFollows == ActionsFit => (Spec => []StatusFollowsTheResults)
<1> SUFFICES ASSUME ActionsFit PROVE Spec => []StatusFollowsTheResults
  OBVIOUS
<1>1. TraceInv /\ EarnedInv => StatusFollowsTheResults
  <2> SUFFICES ASSUME TraceInv, EarnedInv, NEW w \in Works
               PROVE  LET failing == \E i \in Last(w) : ~log[i].good
                      IN  /\ failing => contract[w].status \in {"blocked", "abandoned"}
                          /\ contract[w].status = "blocked" => failing
                          /\ contract[w].status = "completed" => Last(w) # {} /\ ~failing
    BY DEF StatusFollowsTheResults
  <2>1. PICK c : c = contract[w]
    OBVIOUS
  <2>2. PICK R : R = Results(w)
    OBVIOUS
  <2>3. R = ResultsAt(member[w], read)
    BY <2>2 DEF Results, Events, ResultsAt, IsResult
  <2>4. Mirrors(c.actions, R) /\ Judged(c)
    BY <2>1, <2>3 DEF EarnedInv, Earned
  <2>5. LogOK /\ R \in SUBSET (1 .. Len(log))
    <3>1. LogOK /\ Len(log) \in Nat
      BY LogLength DEF TraceInv, IInv, LogOK
    <3>2. 1 .. read \subseteq 1 .. Len(log)
      BY <3>1 DEF LogOK
    <3> QED BY <2>3, <3>1, <3>2 DEF ResultsAt
  <2>6. /\ Failed(c.actions) # {} <=> \E i \in R : ~log[i].good /\ Latest(R, i)
        /\ Succeeded(c.actions) # {} <=> \E i \in R : log[i].good /\ Latest(R, i)
    BY <2>4, <2>5, VerdictsFollow
  <2>7. \A i : i \in Last(w) <=> i \in R /\ Latest(R, i)
    BY <2>2 DEF Last, Latest
  <2>8. (\E i \in Last(w) : ~log[i].good) <=> Failed(c.actions) # {}
    BY <2>6, <2>7
  <2>9. Succeeded(c.actions) # {} => Last(w) # {}
    BY <2>6, <2>7
  <2> QED BY <2>1, <2>4, <2>8, <2>9 DEF Judged
<1> QED BY <1>1, EarnedInvariant, PTL

(* Unfinished work is completed only by a success in the very page: late   *)
(* requests, statements and old events never complete it                   *)
(* (completion_reopened).                                                  *)
THEOREM CompletionIsAlwaysEarned == ActionsFit => (Spec => CompletionIsEarned)
<1> SUFFICES ASSUME ActionsFit PROVE Spec => CompletionIsEarned
  OBVIOUS
<1>1. TraceInv /\ EarnedInv /\ [Next]_vars =>
        [\A w \in Works :
           contract[w].status \in {"active", "blocked"} /\ contract'[w].status = "completed"
             => \E i \in (read + 1) .. read' :
                  log[i].kind = "finish" /\ log[i].trusted /\ log[i].good]_vars
  BY EarnedStep DEF Completes
<1> QED BY <1>1, EarnedInvariant, PTL DEF Spec, CompletionIsEarned
=============================================================================
