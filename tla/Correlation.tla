---------------------------- MODULE Correlation ----------------------------
(***************************************************************************)
(* Which work item a page of facts belongs to                              *)
(* (crates/agbox-workgraph/src/correlate.rs; the candidates come from      *)
(* load_work_candidates in crates/agbox-store/src/writer.rs).              *)
(*                                                                         *)
(* Scores are the code's own integers, in basis points of 10 000.  A hash  *)
(* is a number, a missing value is None.                                   *)
(***************************************************************************)
EXTENDS Integers, FiniteSets

CONSTANTS
  None,            \* Option::None
  MaxHashes,       \* MAX_ARTIFACT_HASHES; MAX_COMMAND_HASHES is smaller
  MaxCandidates    \* MAX_CANDIDATES, and the store's own limit

CONTINUE_THRESHOLD     == 6000
MIN_NON_SEMANTIC_SCORE == 2500

AtMost(n, bound) == IF n <= bound THEN n ELSE bound

(* bounded_unique: a set keeps its smallest members. *)
Bounded(S, n) == {x \in S : Cardinality({y \in S : y < x}) < n}

-----------------------------------------------------------------------------
(* overlap_basis_points: the shared part of the larger of two sets. *)
Overlap_OfNothingIsFull(l, r) ==
  LET whole == IF Cardinality(l) > Cardinality(r) THEN Cardinality(l) ELSE Cardinality(r)
  IN  IF whole = 0 THEN 10000 ELSE (Cardinality(l \cap r) * 10000) \div whole

Overlap(l, r) ==
  LET whole == IF Cardinality(l) > Cardinality(r) THEN Cardinality(l) ELSE Cardinality(r)
  IN  IF whole = 0 THEN 0 ELSE (Cardinality(l \cap r) * 10000) \div whole

(* signals: what an input and a candidate have in common. *)
SameRepository(in, c) == in.repository = c.repository
SameBranch(in, c) ==
  SameRepository(in, c) /\ in.branch # None /\ in.branch = c.branch
Explicit(in, c)  == in.explicit # None /\ in.explicit = c.work
Continues(in, c) == in.continuation # None /\ in.continuation = c.work

(* score, term by term. *)
Named(in, c) == IF Explicit(in, c) THEN 10000 ELSE IF Continues(in, c) THEN 9500 ELSE 0
Place(in, c) ==
  IF SameBranch(in, c) THEN 2500 ELSE IF SameRepository(in, c) THEN 1500 ELSE 0
Artifacts(in, c) ==
  (AtMost(Overlap(Bounded(in.artifacts, MaxHashes), Bounded(c.artifacts, MaxHashes)), 10000)
     * 2500) \div 10000
Commands(in, c) ==
  (AtMost(Overlap(Bounded(in.commands, MaxHashes), Bounded(c.commands, MaxHashes)), 10000)
     * 1000) \div 10000
Recent(in, c)  == IF c.minutes <= 30 THEN 1000 ELSE 0
Similar(in, c) == (AtMost(in.semantic, 10000) * 1000) \div 10000

NonSemantic(in, c) ==
  Named(in, c) + Place(in, c) + Artifacts(in, c) + Commands(in, c) + Recent(in, c)
Total(in, c) == AtMost(NonSemantic(in, c) + Similar(in, c), 10000)
Score(in, c) == <<Total(in, c), NonSemantic(in, c)>>

-----------------------------------------------------------------------------
Qualifies(in, c) ==
  /\ Total(in, c) >= CONTINUE_THRESHOLD
  /\ NonSemantic(in, c) >= MIN_NON_SEMANTIC_SCORE

Beats(a, b) == a[1] > b[1] \/ (a[1] = b[1] /\ a[2] > b[2])

Create == [decision |-> "create", proposals |-> {}]
Continue(w) == [decision |-> "continue", work |-> w, proposals |-> {}]

(* The candidates of the input's project that qualify and are not beaten. *)
Winners(in, mine) ==
  LET good == {c \in mine : Qualifies(in, c)}
  IN  {c \in good : \A d \in good : ~Beats(Score(in, d), Score(in, c))}

(* Correlator::correlate: an explicit identifier decides alone, then an    *)
(* explicit continuation, then the one best score; a tie is split.         *)
Correlate(in) ==
  LET mine  == {c \in in.candidates : c.project = in.project}
      named(w) == IF \E c \in mine : c.work = w THEN Continue(w) ELSE Create
      best  == Winners(in, mine)
  IN  IF in.evidence = {} THEN Create
      ELSE IF in.explicit # None THEN named(in.explicit)
      ELSE IF in.continuation # None THEN named(in.continuation)
      ELSE IF Cardinality(best) = 1 THEN Continue((CHOOSE c \in best : TRUE).work)
      ELSE [decision |-> "create", proposals |-> {c.work : c \in best}]

-----------------------------------------------------------------------------
(* load_work_candidates: the work items named in the query first, then     *)
(* those that share an artifact, a command, and the unfinished ones; one   *)
(* query for each hash, in order, so that the smallest shared one decides, *)
(* then the latest first, and no more than MaxCandidates.                  *)
Rank(q, c) ==
  IF c.work = q.explicit THEN 1
  ELSE IF c.work = q.continuation THEN 2
  ELSE IF c.artifacts \cap q.artifacts # {} THEN 3
  ELSE IF c.commands \cap q.commands # {} THEN 4
  ELSE IF c.status \in {"active", "blocked"} THEN 5
  ELSE 6

Shared(q, c) ==
  CASE Rank(q, c) = 3 -> c.artifacts \cap q.artifacts
    [] Rank(q, c) = 4 -> c.commands \cap q.commands
    [] OTHER          -> {}

Foremost(q, c) == {h \in Shared(q, c) : \A k \in Shared(q, c) : h <= k}

Ahead(q, c, d) ==
  \/ Rank(q, c) < Rank(q, d)
  \/ /\ Rank(q, c) = Rank(q, d)
     /\ \/ \E h \in Foremost(q, c), k \in Foremost(q, d) : h < k
        \/ /\ Foremost(q, c) = Foremost(q, d)
           /\ c.updated > d.updated \/ (c.updated = d.updated /\ c.work < d.work)

Candidates(q, works) ==
  LET found == {c \in works : c.project = q.project /\ Rank(q, c) < 6}
  IN  {c \in found : Cardinality({d \in found : Ahead(q, d, c)}) < MaxCandidates}
=============================================================================
