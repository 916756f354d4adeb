------------------------------ MODULE Contract ------------------------------
(***************************************************************************)
(* Facts and the contract built from them                                  *)
(* (crates/agbox-workgraph/src/reducer.rs, contract.rs, semantic.rs and    *)
(* authority.rs).                                                          *)
(*                                                                         *)
(* An event is [id, at, kind, key, good, trusted, text]: id its identifier *)
(* (a number, compared as the code compares strings), at the time it was   *)
(* observed, key the action it belongs to, text what it says or None.      *)
(***************************************************************************)
EXTENDS Integers, FiniteSets, Sequences

CONSTANTS
  None,        \* Option::None
  MaxRefs,     \* MAX_CONTRACT_EVIDENCE_REFS, also the bound on actions
  MaxItems,    \* MAX_CONTRACT_ITEMS_PER_FIELD
  MaxActive    \* MAX_BATCH_RECORDS, the bound of the active watermark

Smallest(S, n) == {x \in S : Cardinality({y \in S : y < x}) < n}

-----------------------------------------------------------------------------
(* DeterministicReducer::reduce.  A trusted result is a verification of    *)
(* the request that precedes it in the same page; without one it carries   *)
(* no command.  Human text without the human disclosure class is no fact;  *)
(* it is a constraint or else an objective by its first words, and of each *)
(* kind some abandon the work: "abandon" is such an objective, "forbid"    *)
(* such a constraint ("do not continue ...").                              *)
Earlier(page, i) ==
  {j \in 1 .. (i - 1) : page[j].kind = "request" /\ page[j].key = page[i].key}

Command(page, i) ==
  LET asked == Earlier(page, i)
  IN  IF asked = {} THEN None
      ELSE page[CHOOSE j \in asked : \A k \in asked : k <= j].text

Kind(page, i) ==
  LET e == page[i]
  IN  IF e.kind # "finish" THEN e.kind
      ELSE IF ~e.trusted THEN "finished"
      ELSE IF Earlier(page, i) = {} THEN "eligible"
      ELSE "verification"

IsFact(e) ==
  e.kind \in {"started", "ended", "context", "artifact", "request", "finish",
              "objective", "constraint", "abandon", "forbid", "statement"}
  /\ (e.kind \in {"objective", "constraint", "abandon", "forbid"} => e.trusted)

Reduce(page) ==
  {[id |-> page[i].id, at |-> page[i].at, kind |-> Kind(page, i), key |-> page[i].key,
    good |-> page[i].good, text |-> page[i].text, command |-> Command(page, i)]
   : i \in {j \in DOMAIN page : IsFact(page[j])}}

Ids(facts) == {f.id : f \in facts}

(* ReducedFact::active_work, and the facts with a structured tool result.  *)
Active(f) ==
  f.kind \in {"started", "artifact", "request", "objective", "constraint", "abandon", "forbid"}
Structured(f) == f.kind \in {"eligible", "verification"}
OfAction(f)   == f.kind \in {"request", "finished", "eligible", "verification"}
Abandons(f)   == f.kind \in {"abandon", "forbid"} /\ f.text # None

-----------------------------------------------------------------------------
Fields == {"objective", "status", "summary", "completed", "next", "blockers",
           "constraints", "criteria", "artifacts", "verification"}

NoAction == [request |-> None, finished |-> FALSE, outcome |-> None]

(* MaterialDraft::from_previous(None). *)
NoContract ==
  [rev |-> 0, by |-> "nobody", objective |-> None, status |-> "observed",
   summary |-> None, completed |-> {}, next |-> {}, blockers |-> {},
   constraints |-> {}, criteria |-> {}, artifacts |-> {}, verification |-> {}, created |-> 0,
   cites |-> [f \in Fields |-> {}], refs |-> {}, truncated |-> FALSE,
   facts |-> {}, actions |-> <<>>, reopened |-> FALSE, active |-> {}, crowded |-> FALSE]

After(a, b) == a.at > b.at \/ (a.at = b.at /\ a.id > b.id)
Newest(S)   == CHOOSE a \in S : \A b \in S \ {a} : After(a, b)

(* apply_text_facts: of this page's texts the one observed last, replacing *)
(* whatever the contract said.                                             *)
Said(facts, kinds) == {f \in facts : f.kind \in kinds /\ f.text # None}

(* update_action_projection and update_authoritative. *)
Asks(old, facts) ==
  {[id |-> f.id, text |-> f.text] : f \in {g \in facts : g.kind = "request" /\ g.text # None}}
    \cup (IF old.request = None THEN {} ELSE {old.request})

Outcomes_OfThePage(old, facts) ==
  LET new == {[id |-> f.id, at |-> f.at, good |-> f.good, command |-> f.command]
              : f \in {g \in facts : Structured(g)}}
  IN  IF new # {} \/ old.outcome = None THEN new ELSE {old.outcome}

Outcomes(old, facts) ==
  {[id |-> f.id, at |-> f.at, good |-> f.good, command |-> f.command]
   : f \in {g \in facts : Structured(g)}}
    \cup (IF old.outcome = None THEN {} ELSE {old.outcome})

Action(old, facts) ==
  [request  |-> IF Asks(old, facts) = {} THEN None
                ELSE CHOOSE r \in Asks(old, facts) :
                       \A s \in Asks(old, facts) : s.id <= r.id,
   finished |-> old.finished \/ \E f \in facts : f.kind \in {"finished", "eligible", "verification"},
   outcome  |-> IF Outcomes(old, facts) = {} THEN None ELSE Newest(Outcomes(old, facts))]

(* apply_action_facts: the greatest keys beyond the bound are dropped. *)
Projected(actions, facts) ==
  LET keys == DOMAIN actions \cup {f.key : f \in {g \in facts : OfAction(g)}}
      old(k) == IF k \in DOMAIN actions THEN actions[k] ELSE NoAction
  IN  [k \in Smallest(keys, MaxRefs) |->
         Action(old(k), {f \in facts : OfAction(f) /\ f.key = k})]

(* project_action_fields. *)
Open(actions) ==
  {actions[k].request : k \in {k \in DOMAIN actions :
                                 ~actions[k].finished /\ actions[k].request # None}}
Authority(actions) ==
  {actions[k].outcome : k \in {k \in DOMAIN actions : actions[k].outcome # None}}
Succeeded(actions) == {o \in Authority(actions) : o.good}
Failed(actions)    == {o \in Authority(actions) : ~o.good}
Shown(outcomes)    == {o \in outcomes : o.command # None}

Texts(S)    == {x.text : x \in S}
CommandTexts(S) == {x.command : x \in S}

-----------------------------------------------------------------------------
(* The draft before its status: text, artifact and action facts applied.   *)
Drafted(c, facts) ==
  LET objective  == Said(facts, {"objective", "abandon"})
      constraint == Said(facts, {"constraint", "forbid"})
      statement  == Said(facts, {"statement"})
      files      == Said(facts, {"artifact"})
      acts       == Projected(c.actions, facts)
      shown      == Shown(Authority(acts))
      newest(S)  == {Newest(S).id}
  IN  [c EXCEPT
        !.objective    = IF objective = {} THEN @ ELSE Newest(objective).text,
        !.constraints  = IF constraint = {} THEN @ ELSE {Newest(constraint).text},
        !.summary      = IF statement = {} THEN @ ELSE Newest(statement).text,
        !.artifacts    = Smallest(@ \cup Texts(files), MaxItems),
        !.actions      = acts,
        !.next         = Smallest(Texts(Open(acts)), MaxItems),
        !.completed    = Smallest(CommandTexts(shown \cap Succeeded(acts)), MaxItems),
        !.blockers     = Smallest(CommandTexts(shown \cap Failed(acts)), MaxItems),
        !.verification = Smallest(CommandTexts(shown), MaxItems),
        !.cites = [f \in Fields |->
          CASE f = "objective"    -> IF objective = {} THEN @[f] ELSE newest(objective)
            [] f = "constraints"  -> IF constraint = {} THEN @[f] ELSE newest(constraint)
            [] f = "summary"      -> IF statement = {} THEN @[f] ELSE newest(statement)
            [] f = "artifacts"    -> @[f] \cup Ids(files)
            [] f = "next"         -> Ids(Open(acts))
            [] f = "completed"    -> Ids(shown \cap Succeeded(acts))
            [] f = "blockers"     -> Ids(shown \cap Failed(acts))
            [] f = "verification" -> Ids(shown)
            [] OTHER              -> @[f]]]

(* activity_projection: what counts as activity when it changes. *)
Activity(c) == <<c.objective, c.summary, c.next, c.constraints, c.artifacts>>

(* observe_active_facts: was one of them never seen before?  The watermark *)
(* drops its greatest members, and remembers that it did.                  *)
NewlyActive(c, facts) == Ids({f \in facts : Active(f)}) \ c.active
Watermark(c, facts)   == Smallest(c.active \cup NewlyActive(c, facts), MaxActive)
Crowded(c, facts)     == c.crowded \/ Watermark(c, facts) # c.active \cup NewlyActive(c, facts)

(* authoritative_digest. *)
Verdicts(actions) == {<<k, actions[k].outcome>> : k \in DOMAIN actions}

(* completion_reopened: new activity on completed work, until a success    *)
(* that is new and leaves no failure.                                      *)
Reopened_NeverRemembered(c, d, facts) ==
  LET success == Verdicts(d.actions) # Verdicts(c.actions)
                   /\ \E f \in facts : Structured(f) /\ f.good
  IN  /\ c.status = "completed"
      /\ Activity(d) # Activity(c) \/ NewlyActive(c, facts) # {}
      /\ ~success

Reopened(c, d, facts) ==
  LET success == Verdicts(d.actions) # Verdicts(c.actions)
                   /\ \E f \in facts : Structured(f) /\ f.good
      stirred == Activity(d) # Activity(c) \/ NewlyActive(c, facts) # {}
      now     == c.reopened \/ (c.status = "completed" /\ stirred /\ ~success)
  IN  now /\ ~(success /\ Failed(d.actions) = {})

(* derive_status, with the evidence for it. *)
Status(c, d, reopened, facts) ==
  LET abandons == {f \in facts : Abandons(f)}
      active   == {f \in facts : Active(f)}
  IN  IF abandons # {} THEN <<"abandoned", Ids(abandons)>>
      ELSE IF Failed(d.actions) # {} THEN <<"blocked", Ids(Failed(d.actions))>>
      ELSE IF reopened THEN <<"active", Ids(facts)>>
      ELSE IF Succeeded(d.actions) # {} THEN <<"completed", Ids(Succeeded(d.actions))>>
      ELSE IF Activity(d) # Activity(c) /\ active # {} THEN <<"active", Ids(active)>>
      ELSE <<c.status, Ids(facts)>>

-----------------------------------------------------------------------------
(* bounded_provenance and retain_field_evidence: the first reference of    *)
(* every field stays, the rest fill the bound, smallest first.             *)
Firsts(cites) ==
  {(CHOOSE r \in cites[f] : \A s \in cites[f] : r <= s) : f \in {g \in Fields : cites[g] # {}}}

Retained_SmallestOnly(cites, provenance) ==
  Smallest((UNION {cites[f] : f \in Fields}) \cup provenance, MaxRefs)

Retained(cites, provenance) ==
  LET first == Firsts(cites)
      rest  == ((UNION {Smallest(cites[f], MaxRefs) : f \in Fields}) \cup provenance) \ first
      room  == MaxRefs - Cardinality(first)
  IN  first \cup (IF room < 0 THEN rest ELSE Smallest(rest, room))

(* The contract's own words: everything material_hash covers. *)
Material(c) ==
  <<Activity(c), c.status, c.completed, c.blockers, c.criteria, c.verification,
    c.cites, c.actions, c.reopened, c.active, c.crowded>>

(* validate_field_evidence. *)
Filled(c) ==
  {"status"} \cup {f \in {"completed", "next", "blockers", "constraints", "criteria",
                           "artifacts", "verification"} : c[f] # {}}
             \cup {f \in {"objective", "summary"} : c[f] # None}

Cited(c) == \A f \in Filled(c) : c.cites[f] # {} /\ c.cites[f] \subseteq c.refs

(* ProvisionalContractBuilder::build: the revision after c, or c itself    *)
(* when these are the facts it was built from or nothing material changed. *)
Revised(c, facts) ==
  LET d       == Drafted(c, facts)
      reopen  == Reopened(c, d, facts)
      status  == Status(c, d, reopen, facts)
      cites   == [d.cites EXCEPT !["status"] = status[2]]
      sources == c.refs \cup Ids(facts)
      refs    == Retained(cites, Smallest(sources, MaxRefs))
  IN  [d EXCEPT !.rev = @ + 1, !.by = "builder", !.status = status[1],
                !.reopened = reopen, !.active = Watermark(c, facts),
                !.crowded = Crowded(c, facts), !.facts = Ids(facts),
                !.created = CHOOSE t \in {f.at : f \in facts} : \A f \in facts : f.at <= t,
                !.refs = refs, !.truncated = @ \/ Cardinality(sources) > MaxRefs,
                !.cites = [f \in Fields |-> Smallest(cites[f], MaxRefs) \cap refs]]

Build(c, facts) ==
  LET next == Revised(c, facts)
  IN  IF facts = {} \/ c.facts = Ids(facts) THEN c
      ELSE IF c.by = "builder" /\ Material(next) = Material(c) THEN c
      ELSE next

-----------------------------------------------------------------------------
(* apply_human_correction's change of the latest revision: one field, cited*)
(* with the first reference the contract has.                              *)
Correctable == {"objective", "summary", "next", "blockers", "constraints", "criteria"}

Put(c, f, text) == IF f \in {"objective", "summary"} THEN [c EXCEPT ![f] = text]
                   ELSE [c EXCEPT ![f] = {text}]

Corrected(c, f, text, at) ==
  LET first == CHOOSE r \in c.refs : \A s \in c.refs : r <= s
  IN  [Put(c, f, text) EXCEPT !.rev = @ + 1, !.by = "human", !.facts = {}, !.created = at,
                              !.cites[f] = @ \cup {first}]

-----------------------------------------------------------------------------
(* The evidence a proposal may rest on: [id, authority, text].  Authorities*)
(* are ordered.                                                            *)
Strength(a) == CASE a = "model" -> 1 [] a = "agent" -> 2 [] a = "observed" -> 3
                 [] a = "tool" -> 4 [] a = "human" -> 5

InstructionFields == {"objective", "constraints", "criteria", "next"}
RefinableFields   == InstructionFields \cup {"summary", "blockers", "verification"}

(* allowed_for_field. *)
Allowed(f, authority) ==
  CASE f \in InstructionFields \cup {"blockers"} -> authority = "human"
    [] f = "verification" -> authority \in {"tool", "observed"}
    [] OTHER -> f = "summary"

(* effective_authority: the strongest reference, if all of them are known. *)
Effective(evidence, proposal) ==
  LET cited == {e \in evidence : e.id \in proposal.refs}
  IN  IF proposal.refs = {} \/ {e.id : e \in cited} # proposal.refs THEN None
      ELSE (CHOOSE e \in cited :
              \A other \in cited : Strength(other.authority) <= Strength(e.authority)).authority

(* matches_human_intent: an instruction repeats a human's own words. *)
MatchesHuman(evidence, proposal) ==
  \E e \in evidence : e.id \in proposal.refs /\ e.authority = "human" /\ e.text = proposal.text

Acceptable_ByAuthorityAlone(evidence, p) ==
  LET authority == Effective(evidence, p)
  IN  /\ p.field \in RefinableFields /\ p.text # None
      /\ authority # None
      /\ Allowed(p.field, authority)

Acceptable(evidence, p) ==
  LET authority == Effective(evidence, p)
  IN  /\ p.field \in RefinableFields /\ p.text # None
      /\ authority # None
      /\ Allowed(p.field, authority)
      /\ (p.field \in InstructionFields => MatchesHuman(evidence, p))

(* SemanticPolicy::validate: of each field the first of the strongest. *)
Filtered(evidence, proposals) ==
  LET good == {i \in DOMAIN proposals : Acceptable(evidence, proposals[i])}
      strength(i) == Strength(Effective(evidence, proposals[i]))
  IN  {proposals[i] : i \in {i \in good :
         \A j \in good : proposals[j].field = proposals[i].field =>
           strength(j) < strength(i) \/ (strength(j) = strength(i) /\ i <= j)}}

(* refine_provisional_contract_at_with_policy; None where it is refused:   *)
(* nothing accepted, too many references, nothing changed.                 *)
Refined(c, accepted, at) ==
  LET for(f) == {p \in accepted : p.field = f}
      refs   == c.refs \cup UNION {p.refs : p \in accepted}
      list(f) == IF for(f) = {} THEN c[f] ELSE {p.text : p \in for(f)}
      text(f) == IF for(f) = {} THEN c[f] ELSE (CHOOSE p \in for(f) : TRUE).text
      d == [c EXCEPT !.objective = text("objective"), !.summary = text("summary"),
                     !.constraints = list("constraints"), !.criteria = list("criteria"),
                     !.next = list("next"), !.blockers = list("blockers"),
                     !.verification = list("verification"),
                     !.refs = refs,
                     !.cites = [f \in Fields |-> IF for(f) = {} THEN @[f]
                                                 ELSE UNION {p.refs : p \in for(f)}]]
  IN  IF accepted = {} \/ Cardinality(refs) > MaxRefs
        \/ <<Activity(d), d.criteria, d.blockers, d.verification>>
             = <<Activity(c), c.criteria, c.blockers, c.verification>>
      THEN None
      ELSE [d EXCEPT !.rev = @ + 1, !.by = "model", !.facts = {}, !.created = at]
=============================================================================
