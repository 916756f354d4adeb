---------------------------- MODULE WorkContract ----------------------------
(***************************************************************************)
(* The contracts of a project's work items, as three writers change them   *)
(* (crates/agbox-ingest/src/coordinator.rs, publish_work and               *)
(* publish_semantic; crates/agbox-store/src/writer.rs, apply_work,         *)
(* apply_extractor and apply_human_correction).                            *)
(*                                                                         *)
(*   - publications bring the project's committed events page by page; the *)
(*     page is reduced and correlated, and the contract of the work item it*)
(*     belongs to is rebuilt;                                              *)
(*   - an extractor is asked about a contract and answers much later, when *)
(*     that contract may no longer be the latest;                          *)
(*   - a human corrects a field at any time.                               *)
(*                                                                         *)
(* A publication is one step here: one whose parent is no longer the latest*)
(* revision is refused by apply_work (module Publication).                 *)
(***************************************************************************)
EXTENDS Contract, Functions

CONSTANTS
  Logs,            \* the sequences of events the project may commit
  PageSize,        \* bound of one page
  Works,           \* bound: work items, numbered in the order of creation
  Requests,        \* what a caller of publish_work may say about a page
  Corrections,     \* the corrections a human may make: <<field, text>>
  MaxCorrections,  \* bound: corrections
  Proposals,       \* the answers an extractor may give
  MaxRuns,         \* bound: extractor runs
  TimesReadBack,   \* whether the time library reads what a correction stores
  MaxHashes, MaxCandidates

INSTANCE Correlation

(* An event's identifier is unique in activity_events; action keys are     *)
(* ordered (a BTreeMap's keys).                                            *)
ASSUME WorkContractAssumption ==
  /\ \A events \in Logs : events \in Seq(Range(events))
  /\ \A events \in Logs : \A i, j \in DOMAIN events :
       /\ events[i].id \in Nat /\ events[i].at \in Int /\ events[i].key \in Int
       /\ events[i].id = events[j].id => i = j
  /\ PageSize \in Nat \ {0} /\ MaxRefs \in Nat \ {0} /\ TimesReadBack \in BOOLEAN
  /\ \A r \in Requests : r.semantic \in Nat   \* basis points

(* None is no result of an action.                                         *)
ASSUME ResultAssumption ==
  \A events \in Logs : \A i, j \in DOMAIN events : \A command \in {None, events[j].text} :
    None # [id |-> events[i].id, at |-> events[i].at, good |-> events[i].good,
            command |-> command]

Repository == 1    \* the identity of the project's repository

VARIABLES
  log,       \* the events committed, in the order of event_seq
  read,      \* durable: the visibility watermark
  contract,  \* durable: the latest contract revision of each work item
  member,    \* durable: the events published to it
  updated,   \* durable: work_items.updated_at
  asked,     \* the extractor call in progress
  runs,      \* durable: the extractor runs recorded
  corrected  \* the corrections so far

vars == <<log, read, contract, member, updated, asked, runs, corrected>>

Silent == [pc |-> "silent"]

Exists(w) == contract[w].rev > 0

-----------------------------------------------------------------------------
Init ==
  /\ log \in Logs
  /\ read = 0
  /\ contract = [w \in Works |-> NoContract]
  /\ member = [w \in Works |-> {}]
  /\ updated = [w \in Works |-> 0]
  /\ asked = Silent
  /\ runs = {}
  /\ corrected = {}

-----------------------------------------------------------------------------
(* What the store tells about a work item: its artifacts, the inputs of its*)
(* actions, the branch of its newest session.                              *)
Events(w) == {i \in 1 .. read : log[i].id \in member[w]}
TextsOf(S, kind) == {log[i].text : i \in {j \in S : log[j].kind = kind}} \ {None}

Branch(w) ==
  LET seen == {i \in Events(w) : log[i].kind = "context"}
  IN  IF seen = {} THEN None ELSE log[CHOOSE i \in seen : \A j \in seen : j <= i].text

Elapsed(w, now) == IF now > updated[w] THEN now - updated[w] ELSE 0

Candidate(w, now) ==
  [work |-> w, project |-> "project", repository |-> Repository, branch |-> Branch(w),
   artifacts |-> TextsOf(Events(w), "artifact"), commands |-> TextsOf(Events(w), "request"),
   status |-> contract[w].status, updated |-> updated[w], minutes |-> Elapsed(w, now)]

(* publish_work_to_visibility up to the correlation: hashes of the page,   *)
(* candidates for them, and the input put together.                        *)
Observed(facts) == CHOOSE t \in {f.at : f \in facts} : \A f \in facts : f.at <= t

Query(r, facts) ==
  [project |-> "project", explicit |-> r.explicit, continuation |-> r.continuation,
   artifacts |-> {f.text : f \in {g \in facts : g.kind = "artifact"}} \ {None},
   commands  |-> {f.text : f \in {g \in facts : g.kind = "request"}} \ {None}]

Input(r, facts) ==
  LET q == Query(r, facts)
  IN  [project |-> q.project, evidence |-> Ids(facts),
       explicit |-> r.explicit, continuation |-> r.continuation,
       repository |-> r.repository, branch |-> r.branch, semantic |-> r.semantic,
       artifacts |-> q.artifacts, commands |-> q.commands,
       candidates |-> Candidates(q, {Candidate(w, Observed(facts)) : w \in {v \in Works : Exists(v)}})]

Decision(r, facts) == Correlate(Input(r, facts))

(* A created work item is the next one. *)
NewWork == {w \in Works : ~Exists(w) /\ \A v \in Works : v < w => Exists(v)}
Targets(d) == IF d.decision = "continue" THEN {d.work} ELSE NewWork

Page(n) == SubSeq(log, read + 1, read + n)

(* A correction stores its time as text, where ProvisionalContract has an  *)
(* OffsetDateTime; if that is not read back, whoever needs the contract    *)
(* fails (InvalidStoredContract) and changes nothing.                      *)
Readable(c) == c.by = "human" => TimesReadBack

(* publish_work: the page's facts go to one work item, whose contract is   *)
(* built on its latest revision and stored with its status and watermark.  *)
Publish(n) ==
  LET facts == Reduce(Page(n))
  IN  /\ read + n <= Len(log)
      /\ facts # {}
      /\ \E d \in {Decision(r, facts) : r \in Requests} : \E w \in Targets(d) :
           LET built == Build(contract[w], facts)
           IN  /\ Readable(contract[w])
               /\ Cited(built)
               /\ contract' = [contract EXCEPT ![w] = built]
               /\ updated' = [updated EXCEPT ![w] = built.created]
               /\ member' = [member EXCEPT ![w] = @ \cup Ids(facts)]
      /\ read' = read + n
      /\ UNCHANGED <<log, asked, runs, corrected>>

(* A page without facts of the project is not published at all. *)
Skip(n) ==
  /\ read + n <= Len(log)
  /\ Reduce(Page(n)) = {}
  /\ read' = read + n
  /\ UNCHANGED <<log, contract, member, updated, asked, runs, corrected>>

-----------------------------------------------------------------------------
(* apply_human_correction, one transaction on the latest revision. *)
Correct(w, f, text, at) ==
  /\ Exists(w) /\ f \in Correctable
  /\ Cardinality(corrected) < MaxCorrections /\ <<w, f, text>> \notin corrected
  /\ contract' = [contract EXCEPT ![w] = Corrected(@, f, text, at)]
  /\ updated' = [updated EXCEPT ![w] = at]
  /\ corrected' = corrected \cup {<<w, f, text>>}
  /\ UNCHANGED <<log, read, member, asked, runs>>

-----------------------------------------------------------------------------
(* publish_semantic up to the request: the latest contract and the evidence*)
(* are read, and the extractor is called.                                  *)
AuthorityOf(e) ==
  CASE e.kind \in {"objective", "constraint", "abandon", "forbid"} -> "human"
    [] e.kind = "statement" -> "agent"
    [] e.kind = "finish" /\ e.trusted -> "tool"
    [] OTHER -> "observed"

Evidence(n) ==
  {[id |-> log[i].id, authority |-> AuthorityOf(log[i]), text |-> log[i].text] : i \in 1 .. n}

Ask(w) ==
  /\ asked = Silent
  /\ Exists(w) /\ Readable(contract[w])
  /\ Cardinality(runs) < MaxRuns
  /\ asked' = [pc |-> "asked", work |-> w, parent |-> contract[w], upto |-> read]
  /\ UNCHANGED <<log, read, contract, member, updated, runs, corrected>>

(* The run as it would be recorded; a failed one carries no contract. The  *)
(* run's identifier is made of the work item and the watermark.            *)
Run(answer) ==
  [work |-> asked.work, upto |-> asked.upto, parent |-> asked.parent,
   refined |-> Refined(asked.parent, Filtered(Evidence(asked.upto), answer), read)]

SameRun(run) == {r \in runs : r.work = run.work /\ r.upto = run.upto}

(* validate_extractor_parent. *)
IsParent_Exists(run) == Exists(run.work)

IsParent(run) ==
  LET now == contract[run.work]
  IN  /\ now.rev = run.parent.rev
      /\ now.by = run.parent.by /\ Material(now) = Material(run.parent)

(* The answer, filtered, refined, and apply_extractor: recorded once, and  *)
(* only over the very contract the extractor was shown.                    *)
Answer(answer) ==
  /\ asked # Silent
  /\ LET run == Run(answer)
     IN  /\ SameRun(run) = {} /\ IsParent(run)
         /\ runs' = runs \cup {run}
         /\ IF run.refined = None THEN UNCHANGED contract
            ELSE contract' = [contract EXCEPT ![run.work] = run.refined]
  /\ asked' = Silent
  /\ UNCHANGED <<log, read, member, updated, corrected>>

(* Recorded before, or the contract moved on: replayed or refused.         *)
TooLate(answer) ==
  /\ asked # Silent
  /\ LET run == Run(answer) IN SameRun(run) # {} \/ ~IsParent(run)
  /\ asked' = Silent
  /\ UNCHANGED <<log, read, contract, member, updated, runs, corrected>>

-----------------------------------------------------------------------------
Publications == \E n \in 1 .. PageSize : Publish(n) \/ Skip(n)

Answers == \E answer \in Proposals : Answer(answer) \/ TooLate(answer)

Next ==
  \/ Publications
  \/ \E w \in Works : \E c \in Corrections : Correct(w, c[1], c[2], read)
  \/ \E w \in Works : Ask(w)
  \/ Answers

Spec == Init /\ [][Next]_vars

-----------------------------------------------------------------------------
(* Every revision is built from committed events, one run at most is in    *)
(* progress, and no event is published to two work items.                  *)
TypeOK ==
  /\ read \in 0 .. Len(log)
  /\ \A w \in Works :
       /\ contract[w].rev \in Nat
       /\ contract[w].status \in {"observed", "active", "blocked", "completed", "abandoned"}
       /\ member[w] \subseteq {log[i].id : i \in 1 .. read}
       /\ \A v \in Works \ {w} : member[v] \cap member[w] = {}
  /\ asked = Silent \/ Exists(asked.work)

(* Whatever a page, a correction or a refinement fills in, and however the *)
(* bound on references presses: each filled field cites evidence the       *)
(* contract still holds, so that no page is ever refused for lack of it.   *)
EveryFieldIsCited ==
  \A w \in Works :
    /\ Exists(w) => Cited(contract[w])
    /\ \A n \in 1 .. PageSize :
         read + n <= Len(log) /\ Reduce(Page(n)) # {} => Cited(Build(contract[w], Reduce(Page(n))))

(* Contracts keep their types, no event belongs to two work items, and     *)
(* every field can be traced to its evidence.                              *)
ContractsAreTraceable == TypeOK /\ EveryFieldIsCited

(* The last result of each action, in the order things were observed.      *)
Results(w) ==
  {i \in Events(w) : log[i].kind = "finish" /\ log[i].trusted}
Last(w) ==
  {i \in Results(w) : \A j \in Results(w) \ {i} :
     log[j].key = log[i].key => After(log[i], log[j])}

(* Neither the cut into pages nor the order in which sources deliver       *)
(* decides a status: work is blocked just when the last result of some of  *)
(* its actions is a failure (a human may have abandoned it), and completed *)
(* only when it has results and none of those is.                          *)
StatusFollowsTheResults ==
  \A w \in Works :
    LET failing == \E i \in Last(w) : ~log[i].good
    IN  /\ failing => contract[w].status \in {"blocked", "abandoned"}
        /\ contract[w].status = "blocked" => failing
        /\ contract[w].status = "completed" => Last(w) # {} /\ ~failing

(* Unfinished work is completed only by a success in the very page: late   *)
(* requests, statements and old events never complete it.                  *)
CompletionIsEarned ==
  [][\A w \in Works :
       contract[w].status \in {"active", "blocked"} /\ contract'[w].status = "completed"
         => \E i \in (read + 1) .. read' : log[i].kind = "finish" /\ log[i].trusted /\ log[i].good]_vars

(* Words an instruction may consist of: a human's, from the transcript or a*)
(* correction, and for what is to do next the input of a request.          *)
HumanWords ==
  TextsOf(1 .. read, "objective") \cup TextsOf(1 .. read, "constraint")
    \cup TextsOf(1 .. read, "abandon") \cup TextsOf(1 .. read, "forbid")
    \cup {c[2] : c \in Corrections}

(* However a refinement is worded and whatever it cites, an instruction    *)
(* never says what only a model or a tool said.                            *)
InstructionsAreHuman ==
  \A w \in Works :
    /\ contract[w].objective \in HumanWords \cup {None}
    /\ contract[w].constraints \cup contract[w].criteria \subseteq HumanWords
    /\ contract[w].next \subseteq HumanWords \cup TextsOf(1 .. read, "request")

(* A refinement is the next revision of the contract as it is now: nothing *)
(* published or corrected while the extractor was thinking is undone.      *)
RefinementLosesNothing ==
  [][\A w \in Works :
       contract'[w].by = "model" /\ contract'[w] # contract[w] =>
         /\ contract'[w].rev = contract[w].rev + 1
         /\ contract[w].refs \subseteq contract'[w].refs
         /\ contract[w].actions = contract'[w].actions
         /\ \A f \in Fields : contract'[w][f] = contract[w][f]
                              \/ \E p \in UNION {Range(a) : a \in Proposals} :
                                   p.field = f /\ p.refs \subseteq contract'[w].cites[f]]_vars

(* A page nobody names a work item for joins one only over a file that both*)
(* touched: repository, branch, commands, time and similarity together are *)
(* not enough.                                                             *)
JoinsShareAnArtifact ==
  \A n \in 1 .. PageSize : \A r \in Requests :
    read + n <= Len(log) /\ r.explicit = None /\ r.continuation = None =>
      LET facts == Reduce(Page(n))
          d     == Decision(r, facts)
      IN  facts # {} /\ d.decision = "continue" =>
            Query(r, facts).artifacts \cap TextsOf(Events(d.work), "artifact") # {}

(* crates/agbox-workgraph/tests/correlation.rs: "same_project_and_         *)
(* overlapping_artifacts_continue_across_agents", asked of the request the *)
(* daemon's publisher makes (WorkPublicationRequest::new).                 *)
DaemonRequest ==
  [explicit |-> None, continuation |-> None, repository |-> None, branch |-> None, semantic |-> 0]

SameFilesContinue ==
  \A n \in 1 .. PageSize : \A w \in Works :
    LET facts == Reduce(Page(n))
        files == Query(DaemonRequest, facts).artifacts
    IN  (/\ read + n <= Len(log) /\ facts # {} /\ files # {}
         /\ files = TextsOf(Events(w), "artifact")
         /\ \A v \in Works \ {w} : ~Exists(v))
        => Decision(DaemonRequest, facts) = Continue(w)
=============================================================================
