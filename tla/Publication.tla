---------------------------- MODULE Publication ----------------------------
(***************************************************************************)
(* From committed events to work contracts                                 *)
(* (crates/agbox-ingest/src/coordinator.rs, reduce_and_publish_grouped_next*)
(* and publish_work_to_visibility; crates/agbox-store/src/writer.rs,       *)
(* apply_graph, apply_work, apply_human_correction and forget).            *)
(*                                                                         *)
(* A publisher reads the graph watermark and a page of events after it,    *)
(* applies the reduced page to the graph (one transaction with the graph   *)
(* watermark), and then, project by project, reads that project's          *)
(* visibility watermark, correlates, reads the latest contract and applies *)
(* a new revision (one transaction with the visibility watermark).  Every  *)
(* read is an await, so publishers, human corrections and the forgetting   *)
(* of a project come between any two of them.                              *)
(***************************************************************************)
EXTENDS Integers, Sequences, FiniteSets

CONSTANTS
  Projects,        \* projects, numbered in the order of their identifiers
  Publishers,      \* concurrent callers of reduce_and_publish_grouped_next
  MaxEvents,       \* bound: events ingestion may commit
  PageSize,        \* bound of one page of events
  Tries,           \* GRAPH_REDUCER_CONFLICT_RETRIES
  MaxCorrections,  \* bound: human corrections
  MaxForgets       \* bound: projects forgotten

ASSUME PublicationAssumption ==
  /\ Projects \subseteq Nat
  /\ MaxEvents \in Nat
  /\ PageSize \in Nat \ {0}
  /\ Tries \in Nat \ {0}
  /\ MaxCorrections \in Nat
  /\ MaxForgets \in Nat

Seqs  == 1 .. MaxEvents

(* An event either reduces to a fact of its project or to nothing. *)
Events == [project : Projects, fact : BOOLEAN]

(* A work item is named after the project and the event it was created at. *)
Works == Projects \X Seqs

VARIABLES
  events,       \* durable: the events committed so far, at their event_seq
  gone,         \* durable: the event rows that were deleted since
  graph,        \* durable: the graph reducer's watermark
  graphBatch,   \* durable: audit of the graph batches
  graphFacts,   \* durable: the events whose facts are in the graph
  vis,          \* durable: visibility watermark of each project
  workBatch,    \* durable: audit of the work batches
  contract,     \* durable: the contract revisions of each work item
  search,       \* durable: the revision the search row of each work item shows
  pub,          \* what each publisher is doing
  corrections, forgets

graphTables == <<graph, graphBatch, graphFacts>>
workTables  == <<vis, workBatch, contract, search>>
bounds      == <<corrections, forgets>>
store       == <<events, gone, graphTables, workTables>>
vars        == <<store, pub, bounds>>

Idle == [pc |-> "idle"]

-----------------------------------------------------------------------------
(* Those of a page's events that have facts, of one project or of any. *)
Facts(rows)      == {n \in rows : events[n].fact}
FactsOf(p, rows) == {n \in Facts(rows) : events[n].project = p}

(* Events that can still be read. *)
Live == (1 .. Len(events)) \ gone

Greatest(S) == CHOOSE n \in S : \A m \in S : m <= n
Least(S)    == CHOOSE n \in S : \A m \in S : n <= m

(* A contract revision: everything that went into it, and the fact set it  *)
(* was built from last ({} after a human correction).                      *)
NoContract == [material |-> {}, last |-> {}]
LatestOf(revisions) ==
  IF revisions = <<>> THEN NoContract ELSE revisions[Len(revisions)]

-----------------------------------------------------------------------------
Init ==
  /\ events = <<>>
  /\ gone = {}
  /\ graph = 0
  /\ graphBatch = {}
  /\ graphFacts = {}
  /\ vis = [p \in Projects |-> 0]
  /\ workBatch = {}
  /\ contract = [w \in Works |-> <<>>]
  /\ search = [w \in Works |-> 0]
  /\ pub = [u \in Publishers |-> Idle]
  /\ corrections = 0
  /\ forgets = 0

(* Ingestion commits one more event. *)
Ingest(e) ==
  /\ Len(events) < MaxEvents
  /\ events' = Append(events, e)
  /\ UNCHANGED <<gone, graphTables, workTables, pub, bounds>>

-----------------------------------------------------------------------------
(* A call, or its next attempt, begins: the graph watermark is read. *)
ReadWatermark(u) ==
  /\ pub[u].pc \in {"idle", "again"}
  /\ pub' = [pub EXCEPT ![u] =
       [pc |-> "mark", from |-> graph, try |-> IF @.pc = "idle" THEN 1 ELSE @.try]]
  /\ UNCHANGED <<store, bounds>>

(* The page of events after it is read: the first rows there are, up to    *)
(* the row limit; the byte limit may end it earlier.                       *)
IsPage(rows, from) ==
  /\ rows # {} /\ Cardinality(rows) <= PageSize
  /\ \A n \in rows : n > from
  /\ \A n \in Live : from < n /\ n < Greatest(rows) => n \in rows

ReadEvents(u) ==
  /\ pub[u].pc = "mark"
  /\ \/ /\ \A n \in Live : n <= pub[u].from
        /\ pub' = [pub EXCEPT ![u] = Idle]
     \/ \E rows \in SUBSET Live :
          /\ IsPage(rows, pub[u].from)
          /\ pub' = [pub EXCEPT ![u] =
               [pc |-> "page", from |-> @.from, rows |-> rows, try |-> @.try]]
  /\ UNCHANGED <<store, bounds>>

Contiguous(rows) == rows = Least(rows) .. Greatest(rows)

(* DeterministicReducer::reduce refuses a page with a gap in its sequence. *)
ReduceFails(u) ==
  /\ pub[u].pc = "page"
  /\ ~Contiguous(pub[u].rows)
  /\ pub' = [pub EXCEPT ![u] = Idle]
  /\ UNCHANGED <<store, bounds>>

GraphBatch(u) ==
  [from |-> pub[u].from, hi |-> Greatest(pub[u].rows), facts |-> Facts(pub[u].rows)]

Reduced(u) == pub[u].pc = "page" /\ Contiguous(pub[u].rows)

GraphFresh(u) == graph = pub[u].from

(* The same page was applied already, by another publisher. *)
GraphReplayed(u) == graph = Greatest(pub[u].rows)

StillThere_LastOnly(facts, through) == through \notin gone

(* verify_watermark_event and verify_graph_event. *)
StillThere(facts, through) == through \notin gone /\ facts \cap gone = {}

(* What is left to publish of a page: its projects, smallest first. *)
Publishing(rows, todo) ==
  IF todo = {} THEN Idle ELSE [pc |-> "publish", rows |-> rows, todo |-> todo]

(* The facts are grouped by project. *)
Grouped(rows) == Publishing(rows, {p \in Projects : FactsOf(p, rows) # {}})

GraphApplied(u) ==
  /\ graph' = Greatest(pub[u].rows)
  /\ graphBatch' = graphBatch \cup {GraphBatch(u)}
  /\ graphFacts' = graphFacts \cup Facts(pub[u].rows)
  /\ pub' = [pub EXCEPT ![u] = Grouped(@.rows)]
  /\ UNCHANGED <<events, gone, workTables, bounds>>

ApplyGraph_Unchecked(u) ==
  /\ Reduced(u)
  /\ StillThere(Facts(pub[u].rows), Greatest(pub[u].rows))
  /\ GraphApplied(u)

(* apply_graph from the expected watermark, rows and watermark at once. *)
ApplyGraph(u) ==
  /\ Reduced(u)
  /\ GraphFresh(u)
  /\ StillThere(Facts(pub[u].rows), Greatest(pub[u].rows))
  /\ GraphApplied(u)

(* apply_graph of the very batch that was applied last: a success, too. *)
ReplayGraph(u) ==
  /\ Reduced(u)
  /\ GraphReplayed(u) /\ GraphBatch(u) \in graphBatch
  /\ StillThere(Facts(pub[u].rows), Greatest(pub[u].rows))
  /\ pub' = [pub EXCEPT ![u] = Grouped(@.rows)]
  /\ UNCHANGED <<store, bounds>>

(* Events of the page were deleted in the meantime: InvalidReference. *)
RefuseGraph(u) ==
  /\ Reduced(u)
  /\ GraphFresh(u) \/ GraphReplayed(u)
  /\ ~StillThere(Facts(pub[u].rows), Greatest(pub[u].rows))
  /\ pub' = [pub EXCEPT ![u] = Idle]
  /\ UNCHANGED <<store, bounds>>

(* ReducerWatermarkConflict: from the start, a bounded number of times. *)
GraphConflict(u) ==
  /\ Reduced(u)
  /\ ~GraphFresh(u) /\ ~(GraphReplayed(u) /\ GraphBatch(u) \in graphBatch)
  /\ pub' = [pub EXCEPT ![u] =
       IF @.try < Tries THEN [pc |-> "again", try |-> @.try + 1] ELSE Idle]
  /\ UNCHANGED <<store, bounds>>

-----------------------------------------------------------------------------
(* The next project of the page: its visibility watermark is read. *)
ReadVisibility(u) ==
  /\ pub[u].pc = "publish"
  /\ LET p == Least(pub[u].todo)
     IN  pub' = [pub EXCEPT ![u] =
           [pc |-> "seen", rows |-> @.rows, todo |-> @.todo,
            project |-> p, facts |-> FactsOf(p, @.rows), expected |-> vis[p]]]
  /\ UNCHANGED <<store, bounds>>

(* The candidates are loaded and correlated: the facts continue a work     *)
(* item of their project or create one named after their last event.       *)
Correlate(u) ==
  /\ pub[u].pc = "seen"
  /\ \E w \in {x \in Works : x[1] = pub[u].project} :
       /\ contract[w] # <<>> \/ w[2] = Greatest(pub[u].facts)
       /\ pub' = [pub EXCEPT ![u] =
            [pc |-> "chosen", rows |-> @.rows, todo |-> @.todo,
             project |-> @.project, facts |-> @.facts, expected |-> @.expected,
             work |-> w]]
  /\ UNCHANGED <<store, bounds>>

(* ProvisionalContractBuilder::build on the latest contract: that contract *)
(* itself when these were the facts it was built from, or when they change *)
(* nothing in it; otherwise the revision after it.                         *)
Unchanged(revisions) == [revision |-> Len(revisions), body |-> LatestOf(revisions)]

Grown(revisions, facts) ==
  [revision |-> Len(revisions) + 1,
   body |-> [material |-> LatestOf(revisions).material \cup facts, last |-> facts]]

Built(revisions, facts) ==
  IF revisions = <<>> THEN {Grown(revisions, facts)}
  ELSE IF LatestOf(revisions).last = facts THEN {Unchanged(revisions)}
  ELSE {Unchanged(revisions), Grown(revisions, facts)}

ReadContract(u) ==
  /\ pub[u].pc = "chosen"
  /\ \E c \in Built(contract[pub[u].work], pub[u].facts) :
       pub' = [pub EXCEPT ![u] =
         [pc |-> "built", rows |-> @.rows, todo |-> @.todo,
          batch |-> [project |-> @.project, expected |-> @.expected,
                     through |-> Greatest(@.facts), facts |-> @.facts,
                     work |-> @.work, contract |-> c]]]
  /\ UNCHANGED <<store, bounds>>

(* apply_work's checks, in its order, and what it does. *)
Fresh(b)    == vis[b.project] = b.expected
Replayed(b) == vis[b.project] = b.through
Audited(b)  == \E a \in workBatch : a.project = b.project /\ a.through = b.through

Accepted(b) ==
  /\ b.through >= b.expected
  /\ StillThere(b.facts, b.through)
  /\ IF Replayed(b) THEN b \in workBatch ELSE Fresh(b) /\ ~Audited(b)

(* insert_work_contract_revision: stored already, or exactly the next one. *)
Stored(b) ==
  /\ b.contract.revision <= Len(contract[b.work])
  /\ contract[b.work][b.contract.revision] = b.contract.body

NextRevision_Any(b) == TRUE

NextRevision(b) == b.contract.revision = Len(contract[b.work]) + 1

(* The project is done; the next one of the page follows. *)
ProjectDone(u) ==
  pub' = [pub EXCEPT ![u] = Publishing(@.rows, @.todo \ {Least(@.todo)})]

(* insert_work_contract_revision, replace_work_search, the watermark.      *)
Publish(b) ==
  /\ \/ /\ Stored(b)
        /\ UNCHANGED contract
     \/ /\ ~Stored(b)
        /\ NextRevision(b)
        /\ contract' = [contract EXCEPT ![b.work] = Append(@, b.contract.body)]
  /\ search' = [search EXCEPT ![b.work] = b.contract.revision]
  /\ vis' = [vis EXCEPT ![b.project] = b.through]
  /\ workBatch' = workBatch \cup {b}

ApplyWork_AnyWatermark(u) ==
  /\ pub[u].pc = "built"
  /\ StillThere(pub[u].batch.facts, pub[u].batch.through)
  /\ Publish(pub[u].batch)
  /\ ProjectDone(u)
  /\ UNCHANGED <<events, gone, graphTables, bounds>>

(* apply_work: revision, search row and visibility watermark at once. *)
ApplyWork(u) ==
  /\ pub[u].pc = "built"
  /\ Accepted(pub[u].batch)
  /\ Publish(pub[u].batch)
  /\ ProjectDone(u)
  /\ UNCHANGED <<events, gone, graphTables, bounds>>

(* apply_work is refused: InvalidBatch, ReducerWatermarkConflict or        *)
(* ImmutableConflict.  The error leaves the whole call.                    *)
RefuseWork(u) ==
  /\ pub[u].pc = "built"
  /\ LET b == pub[u].batch
     IN  ~(Accepted(b) /\ (Stored(b) \/ NextRevision(b)))
  /\ pub' = [pub EXCEPT ![u] = Idle]
  /\ UNCHANGED <<store, bounds>>

(* Any of the reads or transactions fails, or the process restarts: the    *)
(* call is over, what it committed stays.                                  *)
Fail(u) ==
  /\ pub[u] # Idle
  /\ pub' = [pub EXCEPT ![u] = Idle]
  /\ UNCHANGED <<store, bounds>>

-----------------------------------------------------------------------------
(* apply_human_correction: the writer itself reads the latest revision and *)
(* adds the next one, with the correction (here: minus its number) in it.  *)
Correct(w) ==
  /\ corrections < MaxCorrections
  /\ corrections' = corrections + 1
  /\ contract[w] # <<>>
  /\ contract' = [contract EXCEPT ![w] =
       Append(@, [material |-> LatestOf(@).material \cup {-(Len(@) + 1)}, last |-> {}])]
  /\ search' = [search EXCEPT ![w] = Len(contract[w]) + 1]
  /\ UNCHANGED <<events, gone, graphTables, vis, workBatch, pub, forgets>>

(* forget of a project: its events, facts, works, contracts, search rows   *)
(* and audits go; no watermark is touched.                                 *)
Forget(p) ==
  LET mine == {n \in 1 .. Len(events) : events[n].project = p}
  IN  /\ forgets < MaxForgets
      /\ forgets' = forgets + 1
      /\ mine \ gone # {}
      /\ gone' = gone \cup mine
      /\ graphFacts' = graphFacts \ mine
      /\ workBatch' = {b \in workBatch : b.project # p}
      /\ contract' = [w \in Works |-> IF w[1] = p THEN <<>> ELSE contract[w]]
      /\ search' = [w \in Works |-> IF w[1] = p THEN 0 ELSE search[w]]
      /\ UNCHANGED <<events, graph, graphBatch, vis, pub, corrections>>

-----------------------------------------------------------------------------
PublisherStep(u) ==
  \/ ReadWatermark(u)
  \/ ReadEvents(u)
  \/ ReduceFails(u)
  \/ ApplyGraph(u)
  \/ ReplayGraph(u)
  \/ RefuseGraph(u)
  \/ GraphConflict(u)
  \/ ReadVisibility(u)
  \/ Correlate(u)
  \/ ReadContract(u)
  \/ ApplyWork(u)
  \/ RefuseWork(u)

Next ==
  \/ \E e \in Events : Ingest(e)
  \/ \E u \in Publishers : PublisherStep(u) \/ Fail(u)
  \/ \E w \in Works : Correct(w)
  \/ \E p \in Projects : Forget(p)

Spec == Init /\ [][Next]_vars

(* Publishers are called again and again while there is anything to reduce,*)
(* and failures do not hit the same step every time.                       *)
FairSpec ==
  /\ Spec
  /\ \A u \in Publishers :
       /\ WF_vars(PublisherStep(u))
       /\ SF_vars(ReadEvents(u))
       /\ SF_vars(ApplyGraph(u))
       /\ SF_vars(ReadVisibility(u))
       /\ SF_vars(Correlate(u))
       /\ SF_vars(ReadContract(u))
       /\ SF_vars(ApplyWork(u))

-----------------------------------------------------------------------------
Bodies(w) == [material : SUBSET (Seqs \cup {-n : n \in 1 .. MaxEvents + MaxCorrections}),
              last : SUBSET Seqs]

(* Watermarks are positions, facts are committed events, and a publisher's *)
(* page, facts and work item belong together.                              *)
TypeOK ==
  /\ events \in Seq(Events) /\ Len(events) <= MaxEvents
  /\ graph \in 0 .. Len(events)
  /\ gone \subseteq 1 .. Len(events)
  /\ graphBatch \subseteq [from : 0 .. graph, hi : 1 .. graph, facts : SUBSET (1 .. graph)]
  /\ graphFacts \subseteq 1 .. graph
  /\ vis \in [Projects -> 0 .. Len(events)]
  /\ \A b \in workBatch : b.project = b.work[1] /\ b.facts \subseteq 1 .. b.through
  /\ \A w \in Works : /\ search[w] \in 0 .. Len(contract[w])
                      /\ \A i \in DOMAIN contract[w] : contract[w][i] \in Bodies(w)
  /\ corrections \in 0 .. MaxCorrections /\ forgets \in 0 .. MaxForgets
  /\ \A u \in Publishers :
       \/ pub[u] = Idle
       \/ pub[u].pc \in {"mark", "again"} /\ pub[u].try \in 1 .. Tries
       \/ pub[u].pc = "page" /\ pub[u].rows \in (SUBSET (1 .. Len(events))) \ {{}}
       \/ /\ pub[u].pc \in {"publish", "seen", "chosen", "built"}
          /\ pub[u].todo # {} /\ \A p \in pub[u].todo : FactsOf(p, pub[u].rows) # {}

(* Whatever publishers do to each other, the graph batches tile the events *)
(* up to the graph watermark: each event was reduced in exactly one batch, *)
(* and the graph holds exactly the facts of those not forgotten.           *)
EveryEventIsReducedOnce ==
  /\ \A n \in 1 .. graph :
       \E b \in graphBatch :
         /\ b.from < n /\ n <= b.hi
         /\ \A other \in graphBatch \ {b} : ~(other.from < n /\ n <= other.hi)
  /\ graphFacts = Facts(1 .. graph) \ gone

(* A project is never visible beyond the graph, and its visibility stands  *)
(* on one of its own facts: work current never runs ahead of the graph.    *)
VisibilityFollowsTheGraph ==
  \A p \in Projects :
    \/ vis[p] = 0
    \/ vis[p] <= graph /\ events[vis[p]] = [project |-> p, fact |-> TRUE]

(* A fact is published in one batch only, hence to one work item only.     *)
EachFactIsPublishedOnce ==
  \A a, b \in workBatch : a.facts \cap b.facts # {} => a = b

(* A contract is built from facts of its own project that are visible.     *)
ContractsCiteVisibleFacts ==
  \A w \in Works : \A i \in DOMAIN contract[w] :
    \A n \in contract[w][i].material \cap Nat :
      events[n] = [project |-> w[1], fact |-> TRUE] /\ n <= vis[w[1]]

(* A revision carries on everything its predecessor was made of: neither a *)
(* correction nor a publication overwrites what the other one added.       *)
NoRevisionLosesMaterial ==
  \A w \in Works : \A i \in 1 .. (Len(contract[w]) - 1) :
    contract[w][i].material \subseteq contract[w][i + 1].material

(* The search row of a work item may show an older revision than the last  *)
(* (apply_work rewrites it also when it stores no revision), but then all  *)
(* it misses are human corrections.                                        *)
SearchMissesOnlyCorrections ==
  \A w \in Works : \A i \in (search[w] + 1) .. Len(contract[w]) :
    contract[w][i].last = {}

(* What readers see hangs together: types, visibility behind the graph,    *)
(* each fact in one batch, contracts made of visible facts of their own    *)
(* project, and a search row that misses corrections at most.              *)
ReadersSeeOneStory ==
  TypeOK /\ VisibilityFollowsTheGraph /\ EachFactIsPublishedOnce
    /\ ContractsCiteVisibleFacts /\ SearchMissesOnlyCorrections

(* Nothing a publisher still had in its hands brings a forgotten event     *)
(* back, neither into the graph nor into a contract.                       *)
ForgottenStaysForgotten ==
  /\ graphFacts \cap gone = {}
  /\ \A b \in workBatch : b.facts \cap gone = {}
  /\ \A w \in Works : \A i \in DOMAIN contract[w] : contract[w][i].material \cap gone = {}

-----------------------------------------------------------------------------
(* coordinator.rs: "The graph watermark advances before work publication,  *)
(* so a later retry can safely re-read and publish the same immutable      *)
(* graph facts": every fact ends up in some publication.                   *)
EveryFactIsPublished ==
  \A n \in Seqs :
    (n <= Len(events) /\ events[n].fact) ~>
      (n \in gone \/ \E b \in workBatch : n \in b.facts)

(* coordinator.rs: "a busy or malformed project must not make another      *)
(* project's handoff disappear": every event gets past the reducer.        *)
EveryEventIsReduced ==
  \A n \in Seqs : n <= Len(events) ~> (n \in gone \/ n <= graph)
=============================================================================
