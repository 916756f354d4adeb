---------------------------- MODULE CodexDecoder ----------------------------
(***************************************************************************)
(* The Codex transcript decoder                                            *)
(* (crates/agbox-adapters/src/codex/decode.rs and state.rs), driven by the *)
(* batch loop of crates/agbox-ingest/src/coordinator.rs.                   *)
(*                                                                         *)
(* One call of `decode` turns one line into events and the next parser     *)
(* state.  A call may be answered by several records of different          *)
(* strength: the strongest is emitted at once, weaker answers are staged   *)
(* until a turn ends, and what does not fit into one record's output is    *)
(* staged further, as continuation pages.                                  *)
(*                                                                         *)
(* Contents, names and digests are left out.  A byte bound is a bound on   *)
(* entries, and the fields of a line are read or not: BoundedJson models   *)
(* the reader.                                                             *)
(***************************************************************************)
EXTENDS DecoderState

CONSTANTS
  Calls,         \* native call ids
  Agents,        \* sub-agent ids
  MaxCalls,      \* MAX_CALLS: open calls and staged answers together
  MaxCompleted,  \* MAX_COMPLETED_KEYS
  MaxLifecycles, \* MAX_AGENT_LIFECYCLES
  MaxFiles       \* bound: file changes one answer may name

Modes    == {"unknown", "legacy", "paginated"}
Outcomes == {"succeeded", "failed"}
Answers  == {"item_completed", "terminal_event", "response_output"}

VARIABLES
  state,   \* durable: CodexStateV1
  line,    \* lines of the transcript read so far; the agent numbers them
  rec,     \* the line read last
  status,  \* DecodeStatus of the line or page decoded last
  out,     \* the events it gave
  past     \* history: what the events so far have said

vars == <<state, line, rec, status, out, past>>

-----------------------------------------------------------------------------
NewState ==
  [mode |-> "unknown", calls |-> <<>>, pending |-> <<>>, completed |-> <<>>,
   agents |-> <<>>, last |-> None, page |-> None]

Size(st) ==
  Len(st.calls) + Len(st.pending) + Len(st.completed) + Len(st.agents)
    + (IF st.page = None THEN 0 ELSE 1)

(* fit_serialized_bound: completed keys go first, then agents; calls and   *)
(* staged answers are never evicted.                                       *)
Fits(st) == Size(st) - Len(st.completed) - Len(st.agents) <= StateBound

Fit(st) ==
  LET over == Larger(0, Size(st) - StateBound)
      keys == Smaller(over, Len(st.completed))
  IN  [st EXCEPT !.completed = SubSeq(@, keys + 1, Len(@)),
                 !.agents    = SubSeq(@, over - keys + 1, Len(@))]

(* CodexStateV1::validate, which every stored state passes when loaded. *)
Valid(st) ==
  /\ Len(st.calls) + Len(st.pending) <= MaxCalls
  /\ Len(st.completed) <= MaxCompleted
  /\ Len(st.agents) <= MaxLifecycles
  /\ \A i \in DOMAIN st.pending : st.pending[i].rank \in 1 .. 2
  /\ \A i \in DOMAIN st.completed : st.completed[i].rank \in 1 .. 3

-----------------------------------------------------------------------------
Store(w, st) ==
  IF Fits(st) THEN [w EXCEPT !.st = Fit(st)] ELSE Fail(w, "oversized")

Event(w, kind, id, req, outcome) ==
  [kind |-> kind, id |-> id, req |-> req, outcome |-> outcome, ord |-> w.ord]

Take(w) == [w EXCEPT !.ord = @ + 1]

(* Output::event_id and push_event. *)
Emit(w, kind, id, req, outcome) ==
  LET v == Push(w, Event(w, kind, id, req, outcome)) IN IF v.error # None THEN v ELSE Take(v)

(* What a message, and the start or end of a turn, say of themselves. *)
Note(w) == Emit(w, "note", None, None, None)

Session(w) == Emit(w, "note", None, None, None)

(* decode_turn_context: without a readable directory it says nothing. *)
Context(w, r) == IF r.art THEN Emit(w, "note", None, None, None) ELSE w

(* decode_inter_agent_message: it says nothing without an agent, and two   *)
(* are ambiguous.                                                          *)
Letter(w, r) ==
  CASE Len(r.agents) > 1 -> Fail(w, "malformed")
    [] Len(r.agents) = 1 -> Emit(w, "letter", Head(r.agents), None, None)
    [] r.agents = <<>>   -> w

EmitFiles(w, c, req, n) ==
  FoldLeft(LAMBDA v, i : Emit(v, "artifact", c, req, None), w, [i \in 1 .. n |-> i])

-----------------------------------------------------------------------------
(* Modes and ordinals. *)
ObserveMode(st, seen) ==
  IF st.mode = "paginated" \/ seen = "unknown" THEN st ELSE [st EXCEPT !.mode = seen]

OrdinalAccepted(st, ordinal) ==
  st.mode = "paginated" =>
    /\ ordinal # None
    /\ st.last # None => ordinal = st.last + 1

(* progress_envelope: the mode the line shows, then its ordinal. *)
Shown(r) ==
  IF (r.type = "session" /\ r.says = "paginated") \/ r.ordinal # None THEN "paginated"
  ELSE IF r.type = "session" THEN "legacy" ELSE "unknown"

Progressed(st, r) ==
  LET seen == ObserveMode(st, Shown(r))
  IN  IF seen.mode = "paginated" THEN [seen EXCEPT !.last = r.ordinal] ELSE seen

(* result_rank: how strong an answer is in each history mode. *)
Rank(mode, source) ==
  CASE source = "item_completed"  -> IF mode = "paginated" THEN 3 ELSE 0
    [] source = "terminal_event"  -> IF mode = "legacy" THEN 3 ELSE 1
    [] source = "response_output" -> 2

-----------------------------------------------------------------------------
(* Calls and their answers. *)
InsertCall(w, c, req, art) ==
  LET open   == Drop(w.st.calls, c)
      staged == Drop(w.st.pending, c)
  IN  IF w.error # None THEN w
      ELSE IF Len(open) + Len(staged) >= MaxCalls THEN Fail(w, "oversized")
      ELSE Store(w, [w.st EXCEPT !.calls = Append(open, [id |-> c, req |-> req, art |-> art]),
                                 !.pending = staged])

(* decode_action_request: ignored while the call is answered or staged. *)
Request(w, c, art) ==
  IF Has(w.st.completed, c) \/ Has(w.st.pending, c) THEN w
  ELSE InsertCall(Emit(w, "requested", c, None, None), c, <<line + 1, w.ord>>, art)

(* observe_result *)
Observe(w, c, rank) ==
  LET keys == w.st.completed
      next == IF Has(keys, c)
              THEN [i \in DOMAIN keys |->
                      IF keys[i].id = c THEN [keys[i] EXCEPT !.rank = Larger(@, rank)]
                      ELSE keys[i]]
              ELSE Newest(Append(keys, [id |-> c, rank |-> rank]), MaxCompleted)
  IN  Store(w, [w.st EXCEPT !.completed = next])

StageResult_LatestWins(w, answer) ==
  LET staged == w.st.pending
  IN  IF Has(staged, answer.id)
      THEN Store(w, [w.st EXCEPT !.pending =
             [i \in DOMAIN staged |->
                IF staged[i].id = answer.id THEN answer ELSE staged[i]]])
      ELSE IF Len(w.st.calls) + Len(staged) >= MaxCalls THEN Fail(w, "oversized")
      ELSE Store(w, [w.st EXCEPT !.pending = Append(@, answer)])

(* stage_result: only a stronger answer replaces a staged one. *)
StageResult(w, answer) ==
  LET staged == w.st.pending
  IN  IF Has(staged, answer.id)
      THEN Store(w, [w.st EXCEPT !.pending =
             [i \in DOMAIN staged |->
                IF staged[i].id = answer.id /\ answer.rank > staged[i].rank
                THEN answer ELSE staged[i]]])
      ELSE IF Len(w.st.calls) + Len(staged) >= MaxCalls THEN Fail(w, "oversized")
      ELSE Store(w, [w.st EXCEPT !.pending = Append(@, answer)])

(* decode_ranked_result once the answer is known to be wanted.  A failed   *)
(* answer names no files; one without files falls back to the path of its  *)
(* request, if the request is still open.                                  *)
Answer(w, r, rank) ==
  LET link   == IF Has(w.st.calls, r.id) THEN Entry(w.st.calls, r.id) ELSE None
      staged == IF Has(w.st.pending, r.id) THEN Entry(w.st.pending, r.id) ELSE None
      req    == IF staged # None THEN staged.req ELSE link.req
      files  == IF r.outcome = "succeeded" THEN r.files ELSE 0
      path   == r.outcome = "succeeded" /\ r.files = 0 /\ link # None /\ link.art
      closed == [w EXCEPT !.st.calls = Drop(@, r.id)]
      ended  == [closed EXCEPT !.st.pending = Drop(@, r.id)]
      finish == Emit(Observe(ended, r.id, rank), "finished", r.id, req, r.outcome)
  IN  IF rank < 3
      THEN StageResult(closed, [id |-> r.id, req |-> req, rank |-> rank,
                                outcome |-> r.outcome, art |-> files > 0 \/ path])
      ELSE EmitFiles(finish, r.id, req, IF files > 0 THEN files ELSE IF path THEN 1 ELSE 0)

Result(w, r) ==
  LET rank == Rank(w.st.mode, r.source)
  IN  IF \/ rank = 0
         \/ Has(w.st.completed, r.id)
         \/ ~Has(w.st.calls, r.id) /\ ~Has(w.st.pending, r.id)
      THEN w ELSE Answer(w, r, rank)

(* reconcile_pending_results: staged answers in order, as many as fit      *)
(* beside the reserved events.                                             *)
RECURSIVE Reconcile(_, _)
Reconcile(w, reserved) ==
  IF w.error # None \/ w.st.pending = <<>> THEN w
  ELSE LET first == Head(w.st.pending)
           slots == IF first.art THEN 2 ELSE 1
           rest  == [w EXCEPT !.st.pending = Tail(@)]
           kept  == Observe(rest, first.id, first.rank)
           done  == Emit(kept, "finished", first.id, first.req, first.outcome)
       IN  IF Len(w.events) + reserved + slots > MaxEvents THEN w
           ELSE IF Has(w.st.completed, first.id) THEN Reconcile(kept, reserved)
           ELSE Reconcile(EmitFiles(done, first.id, first.req, slots - 1), reserved)

-----------------------------------------------------------------------------
(* Agents.  observe_agent and finish_agent change the state at once; the   *)
(* events are staged and given only for what the final state still holds.  *)
(* An agent the line found known has no start, even if the line's other    *)
(* agent evicted it (`previously_seen`).                                   *)
StartAgent(w, a, seen) ==
  LET known == Append(w.st.agents, [id |-> a, outcome |-> None])
      next  == Store(w, [w.st EXCEPT !.agents = Newest(known, MaxLifecycles)])
  IN  IF Has(w.st.agents, a) \/ w.error # None THEN w
      ELSE IF next.error # None \/ ~Has(next.st.agents, a) \/ a \in seen THEN next
      ELSE [Take(next) EXCEPT !.starts = Append(@, Event(next, "agent started", a, None, None))]

FinishAgent_Again(w, a, outcome) ==
  IF ~Has(w.st.agents, a) \/ w.error # None THEN w
  ELSE [Take(w) EXCEPT !.ends = Append(@, Event(w, "agent finished", a, None, outcome)),
                       !.st.agents = <<[id |-> a, outcome |-> outcome]>>]

FinishAgent(w, a, outcome) ==
  LET next == [w EXCEPT !.st.agents =
                 [i \in DOMAIN @ |-> IF @[i].id = a THEN [@[i] EXCEPT !.outcome = outcome]
                                     ELSE @[i]]]
  IN  IF ~Has(w.st.agents, a) \/ w.error # None THEN w
      ELSE IF Entry(w.st.agents, a).outcome # None THEN w
      ELSE [Take(next) EXCEPT !.ends = Append(@, Event(next, "agent finished", a, None, outcome))]

Known(st) == {st.agents[i].id : i \in DOMAIN st.agents}

(* A lifecycle line names one or more agents, in a fixed order. *)
Lifecycle(w, r) ==
  FoldLeft(LAMBDA v, a : IF r.outcome = None THEN StartAgent(v, a, Known(w.st))
                         ELSE FinishAgent(v, a, r.outcome), w, r.agents)

(* finalize_record, then LifecycleCandidates::finalize. *)
Finalize(w) ==
  LET v == IF w.error # None THEN w ELSE Store(w, w.st)
  IN  Finalized(v,
        SelectSeq(v.starts, LAMBDA e : Has(v.st.agents, e.id)),
        SelectSeq(v.ends, LAMBDA e :
          Has(v.st.agents, e.id) /\ Entry(v.st.agents, e.id).outcome = e.outcome))

-----------------------------------------------------------------------------
(* Lines.  `says` is an explicit history mode.  A line that fails in its   *)
(* body is "broken"; one whose ordinal cannot be read is "unnumbered".     *)
Empty == [says |-> "unknown", ordinal |-> None, id |-> None, art |-> FALSE,
          source |-> "response_output", outcome |-> None, files |-> 0, agents |-> <<>>]

Line(type) == [type |-> type] @@ Empty

AgentLists == {<<a>> : a \in Agents} \cup {l \in Agents \X Agents : l[1] # l[2]}

Files(s, o) ==
  CASE s = "item_completed"   -> IF o = "failed" THEN {0, MaxFiles} ELSE 0 .. MaxFiles
    [] o = "failed"           -> 0 .. 0
    [] s = "terminal_event"   -> 0 .. 1
    [] s = "response_output"  -> 0 .. 0

Bodies ==
  {Line(t) : t \in {"session", "note", "boundary", "other", "broken", "unnumbered"}}
  \cup {[Line(t) EXCEPT !.says = "paginated"] : t \in {"session", "note"}}
  \cup {[Line("context") EXCEPT !.art = b] : b \in BOOLEAN}
  \cup {[Line("letter") EXCEPT !.agents = l] : l \in AgentLists \cup {<<>>}}
  \cup {[Line("request") EXCEPT !.id = c, !.art = b] : c \in Calls, b \in BOOLEAN}
  \cup UNION {{[Line("result") EXCEPT !.id = c, !.source = s, !.outcome = o, !.files = n] :
                 c \in Calls, n \in Files(s, o)} : s \in Answers, o \in Outcomes}
  \cup {[Line("search") EXCEPT !.id = c, !.outcome = o] : c \in Calls, o \in Outcomes}
  \cup {[Line("lifecycle") EXCEPT !.agents = l, !.outcome = o] :
          l \in AgentLists, o \in Outcomes \cup {None}}

(* capture_file_changes: MAX_MATCHES is MAX_EVENTS.  More changes refuse   *)
(* the whole line, also one that answers nothing; of those it reads, it    *)
(* keeps one event of the record free for the answer itself.               *)
ListsTooMany(r) == r.source = "item_completed" /\ r.files > MaxEvents

Listed_Keeps64(r) == r.files

Listed(r) ==
  CASE r.source = "item_completed" -> Smaller(r.files, MaxEvents - 1)
    [] r.source = "terminal_event" -> Smaller(r.files, 1)
    [] OTHER                       -> 0

(* A turn boundary: staged answers first, then the boundary's own event;   *)
(* what is left becomes a continuation of this line.                       *)
Boundary(w) ==
  LET v == Note(Reconcile(w, 1))
  IN  IF v.st.pending = <<>> THEN v ELSE [v EXCEPT !.st.page = [line |-> line + 1, ord |-> v.ord]]

Body(w, r) ==
  CASE r.type = "session"   -> Session(w)
    [] r.type = "note"      -> Note(w)
    [] r.type = "context"   -> Context(w, r)
    [] r.type = "letter"    -> Letter(w, r)
    [] r.type = "boundary"  -> Boundary(w)
    [] r.type = "request"   -> Request(w, r.id, r.art)
    [] r.type = "result"    -> IF ListsTooMany(r) THEN Fail(w, "oversized")
                               ELSE Result(w, [r EXCEPT !.files = Listed(r)])
    [] r.type = "search"    -> Result(Request(w, r.id, FALSE), r)
    [] r.type = "lifecycle" -> Lifecycle(w, r)

(* A line that gives nothing, and the state it leaves. *)
Kept(st, s) == [st |-> st, events |-> <<>>, status |-> s]

(* decode: what becomes of a readable line. *)
Decoded(r) ==
  LET seen  == ObserveMode(state, Shown(r))
      moved == Progressed(state, r)
      body  == Finalize(Body(Start(ObserveMode(moved, r.says), 0), r))
  IN  IF r.type = "unnumbered" \/ ~OrdinalAccepted(seen, r.ordinal)
      THEN Kept(state, "malformed")
      ELSE IF r.type = "other"  THEN Kept(Fit(moved), "unknown")
      ELSE IF r.type = "broken" THEN Kept(Fit(moved), "malformed")
      ELSE IF body.error # None THEN Kept(Fit(moved), body.error)
      ELSE [st |-> body.st, events |-> body.events, status |-> "known"]

-----------------------------------------------------------------------------
(* What the events of this step add to the history: which calls and agents *)
(* are open, the request each open call refers to, the ordinals used on    *)
(* this line, and the strongest answer read for each open call.            *)
(* `begun` are the agents said to start and not yet to finish; a line that *)
(* starts two agents may also open a known one again without saying so.    *)
Reopened(r) ==
  IF r.type = "lifecycle" /\ r.outcome = None /\ Len(r.agents) = 2 /\ status' = "known"
  THEN Range(r.agents) ELSE {}

Strongest(c, r) ==
  LET rank == Rank(Progressed(state, r).mode, r.source)
      old  == past.best[c]
  IN  IF /\ r.type \in {"result", "search"} /\ r.id = c /\ c \in past.open
         /\ status' = "known" /\ rank > old.rank
      THEN [rank |-> rank, outcome |-> r.outcome]
      ELSE IF c \in Ids(out', "requested")
           THEN IF r.type = "search" THEN [rank |-> 2, outcome |-> r.outcome]
                ELSE [rank |-> 0, outcome |-> None]
           ELSE old

Remember(r, used) ==
  past' = [open  |-> (past.open \cup Ids(out', "requested")) \ Ids(out', "finished"),
           asked |-> [c \in Calls |-> IF c \in Ids(out', "requested")
                        THEN <<line', out'[CHOOSE i \in DOMAIN out' : out'[i].id = c].ord>>
                        ELSE past.asked[c]],
           begun |-> (past.begun \cup Ids(out', "agent started")) \ Ids(out', "agent finished"),
           live  |-> (past.live \cup Ids(out', "agent started") \cup Reopened(r))
                       \ Ids(out', "agent finished"),
           used  |-> used \cup Ords(out'),
           best  |-> [c \in Calls |-> Strongest(c, r)]]

Init ==
  /\ state = NewState
  /\ line = 0
  /\ rec = Line("none")
  /\ status = "known"
  /\ out = <<>>
  /\ past = [open |-> {}, asked |-> [c \in Calls |-> None], begun |-> {}, live |-> {}, used |-> {},
             best |-> [c \in Calls |-> [rank |-> 0, outcome |-> None]]]

(* The next line is read once nothing is owed for the one before. *)
Decode(r) ==
  /\ line < MaxLines
  /\ state.page = None
  /\ LET d == Decoded(r)
     IN  /\ state' = d.st
         /\ out' = d.events
         /\ status' = d.status
  /\ line' = line + 1
  /\ rec' = r
  /\ Remember(r, {})

(* A line that is no JSON, or has no readable type: `decode` fails, and    *)
(* try_push_fault records a fault and keeps the parser state.              *)
Unreadable ==
  /\ line < MaxLines
  /\ state.page = None
  /\ line' = line + 1
  /\ rec' = Line("unreadable")
  /\ status' = "fault"
  /\ out' = <<>>
  /\ Remember(rec', {})
  /\ UNCHANGED state

NextPage_RestartsItsOrdinals == Reconcile(Start(state, 0), 0)

NextPage_KeepsRoomForANote == Reconcile(Start(state, state.page.ord), 1)

(* decode_continuation: one more page of staged answers. *)
NextPage == Reconcile(Start(state, state.page.ord), 0)

Continue ==
  /\ state.page # None
  /\ LET w == NextPage
     IN  /\ state' = [w.st EXCEPT !.page = IF w.st.pending = <<>> THEN None
                                           ELSE [@ EXCEPT !.ord = w.ord]]
         /\ out' = w.events
  /\ status' = "page"
  /\ rec' = Line("page")
  /\ Remember(rec', past.used)
  /\ UNCHANGED line

(* The agent writes numbered or unnumbered lines. *)
Next ==
  \/ \E b \in Bodies, n \in {None, line} : Decode([b EXCEPT !.ordinal = n])
  \/ Unreadable
  \/ Continue

Spec == Init /\ [][Next]_vars

(* Calls and agents are interchangeable. *)
Symmetry == Permutations(Calls) \cup Permutations(Agents)

-----------------------------------------------------------------------------
(* Every stored state is one `CodexStateV1::decode` accepts, within the    *)
(* byte bound: a state that fails to load would stop its source for good.  *)
TypeOK ==
  /\ Valid(state)
  /\ Size(state) <= StateBound
  /\ state.mode \in Modes
  /\ Len(out) <= MaxEvents
  /\ line \in 0 .. MaxLines

(* Whatever records answer a call, in whatever order and modes, the event  *)
(* carries the outcome of the strongest one read while it was open.        *)
StrongestAnswerWins ==
  \A i \in DOMAIN out : out[i].kind = "finished" => out[i].outcome = past.best[out[i].id].outcome

(* Every stored state can be loaded again, and no weaker record outdoes a  *)
(* stronger one.                                                           *)
StateAndAnswersAreSound == TypeOK /\ StrongestAnswerWins

(* A call or agent is only finished while it is open, and a finished call  *)
(* names the last request given for it: nothing is answered twice, and no  *)
(* page repeats what the record before it gave.  An agent a line for two   *)
(* agents named may have been opened again (AgentsFinishOnce).             *)
FinishesWhatIsOpen ==
  [][\A i \in DOMAIN out' :
       /\ out'[i].kind = "finished" =>
            out'[i].id \in past.open /\ out'[i].req = past.asked[out'[i].id]
       /\ out'[i].kind = "agent finished" => out'[i].id \in past.live]_vars

(* Events are identified by line and ordinal: a record and its pages never *)
(* use an ordinal twice, or a later event would be taken for a replay.     *)
OrdinalsAreFresh ==
  [][/\ Cardinality(Ords(out')) = Len(out')
     /\ status' = "page" => Ords(out') \cap past.used = {}]_vars

(* An answer of the strongest rank is given with its own line, however     *)
(* full the state is.  Only a line that lists more changes than MAX_EVENTS *)
(* does not give it: it is oversized, and gives nothing at all.            *)
StrongestIsGivenAtOnce ==
  [][(/\ line' # line /\ rec'.type = "result" /\ rec'.id \in past.open
      /\ status' \in {"known", "oversized"} /\ Rank(state'.mode, rec'.source) = 3)
        => IF ListsTooMany(rec') THEN status' = "oversized" /\ out' = <<>>
           ELSE rec'.id \in Ids(out', "finished")]_vars

(* A requested call that has no answer yet, also because the line with its *)
(* answer was refused, can still be answered: no eviction forgets it.      *)
OpenCallsCanBeAnswered ==
  [][\A c \in past'.open : Has(state'.calls, c) \/ Has(state'.pending, c)]_vars

(* Every page gives at least one staged answer, whatever it names, so the  *)
(* line that owes pages is done in the end and the next one is read.       *)
PagesMakeProgress ==
  [][status' = "page" => Len(state'.pending) < Len(state.pending)]_vars

(* No answer is held up: the strongest is given at once, the others with a *)
(* page each at the latest, and a refused one leaves its call open.        *)
AnswersAreNotHeldUp ==
  StrongestIsGivenAtOnce /\ OpenCallsCanBeAnswered /\ PagesMakeProgress

(* tests/codex_reconcile.rs (177, 488): replayed finishes of an agent are  *)
(* deduplicated, and one that was forgotten has to start again: no finish  *)
(* without a start that is not yet finished.                               *)
AgentsFinishOnce ==
  [][\A i \in DOMAIN out' : out'[i].kind = "agent finished" => out'[i].id \in past.begun]_vars

(* docs/plans/2026-07-17-001 (3406): a malformed record does not hide the  *)
(* valid record that follows it.                                           *)
MalformedHidesNothing ==
  [][(rec'.type = "note" /\ rec'.ordinal = line /\ line' # line) => status' = "known"]_vars
=============================================================================
