--------------------------- MODULE ClaudeDecoder ----------------------------
(***************************************************************************)
(* The Claude transcript decoder                                           *)
(* (crates/agbox-adapters/src/claude/decode.rs and state.rs).              *)
(*                                                                         *)
(* A line is one record: a message of several blocks, a result, a system   *)
(* or a metadata record.  The parser state links tool results to the       *)
(* requests before them, agents to the call that spawned them, and keeps   *)
(* the session context.  A call that fails keeps the state it was given.   *)
(*                                                                         *)
(* Texts, names and digests are left out, and a byte bound is a bound on   *)
(* entries.                                                                *)
(***************************************************************************)
EXTENDS DecoderState

CONSTANTS
  Tools,     \* native tool-use ids
  Agents,    \* sub-agent ids
  Records,   \* record ids (uuid)
  Values,    \* values of one field of the session context
  MaxTools,  \* MAX_UNRESOLVED_TOOLS
  MaxQueue,  \* MAX_KNOWN_AGENTS, MAX_FINISHED_AGENTS, MAX_ASSISTANT_SPAWNS
  MaxOutput, \* MAX_RECORD_SEMANTIC_BYTES, in events and entries of the state
  MaxBlocks  \* bound: blocks of one message

Outcomes == {"succeeded", "failed", "cancelled"}
Fields   == {"cwd", "mode"}

VARIABLES
  state,   \* durable: ClaudeStateV1
  line,    \* lines read so far
  status,  \* DecodeStatus of the line read last
  out,     \* the events it gave
  past     \* history: what the events so far have said

vars == <<state, line, status, out, past>>

-----------------------------------------------------------------------------
NoContext == [f \in Fields |-> None]

NewState ==
  [tools |-> <<>>, known |-> <<>>, finished |-> <<>>, spawns |-> <<>>,
   turn |-> FALSE, context |-> NoContext]

Size(st) ==
  Len(st.tools) + Len(st.known) + Len(st.finished) + Len(st.spawns)
    + (IF st.turn THEN 1 ELSE 0) + (IF st.context = NoContext THEN 0 ELSE 1)

(* fit_serialized_bound gives up open tool requests last. *)
Evict(st) ==
  CASE st.known # <<>>         -> [st EXCEPT !.known = Tail(@)]
    [] st.known = <<>> /\ st.finished # <<>> -> [st EXCEPT !.finished = Tail(@)]
    [] st.known = <<>> /\ st.finished = <<>> /\ st.spawns # <<>> -> [st EXCEPT !.spawns = Tail(@)]
    [] OTHER ->
         IF st.turn THEN [st EXCEPT !.turn = FALSE]
         ELSE IF st.context # NoContext THEN [st EXCEPT !.context = NoContext]
         ELSE [st EXCEPT !.tools = Tail(@)]

Fit(st) ==
  FoldLeft(LAMBDA s, i : Evict(s), st, [i \in 1 .. Larger(0, Size(st) - StateBound) |-> i])

Store(w, st) == IF w.error # None THEN w ELSE [w EXCEPT !.st = Fit(st)]

(* ClaudeStateV1::validate *)
Valid(st) ==
  /\ Len(st.tools) <= MaxTools
  /\ \A q \in {st.known, st.finished, st.spawns} : Len(q) <= MaxQueue

-----------------------------------------------------------------------------
(* Events are identified by line and ordinal: what a record gives once has *)
(* an ordinal of its own, and block i has three.                           *)
Ordinal_OfThePosition(index, kind) == index + kind

Ordinal(index, kind) == 4 * index + kind

(* `cor` is the correlation, `cause` the causation of an event. *)
Event(kind, id, cor, cause, outcome, ord) ==
  [kind |-> kind, id |-> id, cor |-> cor, cause |-> cause, outcome |-> outcome, ord |-> ord]

Emit(w, kind, ord) == Push(w, Event(kind, None, None, None, None, ord))

(* make_event_with_privacy: the parent record (parentUuid) is the cause of *)
(* every event of a record that names one, in place of the event's own.    *)
ParentRecord(r) == IF r.follows THEN <<line>> ELSE None

CausedBy_OwnCauseFirst(r, events) ==
  [i \in DOMAIN events |->
     IF r.follows /\ events[i].cause = None THEN [events[i] EXCEPT !.cause = ParentRecord(r)]
     ELSE events[i]]

CausedBy(r, events) ==
  [i \in DOMAIN events |->
     IF r.follows THEN [events[i] EXCEPT !.cause = ParentRecord(r)] ELSE events[i]]

Diagnostic(w, ord) == Emit(w, "diagnostic", ord)

Message(w) == Emit(w, "message", 0)

(* insert_tool: a request repeated with the same id replaces the first. *)
InsertTool_KeepsTheFirst(w, link) ==
  IF Has(w.st.tools, link.id) THEN w
  ELSE Store(w, [w.st EXCEPT !.tools = Newest(Append(@, link), MaxTools)])

InsertTool(w, link) ==
  Store(w, [w.st EXCEPT !.tools = Newest(Append(Drop(@, link.id), link), MaxTools)])

(* emit_tool_request *)
RequestTool(w, i, b) ==
  LET ord == Ordinal(i - 1, 1)
  IN  IF b.id = None THEN Fail(w, "fault")
      ELSE InsertTool(Push(w, Event("requested", b.id, b.id, None, None, ord)),
                      [id |-> b.id, req |-> <<line + 1, ord>>, write |-> b.tool = "write"])

TakeTool(w, id) == [w EXCEPT !.st.tools = Drop(@, id)]

(* emit_tool_result and emit_artifact_change: a result nobody asked for is *)
(* ignored; a successful write also changes the path of its request.       *)
ToolResult(w, i, b) ==
  LET link   == Entry(w.st.tools, b.id)
      failed == b.failed = TRUE
      done   == Push(TakeTool(w, b.id),
                     Event("finished", b.id, b.id, link.req,
                           IF failed THEN "failed" ELSE "succeeded", Ordinal(i - 1, 2)))
  IN  IF b.id = None THEN Fail(w, "fault")
      ELSE IF w.error # None \/ ~Has(w.st.tools, b.id) THEN w
      ELSE IF failed \/ ~link.write THEN done
      ELSE Push(done, Event("artifact", b.id, b.id, <<line + 1, Ordinal(i - 1, 2)>>, None,
                            Ordinal(i - 1, 3)))

(* set_assistant_spawn: an assistant record spawns agents only through the *)
(* one call of a spawning tool it makes; two are ambiguous.                *)
SpawnCalls(r) ==
  {<<line + 1, Ordinal(i - 1, 1)>> : i \in {j \in DOMAIN r.blocks : r.blocks[j].tool = "spawn"}}

AssistantSpawn(r) ==
  LET calls == SpawnCalls(r)
  IN  IF Cardinality(calls) = 1 THEN calls ELSE {}

SetSpawn(w, r) ==
  LET others == Drop(w.st.spawns, r.id)
  IN  Store(w, [w.st EXCEPT !.spawns =
        IF AssistantSpawn(r) = {} THEN others
        ELSE Newest(Append(others, [id |-> r.id, req |-> CHOOSE q \in AssistantSpawn(r) : TRUE]),
                    MaxQueue)])

-----------------------------------------------------------------------------
(* Agents: the state changes at once, the events wait for the end of the   *)
(* record.  What the record found known or finished when it came to its    *)
(* agents has no event, even if its other agent evicted it meanwhile       *)
(* (`previously_seen`, `previously_finished`).                             *)
Remembers(st, a) == Has(st.known, a) \/ Has(st.finished, a)

(* The events of a record's agents name the call that spawned them as      *)
(* their correlation.                                                      *)
StartAgent(w, before, a, i, spawn) ==
  LET next == Store(w, [w.st EXCEPT !.known = Newest(Append(@, [id |-> a]), MaxQueue)])
  IN  IF w.error # None \/ Remembers(w.st, a) THEN w
      ELSE IF ~Has(next.st.known, a) \/ Remembers(before, a) THEN next
      ELSE [next EXCEPT !.starts =
              Append(@, Event("agent started", a, spawn, None, None, 300 + i - 1))]

StartAgents(w, agents, spawn) ==
  FoldLeft(LAMBDA v, i : StartAgent(v, w.st, agents[i], i, spawn), w, [i \in DOMAIN agents |-> i])

FinishKnownAgent(w, before, a, i, spawn, outcome) ==
  LET next == Store(w, [w.st EXCEPT !.finished =
                          Newest(Append(@, [id |-> a, outcome |-> outcome]), MaxQueue)])
  IN  IF w.error # None \/ Has(w.st.finished, a) THEN w
      ELSE IF ~Has(next.st.finished, a) \/ Has(before.finished, a) THEN next
      ELSE [next EXCEPT !.ends =
              Append(@, Event("agent finished", a, spawn, None, outcome, 340 + i - 1))]

FinishAgent(w, before, a, i, spawn, outcome) ==
  IF Has(w.st.known, a) THEN FinishKnownAgent(w, before, a, i, spawn, outcome) ELSE w

FinishAgents(w, agents, spawn, outcome) ==
  FoldLeft(LAMBDA v, i : FinishAgent(v, w.st, agents[i], i, spawn, outcome), w,
           [i \in DOMAIN agents |-> i])

Finalize(w) ==
  LET v == Store(w, w.st)
  IN  Finalized(v,
        SelectSeq(v.starts, LAMBDA e : Remembers(v.st, e.id)),
        SelectSeq(v.ends, LAMBDA e :
          Has(v.st.finished, e.id) /\ Entry(v.st.finished, e.id).outcome = e.outcome))

-----------------------------------------------------------------------------
(* emit_context_change: fields the record does not give keep their value. *)
Merged(st, r) ==
  [f \in Fields |-> IF r.context[f] # None THEN r.context[f] ELSE st.context[f]]

ContextChange(w, r) ==
  IF w.error # None \/ Merged(w.st, r) = w.st.context THEN w
  ELSE Emit(Store(w, [w.st EXCEPT !.context = Merged(w.st, r)]), "context", 256)

(* decode_user: the message, then the results in block order.  A single    *)
(* result without a verdict of its own takes the record's.                 *)
Results(r) ==
  LET results == {i \in DOMAIN r.blocks : r.blocks[i].kind = "result"}
  IN  [i \in DOMAIN r.blocks |->
         IF results = {i} /\ r.blocks[i].failed = None
         THEN [r.blocks[i] EXCEPT !.failed = r.failed] ELSE r.blocks[i]]

(* collect_blocks: MAX_MATCHES is MAX_EVENTS_PER_RECORD. *)
Blocks(w, r) == IF Len(r.blocks) > MaxEvents THEN Fail(w, "oversized") ELSE w

User(w, r) ==
  LET read == Blocks(w, r)
      said == Message(read)
      turn == Store(said, [said.st EXCEPT !.turn = TRUE])
  IN  FoldLeftDomain(
        LAMBDA v, i : IF r.blocks[i].kind = "result" THEN ToolResult(v, i, Results(r)[i]) ELSE v,
        IF r.text THEN turn ELSE read, r.blocks)

Assistant(w, r) ==
  LET read  == Blocks(w, r)
      calls == FoldLeftDomain(
                 LAMBDA v, i : IF r.blocks[i].kind = "use" THEN RequestTool(v, i, r.blocks[i]) ELSE v,
                 IF r.text THEN Message(read) ELSE read, r.blocks)
      spawned == SetSpawn(calls, r)
  IN  IF r.failed = TRUE THEN Diagnostic(spawned, 362) ELSE spawned

System(w, r) ==
  CASE r.says = "compacted" -> Emit(w, "compacted", 320)
    [] r.says = "turn"      -> Emit(w, "turn finished", 321)
    [] r.says = "hook"      -> Diagnostic(w, 360)
    [] r.says = "away"      -> Diagnostic(w, 361)
    [] OTHER                -> w

(* decode_activity_record *)
Activity(r) ==
  LET spawn  == IF r.spawner # None /\ Has(state.spawns, r.spawner)
                THEN Entry(state.spawns, r.spawner).req ELSE None
      begun  == IF r.type = "result" THEN Start(state, 0)
                ELSE StartAgents(Start(state, 0), r.agents, spawn)
      aside  == IF r.aside THEN Diagnostic(begun, 322) ELSE begun
      merged == ContextChange(aside, r)
      body   == CASE r.type = "user"      -> User(merged, r)
                  [] r.type = "assistant" -> Assistant(merged, r)
                  [] r.type = "system"    -> System(merged, r)
                  [] OTHER                -> merged
  IN  Finalize(IF r.type = "result" /\ r.says \in Outcomes
               THEN FinishAgents(body, r.agents, spawn, r.says) ELSE body)

(* decode: records that say nothing, or whose identity cannot be read, and *)
(* calls that fail, keep the state they were given.  Output that leaves no *)
(* room for the state is an error of the call, not an oversized record.    *)
Decoded(w, r) ==
  LET kept(s) == [st |-> state, events |-> <<>>, status |-> s]
  IN  CASE r.type = "other"    -> kept("unknown")
        [] r.type = "metadata" -> kept("known")
        [] r.type = "unnamed"  -> kept("malformed")
        [] r.type = "broken"   -> kept("fault")
        [] r.type \in {"user", "assistant", "system", "result", "mode"} ->
             IF w.error # None THEN kept(w.error)
             ELSE IF Len(w.events) + Size(w.st) > MaxOutput THEN kept("fault")
             ELSE [st |-> w.st, events |-> CausedBy(r, w.events), status |-> "known"]

-----------------------------------------------------------------------------
(* The records an agent writes, as far as the decoder tells them apart:    *)
(* `spawner` is the assistant record a record belongs to, and `follows`    *)
(* says that it names the record before it as its parent.                  *)
Empty(type) ==
  [type |-> type, id |-> None, agents |-> <<>>, spawner |-> None, follows |-> FALSE,
   aside |-> FALSE, context |-> NoContext, text |-> FALSE, blocks |-> <<>>, says |-> None,
   failed |-> None]

Uses == {[kind |-> "use", id |-> t, tool |-> k, failed |-> None] :
           t \in Tools, k \in {"write", "spawn"}}
Done == {[kind |-> "result", id |-> t, tool |-> "other", failed |-> f] :
           t \in Tools, f \in {TRUE, None}}
Nameless == {[kind |-> k, id |-> None, tool |-> "other", failed |-> None] :
               k \in {"use", "result", "text"}}

Crowded == [i \in 1 .. MaxEvents + 1 |->
              [kind |-> "text", id |-> None, tool |-> "other", failed |-> None]]

AgentLists == {<<a>> : a \in Agents} \cup {l \in Agents \X Agents : l[1] # l[2]}

Lines ==
  {Empty(t) : t \in {"other", "metadata", "unnamed", "broken"}}
  \cup {[Empty("mode") EXCEPT !.context = c] : c \in [Fields -> Values \cup {None}]}
  \cup {[Empty("assistant") EXCEPT !.id = i, !.blocks = b] :
          i \in Records, b \in BoundedSeq(Uses, MaxBlocks) \cup BoundedSeq(Nameless, 1) \cup {Crowded}}
  \cup {[Empty("assistant") EXCEPT !.id = i, !.text = TRUE, !.failed = TRUE, !.follows = TRUE] :
          i \in Records}
  \cup {[Empty("user") EXCEPT !.blocks = b] : b \in BoundedSeq(Done, MaxBlocks)}
  \cup {[Empty("user") EXCEPT !.blocks = <<b>>, !.follows = TRUE] : b \in Done}
  \cup {[Empty("user") EXCEPT !.blocks = <<b>>, !.failed = TRUE] : b \in Done}
  \cup {[Empty("user") EXCEPT !.text = x, !.blocks = b] :
          x \in BOOLEAN, b \in BoundedSeq(Done \cup Nameless, 1) \cup {Crowded}}
  \cup {[Empty("user") EXCEPT !.agents = l, !.spawner = p, !.aside = (p = None),
                              !.follows = (p # None)] :
          l \in AgentLists, p \in Records \cup {None}}
  \cup {[Empty("system") EXCEPT !.says = s] : s \in {"compacted", "turn", "hook", "away", None}}
  \cup {[Empty("result") EXCEPT !.says = s, !.agents = l, !.follows = TRUE] :
          s \in Outcomes \cup {None}, l \in AgentLists}
  \cup {[Empty("result") EXCEPT !.says = "succeeded", !.agents = l, !.spawner = p] :
          l \in AgentLists, p \in Records}

(* What the events of this step add to the history: the last request given *)
(* for each tool not yet answered, the parent this record names, the       *)
(* agents started, and the spawning calls of the last record read with     *)
(* each id.                                                                *)
Remember(r) ==
  past' = [asked   |-> [t \in Tools |->
             IF t \in Ids(out', "requested")
             THEN <<line', (CHOOSE e \in Range(out') :
                              /\ e.kind = "requested" /\ e.id = t
                              /\ \A f \in Range(out') : f.kind = "requested" /\ f.id = t
                                                          => f.ord <= e.ord).ord>>
             ELSE IF t \in Ids(out', "finished") THEN None ELSE past.asked[t]],
           parent  |-> ParentRecord(r),
           started |-> past.started \cup Ids(out', "agent started"),
           spawns  |-> IF r.type = "assistant" /\ status' = "known"
                       THEN [past.spawns EXCEPT ![r.id] =
                         {<<line', e.ord>> : e \in {f \in Range(out') : f.kind = "requested"
                             /\ \E i \in DOMAIN r.blocks :
                                  r.blocks[i].tool = "spawn" /\ f.ord = Ordinal(i - 1, 1)}}]
                       ELSE past.spawns]

Init ==
  /\ state = NewState
  /\ line = 0
  /\ status = "known"
  /\ out = <<>>
  /\ past = [asked |-> [t \in Tools |-> None], parent |-> None, started |-> {},
              spawns |-> [i \in Records |-> {}]]

Decode(r) ==
  /\ line < MaxLines
  /\ \E d \in {Decoded(w, r) : w \in {Activity(r)}} :
       /\ state' = d.st
       /\ out' = d.events
       /\ status' = d.status
  /\ line' = line + 1
  /\ Remember(r)

Next == \E r \in Lines : Decode(r)

Spec == Init /\ [][Next]_vars

-----------------------------------------------------------------------------
(* Every stored state is one `ClaudeStateV1::decode` accepts, within the   *)
(* byte bound: a state that fails to load would stop its source for good.  *)
TypeOK ==
  /\ Valid(state)
  /\ Size(state) <= StateBound
  /\ Len(out) <= MaxEvents
  /\ line \in 0 .. MaxLines

(* Events are identified by line and ordinal: those of one record never    *)
(* share an ordinal, or the second would be taken for a replay.            *)
OrdinalsDiffer == Cardinality(Ords(out)) = Len(out)

(* Every stored state can be loaded again, and events keep apart.          *)
StateAndEventsAreSound == TypeOK /\ OrdinalsDiffer

(* A result is only given for a tool whose last request is not answered,   *)
(* and only once: no failed, repeated or forgotten record makes it answer  *)
(* another.  Its cause is that request, or the parent its record names.    *)
ResultsAnswerTheirRequest ==
  [][\A e \in Range(out') : e.kind = "finished" =>
       /\ past.asked[e.id] # None
       /\ e.cor = e.id
       /\ e.cause = IF past'.parent # None THEN past'.parent ELSE past.asked[e.id]]_vars

(* A changed file is given only beside the successful result of its call,  *)
(* which causes it unless the record names a parent.                       *)
ArtifactsFollowTheirResult ==
  [][\A e \in Range(out') : e.kind = "artifact" =>
       \E f \in Range(out') :
         /\ f.kind = "finished" /\ f.id = e.id /\ f.cor = e.cor /\ f.outcome = "succeeded"
         /\ e.cause = IF past'.parent # None THEN past'.parent ELSE <<line', f.ord>>]_vars

(* All events of a record that names a parent, and only they and the two   *)
(* kinds above, have a cause (tests/claude_graph.rs, 155-173).             *)
OthersFollowTheParent ==
  [][\A e \in Range(out') :
       e.kind \notin {"finished", "artifact"} => e.cause = past'.parent]_vars

(* No agent is said to finish that was never said to start: starts that    *)
(* were staged and then dropped leave no trace in the state.               *)
FinishedAgentsStarted ==
  [][Ids(out', "agent finished") \subseteq past.started]_vars

(* The call an agent's events are correlated with is the only spawning     *)
(* call of the assistant record its record refers to, as it was read last. *)
SpawnsAreUnambiguous ==
  [][\A e \in Range(out') :
       e.kind \in {"agent started", "agent finished"} /\ e.cor # None =>
         \E i \in Records : past.spawns[i] = {e.cor}]_vars

(* Every event names the right cause and the right correlation.            *)
EventsFollowTheirCauses ==
  /\ ResultsAnswerTheirRequest
  /\ ArtifactsFollowTheirResult
  /\ OthersFollowTheParent
  /\ FinishedAgentsStarted
  /\ SpawnsAreUnambiguous

(* The tools, agents and records are interchangeable. *)
Symmetry == Permutations(Tools) \cup Permutations(Agents) \cup Permutations(Records)
=============================================================================
