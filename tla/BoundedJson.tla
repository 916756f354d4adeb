---------------------------- MODULE BoundedJson ----------------------------
(***************************************************************************)
(* The bounded JSON reader of the transcript adapters                      *)
(* (crates/agbox-adapters/src/json.rs): one pass over a document that      *)
(* captures the values at one path of object names.  Arrays are            *)
(* transparent to the path; a match records the indices of the arrays      *)
(* around it.                                                              *)
(*                                                                         *)
(* The parser takes one token a step; its recursion is a stack.  A string  *)
(* is the sequence of the sizes of its decoded characters, since a prefix  *)
(* is cut between characters.  Delimiters, escapes, the spelling of        *)
(* numbers and the schema digest are left out.                             *)
(***************************************************************************)
EXTENDS Integers, Sequences, FiniteSets, SequencesExt

CONSTANTS
  Names,        \* field names
  Path,         \* path: the names that lead to the selected values
  Strings,      \* the strings of a document, as sequences of character sizes
  Numbers,      \* its numbers, likewise
  Literals,     \* true, false and null, likewise
  Limit,        \* selection_limit: bytes kept of one value
  MaxRetained,  \* max_retained_bytes: bytes kept of all values
  MaxMatches,   \* max_matches
  Chosen,       \* selected_indices: the places whose strings are joined
  MaxDepth,     \* MAX_NESTING_DEPTH
  MaxTokens,    \* bound: tokens of a document
  None

ASSUME PathAssumption == Path \in Seq(Names)

VARIABLES
  mode,   \* SelectionMode
  p,      \* Parser
  around, \* history: the containers around the next value, with their names
  seen,   \* history: the values begun at the path, in the order of the document
  tokens  \* tokens read

vars == <<mode, p, around, seen, tokens>>

Modes == {"string", "scalar", "matches", "raw", "joined"}

Least(a, b) == IF a <= b THEN a ELSE b
Sum(s)      == FoldLeft(LAMBDA n, m : n + m, 0, s)

-----------------------------------------------------------------------------
(* StringAccumulator::push: the prefix is closed by the first piece that   *)
(* does not fit, even when a later one would.                              *)
Piece_FillsTheGap(acc, size, limit) ==
  [acc EXCEPT !.total = @ + size, !.cut = @ \/ acc.kept + size > limit,
              !.kept = IF @ + size <= limit THEN @ + size ELSE @]

Piece(acc, size, limit) ==
  LET fits == ~acc.cut /\ acc.kept + size <= limit
  IN  [acc EXCEPT !.total = @ + size, !.cut = ~fits, !.kept = IF fits THEN @ + size ELSE @]

Nothing == [kept |-> 0, total |-> 0, cut |-> FALSE]

Text(acc, sizes, limit) == FoldLeft(LAMBDA a, size : Piece(a, size, limit), acc, sizes)

(* What the matches so far retain, and what one more may. *)
Retained(q) == Sum([i \in DOMAIN q.found |-> q.found[i].kept])
Room(q)     == Least(Limit, MaxRetained - Retained(q))

Fail(q, class) == [q EXCEPT !.error = class]

(* array_indices: the place of the next value in the arrays around it. *)
Arrays(q) == SelectSeq(q.stack, LAMBDA f : f.kind = "array")
At(q)     == [i \in DOMAIN Arrays(q) |-> Arrays(q)[i].index]

(* push_match *)
Push(q, kind, acc) ==
  IF mode \in {"matches", "raw"} /\ Len(q.found) = MaxMatches THEN Fail(q, "too large")
  ELSE IF mode \in {"matches", "raw"} /\ Retained(q) + acc.kept > MaxRetained
  THEN Fail(q, "too large")
  ELSE [q EXCEPT !.found = Append(@, [at |-> At(q), kind |-> kind] @@ acc)]

-----------------------------------------------------------------------------
(* matching_path_index of the value the parser expects. *)
Matched(q) == IF q.stack = <<>> THEN 0 ELSE Last(q.stack).match

Selected(q) ==
  Matched(q) = Len(Path) /\ (mode = "joined" => Chosen = {} \/ At(q) \in Chosen)

(* A raw capture copies every byte up to the end of its value. *)
Copy(q, sizes) ==
  IF q.capture = None THEN q ELSE [q EXCEPT !.capture.acc = Text(@, sizes, q.capture.limit)]

(* A value has ended: an array goes on to its next element, an object to   *)
(* its next member, and a raw capture begun with this value is a match.    *)
EndValue(q) ==
  LET top   == Len(q.stack)
      r     == IF q.capture # None /\ q.capture.depth = top
               THEN [Push(q, "raw", q.capture.acc) EXCEPT !.capture = None] ELSE q
  IN  IF top = 0 THEN [r EXCEPT !.done = TRUE]
      ELSE IF Last(q.stack).kind = "array" THEN [r EXCEPT !.stack[top].index = @ + 1]
      ELSE [r EXCEPT !.stack[top].named = FALSE]

(* parse_value, for a raw selection: the capture begins before the value. *)
Begin(q) ==
  IF mode = "raw" /\ Selected(q) /\ q.capture = None
  THEN [q EXCEPT !.capture = [acc |-> Nothing, limit |-> Room(q), depth |-> Len(q.stack)]]
  ELSE q

(* parse_object, parse_array.  A selected container is a match of its own  *)
(* in the matches mode, and what it holds is then no longer selected.      *)
Open(q, kind) ==
  LET begun == Copy(Begin(q), <<1>>)
      r     == IF mode = "matches" /\ Selected(q) THEN Push(q, "container", Nothing) ELSE begun
      whole == mode \in {"matches", "raw"} /\ Selected(q)
  IN  IF mode \in {"string", "scalar", "joined"} /\ Selected(q)
      THEN Fail(q, "selected container")
      ELSE IF r.error = None /\ Len(q.stack) >= MaxDepth THEN Fail(q, "nesting")
      ELSE [r EXCEPT !.stack = Append(@, [kind |-> kind, index |-> 0, named |-> FALSE,
                                          onpath |-> IF whole THEN None ELSE Matched(q),
                                          match |-> IF whole THEN None ELSE Matched(q)])]

(* A member's name decides whether its value is on the path. *)
Child_KeepsThePath(m, name) ==
  IF m # None /\ m < Len(Path) /\ Path[m + 1] = name THEN m + 1 ELSE m

Child(m, name) ==
  IF m # None /\ m < Len(Path) /\ Path[m + 1] = name THEN m + 1 ELSE None

Name(q, name) ==
  LET top == Len(q.stack)
  IN  [Copy(q, <<1>>) EXCEPT !.stack[top].match = Child(q.stack[top].onpath, name),
                             !.stack[top].named = TRUE]

Close(q) == EndValue([Copy(q, <<1>>) EXCEPT !.stack = Front(@)])

Repeated(q) == mode \in {"string", "scalar"} /\ q.found # <<>>

(* parse_string_value, parse_literal and parse_number.  Strings are cut,   *)
(* but a number is kept whole or refused, and the limit of one value does  *)
(* not bind a literal among repeated values.                               *)
Selection(q, kind, sizes) ==
  CASE mode = "string" ->
         IF kind # "string" THEN Fail(q, "selected non-string")
         ELSE Push(q, kind, Text(Nothing, sizes, Limit))
    [] mode = "scalar" ->
         IF Sum(sizes) > Limit THEN Fail(q, "too large")
         ELSE Push(q, kind, Text(Nothing, sizes, Limit))
    [] mode = "matches" ->
         IF kind = "number" /\ Sum(sizes) > Limit THEN Fail(q, "too large")
         ELSE Push(q, kind, Text(Nothing, sizes, IF kind = "string" THEN Room(q) ELSE Sum(sizes)))
    [] mode = "joined" ->
         IF kind # "string" THEN Fail(q, "selected non-string")
         ELSE IF q.joins = MaxMatches THEN Fail(q, "too large")
         ELSE [q EXCEPT !.joins = @ + 1,
                        !.joined = Text(@, IF q.joins = 0 THEN sizes ELSE <<1>> \o sizes, Limit)]

Leaf(q, kind, sizes) ==
  IF Selected(q) /\ Repeated(q) THEN Fail(q, "duplicate")
  ELSE EndValue(IF Selected(q) /\ mode # "raw" THEN Selection(q, kind, sizes)
                ELSE Copy(Begin(q), IF kind = "string" THEN <<1>> \o sizes \o <<1>> ELSE sizes))

-----------------------------------------------------------------------------
(* The document, token by token. *)
InObject    == p.stack # <<>> /\ Last(p.stack).kind = "object"
AwaitsName  == InObject /\ ~Last(p.stack).named
AwaitsValue == ~p.done /\ ~AwaitsName

(* Documents that can still be completed within the bound. *)
Goes(n) == p.error = None /\ ~p.done /\ tokens + n + Len(p.stack) <= MaxTokens

NamesAround == SelectSeq([i \in DOMAIN around |-> around[i].name], LAMBDA n : n # None)

See(kind, sizes) ==
  seen' = IF NamesAround # Path THEN seen
          ELSE Append(seen, [at |-> At(p), kind |-> kind, sizes |-> sizes,
                             inside |-> \E i \in DOMAIN around : around[i].names = Path])

Init ==
  /\ mode \in Modes
  /\ p = [stack |-> <<>>, found |-> <<>>, capture |-> None, joins |-> 0, joined |-> Nothing,
          error |-> None, done |-> FALSE]
  /\ around = <<>>
  /\ seen = <<>>
  /\ tokens = 0

Read(q) ==
  /\ p' = q
  /\ tokens' = tokens + 1
  /\ UNCHANGED mode

ReadOpen(kind) ==
  /\ Goes(2) /\ AwaitsValue
  /\ Read(Open(p, kind))
  /\ around' = Append(around, [name |-> None, names |-> NamesAround])
  /\ See("container", <<>>)

ReadName(name) ==
  /\ Goes(2) /\ AwaitsName
  /\ Read(Name(p, name))
  /\ around' = [around EXCEPT ![Len(around)].name = name]
  /\ UNCHANGED seen

ReadClose ==
  /\ Goes(0) /\ p.stack # <<>> /\ (InObject => AwaitsName)
  /\ Read(Close(p))
  /\ around' = Front(around)
  /\ UNCHANGED seen

ReadLeaf(kind, sizes) ==
  /\ Goes(1) /\ AwaitsValue
  /\ Read(Leaf(p, kind, sizes))
  /\ See(kind, sizes)
  /\ UNCHANGED around

(* A token the grammar does not allow here, a number that is none, or the  *)
(* end of the input.                                                       *)
Refuse ==
  /\ Goes(0)
  /\ Read(Fail(p, "malformed"))
  /\ UNCHANGED <<around, seen>>

Next ==
  \/ \E kind \in {"object", "array"} : ReadOpen(kind)
  \/ \E name \in Names : ReadName(name)
  \/ ReadClose
  \/ \E string \in Strings : ReadLeaf("string", string)
  \/ \E number \in Numbers : ReadLeaf("number", number)
  \/ \E literal \in Literals : ReadLeaf("literal", literal)
  \/ Refuse

Spec == Init /\ [][Next]_vars

-----------------------------------------------------------------------------
Whole == p.done /\ p.error = None

(* The values a reader of the whole document would select: those whose     *)
(* names are the path, but not those inside a selected container.          *)
Wanted ==
  SelectSeq(seen, LAMBDA v : ~(mode \in {"matches", "raw"} /\ v.inside)
                               /\ (mode = "joined" => Chosen = {} \/ v.at \in Chosen))

(* A document that is read to its end gives exactly the wanted values, in  *)
(* order and with their places; a single value is not given twice.         *)
SelectsExactlyThePath ==
  Whole =>
    CASE mode = "joined" -> p.joins = Len(Wanted)
      [] OTHER           -> /\ Len(p.found) = Len(Wanted)
                            /\ \A i \in DOMAIN Wanted : p.found[i].at = Wanted[i].at
                            /\ mode \in {"string", "scalar"} => Len(Wanted) <= 1

(* The most of `sizes` that fits: whole characters, in order. *)
LongestPrefix(sizes, limit) ==
  LET sums == {Sum(SubSeq(sizes, 1, n)) : n \in 0 .. Len(sizes)}
  IN  CHOOSE n \in sums : n <= limit /\ \A m \in sums : m <= limit => m <= n

JoinedSizes ==
  FoldLeft(LAMBDA s, v : IF s = <<>> /\ v = Head(Wanted) THEN v.sizes ELSE s \o <<1>> \o v.sizes,
           <<>>, Wanted)

(* What is kept of a value is the longest run of whole characters that     *)
(* fits, marked as cut exactly if something is missing, and only strings   *)
(* and raw values are cut; all values together stay within their bounds,   *)
(* also in a document that is refused.                                     *)
KeepsHonestPrefixes ==
  /\ Retained(p) <= MaxRetained
  /\ mode \in {"matches", "raw"} => Len(p.found) <= MaxMatches
  /\ \A i \in DOMAIN p.found : p.found[i].cut <=> p.found[i].kept < p.found[i].total
  /\ \A i \in DOMAIN p.found :
       p.found[i].cut => p.found[i].kind \in {"string", "raw"} /\ mode # "scalar"
  /\ Whole /\ mode = "string" /\ p.found # <<>> =>
       p.found[1].kept = LongestPrefix(Wanted[1].sizes, Limit)
  /\ Whole /\ mode = "joined" /\ Wanted # <<>> =>
       /\ p.joined.kept = LongestPrefix(JoinedSizes, Limit)
       /\ p.joined.total = Sum(JoinedSizes)
=============================================================================
