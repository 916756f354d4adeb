--------------------------- MODULE MCWorkContract ---------------------------
(* Work items of one project, over a few logs of up to six events.         *)
EXTENDS WorkContract

Event(id, at, kind, key, good, text) ==
  [id |-> id, at |-> at, kind |-> kind, key |-> key, good |-> good,
   trusted |-> TRUE, text |-> text]

(* Identifiers are hashes: their order has nothing to do with the time.    *)
Goal      == Event(5, 1, "objective", 0, FALSE, 11)
File      == Event(3, 1, "artifact", 0, FALSE, 21)
FileAgain == Event(6, 6, "artifact", 0, FALSE, 21)
OtherFile == Event(1, 4, "artifact", 0, FALSE, 22)
Asked     == Event(4, 2, "request", 1, FALSE, 31)
Passed    == Event(2, 5, "finish", 1, TRUE, None)
FailedRun == Event(8, 3, "finish", 1, FALSE, None)
PassedLate == Event(15, 2, "finish", 1, TRUE, None)
OtherFail == Event(7, 4, "finish", 2, FALSE, None)
Reported  == [Event(9, 6, "finish", 1, TRUE, None) EXCEPT !.trusted = FALSE]
Started   == Event(10, 6, "started", 0, FALSE, None)
Stop      == Event(12, 6, "abandon", 0, FALSE, 12)
Forbids   == Event(16, 6, "forbid", 0, FALSE, 14)
Says      == Event(11, 5, "statement", 0, FALSE, 41)
Rule      == Event(13, 2, "constraint", 0, FALSE, 13)
TurnEnds  == Event(14, 6, "turn", 0, FALSE, None)

MCLogs ==
  {<<Goal, File, Asked, Passed, FileAgain, Reported>>,
   <<File, Asked, Passed, FailedRun, TurnEnds, FileAgain>>,
   <<Asked, File, OtherFail, Passed, Goal, Says>>,
   <<File, Rule, Passed, Started, Reported, Stop>>,
   <<File, OtherFile, FailedRun, PassedLate, Passed>>,
   <<Rule, File, Asked, Forbids, Passed>>}

Plain == [explicit |-> None, continuation |-> None, repository |-> None,
          branch |-> None, semantic |-> 0]
MCRequests ==
  {Plain,
   [Plain EXCEPT !.repository = 1, !.semantic = 10000],
   [Plain EXCEPT !.explicit = 1]}

MCCorrections == {<<"objective", 71>>, <<"next", 72>>}

Proposal(field, text, refs) == [field |-> field, text |-> text, refs |-> refs]
MCProposals ==
  {<<>>,
   <<Proposal("objective", 94, {5}), Proposal("summary", 92, {3})>>,
   <<Proposal("objective", 11, {5}), Proposal("verification", 93, {2})>>}
=============================================================================
