--------------------------- MODULE MCPublication ---------------------------
(* Publication for TLC: two projects in one page, two concurrent callers.  *)
EXTENDS Publication, TLC

CONSTANTS u1, u2

MCProjects   == {1, 2}
MCPublishers == {u1, u2}

(* One caller, as in the daemon, and no other process. *)
MCOnePublisher == {u1}

(* The callers are interchangeable. *)
MCSymmetry == Permutations(MCPublishers)
=============================================================================
