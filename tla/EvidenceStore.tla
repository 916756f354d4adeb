--------------------------- MODULE EvidenceStore ---------------------------
(***************************************************************************)
(* Encrypted evidence between two stores that share no transaction: the    *)
(* rows of evidence_objects and the deletion queue are SQLite's, the blobs *)
(* are files of the vault (agbox-store: writer.rs commit,                  *)
(* apply_human_correction, forget, run_retention, drain_deletion_queue and *)
(* cleanup_orphans; evidence.rs EvidenceVault).                            *)
(*                                                                         *)
(* All of it runs on the one writer thread, command by command.  What can  *)
(* come in between is the end of the process, a transaction that fails and *)
(* a file that cannot be unlinked.  One project with one work item is      *)
(* modelled; an identifier stands for its content.                         *)
(***************************************************************************)
EXTENDS Integers, Sequences, FiniteSets, SequencesExt

CONSTANTS
  Recorded,      \* evidence of transcript records: its name follows from the record
  Corrections,   \* evidence of human corrections: a fresh name each
  Window,        \* entries one call of orphan_candidates looks at (256)
  MaxAttempts,   \* MAX_DELETE_ATTEMPTS
  MaxFailures,   \* bound: unlinks and transactions that fail
  MaxCrashes,    \* bound: ends of the process
  MaxForgets     \* bound: how often the project is forgotten

ASSUME EvidenceAssumption ==
  /\ IsFiniteSet(Recorded) /\ IsFiniteSet(Corrections)
  /\ Recorded \cap Corrections = {}
  /\ Window \in Nat \ {0}
  /\ MaxAttempts \in Nat /\ MaxFailures \in Nat /\ MaxCrashes \in Nat /\ MaxForgets \in Nat

Evidence == Recorded \cup Corrections
Leftover == "leftover"
Absent == "absent"

VARIABLES
  row,        \* blob_state of each evidence row, or Absent
  jobs,       \* evidence_delete_queue: the attempts made for each job of each name
  ingested,   \* the records the source's cursor has passed
  registered, \* the project and its source are registered
  work,       \* the work item exists
  blob,       \* the vault's files
  old,        \* files that are a day old
  due,        \* rows past their expiry
  leftovers,  \* temporary files nobody owns
  scan,       \* orphan_scan: what is left of the directory's listing
  writer,     \* the command that stands between two stores
  failures, forgets, crashes,
  used,       \* names a correction had (each correction has a fresh one)
  restored    \* ghost: stored again while a deletion job still named it

tables == <<row, jobs, ingested, registered, work>>
vault == <<blob, old, leftovers>>
bounds == <<failures, forgets, crashes, used>>
vars == <<row, jobs, ingested, registered, work, blob, old, due, leftovers, scan,
          writer, failures, forgets, crashes, used, restored>>

Idle == [doing |-> "nothing"]
IsIdle == writer = Idle

TypeOK ==
  /\ row \in [Evidence -> {Absent, "available", "delete_pending", "expired"}]
  /\ jobs \in [Evidence -> Seq(0..MaxAttempts)]
  /\ ingested \subseteq Recorded
  /\ registered \in BOOLEAN /\ work \in BOOLEAN
  /\ blob \subseteq Evidence /\ old \subseteq blob /\ due \subseteq Evidence
  /\ leftovers \in 0..MaxCrashes
  /\ scan \in Seq(Evidence \cup {Leftover})
  /\ \/ IsIdle
     \/ writer.doing \in {"commit", "correct"} /\ writer.id \in Evidence
     \/ writer.doing = "unlink" /\ writer.id \in Evidence /\ writer.job \in Nat
  /\ failures \in 0..MaxFailures /\ forgets \in 0..MaxForgets /\ crashes \in 0..MaxCrashes
  /\ used \subseteq Corrections /\ restored \subseteq Recorded

Init ==
  /\ row = [e \in Evidence |-> Absent]
  /\ jobs = [e \in Evidence |-> <<>>]
  /\ ingested = {} /\ registered = TRUE /\ work = FALSE
  /\ blob = {} /\ old = {} /\ due = {} /\ leftovers = 0
  /\ scan = <<>>
  /\ writer = Idle
  /\ failures = 0 /\ forgets = 0 /\ crashes = 0
  /\ used = {} /\ restored = {}

-----------------------------------------------------------------------------
(* Storing: the blob first, the row in the transaction that follows.       *)

(* EvidenceVault::put, which keeps a file it finds.                         *)
Put(e) == blob' = blob \cup {e} /\ UNCHANGED <<old, leftovers>>

(* commit, up to its transaction, for the record of e.                     *)
CommitBlob(e) ==
  /\ IsIdle /\ registered /\ e \in Recorded \ ingested
  /\ Put(e)
  /\ writer' = [doing |-> "commit", id |-> e]
  /\ UNCHANGED <<tables, due, scan, bounds, restored>>

Stored(e) ==
  /\ row' = [row EXCEPT ![e] = "available"]
  /\ due' = due \ {e}
  /\ writer' = Idle

CommitRow ==
  /\ writer.doing = "commit"
  /\ Stored(writer.id)
  /\ ingested' = ingested \cup {writer.id}
  /\ restored' = IF jobs[writer.id] # <<>> THEN restored \cup {writer.id} ELSE restored
  /\ UNCHANGED <<jobs, registered, work, vault, scan, bounds>>

(* The same chunk again: the rows are compared, then the blobs are put. A   *)
(* row that retention touched since is a conflict.                         *)
CommitReplay(e) ==
  /\ IsIdle /\ registered /\ e \in ingested /\ row[e] = "available"
  /\ Put(e)
  /\ UNCHANGED <<tables, due, scan, writer, bounds, restored>>

(* apply_human_correction: the same order; the work item must exist.        *)
CorrectBlob(e) ==
  /\ IsIdle /\ e \in Corrections \ used
  /\ used' = used \cup {e}
  /\ Put(e)
  /\ writer' = [doing |-> "correct", id |-> e]
  /\ UNCHANGED <<tables, due, scan, failures, forgets, crashes, restored>>

CorrectRow ==
  /\ writer.doing = "correct" /\ work
  /\ Stored(writer.id)
  /\ UNCHANGED <<jobs, ingested, registered, work, vault, scan, bounds, restored>>

(* The transaction fails, or the work item is not there.                   *)
RefuseRow ==
  /\ \/ writer.doing = "correct" /\ ~work /\ UNCHANGED failures
     \/ writer.doing \in {"commit", "correct"} /\ failures < MaxFailures /\ failures' = failures + 1
  /\ writer' = Idle
  /\ UNCHANGED <<tables, vault, due, scan, forgets, crashes, used, restored>>

(* The process ends between the two stores, and starts again.              *)
Crash ==
  /\ ~IsIdle /\ crashes < MaxCrashes
  /\ crashes' = crashes + 1
  /\ writer' = Idle
  /\ scan' = <<>>
  /\ UNCHANGED <<tables, vault, due, failures, forgets, used, restored>>

(* It ends inside put, before the temporary file is linked to its name.     *)
CrashInPut ==
  /\ IsIdle /\ crashes < MaxCrashes
  /\ crashes' = crashes + 1
  /\ leftovers' = leftovers + 1
  /\ scan' = <<>>
  /\ UNCHANGED <<tables, blob, old, due, writer, failures, forgets, used, restored>>

-----------------------------------------------------------------------------
(* Time, and the other commands that these tables see.                     *)

Age(e) ==
  /\ e \in blob \ old
  /\ old' = old \cup {e}
  /\ UNCHANGED <<tables, blob, leftovers, due, scan, writer, bounds, restored>>

Expire(e) ==
  /\ row[e] = "available" /\ e \notin due
  /\ due' = due \cup {e}
  /\ UNCHANGED <<tables, vault, scan, writer, bounds, restored>>

Register ==
  /\ IsIdle /\ ~registered
  /\ registered' = TRUE
  /\ UNCHANGED <<row, jobs, ingested, work, vault, due, scan, writer, bounds, restored>>

PublishWork ==
  /\ IsIdle /\ ~work /\ ingested # {}
  /\ work' = TRUE
  /\ UNCHANGED <<row, jobs, ingested, registered, vault, due, scan, writer, bounds,
                 restored>>

-----------------------------------------------------------------------------
(* forget: one transaction that queues the names and deletes the rows.      *)

Rows == {e \in Evidence : row[e] # Absent}
Queued(S) == [e \in Evidence |-> IF e \in S THEN Append(jobs[e], 0) ELSE jobs[e]]
Deleted(S) == [e \in Evidence |-> IF e \in S THEN Absent ELSE row[e]]

ForgetWork ==
  /\ IsIdle /\ work
  /\ LET S == Rows \cap Corrections IN jobs' = Queued(S) /\ row' = Deleted(S)
  /\ work' = FALSE
  /\ due' = due \ Corrections
  /\ UNCHANGED <<ingested, registered, vault, scan, writer, bounds, restored>>

ForgetProject ==
  /\ IsIdle /\ registered /\ forgets < MaxForgets
  /\ jobs' = Queued(Rows) /\ row' = Deleted(Rows)
  /\ ingested' = {} /\ registered' = FALSE /\ work' = FALSE
  /\ due' = {} /\ restored' = {}
  /\ forgets' = forgets + 1
  /\ UNCHANGED <<vault, scan, writer, failures, crashes, used>>

-----------------------------------------------------------------------------
(* maintenance_tick: the caller's scheduler runs its three phases.          *)

(* run_retention: what is due becomes delete_pending, and every pending row *)
(* without a job gets one.                                                 *)
Marked == [e \in Evidence |-> IF e \in due THEN "delete_pending" ELSE row[e]]
Pending == {e \in Evidence : Marked[e] = "delete_pending" /\ jobs[e] = <<>>}

RunRetention ==
  /\ IsIdle /\ (due # {} \/ Pending # {})
  /\ row' = Marked
  /\ jobs' = Queued(Pending)
  /\ due' = {}
  /\ UNCHANGED <<ingested, registered, work, vault, scan, writer, bounds, restored>>

(* cleanup_orphans: of the next entries of the listing, the old blobs       *)
(* without a row are unlinked.  A listing that has ended is made anew by    *)
(* the next call.                                                          *)
Listing == [i \in 1..leftovers |-> Leftover] \o SetToSeq(blob)
(* Mutant: every call lists the directory anew.                             *)
Looked_FromTheStart ==
  [seen |-> ToSet(SubSeq(Listing, 1, IF Window < Len(Listing) THEN Window ELSE Len(Listing))),
   rest |-> <<>>]

Looked == LET s == IF scan = <<>> THEN Listing ELSE scan
          IN [seen |-> ToSet(SubSeq(s, 1, IF Window < Len(s) THEN Window ELSE Len(s))),
              rest |-> SubSeq(s, Window + 1, Len(s))]
(* Mutant: rows are not asked.                                              *)
Orphans_OfAnyRow(seen) == seen \cap old

Orphans(seen) == {e \in seen \cap old : row[e] = Absent}

CleanupOrphans ==
  /\ IsIdle /\ (scan # <<>> \/ Listing # <<>>)
  /\ scan' = Looked.rest
  /\ \E kept \in SUBSET Orphans(Looked.seen) :
       /\ failures + Cardinality(kept) <= MaxFailures
       /\ failures' = failures + Cardinality(kept)
       /\ blob' = blob \ (Orphans(Looked.seen) \ kept)
       /\ old' = old \cap blob'
  /\ UNCHANGED <<tables, leftovers, due, writer, forgets, crashes, used, restored>>

(* drain_deletion_queue, job by job: the file first, then one transaction.  *)
DrainUnlink(e, j) ==
  /\ IsIdle /\ j \in DOMAIN jobs[e] /\ jobs[e][j] < MaxAttempts
  /\ blob' = blob \ {e} /\ old' = old \ {e}
  /\ writer' = [doing |-> "unlink", id |-> e, job |-> j]
  /\ UNCHANGED <<tables, leftovers, due, scan, bounds, restored>>

(* Mutant: the row is settled by no transaction but the queue's.            *)
Settle_OnlyTheQueue ==
  /\ writer.doing = "unlink"
  /\ jobs' = [jobs EXCEPT ![writer.id] = RemoveAt(@, writer.job)]
  /\ writer' = Idle
  /\ UNCHANGED <<row, ingested, registered, work, vault, due, scan, bounds, restored>>

Settle ==
  /\ writer.doing = "unlink"
  /\ jobs' = [jobs EXCEPT ![writer.id] = RemoveAt(@, writer.job)]
  /\ row' = [row EXCEPT ![writer.id] = IF @ = "delete_pending" THEN "expired" ELSE @]
  /\ writer' = Idle
  /\ UNCHANGED <<ingested, registered, work, vault, due, scan, bounds, restored>>

DrainFails(e, j) ==
  /\ IsIdle /\ j \in DOMAIN jobs[e] /\ jobs[e][j] < MaxAttempts
  /\ failures < MaxFailures
  /\ failures' = failures + 1
  /\ jobs' = [jobs EXCEPT ![e][j] = @ + 1]
  /\ UNCHANGED <<row, ingested, registered, work, vault, due, scan, writer, forgets,
                 crashes, used, restored>>

-----------------------------------------------------------------------------
Storing ==
  \/ \E e \in Evidence : CommitBlob(e) \/ CommitReplay(e) \/ CorrectBlob(e)
  \/ CommitRow \/ CorrectRow \/ RefuseRow

Drain == \E e \in Evidence : \E j \in 1..(1 + MaxForgets) : DrainUnlink(e, j) \/ DrainFails(e, j)

Next ==
  \/ Storing \/ Crash \/ CrashInPut
  \/ \E e \in Evidence : Age(e) \/ Expire(e)
  \/ Register \/ PublishWork \/ ForgetWork \/ ForgetProject
  \/ RunRetention \/ CleanupOrphans \/ Drain \/ Settle

(* The scheduler keeps calling maintenance_tick, whose phases all run; a    *)
(* command that began ends; files grow old.                                *)
Fairness ==
  /\ WF_vars(RunRetention) /\ WF_vars(CleanupOrphans) /\ WF_vars(Drain)
  /\ WF_vars(CommitRow \/ CorrectRow \/ RefuseRow \/ Settle)
  /\ WF_vars(\E e \in Evidence : Age(e))

Spec == Init /\ [][Next]_vars /\ Fairness

-----------------------------------------------------------------------------
(* Properties *)

(* A row that says its evidence is available has its blob, through crashes  *)
(* between the two stores, failed transactions, orphan cleanup and deletion *)
(* jobs.  What was stored again while an older job still named it is the    *)
(* exception: that job unlinks the new blob (EvidenceVault::put before the  *)
(* transaction, drain_deletion_queue).                                     *)
AvailableMeansStored ==
  \A e \in Evidence \ restored : row[e] = "available" => e \in blob

(* The two stores keep their types and agree on what is available.          *)
StoresAgree == TypeOK /\ AvailableMeansStored

(* The same without the exception.                                         *)
AvailableAlwaysStored == \A e \in Evidence : row[e] = "available" => e \in blob

(* No blob outlives its row for good: whatever a forget, a refused          *)
(* correction, a failed transaction or an exhausted deletion job leaves     *)
(* behind is unlinked in time, however many other files the directory       *)
(* lists first (orphan_candidates, drain_deletion_queue).                   *)
NoBlobIsLeftBehind ==
  \A e \in Evidence :
    (e \in blob /\ row[e] = Absent) ~> (e \notin blob \/ row[e] # Absent)

(* A deletion that retention began is settled, unless the unlink failed so  *)
(* often that its job was given up: a crash between the unlink and the      *)
(* transaction does not leave it pending (run_retention,                    *)
(* drain_deletion_queue).                                                  *)
GivenUp(e) == \E j \in DOMAIN jobs[e] : jobs[e][j] = MaxAttempts
DeletionsSettle ==
  \A e \in Evidence :
    row[e] = "delete_pending" ~> (row[e] # "delete_pending" \/ GivenUp(e))
=============================================================================
