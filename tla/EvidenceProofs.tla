--------------------------- MODULE EvidenceProofs ---------------------------
(***************************************************************************)
(* Proofs about EvidenceStore for any evidence, any bound on attempts and  *)
(* any size of a listing's window: rows and files agree on what is         *)
(* available.                                                              *)
(***************************************************************************)
EXTENDS EvidenceStore, FiniteSetTheorems, SequenceTheorems, TLAPS

-----------------------------------------------------------------------------
(* What no job can take away: evidence that is available and was not       *)
(* stored again has its blob and no job.                                   *)
Safe(e) == row[e] = "available" /\ e \notin restored => e \in blob /\ jobs[e] = <<>>

(* A correction's name before its correction: no row, no job, not due.     *)
Fresh(c) == c \notin used => row[c] = Absent /\ jobs[c] = <<>> /\ c \notin due

(* What the command between the two stores relies on.                      *)
WriterOK ==
  /\ writer.doing = "commit"  => writer.id \in Recorded /\ writer.id \in blob
  /\ writer.doing = "correct" =>
       writer.id \in used /\ writer.id \in blob /\ jobs[writer.id] = <<>>
  /\ writer.doing = "unlink"  => writer.job \in DOMAIN jobs[writer.id]

IInv ==
  /\ TypeOK
  /\ leftovers <= crashes
  /\ \A e \in Evidence : Safe(e)
  /\ \A c \in Corrections : Fresh(c)
  /\ WriterOK

-----------------------------------------------------------------------------
(* SetToSeq lists a finite set: its elements and nothing else.             *)
LEMMA ListOfASet ==
  ASSUME NEW S, IsFiniteSet(S)
  PROVE  SetToSeq(S) \in Seq(S)
<1>1. /\ Cardinality(S) \in Nat
      /\ ExistsBijection(1 .. Cardinality(S), S)
  BY FS_CardinalityType
<1>2. PICK f \in Bijection(1 .. Cardinality(S), S) : TRUE
  BY <1>1 DEF ExistsBijection
<1>3. f \in [1 .. Cardinality(S) -> S] /\ IsInjective(f)
  BY <1>2 DEF Bijection, Injection, IsInjective
<1>4. SetToSeq(S) \in [1 .. Cardinality(S) -> S]
  BY <1>3 DEF SetToSeq
<1> QED BY <1>1, <1>4, SeqDef

(* The jobs after some names are queued.                                   *)
LEMMA QueuedJobs ==
  ASSUME TypeOK, NEW S \in SUBSET Evidence
  PROVE  /\ Queued(S) \in [Evidence -> Seq(0 .. MaxAttempts)]
         /\ \A e \in Evidence \ S : Queued(S)[e] = jobs[e]
<1>1. 0 \in 0 .. MaxAttempts
  BY EvidenceAssumption
<1>2. ASSUME NEW e \in Evidence
      PROVE  Append(jobs[e], 0) \in Seq(0 .. MaxAttempts)
  BY <1>1, AppendProperties DEF TypeOK
<1> QED BY <1>2 DEF Queued, TypeOK

(* The sequence without one of its elements.                               *)
LEMMA WithoutOne ==
  ASSUME NEW S, NEW s \in Seq(S), NEW j \in DOMAIN s
  PROVE  RemoveAt(s, j) \in Seq(S)
<1>1. j \in 1 .. Len(s)
  OBVIOUS
<1>2. SubSeq(s, 1, j - 1) \in Seq(S)
  BY <1>1
<1>3. SubSeq(s, j + 1, Len(s)) \in Seq(S)
  BY <1>1
<1> QED BY <1>2, <1>3, ConcatProperties DEF RemoveAt

(* The listing and what is left of it after one call.                      *)
LEMMA LookedTypes ==
  ASSUME TypeOK
  PROVE  /\ Looked.rest \in Seq(Evidence \cup {Leftover})
         /\ IsFiniteSet(Evidence)
<1>1. IsFiniteSet(Evidence)
  BY EvidenceAssumption, FS_Union DEF Evidence
<1>2. IsFiniteSet(blob)
  BY <1>1, FS_Subset DEF TypeOK
<1>3. SetToSeq(blob) \in Seq(blob)
  BY <1>2, ListOfASet
<1>4. SetToSeq(blob) \in Seq(Evidence \cup {Leftover})
  BY <1>3, SeqDef DEF TypeOK
<1>5. leftovers \in Nat
  BY EvidenceAssumption DEF TypeOK
<1>6. [i \in 1 .. leftovers |-> Leftover] \in Seq(Evidence \cup {Leftover})
  BY <1>5, SeqDef
<1>7. Listing \in Seq(Evidence \cup {Leftover})
  BY <1>4, <1>6, ConcatProperties DEF Listing
<1>8. ASSUME NEW s \in Seq(Evidence \cup {Leftover})
      PROVE  SubSeq(s, Window + 1, Len(s)) \in Seq(Evidence \cup {Leftover})
  BY EvidenceAssumption
<1>9. Looked.rest \in Seq(Evidence \cup {Leftover})
  BY <1>7, <1>8 DEF Looked, TypeOK
<1> QED BY <1>1, <1>9

-----------------------------------------------------------------------------
(* The invariant holds at the start.                                       *)
LEMMA InitGood == Init => IInv
<1> SUFFICES ASSUME Init PROVE IInv
  OBVIOUS
<1>1. TypeOK
  <2>1. row \in [Evidence -> {Absent, "available", "delete_pending", "expired"}]
    BY DEF Init
  <2>2. jobs \in [Evidence -> Seq(0 .. MaxAttempts)]
    <3>1. <<>> \in Seq(0 .. MaxAttempts)
      OBVIOUS
    <3> QED BY <3>1 DEF Init
  <2>3. scan \in Seq(Evidence \cup {Leftover})
    BY DEF Init
  <2>4. /\ leftovers \in 0 .. MaxCrashes /\ crashes \in 0 .. MaxCrashes
        /\ failures \in 0 .. MaxFailures /\ forgets \in 0 .. MaxForgets
    BY EvidenceAssumption DEF Init
  <2>5. /\ ingested = {} /\ registered \in BOOLEAN /\ work \in BOOLEAN
        /\ blob = {} /\ old = {} /\ due = {} /\ used = {} /\ restored = {} /\ IsIdle
    BY DEF Init, IsIdle
  <2> QED BY <2>1, <2>2, <2>3, <2>4, <2>5 DEF TypeOK
<1>2. \A e \in Evidence : Safe(e)
  BY DEF Init, Safe, Absent
<1>3. \A c \in Corrections : Fresh(c)
  BY DEF Init, Fresh, Evidence
<1>4. WriterOK
  BY DEF Init, WriterOK, Idle
<1> QED BY <1>1, <1>2, <1>3, <1>4, EvidenceAssumption DEF IInv, Init

(* Each conjunct of the types but the jobs' and the listing's needs no     *)
(* more than the definitions.                                              *)
LEMMA NextTypes == IInv /\ [Next]_vars => TypeOK'
<1> SUFFICES ASSUME IInv, [Next]_vars PROVE TypeOK'
  OBVIOUS
<1> USE EvidenceAssumption
<1>0. TypeOK /\ WriterOK /\ leftovers <= crashes
  BY DEF IInv
<1>1. CASE Storing
  <2>1. ASSUME NEW e \in Evidence, CommitBlob(e) PROVE TypeOK'
    BY <1>0, <2>1 DEF CommitBlob, Put, TypeOK, tables, bounds, IsIdle, Idle
  <2>2. ASSUME NEW e \in Evidence, CommitReplay(e) PROVE TypeOK'
    BY <1>0, <2>2 DEF CommitReplay, Put, TypeOK, tables, bounds, IsIdle, Idle
  <2>3. ASSUME NEW e \in Evidence, CorrectBlob(e) PROVE TypeOK'
    BY <1>0, <2>3 DEF CorrectBlob, Put, TypeOK, tables, IsIdle, Idle
  <2>4. CASE CommitRow
    BY <1>0, <2>4 DEF CommitRow, Stored, TypeOK, WriterOK, vault, bounds, IsIdle, Idle
  <2>5. CASE CorrectRow
    BY <1>0, <2>5 DEF CorrectRow, Stored, TypeOK, vault, bounds, IsIdle, Idle
  <2>6. CASE RefuseRow
    BY <1>0, <2>6 DEF RefuseRow, TypeOK, tables, vault, IsIdle, Idle
  <2> QED BY <1>1, <2>1, <2>2, <2>3, <2>4, <2>5, <2>6 DEF Storing
<1>2. CASE Crash
  BY <1>0, <1>2 DEF Crash, TypeOK, tables, vault, IsIdle, Idle
<1>3. CASE CrashInPut
  BY <1>0, <1>3 DEF CrashInPut, TypeOK, tables, IsIdle, Idle
<1>4. ASSUME NEW e \in Evidence, Age(e) PROVE TypeOK'
  BY <1>0, <1>4 DEF Age, TypeOK, tables, bounds, IsIdle
<1>5. ASSUME NEW e \in Evidence, Expire(e) PROVE TypeOK'
  BY <1>0, <1>5 DEF Expire, TypeOK, tables, vault, bounds, IsIdle
<1>6. CASE Register
  BY <1>0, <1>6 DEF Register, TypeOK, vault, bounds, IsIdle
<1>7. CASE PublishWork
  BY <1>0, <1>7 DEF PublishWork, TypeOK, vault, bounds, IsIdle
<1>8. CASE ForgetWork
  <2>1. Rows \cap Corrections \in SUBSET Evidence
    BY DEF Rows
  <2>2. jobs' \in [Evidence -> Seq(0 .. MaxAttempts)]
    BY <1>0, <1>8, <2>1, QueuedJobs DEF ForgetWork
  <2> QED BY <1>0, <1>8, <2>2 DEF ForgetWork, Deleted, TypeOK, vault, bounds, IsIdle
<1>9. CASE ForgetProject
  <2>1. Rows \in SUBSET Evidence
    BY DEF Rows
  <2>2. jobs' \in [Evidence -> Seq(0 .. MaxAttempts)]
    BY <1>0, <1>9, <2>1, QueuedJobs DEF ForgetProject
  <2>3. row' \in [Evidence -> {Absent, "available", "delete_pending", "expired"}]
    BY <1>0, <1>9 DEF ForgetProject, Deleted, TypeOK
  <2>4. /\ writer' = writer /\ writer = Idle
        /\ <<blob, old, leftovers, scan, failures, crashes, used>>'
             = <<blob, old, leftovers, scan, failures, crashes, used>>
        /\ ingested' = {} /\ registered' = FALSE /\ work' = FALSE /\ due' = {} /\ restored' = {}
    BY <1>9 DEF ForgetProject, vault, IsIdle
  <2>5. forgets' \in 0 .. MaxForgets
    BY <1>0, <1>9 DEF ForgetProject, TypeOK
  <2> QED BY <1>0, <2>2, <2>3, <2>4, <2>5 DEF TypeOK, IsIdle
<1>10. CASE RunRetention
  <2>1. Pending \in SUBSET Evidence
    BY DEF Pending
  <2>2. jobs' \in [Evidence -> Seq(0 .. MaxAttempts)]
    BY <1>0, <1>10, <2>1, QueuedJobs DEF RunRetention
  <2> QED BY <1>0, <1>10, <2>2 DEF RunRetention, Marked, TypeOK, vault, bounds, IsIdle
<1>11. CASE CleanupOrphans
  <2>1. scan' \in Seq(Evidence \cup {Leftover})
    BY <1>0, <1>11, LookedTypes DEF CleanupOrphans
  <2>2. failures' \in 0 .. MaxFailures
    <3>1. PICK kept \in SUBSET Orphans(Looked.seen) :
            failures + Cardinality(kept) <= MaxFailures /\ failures' = failures + Cardinality(kept)
      BY <1>11 DEF CleanupOrphans
    <3>2. kept \in SUBSET Evidence
      BY <1>0 DEF Orphans, TypeOK
    <3>3. Cardinality(kept) \in Nat
      BY <1>0, <3>2, LookedTypes, FS_Subset, FS_CardinalityType
    <3> QED BY <1>0, <3>1, <3>3 DEF TypeOK
  <2>3. blob' \subseteq blob /\ old' \subseteq blob'
    BY <1>11 DEF CleanupOrphans
  <2> QED BY <1>0, <1>11, <2>1, <2>2, <2>3 DEF CleanupOrphans, TypeOK, tables, IsIdle
<1>12. CASE Drain
  <2>1. ASSUME NEW e \in Evidence, NEW j \in 1 .. (1 + MaxForgets), DrainUnlink(e, j)
        PROVE  TypeOK'
    BY <1>0, <2>1 DEF DrainUnlink, TypeOK, tables, bounds, IsIdle, Idle
  <2>2. ASSUME NEW e \in Evidence, NEW j \in 1 .. (1 + MaxForgets), DrainFails(e, j)
        PROVE  TypeOK'
    <3>1. jobs[e] \in Seq(0 .. MaxAttempts) /\ j \in DOMAIN jobs[e]
      BY <1>0, <2>2 DEF DrainFails, TypeOK
    <3>2. jobs[e][j] \in Nat /\ jobs[e][j] + 1 \in 0 .. MaxAttempts
      BY <3>1, <2>2 DEF DrainFails
    <3>3. [jobs[e] EXCEPT ![j] = jobs[e][j] + 1] \in Seq(0 .. MaxAttempts)
      BY <3>1, <3>2, ExceptSeq
    <3>4. jobs' = [jobs EXCEPT ![e] = [jobs[e] EXCEPT ![j] = jobs[e][j] + 1]]
      BY <2>2 DEF DrainFails
    <3>5. jobs' \in [Evidence -> Seq(0 .. MaxAttempts)]
      BY <1>0, <3>3, <3>4 DEF TypeOK
    <3> QED BY <1>0, <2>2, <3>5 DEF DrainFails, TypeOK, vault, IsIdle
  <2> QED BY <1>12, <2>1, <2>2 DEF Drain
<1>13. CASE Settle
  <2>1. writer.id \in Evidence /\ writer.job \in DOMAIN jobs[writer.id]
    BY <1>0, <1>13 DEF Settle, WriterOK, TypeOK, IsIdle, Idle
  <2>2. RemoveAt(jobs[writer.id], writer.job) \in Seq(0 .. MaxAttempts)
    BY <1>0, <2>1, WithoutOne DEF TypeOK
  <2>3. jobs' \in [Evidence -> Seq(0 .. MaxAttempts)]
    BY <1>0, <1>13, <2>2 DEF Settle, TypeOK
  <2> QED BY <1>0, <1>13, <2>1, <2>3 DEF Settle, TypeOK, vault, bounds, IsIdle, Idle
<1>14. CASE UNCHANGED vars
  BY <1>0, <1>14 DEF vars, TypeOK, IsIdle
<1> QED BY <1>1, <1>2, <1>3, <1>4, <1>5, <1>6, <1>7, <1>8, <1>9, <1>10, <1>11, <1>12,
           <1>13, <1>14 DEF Next

-----------------------------------------------------------------------------
(* A step keeps evidence safe.  Where it unlinks, a job named the evidence *)
(* or no row did; where it makes a row available, the blob is there.       *)
LEMMA NextSafe == IInv /\ [Next]_vars => (\A e \in Evidence : Safe(e))'
<1> SUFFICES ASSUME IInv, [Next]_vars, NEW e \in Evidence
             PROVE  Safe(e)'
  OBVIOUS
<1>0. /\ TypeOK /\ WriterOK /\ Safe(e)
      /\ Recorded \cap Corrections = {}
  BY EvidenceAssumption DEF IInv
<1>1. CASE Storing
  <2>1. ASSUME NEW x \in Evidence, CommitBlob(x) \/ CommitReplay(x) \/ CorrectBlob(x)
        PROVE  Safe(e)'
    BY <1>0, <2>1 DEF CommitBlob, CommitReplay, CorrectBlob, Put, tables, bounds, Safe
  <2>2. CASE CommitRow
    BY <1>0, <2>2 DEF CommitRow, Stored, WriterOK, TypeOK, Safe, vault
  <2>3. CASE CorrectRow
    BY <1>0, <2>3 DEF CorrectRow, Stored, WriterOK, TypeOK, Safe, vault
  <2>4. CASE RefuseRow
    BY <1>0, <2>4 DEF RefuseRow, Safe, tables, vault
  <2> QED BY <1>1, <2>1, <2>2, <2>3, <2>4 DEF Storing
<1>2. CASE Crash \/ CrashInPut
  BY <1>0, <1>2 DEF Crash, CrashInPut, Safe, tables, vault
<1>3. ASSUME NEW x \in Evidence, Age(x) \/ Expire(x) PROVE Safe(e)'
  BY <1>0, <1>3 DEF Age, Expire, Safe, tables, vault
<1>4. CASE Register \/ PublishWork
  BY <1>0, <1>4 DEF Register, PublishWork, Safe, vault
<1>5. CASE ForgetWork
  BY <1>0, <1>5 DEF ForgetWork, Rows, Queued, Deleted, Safe, vault, Absent, TypeOK
<1>6. CASE ForgetProject
  BY <1>0, <1>6 DEF ForgetProject, Rows, Queued, Deleted, Safe, vault, Absent, TypeOK
<1>7. CASE RunRetention
  <2>1. row'[e] = "available" => row[e] = "available" /\ Marked[e] = "available"
    BY <1>0, <1>7 DEF RunRetention, Marked, TypeOK
  <2>2. Marked[e] = "available" => jobs'[e] = jobs[e]
    BY <1>0, <1>7 DEF RunRetention, Pending, Queued
  <2> QED BY <1>0, <1>7, <2>1, <2>2 DEF RunRetention, Safe, vault
<1>8. CASE CleanupOrphans
  BY <1>0, <1>8 DEF CleanupOrphans, Orphans, Safe, tables, Absent
<1>9. CASE Drain
  <2>1. ASSUME NEW x \in Evidence, NEW j \in 1 .. (1 + MaxForgets), DrainUnlink(x, j)
        PROVE  Safe(e)'
    <3>1. jobs[x] # <<>>
      BY <2>1 DEF DrainUnlink
    <3> QED BY <1>0, <2>1, <3>1 DEF DrainUnlink, Safe, tables
  <2>2. ASSUME NEW x \in Evidence, NEW j \in 1 .. (1 + MaxForgets), DrainFails(x, j)
        PROVE  Safe(e)'
    <3>1. jobs[x] # <<>>
      BY <2>2 DEF DrainFails
    <3>2. jobs' \in [Evidence -> Seq(0 .. MaxAttempts)] /\ \A y \in Evidence \ {x} : jobs'[y] = jobs[y]
      BY <1>0, <2>2, NextTypes DEF DrainFails, TypeOK
    <3> QED BY <1>0, <2>2, <3>1, <3>2 DEF DrainFails, Safe, vault
  <2> QED BY <1>9, <2>1, <2>2 DEF Drain
<1>10. CASE Settle
  <2>1. writer.id \in Evidence /\ jobs[writer.id] # <<>>
    BY <1>0, <1>10 DEF Settle, WriterOK, TypeOK, IsIdle, Idle
  <2>2. row'[e] = "available" => row[e] = "available"
    BY <1>0, <1>10 DEF Settle, TypeOK
  <2>3. e # writer.id => jobs'[e] = jobs[e]
    BY <1>0, <1>10 DEF Settle, TypeOK
  <2> QED BY <1>0, <1>10, <2>1, <2>2, <2>3 DEF Settle, Safe, vault
<1>11. CASE UNCHANGED vars
  BY <1>0, <1>11 DEF vars, Safe
<1> QED BY <1>1, <1>2, <1>3, <1>4, <1>5, <1>6, <1>7, <1>8, <1>9, <1>10, <1>11 DEF Next

-----------------------------------------------------------------------------
(* A correction's name is used by its correction alone.                    *)
LEMMA NextFresh == IInv /\ [Next]_vars => (\A c \in Corrections : Fresh(c))'
<1> SUFFICES ASSUME IInv, [Next]_vars, NEW c \in Corrections
             PROVE  Fresh(c)'
  OBVIOUS
<1>0. /\ TypeOK /\ WriterOK /\ Fresh(c) /\ c \in Evidence /\ c \notin Recorded
      /\ (writer.doing \in {"commit", "correct", "unlink"} => writer.id \in Evidence)
  BY EvidenceAssumption DEF IInv, Evidence, TypeOK, IsIdle, Idle
<1>1. CASE Storing
  <2>1. ASSUME NEW x \in Evidence, CommitBlob(x) \/ CommitReplay(x) \/ CorrectBlob(x)
        PROVE  Fresh(c)'
    BY <1>0, <2>1 DEF CommitBlob, CommitReplay, CorrectBlob, tables, bounds, Fresh
  <2>2. CASE CommitRow
    BY <1>0, <2>2 DEF CommitRow, Stored, WriterOK, TypeOK, Fresh, bounds
  <2>3. CASE CorrectRow
    BY <1>0, <2>3 DEF CorrectRow, Stored, WriterOK, TypeOK, Fresh, bounds
  <2>4. CASE RefuseRow
    BY <1>0, <2>4 DEF RefuseRow, Fresh, tables
  <2> QED BY <1>1, <2>1, <2>2, <2>3, <2>4 DEF Storing
<1>2. CASE Crash \/ CrashInPut
  BY <1>0, <1>2 DEF Crash, CrashInPut, Fresh, tables
<1>3. ASSUME NEW x \in Evidence, Age(x) \/ Expire(x) PROVE Fresh(c)'
  BY <1>0, <1>3 DEF Age, Expire, Fresh, tables, bounds, Absent
<1>4. CASE Register \/ PublishWork
  BY <1>0, <1>4 DEF Register, PublishWork, Fresh, bounds
<1>5. CASE ForgetWork
  BY <1>0, <1>5 DEF ForgetWork, Rows, Queued, Deleted, Fresh, bounds
<1>6. CASE ForgetProject
  BY <1>0, <1>6 DEF ForgetProject, Rows, Queued, Deleted, Fresh
<1>7. CASE RunRetention
  BY <1>0, <1>7 DEF RunRetention, Marked, Pending, Queued, Fresh, bounds, Absent
<1>8. CASE CleanupOrphans
  BY <1>0, <1>8 DEF CleanupOrphans, Fresh, tables
<1>9. CASE Drain
  BY <1>0, <1>9 DEF Drain, DrainUnlink, DrainFails, Fresh, tables, bounds, TypeOK
<1>10. CASE Settle
  <2>1. writer.id \in Evidence /\ jobs[writer.id] # <<>>
    BY <1>0, <1>10 DEF Settle, WriterOK, TypeOK, IsIdle, Idle
  <2> QED BY <1>0, <1>10, <2>1 DEF Settle, Fresh, bounds, TypeOK
<1>11. CASE UNCHANGED vars
  BY <1>0, <1>11 DEF vars, Fresh
<1> QED BY <1>1, <1>2, <1>3, <1>4, <1>5, <1>6, <1>7, <1>8, <1>9, <1>10, <1>11 DEF Next

-----------------------------------------------------------------------------
(* The command between the two stores finds what it left: no other command *)
(* runs in between, and only it unlinks.                                   *)
LEMMA NextWriter == IInv /\ [Next]_vars => WriterOK'
<1> SUFFICES ASSUME IInv, [Next]_vars PROVE WriterOK'
  OBVIOUS
<1>0. /\ TypeOK /\ WriterOK
      /\ \A c \in Corrections : Fresh(c)
  BY DEF IInv
<1>1. ASSUME writer' = Idle PROVE WriterOK'
  BY <1>1 DEF WriterOK, Idle
<1>2. ASSUME writer' = writer, blob' = blob, jobs' = jobs, used' = used
      PROVE  WriterOK'
  BY <1>0, <1>2 DEF WriterOK
<1>3. ASSUME writer' = writer, writer = Idle PROVE WriterOK'
  BY <1>3, <1>1
<1>4. CASE Storing
  <2>1. ASSUME NEW x \in Evidence, CommitBlob(x) PROVE WriterOK'
    BY <2>1 DEF CommitBlob, Put, WriterOK
  <2>2. ASSUME NEW x \in Evidence, CorrectBlob(x) PROVE WriterOK'
    BY <1>0, <2>2 DEF CorrectBlob, Put, WriterOK, Fresh, tables
  <2>3. ASSUME NEW x \in Evidence, CommitReplay(x) PROVE WriterOK'
    BY <1>3, <2>3 DEF CommitReplay, IsIdle
  <2>4. CASE CommitRow \/ CorrectRow \/ RefuseRow
    BY <1>1, <2>4 DEF CommitRow, CorrectRow, RefuseRow, Stored
  <2> QED BY <1>4, <2>1, <2>2, <2>3, <2>4 DEF Storing
<1>5. CASE Crash \/ Settle
  BY <1>1, <1>5 DEF Crash, Settle
<1>6. CASE CrashInPut \/ Register \/ PublishWork \/ ForgetWork \/ ForgetProject
             \/ RunRetention \/ CleanupOrphans
  BY <1>3, <1>6 DEF CrashInPut, Register, PublishWork, ForgetWork, ForgetProject,
                    RunRetention, CleanupOrphans, IsIdle
<1>7. ASSUME NEW x \in Evidence, Age(x) \/ Expire(x) PROVE WriterOK'
  BY <1>2, <1>7 DEF Age, Expire, tables, vault, bounds
<1>8. CASE Drain
  <2>1. ASSUME NEW x \in Evidence, NEW j \in 1 .. (1 + MaxForgets), DrainUnlink(x, j)
        PROVE  WriterOK'
    BY <2>1 DEF DrainUnlink, WriterOK, tables
  <2>2. ASSUME NEW x \in Evidence, NEW j \in 1 .. (1 + MaxForgets), DrainFails(x, j)
        PROVE  WriterOK'
    BY <1>3, <2>2 DEF DrainFails, IsIdle
  <2> QED BY <1>8, <2>1, <2>2 DEF Drain
<1>9. CASE UNCHANGED vars
  BY <1>2, <1>9 DEF vars
<1> QED BY <1>4, <1>5, <1>6, <1>7, <1>8, <1>9 DEF Next

(* A temporary file is left behind only by a crash.                        *)
LEMMA NextLeftovers == IInv /\ [Next]_vars => (leftovers <= crashes)'
<1> SUFFICES ASSUME IInv, [Next]_vars PROVE (leftovers <= crashes)'
  OBVIOUS
<1>1. leftovers <= crashes /\ leftovers \in Nat /\ crashes \in Nat
  BY EvidenceAssumption DEF IInv, TypeOK
<1>2. \/ leftovers' = leftovers /\ crashes' \in {crashes, crashes + 1}
      \/ leftovers' = leftovers + 1 /\ crashes' = crashes + 1
  BY DEF Next, vars, Storing, Crash, CrashInPut, Age, Expire, Register, PublishWork,
         ForgetWork, ForgetProject, RunRetention, CleanupOrphans, Drain, DrainUnlink,
         DrainFails, Settle, CommitBlob, CommitReplay, CorrectBlob, CommitRow, CorrectRow,
         RefuseRow, Put, vault, bounds
<1> QED BY <1>1, <1>2

-----------------------------------------------------------------------------
(* The inductive invariant: what is available has its blob and no job that *)
(* could take it away, unless it was stored again; the command between two *)
(* stores finds what it wrote; a correction's name is fresh.               *)
THEOREM EvidenceInvariant == Spec => []IInv
<1>1. IInv /\ [Next]_vars => IInv'
  <2> SUFFICES ASSUME IInv, [Next]_vars PROVE IInv'
    OBVIOUS
  <2>1. TypeOK' /\ (leftovers <= crashes)'
    BY NextTypes, NextLeftovers
  <2>2. (\A e \in Evidence : Safe(e))'
    BY NextSafe
  <2>3. (\A c \in Corrections : Fresh(c))'
    BY NextFresh
  <2>4. WriterOK'
    BY NextWriter
  <2> QED BY <2>1, <2>2, <2>3, <2>4 DEF IInv
<1> QED BY <1>1, InitGood, PTL DEF Spec

(* The rows of evidence and the vault's files agree: evidence whose row    *)
(* says available, and that was not stored again under an older deletion   *)
(* job, can be read, whatever crashed, failed or was forgotten before.     *)
THEOREM StoresAlwaysAgree == Spec => []StoresAgree
<1>1. IInv => StoresAgree
  BY DEF IInv, StoresAgree, AvailableMeansStored, Safe
<1> QED BY <1>1, EvidenceInvariant, PTL
=============================================================================
