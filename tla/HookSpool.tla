------------------------------ MODULE HookSpool ------------------------------
(***************************************************************************)
(* The spool directory and the hook processes that write into it           *)
(* (crates/agbox-ingest/src/spool.rs, crates/agbox-cli/src/commands/       *)
(* hook.rs).                                                               *)
(*                                                                         *)
(* An agent runs one short-lived hook process per event.  It verifies the  *)
(* transcript, opens the spool and publishes one entry: written under a    *)
(* temporary name, renamed to its own.  All processes that touch the       *)
(* directory exclude each other by a lock on a file in it; that lock is    *)
(* the operating system's and falls when its holder dies.                  *)
(*                                                                         *)
(* An entry's name is the clock's reading and a sequence number; a hook    *)
(* process uses one number only, so the reading is the name.  Of a signal  *)
(* only the source is kept: its target is Ingestion's, the rest is data.   *)
(* A source and a name that is not there yet are sets of none or one.      *)
(***************************************************************************)
EXTENDS Integers, FiniteSets

CONSTANTS
  Hooks,        \* hook processes
  Nobody,       \* holds the lock when no process does
  Sources,      \* transcripts
  MaxSize,      \* bound: complete records of a transcript
  Clock,        \* bound: readings of the clock, in steps of its resolution
  MaxEntries    \* HookSpoolLimits::max_entries

ASSUME SpoolAssumption ==
  /\ Nobody \notin Hooks
  /\ MaxSize \in Nat \ {0}
  /\ Clock \subseteq Nat /\ Clock # {}
  /\ MaxEntries \in Nat \ {0}

VARIABLES
  file,     \* complete records of each transcript
  entries,  \* the published entries: name to source
  temps,    \* temporary files in the directory
  flock,    \* who holds the lock
  hook      \* each hook process: where it is, its source, its entry's name

spool     == <<entries, temps, flock>>
spoolVars == <<file, spool, hook>>

Idle == [at |-> "idle", source |-> {}, name |-> {}]
Done == [at |-> "done", source |-> {}, name |-> {}]

Place(h, at) == hook' = [hook EXCEPT ![h].at = at]

Ended(h) == hook' = [hook EXCEPT ![h] = Done]

-----------------------------------------------------------------------------
(* flock: exclusive, waited for. *)
Acquire(p) == flock = Nobody /\ flock' = p

Release == flock' = Nobody

(* HookSpool::with_limits: temporary files left by dead processes go.  It  *)
(* is all that happens under this hold of the lock.                        *)
Open == flock = Nobody /\ temps' = {} /\ UNCHANGED <<entries, flock>>

SpoolInit ==
  /\ file = [s \in Sources |-> 0]
  /\ temps = {}
  /\ flock = Nobody
  /\ hook = [h \in Hooks |-> Idle]

(* The agent writes a complete record. *)
Grow(s) ==
  /\ file[s] < MaxSize
  /\ file' = [file EXCEPT ![s] = @ + 1]
  /\ UNCHANGED <<spool, hook>>

-----------------------------------------------------------------------------
(* A hook process starts, verifies its transcript and makes its signal. *)
Notice(h, s) ==
  /\ hook[h].at = "idle"
  /\ hook' = [hook EXCEPT ![h].at = "noticed", ![h].source = {s}]
  /\ UNCHANGED <<file, spool>>

OpenSpool(h) ==
  /\ hook[h].at = "noticed"
  /\ Open
  /\ Place(h, "opened")
  /\ UNCHANGED file

HasRoom == Cardinality(DOMAIN entries) < MaxEntries

LockSpool_NoLock(h) ==
  /\ hook[h].at = "opened"
  /\ HasRoom
  /\ temps' = {}
  /\ Place(h, "scanned")
  /\ UNCHANGED <<file, entries, flock>>

(* HookSpool::enqueue: locks, removes temporary files, counts the entries. *)
LockSpool(h) ==
  /\ hook[h].at = "opened"
  /\ Acquire(h)
  /\ HasRoom
  /\ temps' = {}
  /\ Place(h, "scanned")
  /\ UNCHANGED <<file, entries>>

RefuseFull(h) ==
  /\ hook[h].at = "opened"
  /\ flock = Nobody
  /\ ~HasRoom
  /\ temps' = {}
  /\ Ended(h)
  /\ UNCHANGED <<file, entries, flock>>

(* next_name reads the clock, which may be set back. *)
WriteTemp(h) ==
  /\ hook[h].at = "scanned"
  /\ \E t \in Clock :
       /\ temps' = temps \cup {t}
       /\ hook' = [hook EXCEPT ![h].at = "written", ![h].name = {t}]
  /\ UNCHANGED <<file, entries, flock>>

(* The rename replaces nothing. *)
Publish(h) ==
  /\ hook[h].at = "written"
  /\ \E t \in hook[h].name :
       /\ t \in temps /\ t \notin DOMAIN entries
       /\ temps' = temps \ {t}
       /\ entries' = [u \in DOMAIN entries \cup {t} |->
                        IF u = t THEN hook[h].source ELSE entries[u]]
  /\ Release
  /\ Ended(h)
  /\ UNCHANGED file

PublishFails_KeepsLock(h) ==
  /\ hook[h].at = "written"
  /\ \E t \in hook[h].name :
       /\ t \notin temps \/ t \in DOMAIN entries
       /\ temps' = temps \ {t}
  /\ Ended(h)
  /\ UNCHANGED <<file, entries, flock>>

(* Two hooks read the same time: the second fails, its temporary goes. *)
PublishFails(h) ==
  /\ hook[h].at = "written"
  /\ \E t \in hook[h].name :
       /\ t \notin temps \/ t \in DOMAIN entries
       /\ temps' = temps \ {t}
  /\ Release
  /\ Ended(h)
  /\ UNCHANGED <<file, entries>>

(* The process is killed: its temporary file stays, its lock falls. *)
HookDies(h) ==
  /\ hook[h].at \notin {"idle", "done"}
  /\ flock' = IF flock = h THEN Nobody ELSE flock
  /\ Ended(h)
  /\ UNCHANGED <<file, entries, temps>>

HookStep(h) ==
  \/ OpenSpool(h)
  \/ LockSpool(h)
  \/ RefuseFull(h)
  \/ WriteTemp(h)
  \/ Publish(h)
  \/ PublishFails(h)

-----------------------------------------------------------------------------
SpoolTypeOK ==
  /\ file \in [Sources -> 0..MaxSize]
  /\ DOMAIN entries \subseteq Clock
  /\ \A t \in DOMAIN entries : entries[t] \subseteq Sources
  /\ temps \subseteq Clock
  /\ \A h \in Hooks : hook[h].source \subseteq Sources /\ hook[h].name \subseteq Clock

(* Nobody removes the temporary file of a process that is still writing:   *)
(* every process removes all temporary files it sees, and only the lock    *)
(* keeps it from seeing a live one.                                        *)
LiveTempsStay == \A h \in Hooks : hook[h].at = "written" => hook[h].name \subseteq temps

(* The cap on entries holds although it is checked well before an entry is *)
(* added.                                                                  *)
WithinLimit == Cardinality(DOMAIN entries) <= MaxEntries

(* The spool is safe for the processes that share it. *)
SpoolSafe == LiveTempsStay /\ WithinLimit
=============================================================================
