------------------------------- MODULE Daemon -------------------------------
(***************************************************************************)
(* The life of the daemon (crates/agbox-cli/src/commands/daemon.rs,        *)
(* crates/agbox-service/src/ipc/unix.rs, and register_source of            *)
(* crates/agbox-store/src/writer.rs): it reserves a socket, registers the  *)
(* transcripts it finds, ingests them, and then drains the hook spool.     *)
(*                                                                         *)
(* Several daemons may be started; any of them may die at any step.  The   *)
(* store, the socket's file and the spool outlive them.                    *)
(*                                                                         *)
(* A transcript's facts are its size: its time of change moves with it.    *)
(* Ingestion has the details of an attempt, WorkerPool those of a queue    *)
(* that is shared; the daemon processes one lease after the other.         *)
(***************************************************************************)
EXTENDS HookSpool

CONSTANTS
  Daemons,    \* daemon processes
  Stale,      \* the socket's file, left by a daemon that is gone
  Undated,    \* transcripts without a trusted session time
  MaxStarts,  \* bound: daemons started
  MaxDeaths   \* bound: processes killed

ASSUME DaemonAssumption ==
  /\ Daemons \cap (Hooks \cup {Nobody, Stale}) = {}
  /\ Stale # Nobody
  /\ MaxStarts \in Nat /\ MaxDeaths \in Nat

VARIABLES
  reg,      \* store: the registered size of each source, 0 for none
  cursor,   \* store: records ingested
  socket,   \* whose socket is at the path: a daemon's, Stale, or Nobody's
  at,       \* where each daemon is
  found,    \* discovered sources it has yet to register, with their sizes
  known,    \* the facts its coordinator has, 0 for none
  waiting,  \* its queue
  listed,   \* entries of the spool it has yet to take
  starts, deaths

store  == <<reg, cursor>>
memory == <<found, known, waiting, listed>>
bounds == <<starts, deaths>>
vars   == <<spoolVars, store, socket, at, memory, bounds>>

Goto(d, place) == at' = [at EXCEPT ![d] = place]

(* The first start finds nothing, or the socket of a daemon that died      *)
(* before it registered anything, and a signal nobody took.                *)
Init ==
  /\ SpoolInit
  /\ reg = [s \in Sources |-> 0]
  /\ cursor = [s \in Sources |-> 0]
  /\ \/ socket = Nobody /\ entries = <<>>
     \/ /\ socket = Stale
        /\ \E s \in Sources : entries = [t \in {CHOOSE t \in Clock : TRUE} |-> {s}]
  /\ at = [d \in Daemons |-> "down"]
  /\ found = [d \in Daemons |-> [s \in Sources |-> 0]]
  /\ known = [d \in Daemons |-> [s \in Sources |-> 0]]
  /\ waiting = [d \in Daemons |-> {}]
  /\ listed = [d \in Daemons |-> {}]
  /\ starts = 0
  /\ deaths = 0

(* A process ends: nothing of its memory is left. *)
Ends(d) ==
  /\ Goto(d, "down")
  /\ found' = [found EXCEPT ![d] = [s \in Sources |-> 0]]
  /\ known' = [known EXCEPT ![d] = [s \in Sources |-> 0]]
  /\ waiting' = [waiting EXCEPT ![d] = {}]
  /\ listed' = [listed EXCEPT ![d] = {}]

(* ... and so does its socket, if it is still at the path, but not the     *)
(* socket's file.                                                          *)
LeavesSocket(d) == socket' = IF socket = d THEN Stale ELSE socket

-----------------------------------------------------------------------------
(* BoundUnixListener::bind looks at the path and connects to what it       *)
(* finds; ...                                                              *)
Start(d) ==
  /\ at[d] = "down" /\ starts < MaxStarts
  /\ starts' = starts + 1
  /\ UNCHANGED <<spoolVars, store, socket, memory, deaths>>

FindNoSocket(d) == Start(d) /\ socket = Nobody /\ Goto(d, "create")

FindLiveSocket(d) == Start(d) /\ socket \in Daemons /\ UNCHANGED at

FindStaleSocket(d) == Start(d) /\ socket = Stale /\ Goto(d, "unlink")

(* ... removes what is at the path by now, ... *)
RemoveStale(d) ==
  /\ at[d] = "unlink"
  /\ socket # Nobody
  /\ socket' = Nobody
  /\ Goto(d, "create")
  /\ UNCHANGED <<spoolVars, store, memory, bounds>>

NothingToRemove(d) ==
  /\ at[d] = "unlink"
  /\ socket = Nobody
  /\ Ends(d)
  /\ UNCHANGED <<spoolVars, store, socket, bounds>>

(* ... and creates its own, unless there is one. *)
CreateSocket(d) ==
  /\ at[d] = "create"
  /\ socket = Nobody
  /\ socket' = d
  /\ Goto(d, "discover")
  /\ UNCHANGED <<spoolVars, store, memory, bounds>>

SocketInUse(d) ==
  /\ at[d] = "create"
  /\ socket # Nobody
  /\ Ends(d)
  /\ UNCHANGED <<spoolVars, store, socket, bounds>>

-----------------------------------------------------------------------------
(* bootstrap_sources: a page of the walk, with the sizes of its files; the *)
(* history policy leaves out files without a trusted time.                 *)
Discover(d) ==
  /\ at[d] = "discover"
  /\ found' = [found EXCEPT ![d] =
                 [s \in Sources |-> IF s \in Undated THEN 0 ELSE file[s]]]
  /\ Goto(d, "register")
  /\ UNCHANGED <<spoolVars, store, socket, known, waiting, listed, bounds>>

Forgotten(d, s) == found' = [found EXCEPT ![d][s] = 0]

(* source_project: the file has changed since. *)
SkipChanged(d, s) ==
  /\ at[d] = "register"
  /\ found[d][s] \notin {0, file[s]}
  /\ Forgotten(d, s)
  /\ UNCHANGED <<spoolVars, store, socket, at, known, waiting, listed, bounds>>

(* Registered in the coordinator, and queued. *)
TakeUp(d, s) ==
  /\ Forgotten(d, s)
  /\ known' = [known EXCEPT ![d][s] = found[d][s]]
  /\ waiting' = [waiting EXCEPT ![d] = @ \cup {s}]

(* register_source of the store, at cursor 0: new, or exactly as it is.    *)
(* The file may grow between the check of source_project and here.         *)
Register(d, s) ==
  /\ at[d] = "register"
  /\ found[d][s] # 0
  /\ reg[s] = 0 \/ (reg[s] = found[d][s] /\ cursor[s] = 0)
  /\ reg' = [reg EXCEPT ![s] = found[d][s]]
  /\ TakeUp(d, s)
  /\ UNCHANGED <<spoolVars, cursor, socket, at, listed, bounds>>

(* validate_registration_associations: ImmutableConflict. *)
RegisterConflict(d, s) ==
  /\ at[d] = "register"
  /\ found[d][s] # 0
  /\ reg[s] # 0 /\ ~(reg[s] = found[d][s] /\ cursor[s] = 0)
  /\ Goto(d, "refused")
  /\ UNCHANGED <<spoolVars, store, socket, memory, bounds>>

(* The daemon is shut down: whatever socket is at the path goes. *)
Refused(d) ==
  /\ at[d] = "refused"
  /\ Ends(d)
  /\ socket' = Nobody
  /\ UNCHANGED <<spoolVars, store, bounds>>

Registered(d) ==
  /\ at[d] = "register"
  /\ \A s \in Sources : found[d][s] = 0
  /\ Goto(d, "boot")
  /\ UNCHANGED <<spoolVars, store, socket, memory, bounds>>

-----------------------------------------------------------------------------
(* drain_coordinator, at the end of the bootstrap and after each drain of  *)
(* the spool: a lease at a time.                                           *)
Processing(d) == at[d] \in {"boot", "work"}

Unchanged(d, s) == known[d][s] # 0 /\ known[d][s] = file[s]

(* A batch of records; more of them, and the source stays in the queue. *)
Ingest(d, s) ==
  /\ Processing(d)
  /\ s \in waiting[d] /\ Unchanged(d, s)
  /\ cursor[s] < known[d][s]
  /\ \E n \in (cursor[s] + 1)..known[d][s] :
       /\ cursor' = [cursor EXCEPT ![s] = n]
       /\ waiting' = [waiting EXCEPT ![d] = IF n < known[d][s] THEN @ ELSE @ \ {s}]
  /\ UNCHANGED <<spoolVars, reg, socket, at, found, known, listed, bounds>>

NothingNew(d, s) ==
  /\ Processing(d)
  /\ s \in waiting[d] /\ Unchanged(d, s)
  /\ cursor[s] >= known[d][s]
  /\ waiting' = [waiting EXCEPT ![d] = @ \ {s}]
  /\ UNCHANGED <<spoolVars, store, socket, at, found, known, listed, bounds>>

(* An unknown source, or a file that is not as registered: no retry helps. *)
(* At the bootstrap the daemon is shut down, with its socket ...           *)
BootFails(d, s) ==
  /\ at[d] = "boot"
  /\ s \in waiting[d] /\ ~Unchanged(d, s)
  /\ Ends(d)
  /\ socket' = Nobody
  /\ UNCHANGED <<spoolVars, store, bounds>>

(* ... later it just ends. *)
WorkFails(d, s) ==
  /\ at[d] = "work"
  /\ s \in waiting[d] /\ ~Unchanged(d, s)
  /\ Ends(d)
  /\ LeavesSocket(d)
  /\ UNCHANGED <<spoolVars, store, bounds>>

-----------------------------------------------------------------------------
(* The daemon opens the spool ... *)
DaemonOpensSpool(d) ==
  /\ at[d] = "boot"
  /\ waiting[d] = {}
  /\ Open
  /\ Goto(d, "serve")
  /\ UNCHANGED <<file, hook, store, socket, memory, bounds>>

(* ... and drains it at every tick: HookSpool::drain, ... *)
Tick(d) ==
  /\ at[d] = "serve"
  /\ Acquire(d)
  /\ temps' = {}
  /\ listed' = [listed EXCEPT ![d] = DOMAIN entries]
  /\ Goto(d, "drain")
  /\ UNCHANGED <<file, entries, hook, store, socket, found, known, waiting, bounds>>

First(d, t) == t \in listed[d] /\ \A u \in listed[d] : t <= u

CommitEntry_Forgets(d, t) ==
  /\ at[d] = "drain"
  /\ First(d, t)
  /\ Goto(d, "remove")
  /\ UNCHANGED <<spoolVars, store, socket, memory, bounds>>

(* ... in the order of the names.  The commit puts the source into the     *)
(* coordinator's queue; it asks for no more than that.                     *)
CommitEntry(d, t) ==
  /\ at[d] = "drain"
  /\ First(d, t)
  /\ waiting' = [waiting EXCEPT ![d] = @ \cup entries[t]]
  /\ Goto(d, "remove")
  /\ UNCHANGED <<spoolVars, store, socket, found, known, listed, bounds>>

RemoveEntry(d, t) ==
  /\ at[d] = "remove"
  /\ First(d, t)
  /\ entries' = [u \in DOMAIN entries \ {t} |-> entries[u]]
  /\ listed' = [listed EXCEPT ![d] = @ \ {t}]
  /\ Goto(d, "drain")
  /\ UNCHANGED <<file, temps, flock, hook, store, socket, found, known, waiting, bounds>>

Drained(d) ==
  /\ at[d] = "drain"
  /\ listed[d] = {}
  /\ Release
  /\ Goto(d, "work")
  /\ UNCHANGED <<file, entries, temps, hook, store, socket, memory, bounds>>

Worked(d) ==
  /\ at[d] = "work"
  /\ waiting[d] = {}
  /\ Goto(d, "serve")
  /\ UNCHANGED <<spoolVars, store, socket, memory, bounds>>

-----------------------------------------------------------------------------
(* An interrupt is seen between two ticks.  The socket goes first, with    *)
(* whatever is at the path, then the store.                                *)
Interrupt(d) ==
  /\ at[d] = "serve"
  /\ socket' = Nobody
  /\ Goto(d, "closed")
  /\ UNCHANGED <<spoolVars, store, memory, bounds>>

Closed(d) ==
  /\ at[d] = "closed"
  /\ Ends(d)
  /\ UNCHANGED <<spoolVars, store, socket, bounds>>

(* The daemon is killed. *)
Dies(d) ==
  /\ at[d] # "down" /\ deaths < MaxDeaths
  /\ deaths' = deaths + 1
  /\ Ends(d)
  /\ LeavesSocket(d)
  /\ flock' = IF flock = d THEN Nobody ELSE flock
  /\ UNCHANGED <<file, entries, temps, hook, store, starts>>

-----------------------------------------------------------------------------
Boot(d) ==
  \/ RemoveStale(d)
  \/ NothingToRemove(d)
  \/ CreateSocket(d)
  \/ SocketInUse(d)
  \/ Discover(d)
  \/ Registered(d)
  \/ Refused(d)
  \/ \E s \in Sources :
       \/ SkipChanged(d, s)
       \/ Register(d, s)
       \/ RegisterConflict(d, s)
       \/ BootFails(d, s)

Work(d) ==
  \/ DaemonOpensSpool(d)
  \/ Tick(d)
  \/ Drained(d)
  \/ Worked(d)
  \/ \E t \in Clock : CommitEntry(d, t) \/ RemoveEntry(d, t)
  \/ \E s \in Sources : Ingest(d, s) \/ NothingNew(d, s) \/ WorkFails(d, s)

DaemonStep(d) == Boot(d) \/ Work(d) \/ Closed(d)

OutsideDaemons == UNCHANGED <<store, socket, at, memory, starts>>

(* The size of an undated transcript is never used, so it stays 0. *)
Next ==
  \/ \E d \in Daemons :
       \/ FindNoSocket(d)
       \/ FindLiveSocket(d)
       \/ FindStaleSocket(d)
       \/ DaemonStep(d)
       \/ Interrupt(d)
       \/ Dies(d)
  \/ \E s \in Sources \ Undated : Grow(s) /\ OutsideDaemons /\ UNCHANGED deaths
  \/ \E h \in Hooks :
       \/ \E s \in Sources : Notice(h, s) /\ OutsideDaemons /\ UNCHANGED deaths
       \/ HookStep(h) /\ OutsideDaemons /\ UNCHANGED deaths
       \/ /\ HookDies(h) /\ OutsideDaemons
          /\ deaths < MaxDeaths /\ deaths' = deaths + 1

Spec == Init /\ [][Next]_vars

(* Processes run until they end.  Nothing is assumed of agents, starts,    *)
(* interrupts and kills.                                                   *)
FairSpec ==
  /\ Spec
  /\ \A d \in Daemons : WF_vars(DaemonStep(d))
  /\ \A h \in Hooks : WF_vars(HookStep(h) /\ OutsideDaemons /\ UNCHANGED deaths)

-----------------------------------------------------------------------------
(* Types, and who holds the lock: exactly the process that is inside. *)
TypeOK ==
  /\ SpoolTypeOK
  /\ socket \in Daemons \cup {Stale, Nobody}
  /\ \A d \in Daemons :
       /\ waiting[d] \subseteq Sources
       /\ listed[d] \subseteq DOMAIN entries
       /\ flock = d <=> at[d] \in {"drain", "remove"}
  /\ \A h \in Hooks : flock = h <=> hook[h].at \in {"scanned", "written"}

(* Whatever daemons were started, died or ran beside each other: each      *)
(* knows a source by the facts that are registered, nothing was ingested   *)
(* beyond them, and they are not ahead of the file.                        *)
FactsAgree ==
  \A s \in Sources :
    /\ cursor[s] <= reg[s] /\ reg[s] <= file[s]
    /\ \A d \in Daemons : known[d][s] \in {0, reg[s]}

(* What processes share, the directory as well as the store, stays whole.  *)
SharedStateIsSound == TypeOK /\ SpoolSafe /\ FactsAgree

(* No restart, and no second daemon, takes back what is registered or      *)
(* ingested.                                                               *)
ProgressIsKept ==
  [][\A s \in Sources :
       /\ cursor'[s] >= cursor[s]
       /\ reg[s] # 0 => reg'[s] = reg[s]]_vars

(* spool.rs, drain: an entry is removed only by the process that has the   *)
(* lock, after its source entered that daemon's queue; until then nobody   *)
(* replaces it.                                                            *)
EntriesLeaveWhenQueued ==
  [][\A t \in DOMAIN entries :
       \/ t \in DOMAIN entries' /\ entries'[t] = entries[t]
       \/ \E d \in Daemons : flock = d /\ entries[t] \subseteq waiting[d]]_vars

(* Neither a signal nor progress is lost to another process or a restart.  *)
NothingIsTakenBack == ProgressIsKept /\ EntriesLeaveWhenQueued

Serving(d) == at[d] \in {"serve", "drain", "remove", "work"}

(* As long as some daemon serves, every published signal is taken. *)
SignalsAreTaken ==
  \A t \in Clock :
    t \in DOMAIN entries ~> (t \notin DOMAIN entries \/ \A d \in Daemons : ~Serving(d))

(* docs/specs/2026-07-17-rust-v2-work-handoff-design.md: "Every case       *)
(* verifies [...] restart recovery": no daemon is refused its own sources. *)
BootstrapIsAccepted == \A d \in Daemons : at[d] # "refused"

Writing(d) == at[d] \notin {"down", "unlink", "create", "closed"}

(* daemon.rs, foreground: reserving the socket first "prevents a           *)
(* concurrent init/daemon invocation from becoming a second writer".       *)
OneWriter == \A c, d \in Daemons : Writing(c) /\ Writing(d) => c = d
=============================================================================
