---------------------------- MODULE DaemonProofs ----------------------------
(***************************************************************************)
(* Proofs about Daemon and HookSpool for every set of daemons, hooks,      *)
(* transcripts and clock readings: what the processes share stays whole    *)
(* whichever of them die, and nothing that was registered, ingested or     *)
(* published is taken back.                                                *)
(***************************************************************************)
EXTENDS Daemon, FiniteSetTheorems, TLAPS

-----------------------------------------------------------------------------
HookPlaces   == {"idle", "noticed", "opened", "scanned", "written", "done"}
DaemonPlaces == {"down", "unlink", "create", "discover", "register", "refused", "boot",
                 "serve", "drain", "remove", "work", "closed"}

InSpool(h)  == hook[h].at \in {"scanned", "written"}
Draining(d) == at[d] \in {"drain", "remove"}

Types ==
  /\ file \in [Sources -> 0 .. MaxSize]
  /\ reg \in [Sources -> Nat] /\ cursor \in [Sources -> Nat]
  /\ hook \in [Hooks -> [at : HookPlaces, source : SUBSET Sources, name : SUBSET Clock]]
  /\ temps \subseteq Clock
  /\ socket \in Daemons \cup {Stale, Nobody}
  /\ at \in [Daemons -> DaemonPlaces]
  /\ found \in [Daemons -> [Sources -> Nat]] /\ known \in [Daemons -> [Sources -> Nat]]
  /\ waiting \in [Daemons -> SUBSET Sources]
  /\ listed \in [Daemons -> SUBSET Clock]

(* The lock is held by whoever is inside, and by nobody else. *)
LockOK ==
  /\ \A d \in Daemons : flock = d <=> Draining(d)
  /\ \A h \in Hooks : flock = h <=> InSpool(h)

(* The entries; a process that passed the count has room for its entry. *)
EntriesOK ==
  /\ DOMAIN entries \subseteq Clock /\ IsFiniteSet(DOMAIN entries)
  /\ \A t \in DOMAIN entries : entries[t] \subseteq Sources
  /\ Cardinality(DOMAIN entries) <= MaxEntries
  /\ \A h \in Hooks : InSpool(h) => Cardinality(DOMAIN entries) < MaxEntries

(* Who drains has listed entries that are there, and removes what it has   *)
(* put into its queue.                                                     *)
DrainsOK(d) ==
  /\ listed[d] # {} => Draining(d)
  /\ listed[d] \subseteq DOMAIN entries
  /\ at[d] = "remove" => \A t \in DOMAIN entries : First(d, t) => entries[t] \subseteq waiting[d]

DrainOK == \A d \in Daemons : DrainsOK(d)

(* Sizes found are sizes the file had. *)
FactsOK ==
  /\ FactsAgree
  /\ \A d \in Daemons, s \in Sources : found[d][s] <= file[s]

IInv == Types /\ LockOK /\ EntriesOK /\ LiveTempsStay /\ DrainOK /\ FactsOK

-----------------------------------------------------------------------------
(* Who is who. *)
LEMMA Distinct ==
  /\ Nobody \notin Hooks /\ Nobody \notin Daemons /\ Stale \notin Daemons
  /\ \A d \in Daemons : d \notin Hooks
BY SpoolAssumption, DaemonAssumption

(* The steps of a daemon outside the spool. *)
Alone(d) ==
  \/ FindNoSocket(d) \/ FindLiveSocket(d) \/ FindStaleSocket(d)
  \/ RemoveStale(d) \/ NothingToRemove(d) \/ CreateSocket(d) \/ SocketInUse(d)
  \/ Discover(d) \/ Registered(d) \/ Refused(d) \/ Worked(d) \/ Interrupt(d) \/ Closed(d)
  \/ \E s \in Sources :
       \/ SkipChanged(d, s) \/ Register(d, s) \/ RegisterConflict(d, s) \/ BootFails(d, s)
       \/ Ingest(d, s) \/ NothingNew(d, s) \/ WorkFails(d, s)

(* The steps of a hook process. *)
HookMoves(h) == HookStep(h) \/ HookDies(h) \/ \E s \in Sources : Notice(h, s)

(* Every step is one of these. *)
LEMMA Steps ==
  ASSUME [Next]_vars
  PROVE  \/ \E d \in Daemons : Alone(d)
         \/ \E d \in Daemons : DaemonOpensSpool(d) \/ Tick(d) \/ Drained(d) \/ Dies(d)
         \/ \E d \in Daemons, t \in Clock : CommitEntry(d, t) \/ RemoveEntry(d, t)
         \/ \E h \in Hooks : HookMoves(h) /\ OutsideDaemons
         \/ \E s \in Sources : Grow(s) /\ OutsideDaemons
         \/ UNCHANGED vars
<1>1. ASSUME NEW d \in Daemons, DaemonStep(d)
      PROVE  \/ Alone(d)
             \/ DaemonOpensSpool(d) \/ Tick(d) \/ Drained(d)
             \/ \E t \in Clock : CommitEntry(d, t) \/ RemoveEntry(d, t)
  BY <1>1 DEF DaemonStep, Boot, Work, Alone
<1>2. ASSUME NEW d \in Daemons,
             FindNoSocket(d) \/ FindLiveSocket(d) \/ FindStaleSocket(d) \/ Interrupt(d)
      PROVE  Alone(d)
  BY <1>2 DEF Alone
<1> QED BY <1>1, <1>2 DEF Next, HookMoves

(* Outside the spool a daemon touches its own memory, the socket and the   *)
(* store, and it has no entries listed.                                    *)
LEMMA AloneFacts ==
  ASSUME Types, DrainOK, NEW d \in Daemons, Alone(d)
  PROVE  /\ UNCHANGED spoolVars
         /\ ~Draining(d) /\ ~Draining(d)' /\ listed'[d] = {}
         /\ \A e \in Daemons \ {d} : /\ at'[e] = at[e] /\ waiting'[e] = waiting[e]
                                     /\ listed'[e] = listed[e]
<1> USE DEF Goto, Ends, Forgotten, memory, Draining
<1>0. listed[d] # {} => Draining(d)
  BY DEF DrainOK, DrainsOK
<1>1. CASE FindNoSocket(d) \/ FindLiveSocket(d) \/ FindStaleSocket(d)
  BY <1>0, <1>1 DEF Start, FindNoSocket, FindLiveSocket, FindStaleSocket, Types
<1>2. CASE RemoveStale(d) \/ NothingToRemove(d) \/ CreateSocket(d) \/ SocketInUse(d)
  BY <1>0, <1>2 DEF RemoveStale, NothingToRemove, CreateSocket, SocketInUse, Types
<1>3. CASE Discover(d) \/ Registered(d) \/ Refused(d) \/ Worked(d)
  BY <1>0, <1>3 DEF Discover, Registered, Refused, Worked, Types
<1>4. CASE Interrupt(d) \/ Closed(d)
  BY <1>0, <1>4 DEF Interrupt, Closed, Types
<1>5. ASSUME NEW s \in Sources,
             SkipChanged(d, s) \/ Register(d, s) \/ RegisterConflict(d, s) \/ BootFails(d, s)
      PROVE  /\ UNCHANGED spoolVars
             /\ ~Draining(d) /\ ~Draining(d)' /\ listed'[d] = {}
             /\ \A e \in Daemons \ {d} : /\ at'[e] = at[e] /\ waiting'[e] = waiting[e]
                                         /\ listed'[e] = listed[e]
  BY <1>0, <1>5 DEF SkipChanged, Register, TakeUp, RegisterConflict, BootFails, Types
<1>6. ASSUME NEW s \in Sources, Ingest(d, s) \/ NothingNew(d, s) \/ WorkFails(d, s)
      PROVE  /\ UNCHANGED spoolVars
             /\ ~Draining(d) /\ ~Draining(d)' /\ listed'[d] = {}
             /\ \A e \in Daemons \ {d} : /\ at'[e] = at[e] /\ waiting'[e] = waiting[e]
                                         /\ listed'[e] = listed[e]
  BY <1>0, <1>6 DEF Ingest, NothingNew, WorkFails, Processing, Types
<1> QED BY <1>1, <1>2, <1>3, <1>4, <1>5, <1>6 DEF Alone


-----------------------------------------------------------------------------
(* The types stay. *)
HookRecord == [at : HookPlaces, source : SUBSET Sources, name : SUBSET Clock]

(* What a step of a hook process does to it: where it stood, where it      *)
(* stands now, and that the others stand where they were.                  *)
HookWent(h, from, to, src, name) ==
  /\ hook[h].at \in from
  /\ hook'[h].at = to /\ hook'[h].source = src /\ hook'[h].name = name
  /\ hook' \in [Hooks -> HookRecord]
  /\ \A g \in Hooks \ {h} : hook'[g] = hook[g]

(* What an assignment to the record of one hook process comes to.          *)
LEMMA HookGoes ==
  ASSUME NEW h \in Hooks, hook \in [Hooks -> HookRecord], NEW from, hook[h].at \in from,
         NEW place \in HookPlaces, NEW src \in SUBSET Sources, NEW name \in SUBSET Clock,
         \/ hook' = [hook EXCEPT ![h].at = place] /\ src = hook[h].source /\ name = hook[h].name
         \/ hook' = [hook EXCEPT ![h].at = place, ![h].source = src] /\ name = hook[h].name
         \/ hook' = [hook EXCEPT ![h].at = place, ![h].name = name] /\ src = hook[h].source
         \/ hook' = [hook EXCEPT ![h] = [at |-> place, source |-> src, name |-> name]]
  PROVE  HookWent(h, from, place, src, name)
<1>1. hook[h] \in HookRecord
  OBVIOUS
<1>2. hook'[h] = [at |-> place, source |-> src, name |-> name]
  BY <1>1 DEF HookRecord
<1>3. DOMAIN hook' = Hooks /\ \A g \in Hooks \ {h} : hook'[g] = hook[g]
  OBVIOUS
<1>4. hook' = [g \in Hooks |-> hook'[g]]
  <2>1. CASE hook' = [hook EXCEPT ![h].at = place]
    BY <2>1
  <2>2. CASE hook' = [hook EXCEPT ![h].at = place, ![h].source = src]
    BY <2>2
  <2>3. CASE hook' = [hook EXCEPT ![h].at = place, ![h].name = name]
    BY <2>3
  <2>4. CASE hook' = [hook EXCEPT ![h] = [at |-> place, source |-> src, name |-> name]]
    BY <2>4
  <2> QED BY <2>1, <2>2, <2>3, <2>4
<1>5. \A g \in Hooks : hook'[g] \in HookRecord
  BY <1>2, <1>3 DEF HookRecord
<1> QED BY <1>2, <1>3, <1>4, <1>5 DEF HookWent

(* Where each action takes a hook process, and what it then holds.         *)
LEMMA HookWents ==
  ASSUME Types, NEW h \in Hooks
  PROVE  /\ OpenSpool(h) => HookWent(h, {"noticed"}, "opened", hook[h].source, hook[h].name)
         /\ LockSpool(h) => HookWent(h, {"opened"}, "scanned", hook[h].source, hook[h].name)
         /\ RefuseFull(h) => HookWent(h, {"opened"}, "done", {}, {})
         /\ WriteTemp(h) =>
              \E t \in Clock : temps' = temps \cup {t}
                /\ HookWent(h, {"scanned"}, "written", hook[h].source, {t})
         /\ Publish(h) => HookWent(h, {"written"}, "done", {}, {})
         /\ PublishFails(h) => HookWent(h, {"written"}, "done", {}, {})
         /\ HookDies(h) => HookWent(h, HookPlaces \ {"idle", "done"}, "done", {}, {})
         /\ \A s \in Sources :
              Notice(h, s) => HookWent(h, {"idle"}, "noticed", {s}, hook[h].name)
<1>0. /\ hook \in [Hooks -> HookRecord] /\ hook[h].source \in SUBSET Sources
      /\ hook[h].name \in SUBSET Clock /\ hook[h].at \in HookPlaces
      /\ {"opened", "scanned", "done", "written", "noticed"} \subseteq HookPlaces
  BY DEF Types, HookRecord, HookPlaces
<1>1. OpenSpool(h) => HookWent(h, {"noticed"}, "opened", hook[h].source, hook[h].name)
  BY <1>0, HookGoes DEF OpenSpool, Place
<1>2. LockSpool(h) => HookWent(h, {"opened"}, "scanned", hook[h].source, hook[h].name)
  BY <1>0, HookGoes DEF LockSpool, Place
<1>3. RefuseFull(h) => HookWent(h, {"opened"}, "done", {}, {})
  BY <1>0, HookGoes DEF RefuseFull, Ended, Done
<1>4. ASSUME WriteTemp(h)
      PROVE  \E t \in Clock : temps' = temps \cup {t}
                /\ HookWent(h, {"scanned"}, "written", hook[h].source, {t})
  <2>1. PICK t \in Clock :
          /\ temps' = temps \cup {t}
          /\ hook' = [hook EXCEPT ![h].at = "written", ![h].name = {t}]
    BY <1>4 DEF WriteTemp
  <2>2. hook[h].at = "scanned" /\ {t} \in SUBSET Clock
    BY <1>4 DEF WriteTemp
  <2>3. HookWent(h, {"scanned"}, "written", hook[h].source, {t})
    BY <1>0, <2>1, <2>2, HookGoes
  <2> QED BY <2>1, <2>3
<1>5. Publish(h) => HookWent(h, {"written"}, "done", {}, {})
  BY <1>0, HookGoes DEF Publish, Ended, Done
<1>6. PublishFails(h) => HookWent(h, {"written"}, "done", {}, {})
  BY <1>0, HookGoes DEF PublishFails, Ended, Done
<1>7. HookDies(h) => HookWent(h, HookPlaces \ {"idle", "done"}, "done", {}, {})
  BY <1>0, HookGoes DEF HookDies, Ended, Done
<1>8. ASSUME NEW s \in Sources, Notice(h, s)
      PROVE  HookWent(h, {"idle"}, "noticed", {s}, hook[h].name)
  <2>1. {s} \in SUBSET Sources
    OBVIOUS
  <2>2. /\ hook' = [hook EXCEPT ![h].at = "noticed", ![h].source = {s}]
        /\ hook[h].at = "idle"
    BY <1>8 DEF Notice
  <2> QED BY <1>0, <2>1, <2>2, HookGoes
<1> QED BY <1>1, <1>2, <1>3, <1>4, <1>5, <1>6, <1>7, <1>8

(* The hook processes keep the types of what they share.                   *)
LEMMA HookTypes ==
  ASSUME Types, NEW h \in Hooks, HookMoves(h), OutsideDaemons
  PROVE  Types'
<1>1. hook' \in [Hooks -> HookRecord]
  BY HookWents DEF HookMoves, HookStep, HookWent
<1>2. UNCHANGED <<reg, cursor, socket, at, found, known, waiting, listed>>
  BY DEF OutsideDaemons, store, memory
<1>3. file' = file
  BY DEF HookMoves, HookStep, Notice, OpenSpool, LockSpool, RefuseFull, WriteTemp, Publish,
         PublishFails, HookDies
<1>4. temps' \subseteq Clock
  <2>1. CASE WriteTemp(h)
    BY <2>1 DEF WriteTemp, Types
  <2>2. CASE Publish(h) \/ PublishFails(h)
    BY <2>2 DEF Publish, PublishFails, Types
  <2>3. CASE OpenSpool(h) \/ LockSpool(h) \/ RefuseFull(h)
    BY <2>3 DEF OpenSpool, Open, LockSpool, RefuseFull
  <2>4. CASE HookDies(h) \/ \E s \in Sources : Notice(h, s)
    BY <2>4 DEF HookDies, Notice, spool, Types
  <2> QED BY <2>1, <2>2, <2>3, <2>4 DEF HookMoves, HookStep
<1> QED BY <1>1, <1>2, <1>3, <1>4 DEF Types, HookRecord

(* A daemon that ends leaves its own state well typed.                     *)
LEMMA EndsTypes ==
  ASSUME Types, NEW d \in Daemons, Ends(d)
  PROVE  /\ at' \in [Daemons -> DaemonPlaces]
         /\ found' \in [Daemons -> [Sources -> Nat]] /\ known' \in [Daemons -> [Sources -> Nat]]
         /\ waiting' \in [Daemons -> SUBSET Sources] /\ listed' \in [Daemons -> SUBSET Clock]
<1>1. [s \in Sources |-> 0] \in [Sources -> Nat]
  OBVIOUS
<1>2. at' \in [Daemons -> DaemonPlaces]
  BY DEF Types, Ends, Goto, DaemonPlaces
<1>3. found' \in [Daemons -> [Sources -> Nat]] /\ known' \in [Daemons -> [Sources -> Nat]]
  BY <1>1 DEF Types, Ends
<1>4. waiting' \in [Daemons -> SUBSET Sources] /\ listed' \in [Daemons -> SUBSET Clock]
  BY DEF Types, Ends
<1> QED BY <1>2, <1>3, <1>4

(* The steps of a daemon outside the spool keep the types.                 *)
LEMMA AloneTypes ==
  ASSUME Types, NEW d \in Daemons, Alone(d)
  PROVE  Types'
<1> USE DEF store, memory, bounds, spoolVars, spool
<1>0. ASSUME UNCHANGED <<file, reg, cursor, hook, temps, found, known, waiting, listed>>,
             NEW place \in DaemonPlaces, Goto(d, place) \/ at' = at,
             socket' \in Daemons \cup {Stale, Nobody}
      PROVE  Types'
  BY <1>0 DEF Types, Goto
<1>1. CASE FindNoSocket(d)
  BY <1>0, <1>1 DEF Start, FindNoSocket, DaemonPlaces, Types
<1>2. CASE FindLiveSocket(d)
  BY <1>0, <1>2 DEF Start, FindLiveSocket, DaemonPlaces, Types
<1>3. CASE FindStaleSocket(d)
  BY <1>0, <1>3 DEF Start, FindStaleSocket, DaemonPlaces, Types
<1>4. CASE RemoveStale(d)
  BY <1>0, <1>4 DEF RemoveStale, DaemonPlaces
<1>5. CASE CreateSocket(d)
  BY <1>0, <1>5 DEF CreateSocket, DaemonPlaces
<1>6. CASE Registered(d)
  BY <1>0, <1>6 DEF Registered, DaemonPlaces, Types
<1>7. CASE Worked(d)
  BY <1>0, <1>7 DEF Worked, DaemonPlaces, Types
<1>8. CASE Interrupt(d)
  BY <1>0, <1>8 DEF Interrupt, DaemonPlaces
<1>9. ASSUME NEW s \in Sources, RegisterConflict(d, s) PROVE Types'
  BY <1>0, <1>9 DEF RegisterConflict, DaemonPlaces, Types
<1>10. ASSUME Ends(d), UNCHANGED <<file, reg, cursor, hook, temps>>,
              socket' \in Daemons \cup {Stale, Nobody}
       PROVE  Types'
  BY <1>10, EndsTypes DEF Types
<1>11. CASE NothingToRemove(d)
  BY <1>10, <1>11 DEF NothingToRemove, Types
<1>12. CASE SocketInUse(d)
  BY <1>10, <1>12 DEF SocketInUse, Types
<1>13. CASE Refused(d)
  BY <1>10, <1>13 DEF Refused
<1>14. CASE Closed(d)
  BY <1>10, <1>14 DEF Closed, Types
<1>15. ASSUME NEW s \in Sources, BootFails(d, s) PROVE Types'
  BY <1>10, <1>15 DEF BootFails
<1>16. ASSUME NEW s \in Sources, WorkFails(d, s) PROVE Types'
  BY <1>10, <1>16 DEF WorkFails, LeavesSocket, Types
<1>17. CASE Discover(d)
  <2>1. /\ UNCHANGED <<file, reg, cursor, hook, temps, known, waiting, listed, socket>>
        /\ at' \in [Daemons -> DaemonPlaces]
    BY <1>17 DEF Discover, Goto, DaemonPlaces, Types
  <2>2. found' \in [Daemons -> [Sources -> Nat]]
    BY <1>17 DEF Discover, Types
  <2> QED BY <2>1, <2>2 DEF Types
<1>18. ASSUME NEW s \in Sources, SkipChanged(d, s) PROVE Types'
  <2>1. UNCHANGED <<file, reg, cursor, hook, temps, known, waiting, listed, socket, at>>
    BY <1>18 DEF SkipChanged
  <2>2. found' \in [Daemons -> [Sources -> Nat]]
    BY <1>18 DEF SkipChanged, Forgotten, Types
  <2> QED BY <2>1, <2>2 DEF Types
<1>19. ASSUME NEW s \in Sources, Register(d, s) PROVE Types'
  <2>1. UNCHANGED <<file, cursor, hook, temps, listed, socket, at>>
    BY <1>19 DEF Register
  <2>2. found' \in [Daemons -> [Sources -> Nat]] /\ known' \in [Daemons -> [Sources -> Nat]]
    BY <1>19 DEF Register, TakeUp, Forgotten, Types
  <2>3. waiting' \in [Daemons -> SUBSET Sources] /\ reg' \in [Sources -> Nat]
    BY <1>19 DEF Register, TakeUp, Types
  <2> QED BY <2>1, <2>2, <2>3 DEF Types
<1>20. ASSUME NEW s \in Sources, Ingest(d, s) PROVE Types'
  <2>1. UNCHANGED <<file, reg, hook, temps, found, known, listed, socket, at>>
    BY <1>20 DEF Ingest
  <2>2. cursor' \in [Sources -> Nat] /\ waiting' \in [Daemons -> SUBSET Sources]
    <3>1. PICK n \in (cursor[s] + 1) .. known[d][s] :
            /\ cursor' = [cursor EXCEPT ![s] = n]
            /\ waiting' = [waiting EXCEPT ![d] = IF n < known[d][s] THEN @ ELSE @ \ {s}]
      BY <1>20 DEF Ingest
    <3>2. n \in Nat
      BY DEF Types
    <3> QED BY <3>1, <3>2 DEF Types
  <2> QED BY <2>1, <2>2 DEF Types
<1>21. ASSUME NEW s \in Sources, NothingNew(d, s) PROVE Types'
  <2>1. UNCHANGED <<file, reg, cursor, hook, temps, found, known, listed, socket, at>>
    BY <1>21 DEF NothingNew
  <2>2. waiting' \in [Daemons -> SUBSET Sources]
    BY <1>21 DEF NothingNew, Types
  <2> QED BY <2>1, <2>2 DEF Types
<1> QED BY <1>1, <1>2, <1>3, <1>4, <1>5, <1>6, <1>7, <1>8, <1>9, <1>11, <1>12, <1>13, <1>14,
           <1>15, <1>16, <1>17, <1>18, <1>19, <1>20, <1>21 DEF Alone

(* Every step keeps the types.                                             *)
LEMMA TypesStay ==
  ASSUME IInv, [Next]_vars
  PROVE  Types'
<1> USE DEF Goto, Ends, LeavesSocket, store, memory, bounds, spoolVars, spool, Release, Acquire
<1>0. Types /\ EntriesOK
  BY DEF IInv
<1>1. ASSUME NEW d \in Daemons, DaemonOpensSpool(d) PROVE Types'
  BY <1>0, <1>1 DEF Types, DaemonOpensSpool, Open, DaemonPlaces
<1>2. ASSUME NEW d \in Daemons, Tick(d) PROVE Types'
  BY <1>0, <1>2 DEF Types, Tick, DaemonPlaces, EntriesOK
<1>3. ASSUME NEW d \in Daemons, Drained(d) PROVE Types'
  BY <1>0, <1>3 DEF Types, Drained, DaemonPlaces
<1>4. ASSUME NEW d \in Daemons, Dies(d) PROVE Types'
  BY <1>0, <1>4 DEF Types, Dies, DaemonPlaces
<1>5. ASSUME NEW d \in Daemons, NEW t \in Clock, CommitEntry(d, t) PROVE Types'
  <2>1. t \in DOMAIN entries => entries[t] \subseteq Sources
    BY <1>0 DEF EntriesOK
  <2>2. t \in DOMAIN entries
    BY <1>5 DEF IInv, DrainOK, DrainsOK, CommitEntry, First
  <2> QED BY <1>0, <1>5, <2>1, <2>2 DEF Types, CommitEntry, DaemonPlaces
<1>6. ASSUME NEW d \in Daemons, NEW t \in Clock, RemoveEntry(d, t) PROVE Types'
  BY <1>0, <1>6 DEF Types, RemoveEntry, DaemonPlaces
<1>7. ASSUME NEW s \in Sources, Grow(s), OutsideDaemons PROVE Types'
  <2>1. UNCHANGED <<reg, cursor, hook, temps, socket, at, found, known, waiting, listed>>
    BY <1>7 DEF Grow, OutsideDaemons
  <2>2. file' \in [Sources -> 0 .. MaxSize]
    <3>1. file[s] \in 0 .. MaxSize /\ file[s] < MaxSize /\ MaxSize \in Nat
      BY <1>0, <1>7, SpoolAssumption DEF Types, Grow
    <3>2. file[s] + 1 \in 0 .. MaxSize
      BY <3>1
    <3> QED BY <1>0, <1>7, <3>2 DEF Types, Grow
  <2> QED BY <1>0, <2>1, <2>2 DEF Types
<1>8. ASSUME UNCHANGED vars PROVE Types'
  BY <1>0, <1>8 DEF Types, vars
<1> QED BY <1>0, <1>1, <1>2, <1>3, <1>4, <1>5, <1>6, <1>7, <1>8, Steps, HookTypes, AloneTypes

-----------------------------------------------------------------------------
(* The lock stays with who is inside. *)
LEMMA LockStays ==
  ASSUME IInv, [Next]_vars
  PROVE  LockOK'
<1> USE Distinct DEF Goto, Ends, Release, Acquire, InSpool, Draining
<1>0. Types /\ LockOK /\ DrainOK
  BY DEF IInv
<1>1. ASSUME NEW d \in Daemons, Alone(d) PROVE LockOK'
  BY <1>0, <1>1, AloneFacts DEF LockOK, spoolVars, spool
<1>2. ASSUME NEW d \in Daemons, DaemonOpensSpool(d) PROVE LockOK'
  BY <1>0, <1>2 DEF LockOK, Types, DaemonOpensSpool, Open
<1>3. ASSUME NEW d \in Daemons, Tick(d) PROVE LockOK'
  BY <1>0, <1>3 DEF LockOK, Types, Tick
<1>4. ASSUME NEW d \in Daemons, Drained(d) PROVE LockOK'
  BY <1>0, <1>4 DEF LockOK, Types, Drained
<1>5. ASSUME NEW d \in Daemons, Dies(d) PROVE LockOK'
  BY <1>0, <1>5 DEF LockOK, Types, Dies
<1>6. ASSUME NEW d \in Daemons, NEW t \in Clock, CommitEntry(d, t) \/ RemoveEntry(d, t)
      PROVE  LockOK'
  BY <1>0, <1>6 DEF LockOK, Types, CommitEntry, RemoveEntry, spoolVars, spool
<1>7. ASSUME NEW h \in Hooks, HookMoves(h), OutsideDaemons PROVE LockOK'
  <2> USE <1>0, <1>7, HookWents DEF LockOK, HookWent
  <2>0. UNCHANGED at
    BY DEF OutsideDaemons
  <2>1. CASE OpenSpool(h)
    BY <2>0, <2>1 DEF OpenSpool, Open
  <2>2. CASE LockSpool(h)
    BY <2>0, <2>2 DEF LockSpool
  <2>3. CASE RefuseFull(h)
    BY <2>0, <2>3 DEF RefuseFull
  <2>4. CASE WriteTemp(h)
    <3>1. flock' = flock /\ hook'[h].at = "written" /\ hook[h].at = "scanned"
      BY <2>4 DEF WriteTemp
    <3> QED BY <2>0, <2>4, <3>1
  <2>5. CASE Publish(h)
    BY <2>0, <2>5 DEF Publish
  <2>6. CASE PublishFails(h)
    BY <2>0, <2>6 DEF PublishFails
  <2>7. CASE HookDies(h)
    BY <2>0, <2>7 DEF HookDies
  <2>8. ASSUME NEW s \in Sources, Notice(h, s) PROVE LockOK'
    <3>1. flock' = flock
      BY <2>8 DEF Notice, spool
    <3> QED BY <2>0, <2>8, <3>1
  <2> QED BY <2>1, <2>2, <2>3, <2>4, <2>5, <2>6, <2>7, <2>8 DEF HookMoves, HookStep
<1>8. ASSUME NEW s \in Sources, Grow(s), OutsideDaemons PROVE LockOK'
  BY <1>0, <1>8 DEF LockOK, Grow, OutsideDaemons, spool
<1>9. ASSUME UNCHANGED vars PROVE LockOK'
  BY <1>0, <1>9 DEF LockOK, vars, spoolVars, spool
<1> QED BY <1>1, <1>2, <1>3, <1>4, <1>5, <1>6, <1>7, <1>8, <1>9, Steps


-----------------------------------------------------------------------------
(* The entries stay within the limit: the room a hook process counted is   *)
(* still there when it adds its entry, because it keeps the lock.          *)
LEMMA EntriesStay ==
  ASSUME IInv, [Next]_vars
  PROVE  EntriesOK'
<1>0. Types /\ LockOK /\ EntriesOK /\ DrainOK
  BY DEF IInv
<1>1. ASSUME entries' = entries, \A h \in Hooks : InSpool(h)' => InSpool(h) \/ HasRoom
      PROVE  EntriesOK'
  BY <1>0, <1>1 DEF EntriesOK, HasRoom
<1>2. ASSUME UNCHANGED <<entries, hook>> PROVE EntriesOK'
  BY <1>1, <1>2 DEF InSpool
<1>3. ASSUME NEW d \in Daemons, Alone(d) PROVE EntriesOK'
  BY <1>0, <1>2, <1>3, AloneFacts DEF spoolVars, spool
<1>4. ASSUME NEW d \in Daemons, DaemonOpensSpool(d) \/ Tick(d) \/ Drained(d) \/ Dies(d)
      PROVE  EntriesOK'
  BY <1>2, <1>4 DEF DaemonOpensSpool, Open, Tick, Drained, Dies
<1>5. ASSUME NEW d \in Daemons, NEW t \in Clock, CommitEntry(d, t) PROVE EntriesOK'
  BY <1>2, <1>5 DEF CommitEntry, spoolVars, spool
<1>6. ASSUME NEW d \in Daemons, NEW t \in Clock, RemoveEntry(d, t) PROVE EntriesOK'
  <2>1. /\ entries' = [u \in DOMAIN entries \ {t} |-> entries[u]] /\ hook' = hook
        /\ t \in DOMAIN entries
    BY <1>0, <1>6 DEF RemoveEntry, First, DrainOK, DrainsOK
  <2>2. /\ IsFiniteSet(DOMAIN entries') /\ DOMAIN entries' = DOMAIN entries \ {t}
        /\ Cardinality(DOMAIN entries') = Cardinality(DOMAIN entries) - 1
        /\ Cardinality(DOMAIN entries) \in Nat
    BY <1>0, <2>1, FS_RemoveElement, FS_CardinalityType DEF EntriesOK
  <2>3. \A h \in Hooks : InSpool(h)' <=> InSpool(h)
    BY <2>1 DEF InSpool
  <2>4. /\ Cardinality(DOMAIN entries') <= MaxEntries
        /\ \A h \in Hooks : InSpool(h)' => Cardinality(DOMAIN entries') < MaxEntries
    BY <1>0, <2>2, <2>3, SpoolAssumption DEF EntriesOK
  <2> QED BY <1>0, <2>1, <2>2, <2>4 DEF EntriesOK
<1>7. ASSUME NEW h \in Hooks, HookMoves(h) PROVE EntriesOK'
  <2> USE <1>0, HookWents DEF HookWent, InSpool
  <2>1. CASE OpenSpool(h)
    BY <1>1, <2>1 DEF OpenSpool, Open
  <2>2. CASE LockSpool(h)
    BY <1>1, <2>2 DEF LockSpool
  <2>3. CASE RefuseFull(h)
    BY <1>1, <2>3 DEF RefuseFull
  <2>4. CASE WriteTemp(h)
    <3>1. entries' = entries /\ hook[h].at = "scanned" /\ \A g \in Hooks \ {h} : hook'[g] = hook[g]
      BY <2>4 DEF WriteTemp
    <3> QED BY <1>1, <3>1
  <2>5. CASE PublishFails(h)
    BY <1>1, <2>5 DEF PublishFails
  <2>6. CASE HookDies(h)
    BY <1>1, <2>6 DEF HookDies
  <2>7. ASSUME NEW s \in Sources, Notice(h, s) PROVE EntriesOK'
    <3>1. entries' = entries
      BY <2>7 DEF Notice, spool
    <3> QED BY <1>1, <2>7, <3>1
  <2>8. CASE Publish(h)
    <3>1. PICK t \in hook[h].name :
            /\ t \notin DOMAIN entries
            /\ entries' = [u \in DOMAIN entries \cup {t} |->
                             IF u = t THEN hook[h].source ELSE entries[u]]
      BY <2>8 DEF Publish
    <3>2. t \in Clock /\ hook[h].source \subseteq Sources /\ InSpool(h)
      BY <2>8 DEF Types
    <3>3. /\ DOMAIN entries' = DOMAIN entries \cup {t} /\ IsFiniteSet(DOMAIN entries')
          /\ Cardinality(DOMAIN entries') = Cardinality(DOMAIN entries) + 1
          /\ Cardinality(DOMAIN entries) \in Nat
      BY <3>1, FS_AddElement, FS_CardinalityType DEF EntriesOK
    <3>4. Cardinality(DOMAIN entries') <= MaxEntries
      BY <3>2, <3>3, SpoolAssumption DEF EntriesOK
    <3>5. ASSUME NEW g \in Hooks PROVE ~InSpool(g)'
      <4>1. CASE g = h
        BY <2>8, <4>1
      <4>2. CASE g # h
        BY <2>8, <3>2, <4>2 DEF LockOK
      <4> QED BY <4>1, <4>2
    <3>6. \A u \in DOMAIN entries' : entries'[u] \subseteq Sources
      BY <3>1, <3>2, <3>3 DEF EntriesOK
    <3> QED BY <3>2, <3>3, <3>4, <3>5, <3>6 DEF EntriesOK
  <2> QED BY <1>7, <2>1, <2>2, <2>3, <2>4, <2>5, <2>6, <2>7, <2>8 DEF HookMoves, HookStep
<1>8. ASSUME NEW s \in Sources, Grow(s) PROVE EntriesOK'
  BY <1>2, <1>8 DEF Grow, spool
<1>9. ASSUME UNCHANGED vars PROVE EntriesOK'
  BY <1>2, <1>9 DEF vars, spoolVars, spool
<1> QED BY <1>3, <1>4, <1>5, <1>6, <1>7, <1>8, <1>9, Steps

(* Temporary files of live processes stay: whoever removes temporary files *)
(* has the lock, or found it free.                                         *)
LEMMA TempsStay ==
  ASSUME IInv, [Next]_vars
  PROVE  LiveTempsStay'
<1> USE Distinct
<1>0. Types /\ LockOK /\ DrainOK /\ LiveTempsStay
  BY DEF IInv
<1>1. ASSUME temps' = temps, \A h \in Hooks : hook'[h] = hook[h] \/ hook'[h].at # "written"
      PROVE  LiveTempsStay'
  BY <1>0, <1>1 DEF LiveTempsStay
<1>2. ASSUME flock = Nobody \/ flock \in Daemons,
             \A h \in Hooks : hook'[h] = hook[h] \/ hook'[h].at # "written"
      PROVE  LiveTempsStay'
  <2>1. \A h \in Hooks : hook[h].at # "written"
    BY <1>0, <1>2 DEF LockOK, InSpool
  <2> QED BY <1>2, <2>1 DEF LiveTempsStay
<1>3. ASSUME NEW d \in Daemons, Alone(d) PROVE LiveTempsStay'
  BY <1>0, <1>1, <1>3, AloneFacts DEF spoolVars, spool
<1>4. ASSUME NEW d \in Daemons, DaemonOpensSpool(d) \/ Tick(d) PROVE LiveTempsStay'
  BY <1>2, <1>4 DEF DaemonOpensSpool, Open, Tick, Acquire
<1>5. ASSUME NEW d \in Daemons, Drained(d) \/ Dies(d) PROVE LiveTempsStay'
  BY <1>1, <1>5 DEF Drained, Dies
<1>6. ASSUME NEW d \in Daemons, NEW t \in Clock, CommitEntry(d, t) \/ RemoveEntry(d, t)
      PROVE  LiveTempsStay'
  BY <1>1, <1>6 DEF CommitEntry, RemoveEntry, spoolVars, spool
<1>7. ASSUME NEW h \in Hooks, HookMoves(h) PROVE LiveTempsStay'
  <2> USE <1>0, HookWents DEF HookWent
  <2>1. CASE OpenSpool(h)
    BY <1>2, <2>1 DEF OpenSpool, Open
  <2>2. CASE LockSpool(h)
    BY <1>2, <2>2 DEF LockSpool, Acquire
  <2>3. CASE RefuseFull(h)
    BY <1>2, <2>3 DEF RefuseFull
  <2>4. CASE WriteTemp(h)
    <3>1. PICK t \in Clock : /\ temps' = temps \cup {t} /\ hook'[h].name = {t}
                             /\ \A g \in Hooks \ {h} : hook'[g] = hook[g]
      BY <2>4
    <3>2. \A g \in Hooks : hook'[g].at = "written" => hook'[g].name \subseteq temps'
      BY <3>1 DEF LiveTempsStay
    <3> QED BY <3>2 DEF LiveTempsStay
  <2>5. CASE Publish(h) \/ PublishFails(h)
    <3>1. /\ hook[h].at = "written" /\ hook'[h].at = "done"
          /\ \A g \in Hooks \ {h} : hook'[g] = hook[g]
      BY <2>5
    <3>2. flock = h
      BY <3>1 DEF LockOK, InSpool
    <3>3. \A g \in Hooks \ {h} : hook[g].at # "written"
      BY <3>2 DEF LockOK, InSpool
    <3> QED BY <3>1, <3>3 DEF LiveTempsStay
  <2>6. CASE HookDies(h)
    BY <1>1, <2>6 DEF HookDies
  <2>7. ASSUME NEW s \in Sources, Notice(h, s) PROVE LiveTempsStay'
    <3>1. temps' = temps
      BY <2>7 DEF Notice, spool
    <3> QED BY <1>1, <2>7, <3>1
  <2> QED BY <1>7, <2>1, <2>2, <2>3, <2>4, <2>5, <2>6, <2>7 DEF HookMoves, HookStep
<1>8. ASSUME NEW s \in Sources, Grow(s) PROVE LiveTempsStay'
  BY <1>1, <1>8 DEF Grow, spool
<1>9. ASSUME UNCHANGED vars PROVE LiveTempsStay'
  BY <1>1, <1>9 DEF vars, spoolVars, spool
<1> QED BY <1>3, <1>4, <1>5, <1>6, <1>7, <1>8, <1>9, Steps

(* Nobody takes the listed entries from under a draining daemon.           *)
LEMMA DrainStays ==
  ASSUME IInv, [Next]_vars
  PROVE  DrainOK'
<1> USE Distinct DEF Draining
<1>0. Types /\ LockOK /\ EntriesOK /\ DrainOK /\ EntriesOK'
  BY EntriesStay DEF IInv
<1>1. ASSUME NEW d \in Daemons, entries' = entries, at'[d] = at[d], listed'[d] = listed[d],
             waiting'[d] = waiting[d]
      PROVE  DrainsOK(d)'
  BY <1>0, <1>1 DEF DrainOK, DrainsOK, First
<1>2. ASSUME NEW d \in Daemons, listed'[d] = {}, at'[d] # "remove" PROVE DrainsOK(d)'
  BY <1>2 DEF DrainsOK
<1>3. ASSUME UNCHANGED <<entries, at, listed, waiting>> PROVE DrainOK'
  BY <1>1, <1>3 DEF DrainOK
<1>4. ASSUME NEW d \in Daemons, flock # d, at'[d] = at[d], listed'[d] = listed[d]
      PROVE  DrainsOK(d)'
  BY <1>0, <1>2, <1>4 DEF LockOK, DrainOK, DrainsOK
<1>5. ASSUME NEW d \in Daemons, Alone(d) PROVE DrainOK'
  <2>1. /\ entries' = entries /\ listed'[d] = {} /\ at'[d] # "remove"
        /\ \A e \in Daemons \ {d} : /\ at'[e] = at[e] /\ waiting'[e] = waiting[e]
                                    /\ listed'[e] = listed[e]
    BY <1>0, <1>5, AloneFacts DEF spoolVars, spool
  <2>2. ASSUME NEW e \in Daemons PROVE DrainsOK(e)'
    BY <1>1, <1>2, <2>1
  <2> QED BY <2>2 DEF DrainOK
<1>6. ASSUME NEW d \in Daemons, DaemonOpensSpool(d) PROVE DrainOK'
  <2>1. /\ entries' = entries /\ UNCHANGED <<listed, waiting>> /\ listed[d] = {}
        /\ at'[d] = "serve" /\ \A e \in Daemons \ {d} : at'[e] = at[e]
    BY <1>0, <1>6 DEF DaemonOpensSpool, Open, Goto, memory, Types, DrainOK, DrainsOK
  <2>2. ASSUME NEW e \in Daemons PROVE DrainsOK(e)'
    BY <1>1, <1>2, <2>1
  <2> QED BY <2>2 DEF DrainOK
<1>7. ASSUME NEW d \in Daemons, Tick(d) PROVE DrainOK'
  <2>1. /\ entries' = entries /\ waiting' = waiting /\ listed'[d] = DOMAIN entries
        /\ at'[d] = "drain"
        /\ \A e \in Daemons \ {d} : at'[e] = at[e] /\ listed'[e] = listed[e]
    BY <1>0, <1>7 DEF Tick, Goto, Types
  <2>2. ASSUME NEW e \in Daemons PROVE DrainsOK(e)'
    <3>1. CASE e = d
      BY <2>1, <3>1 DEF DrainsOK
    <3>2. CASE e # d
      BY <1>1, <2>1, <3>2
    <3> QED BY <3>1, <3>2
  <2> QED BY <2>2 DEF DrainOK
<1>8. ASSUME NEW d \in Daemons, Drained(d) PROVE DrainOK'
  <2>1. /\ entries' = entries /\ UNCHANGED <<listed, waiting>> /\ listed[d] = {}
        /\ at'[d] = "work" /\ \A e \in Daemons \ {d} : at'[e] = at[e]
    BY <1>0, <1>8 DEF Drained, Goto, memory, Types
  <2>2. ASSUME NEW e \in Daemons PROVE DrainsOK(e)'
    BY <1>1, <1>2, <2>1
  <2> QED BY <2>2 DEF DrainOK
<1>9. ASSUME NEW d \in Daemons, Dies(d) PROVE DrainOK'
  <2>1. /\ entries' = entries /\ listed'[d] = {} /\ at'[d] = "down"
        /\ \A e \in Daemons \ {d} : /\ at'[e] = at[e] /\ waiting'[e] = waiting[e]
                                    /\ listed'[e] = listed[e]
    BY <1>0, <1>9 DEF Dies, Ends, Goto, Types
  <2>2. ASSUME NEW e \in Daemons PROVE DrainsOK(e)'
    BY <1>1, <1>2, <2>1
  <2> QED BY <2>2 DEF DrainOK
<1>10. ASSUME NEW d \in Daemons, NEW t \in Clock, CommitEntry(d, t) PROVE DrainOK'
  <2>1. /\ entries' = entries /\ listed' = listed /\ at[d] = "drain" /\ at'[d] = "remove"
        /\ waiting'[d] = waiting[d] \cup entries[t] /\ First(d, t)
        /\ \A e \in Daemons \ {d} : at'[e] = at[e] /\ waiting'[e] = waiting[e]
    BY <1>0, <1>10 DEF CommitEntry, Goto, spoolVars, spool, Types
  <2>2. ASSUME NEW u \in DOMAIN entries, First(d, u) PROVE u = t
    <3>1. u <= t /\ t <= u /\ u \in Nat /\ t \in Nat
      BY <1>0, <2>1, <2>2, SpoolAssumption DEF First, EntriesOK
    <3> QED BY <3>1
  <2>3. \A u \in DOMAIN entries : First(d, u)' => entries[u] \subseteq waiting'[d]
    BY <2>1, <2>2 DEF First
  <2>4. ASSUME NEW e \in Daemons PROVE DrainsOK(e)'
    <3>1. CASE e = d
      BY <1>0, <2>1, <2>3, <3>1 DEF DrainOK, DrainsOK
    <3>2. CASE e # d
      BY <1>1, <2>1, <3>2
    <3> QED BY <3>1, <3>2
  <2> QED BY <2>4 DEF DrainOK
<1>11. ASSUME NEW d \in Daemons, NEW t \in Clock, RemoveEntry(d, t) PROVE DrainOK'
  <2>1. /\ entries' = [u \in DOMAIN entries \ {t} |-> entries[u]]
        /\ listed'[d] = listed[d] \ {t} /\ at[d] = "remove" /\ at'[d] = "drain"
        /\ \A e \in Daemons \ {d} : at'[e] = at[e] /\ listed'[e] = listed[e]
    BY <1>0, <1>11 DEF RemoveEntry, Goto, Types
  <2>2. flock = d
    BY <1>0, <2>1 DEF LockOK
  <2>3. ASSUME NEW e \in Daemons PROVE DrainsOK(e)'
    <3>1. CASE e = d
      BY <1>0, <2>1, <3>1 DEF DrainOK, DrainsOK
    <3>2. CASE e # d
      BY <1>4, <2>1, <2>2, <3>2
    <3> QED BY <3>1, <3>2
  <2> QED BY <2>3 DEF DrainOK
<1>12. ASSUME NEW h \in Hooks, HookMoves(h), OutsideDaemons PROVE DrainOK'
  <2>1. UNCHANGED <<at, listed, waiting>>
    BY <1>12 DEF OutsideDaemons, memory
  <2>2. CASE Publish(h)
    <3>1. flock = h
      BY <1>0, <2>2 DEF Publish, LockOK, InSpool
    <3>2. \A e \in Daemons : DrainsOK(e)'
      BY <1>4, <2>1, <3>1
    <3> QED BY <3>2 DEF DrainOK
  <2>3. CASE ~Publish(h)
    <3>1. entries' = entries
      BY <1>12, <2>3 DEF HookMoves, HookStep, Notice, OpenSpool, Open, LockSpool, RefuseFull,
                         WriteTemp, PublishFails, HookDies, spool
    <3> QED BY <1>3, <2>1, <3>1
  <2> QED BY <2>2, <2>3
<1>13. ASSUME NEW s \in Sources, Grow(s), OutsideDaemons PROVE DrainOK'
  BY <1>3, <1>13 DEF Grow, OutsideDaemons, memory, spool
<1>14. ASSUME UNCHANGED vars PROVE DrainOK'
  BY <1>3, <1>14 DEF vars, spoolVars, spool, memory
<1> QED BY <1>5, <1>6, <1>7, <1>8, <1>9, <1>10, <1>11, <1>12, <1>13, <1>14, Steps

(* Registration and ingestion never disagree about a source.               *)
LEMMA FactsStay ==
  ASSUME IInv, [Next]_vars
  PROVE  FactsOK'
<1>0. Types /\ FactsOK /\ Types'
  BY TypesStay DEF IInv
<1>1. ASSUME UNCHANGED <<file, reg, cursor>>,
             \A d \in Daemons, s \in Sources :
               /\ known'[d][s] \in {0, known[d][s]}
               /\ found'[d][s] \in {0, found[d][s], file[s]}
      PROVE  FactsOK'
  <2>1. \A s \in Sources : file[s] \in Nat
    BY <1>0 DEF Types
  <2>2. FactsAgree'
    BY <1>0, <1>1 DEF FactsOK, FactsAgree
  <2>3. ASSUME NEW d \in Daemons, NEW s \in Sources PROVE found'[d][s] <= file'[s]
    BY <1>0, <1>1, <2>1 DEF FactsOK
  <2> QED BY <2>2, <2>3 DEF FactsOK
<1>2. ASSUME UNCHANGED <<file, reg, cursor, found, known>> PROVE FactsOK'
  BY <1>1, <1>2
<1>3. ASSUME NEW d \in Daemons, Ends(d), UNCHANGED <<file, reg, cursor>> PROVE FactsOK'
  BY <1>0, <1>1, <1>3 DEF Ends, Types
<1>4. ASSUME NEW d \in Daemons, Alone(d) PROVE FactsOK'
  <2> USE DEF store, memory, bounds, spoolVars, spool
  <2>1. CASE FindNoSocket(d) \/ FindLiveSocket(d) \/ FindStaleSocket(d)
    BY <1>2, <2>1 DEF Start, FindNoSocket, FindLiveSocket, FindStaleSocket
  <2>2. CASE RemoveStale(d) \/ CreateSocket(d) \/ Registered(d) \/ Worked(d) \/ Interrupt(d)
    BY <1>2, <2>2 DEF RemoveStale, CreateSocket, Registered, Worked, Interrupt
  <2>3. CASE NothingToRemove(d) \/ SocketInUse(d) \/ Refused(d) \/ Closed(d)
    BY <1>3, <2>3 DEF NothingToRemove, SocketInUse, Refused, Closed
  <2>4. ASSUME NEW s \in Sources, RegisterConflict(d, s) \/ NothingNew(d, s) PROVE FactsOK'
    BY <1>2, <2>4 DEF RegisterConflict, NothingNew
  <2>5. ASSUME NEW s \in Sources, BootFails(d, s) \/ WorkFails(d, s) PROVE FactsOK'
    BY <1>3, <2>5 DEF BootFails, WorkFails
  <2>6. CASE Discover(d)
    BY <1>0, <1>1, <2>6 DEF Discover, Types
  <2>7. ASSUME NEW s \in Sources, SkipChanged(d, s) PROVE FactsOK'
    BY <1>0, <1>1, <2>7 DEF SkipChanged, Forgotten, Types
  <2>8. ASSUME NEW s \in Sources, Register(d, s) PROVE FactsOK'
    <3>1. /\ UNCHANGED <<file, cursor>>
          /\ reg' = [reg EXCEPT ![s] = found[d][s]]
          /\ known' = [known EXCEPT ![d][s] = found[d][s]]
          /\ found' = [found EXCEPT ![d][s] = 0]
          /\ reg[s] = 0 \/ (reg[s] = found[d][s] /\ cursor[s] = 0)
      BY <2>8 DEF Register, TakeUp, Forgotten
    <3>2. ASSUME NEW r \in Sources
          PROVE  /\ cursor'[r] <= reg'[r] /\ reg'[r] <= file'[r]
                 /\ \A e \in Daemons : known'[e][r] \in {0, reg'[r]}
                 /\ \A e \in Daemons : found'[e][r] <= file'[r]
      <4>1. /\ cursor[r] <= reg[r] /\ reg[r] <= file[r] /\ cursor[r] \in Nat /\ file[r] \in Nat
            /\ \A e \in Daemons : known[e][r] \in {0, reg[r]} /\ found[e][r] <= file[r]
            /\ \A e \in Daemons : found[e][r] \in Nat
        BY <1>0 DEF Types, FactsOK, FactsAgree
      <4>2. \A e \in Daemons : found'[e][r] \in {0, found[e][r]}
        BY <1>0, <3>1 DEF Types
      <4>3. CASE r # s
        <5>1. reg'[r] = reg[r] /\ \A e \in Daemons : known'[e][r] = known[e][r]
          BY <1>0, <3>1, <4>3 DEF Types
        <5> QED BY <3>1, <4>1, <4>2, <5>1
      <4>4. CASE r = s
        <5>1. /\ reg'[r] = found[d][r] /\ known'[d][r] = found[d][r]
              /\ \A e \in Daemons \ {d} : known'[e][r] = known[e][r]
          BY <1>0, <3>1, <4>4 DEF Types
        <5>2. cursor[r] <= found[d][r]
          BY <3>1, <4>1, <4>4
        <5>3. \A e \in Daemons : known'[e][r] \in {0, found[d][r]}
          BY <3>1, <4>1, <4>4, <5>1
        <5> QED BY <3>1, <4>1, <4>2, <5>1, <5>2, <5>3
      <4> QED BY <4>3, <4>4
    <3> QED BY <3>2 DEF FactsOK, FactsAgree
  <2>9. ASSUME NEW s \in Sources, Ingest(d, s) PROVE FactsOK'
    <3>1. PICK n \in (cursor[s] + 1) .. known[d][s] : cursor' = [cursor EXCEPT ![s] = n]
      BY <2>9 DEF Ingest
    <3>2. UNCHANGED <<file, reg, found, known>> /\ known[d][s] # 0
      BY <2>9 DEF Ingest, Unchanged
    <3>3. n <= reg[s]
      <4>1. known[d][s] \in {0, reg[s]} /\ known[d][s] \in Nat /\ cursor[s] \in Nat
        BY <1>0 DEF FactsOK, FactsAgree, Types
      <4> QED BY <3>1, <3>2, <4>1
    <3>4. ASSUME NEW r \in Sources PROVE cursor'[r] <= reg'[r]
      BY <1>0, <3>1, <3>2, <3>3 DEF FactsOK, FactsAgree, Types
    <3> QED BY <1>0, <3>2, <3>4 DEF FactsOK, FactsAgree
  <2> QED BY <1>4, <2>1, <2>2, <2>3, <2>4, <2>5, <2>6, <2>7, <2>8, <2>9 DEF Alone
<1>5. ASSUME NEW d \in Daemons, DaemonOpensSpool(d) \/ Tick(d) \/ Drained(d) PROVE FactsOK'
  BY <1>2, <1>5 DEF DaemonOpensSpool, Tick, Drained, store, memory
<1>6. ASSUME NEW d \in Daemons, Dies(d) PROVE FactsOK'
  BY <1>3, <1>6 DEF Dies, store
<1>7. ASSUME NEW d \in Daemons, NEW t \in Clock, CommitEntry(d, t) \/ RemoveEntry(d, t)
      PROVE  FactsOK'
  BY <1>2, <1>7 DEF CommitEntry, RemoveEntry, store, spoolVars
<1>8. ASSUME NEW h \in Hooks, HookMoves(h), OutsideDaemons PROVE FactsOK'
  <2>1. file' = file
    BY <1>8 DEF HookMoves, HookStep, Notice, OpenSpool, LockSpool, RefuseFull, WriteTemp,
                Publish, PublishFails, HookDies
  <2> QED BY <1>2, <1>8, <2>1 DEF OutsideDaemons, store, memory
<1>9. ASSUME NEW s \in Sources, Grow(s), OutsideDaemons PROVE FactsOK'
  <2>1. /\ UNCHANGED <<reg, cursor, found, known>>
        /\ file' = [file EXCEPT ![s] = @ + 1]
    BY <1>9 DEF Grow, OutsideDaemons, store, memory
  <2>2. \A r \in Sources : file[r] \in Nat /\ file'[r] \in Nat /\ file[r] <= file'[r]
    BY <1>0, <2>1 DEF Types
  <2>3. \A r \in Sources : reg[r] \in Nat /\ \A d \in Daemons : found[d][r] \in Nat
    BY <1>0 DEF Types
  <2> QED BY <1>0, <2>1, <2>2, <2>3 DEF FactsOK, FactsAgree
<1>10. ASSUME UNCHANGED vars PROVE FactsOK'
  BY <1>2, <1>10 DEF vars, spoolVars, store, memory
<1> QED BY <1>4, <1>5, <1>6, <1>7, <1>8, <1>9, <1>10, Steps


-----------------------------------------------------------------------------
(* Both first starts are good ones. *)
LEMMA InitGood ==
  ASSUME Init
  PROVE  IInv
<1> USE Distinct DEF Init, SpoolInit
<1>1. Types
  <2>1. hook \in [Hooks -> [at : HookPlaces, source : SUBSET Sources, name : SUBSET Clock]]
    BY DEF Idle, HookPlaces
  <2>2. /\ file \in [Sources -> 0 .. MaxSize] /\ reg \in [Sources -> Nat]
        /\ cursor \in [Sources -> Nat]
    BY SpoolAssumption
  <2>3. temps \subseteq Clock /\ socket \in Daemons \cup {Stale, Nobody}
    OBVIOUS
  <2>4. at \in [Daemons -> DaemonPlaces]
    BY DEF DaemonPlaces
  <2>5. /\ found \in [Daemons -> [Sources -> Nat]] /\ known \in [Daemons -> [Sources -> Nat]]
        /\ waiting \in [Daemons -> SUBSET Sources] /\ listed \in [Daemons -> SUBSET Clock]
    OBVIOUS
  <2> QED BY <2>1, <2>2, <2>3, <2>4, <2>5 DEF Types
<1>2. LockOK
  BY DEF LockOK, Draining, InSpool, Idle
<1>3. \A h \in Hooks : ~InSpool(h) /\ hook[h].at # "written"
  BY DEF InSpool, Idle
<1>4. /\ DOMAIN entries \subseteq Clock /\ IsFiniteSet(DOMAIN entries)
      /\ \A t \in DOMAIN entries : entries[t] \subseteq Sources
      /\ Cardinality(DOMAIN entries) <= MaxEntries
  <2>1. CASE entries = <<>>
    <3>1. DOMAIN entries = {}
      BY <2>1
    <3> QED BY <3>1, FS_EmptySet, SpoolAssumption
  <2>2. CASE \E s \in Sources : entries = [t \in {CHOOSE t \in Clock : TRUE} |-> {s}]
    <3>1. PICK s \in Sources : entries = [t \in {CHOOSE t \in Clock : TRUE} |-> {s}]
      BY <2>2
    <3>2. PICK x : x = CHOOSE t \in Clock : TRUE
      OBVIOUS
    <3>3. x \in Clock
      BY <3>2, SpoolAssumption
    <3>4. DOMAIN entries = {x} /\ entries[x] = {s}
      BY <3>1, <3>2
    <3>5. IsFiniteSet({x}) /\ Cardinality({x}) = 1
      BY FS_Singleton
    <3> QED BY <3>3, <3>4, <3>5, SpoolAssumption
  <2> QED BY <2>1, <2>2
<1>5. EntriesOK
  BY <1>3, <1>4 DEF EntriesOK
<1>6. LiveTempsStay
  BY <1>3 DEF LiveTempsStay
<1>7. DrainOK
  BY DEF DrainOK, DrainsOK
<1>8. FactsOK
  BY DEF FactsOK, FactsAgree
<1> QED BY <1>1, <1>2, <1>5, <1>6, <1>7, <1>8 DEF IInv

(* Every step keeps the inductive invariant.                               *)
LEMMA IInvStays ==
  ASSUME IInv, [Next]_vars
  PROVE  IInv'
BY TypesStay, LockStays, EntriesStay, TempsStay, DrainStays, FactsStay DEF IInv

(* The inductive invariant of the daemons and the hook processes: who is   *)
(* inside the spool has the lock, what it counted or listed under the lock *)
(* is still so, and the sizes a daemon knows are the registered ones       *)
(* (HookSpool::enqueue and drain, register_source).                        *)
THEOREM DaemonInvariant == Spec => []IInv
<1> QED BY InitGood, IInvStays, PTL DEF Spec

(* What processes share stays whole, whichever of them are started beside  *)
(* each other or killed: the lock, the spool's temporary files and its     *)
(* limit, and the facts every daemon has about a source.                   *)
THEOREM SharedStateStaysSound == Spec => []SharedStateIsSound
<1>1. IInv => SharedStateIsSound
  <2> SUFFICES ASSUME IInv PROVE SharedStateIsSound
    OBVIOUS
  <2>1. Types /\ LockOK /\ EntriesOK /\ LiveTempsStay /\ DrainOK /\ FactsOK
    BY DEF IInv
  <2>2. SpoolTypeOK
    BY <2>1 DEF Types, EntriesOK, SpoolTypeOK
  <2>3. /\ socket \in Daemons \cup {Stale, Nobody}
        /\ \A d \in Daemons : waiting[d] \subseteq Sources /\ listed[d] \subseteq DOMAIN entries
    BY <2>1 DEF Types, DrainOK, DrainsOK
  <2>4. TypeOK
    BY <2>1, <2>2, <2>3 DEF TypeOK, LockOK, Draining, InSpool
  <2>5. SpoolSafe
    BY <2>1 DEF SpoolSafe, WithinLimit, EntriesOK
  <2> QED BY <2>1, <2>4, <2>5 DEF SharedStateIsSound, FactsOK
<1> QED BY <1>1, DaemonInvariant, PTL

(* A step takes back neither progress nor registration. *)
LEMMA ProgressGoesOn ==
  ASSUME IInv, [Next]_vars, NEW r \in Sources
  PROVE  cursor'[r] >= cursor[r] /\ (reg[r] # 0 => reg'[r] = reg[r])
<1>0. Types /\ cursor[r] \in Nat
  BY DEF IInv, Types
<1>1. ASSUME UNCHANGED <<reg, cursor>> PROVE cursor'[r] >= cursor[r] /\ reg'[r] = reg[r]
  BY <1>0, <1>1
<1>2. ASSUME NEW d \in Daemons, Alone(d)
      PROVE  cursor'[r] >= cursor[r] /\ (reg[r] # 0 => reg'[r] = reg[r])
  <2>1. ASSUME NEW s \in Sources, Register(d, s)
        PROVE  cursor'[r] >= cursor[r] /\ (reg[r] # 0 => reg'[r] = reg[r])
    BY <1>0, <2>1 DEF Register, Types
  <2>2. ASSUME NEW s \in Sources, Ingest(d, s)
        PROVE  cursor'[r] >= cursor[r] /\ (reg[r] # 0 => reg'[r] = reg[r])
    <3>1. PICK n \in (cursor[s] + 1) .. known[d][s] : cursor' = [cursor EXCEPT ![s] = n]
      BY <2>2 DEF Ingest
    <3>2. reg' = reg /\ cursor[s] \in Nat
      BY <1>0, <2>2 DEF Ingest, Types
    <3> QED BY <1>0, <3>1, <3>2 DEF Types
  <2>3. CASE ~\E s \in Sources : Register(d, s) \/ Ingest(d, s)
    <3>1. UNCHANGED <<reg, cursor>>
      BY <1>2, <2>3 DEF Alone, Start, FindNoSocket, FindLiveSocket, FindStaleSocket, RemoveStale,
           NothingToRemove, CreateSocket, SocketInUse, Discover, Registered, Refused, Worked,
           Interrupt, Closed, SkipChanged, RegisterConflict, BootFails, NothingNew, WorkFails,
           store
    <3> QED BY <1>1, <3>1
  <2> QED BY <2>1, <2>2, <2>3
<1>3. ASSUME NEW d \in Daemons, DaemonOpensSpool(d) \/ Tick(d) \/ Drained(d) \/ Dies(d)
      PROVE  UNCHANGED <<reg, cursor>>
  BY <1>3 DEF DaemonOpensSpool, Tick, Drained, Dies, store
<1>4. ASSUME NEW d \in Daemons, NEW t \in Clock, CommitEntry(d, t) \/ RemoveEntry(d, t)
      PROVE  UNCHANGED <<reg, cursor>>
  BY <1>4 DEF CommitEntry, RemoveEntry, store
<1>5. OutsideDaemons => UNCHANGED <<reg, cursor>>
  BY DEF OutsideDaemons, store
<1> QED BY <1>1, <1>2, <1>3, <1>4, <1>5, Steps DEF vars, store

(* An entry leaves by the hand of the daemon that queued its source. *)
LEMMA EntriesGo ==
  ASSUME IInv, [Next]_vars, NEW t \in DOMAIN entries
  PROVE  \/ t \in DOMAIN entries' /\ entries'[t] = entries[t]
         \/ \E d \in Daemons : flock = d /\ entries[t] \subseteq waiting[d]
<1>0. Types /\ LockOK /\ DrainOK
  BY DEF IInv
<1>1. ASSUME NEW d \in Daemons, Alone(d) PROVE entries' = entries
  BY <1>0, <1>1, AloneFacts DEF spoolVars, spool
<1>2. ASSUME NEW d \in Daemons, DaemonOpensSpool(d) \/ Tick(d) \/ Drained(d) \/ Dies(d)
      PROVE  entries' = entries
  BY <1>2 DEF DaemonOpensSpool, Open, Tick, Drained, Dies
<1>3. ASSUME NEW d \in Daemons, NEW u \in Clock, CommitEntry(d, u) PROVE entries' = entries
  BY <1>3 DEF CommitEntry, spoolVars, spool
<1>4. ASSUME NEW d \in Daemons, NEW u \in Clock, RemoveEntry(d, u)
      PROVE  \/ t \in DOMAIN entries' /\ entries'[t] = entries[t]
             \/ flock = d /\ entries[t] \subseteq waiting[d]
  <2>1. /\ entries' = [v \in DOMAIN entries \ {u} |-> entries[v]]
        /\ at[d] = "remove" /\ First(d, u)
    BY <1>4 DEF RemoveEntry
  <2>2. CASE t # u
    BY <2>1, <2>2
  <2>3. CASE t = u
    <3>1. flock = d
      BY <1>0, <2>1 DEF LockOK, Draining
    <3>2. entries[t] \subseteq waiting[d]
      BY <1>0, <2>1, <2>3 DEF DrainOK, DrainsOK
    <3> QED BY <3>1, <3>2
  <2> QED BY <2>2, <2>3
<1>5. ASSUME NEW h \in Hooks, HookMoves(h)
      PROVE  t \in DOMAIN entries' /\ entries'[t] = entries[t]
  <2>1. CASE Publish(h)
    <3>1. PICK u \in hook[h].name :
            /\ u \notin DOMAIN entries
            /\ entries' = [v \in DOMAIN entries \cup {u} |->
                             IF v = u THEN hook[h].source ELSE entries[v]]
      BY <2>1 DEF Publish
    <3>2. t # u
      BY <3>1
    <3> QED BY <3>1, <3>2
  <2>2. CASE ~Publish(h)
    <3>1. entries' = entries
      BY <1>5, <2>2 DEF HookMoves, HookStep, Notice, OpenSpool, Open, LockSpool, RefuseFull,
                        WriteTemp, PublishFails, HookDies, spool
    <3> QED BY <3>1
  <2> QED BY <2>1, <2>2
<1>6. ASSUME NEW s \in Sources, Grow(s) PROVE entries' = entries
  BY <1>6 DEF Grow, spool
<1>7. ASSUME UNCHANGED vars PROVE entries' = entries
  BY <1>7 DEF vars, spoolVars, spool
<1> QED BY <1>1, <1>2, <1>3, <1>4, <1>5, <1>6, <1>7, Steps

(* Neither a restart nor a second daemon takes back what is registered or  *)
(* ingested, and a published signal is removed only by the holder of the   *)
(* lock, after its source entered that daemon's queue (drain's commit      *)
(* before the removal).                                                    *)
THEOREM NothingIsEverTakenBack == Spec => NothingIsTakenBack
<1> DEFINE Progress == \A s \in Sources : /\ cursor'[s] >= cursor[s]
                                          /\ reg[s] # 0 => reg'[s] = reg[s]
           Leaves == \A t \in DOMAIN entries :
                       \/ t \in DOMAIN entries' /\ entries'[t] = entries[t]
                       \/ \E d \in Daemons : flock = d /\ entries[t] \subseteq waiting[d]
<1>1. IInv /\ [Next]_vars => [Progress]_vars
  BY ProgressGoesOn
<1>2. IInv /\ [Next]_vars => [Leaves]_vars
  BY EntriesGo
<1>3. Spec => [][Progress]_vars
  BY <1>1, DaemonInvariant, PTL DEF Spec
<1>4. Spec => [][Leaves]_vars
  BY <1>2, DaemonInvariant, PTL DEF Spec
<1> QED BY <1>3, <1>4 DEF NothingIsTakenBack, ProgressIsKept, EntriesLeaveWhenQueued
=============================================================================
