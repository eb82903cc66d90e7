---------------------------- MODULE CameraRecords ----------------------------
(***************************************************************************)
(* What the server keeps of a camera beside its footage: the row of the    *)
(* database and the camera in memory (camera/store.go, the create, update  *)
(* and delete handlers), the recording program it refers to, the talk      *)
(* codecs probed on it, its motion events (events/, the webhook) and one   *)
(* restricted user's list of cameras (acl.go).                             *)
(*                                                                         *)
(* Camera handlers and the deletion of a program hold camMutateMu, so at   *)
(* most one is at work; every other request interleaves with its           *)
(* statements.  PrivacyControl and CameraPipeline model what the same      *)
(* handlers do to the privacy state and to the engine.                     *)
(*                                                                         *)
(* Every name here starts with Reg or reg.                                 *)
(***************************************************************************)
EXTENDS Integers

CONSTANTS
    RegIds,         \* ids of cameras
    RegScheds,      \* ids of recording programs
    RegHooks,       \* webhook requests in progress at once
    RegNone,        \* nothing: no camera, no program, no row
    RegCalls,       \* bound: handlers that take the lock and motions, together
    RegTimes        \* bound: motions are reported in 0..RegTimes

ASSUME RegAssumption ==
    /\ RegCalls \in Nat /\ RegTimes \in Nat
    /\ RegNone \notin RegIds \cup RegScheds

VARIABLES
    regRow,         \* the cameras of the database
    regMem,         \* the cameras in memory
    regSched,       \* the stored programs
    regWork,        \* the handler that holds camMutateMu
    regWritten,     \* handlers so far; numbers the configurations
    regReported,    \* webhook requests so far
    regGen,         \* cfgGen: how often a camera's caches have been dropped
    regCodecs,      \* talkCodecs: the configuration they were probed on
    regProbes,      \* probes of talk codecs in flight
    regEvents,      \* the events table
    regSeq,         \* its AUTOINCREMENT sequence
    regHook,        \* the webhook requests
    regErase,       \* a listed event that an administrator wants to delete
    regAcl,         \* camera_acl: the user's rows
    regGrant,       \* the cameras that a new list for the user has named so far
    regMade,        \* history: events inserted so far
    regAcked        \* history: the motions acknowledged, and not deleted since

regVars == <<regRow, regMem, regSched, regWork, regWritten, regReported, regGen, regCodecs,
             regProbes, regEvents, regSeq, regHook, regErase, regAcl, regGrant, regMade, regAcked>>
regCameras == <<regRow, regMem, regWork, regWritten, regGen, regCodecs, regProbes>>
regTables == <<regReported, regEvents, regSeq, regHook, regErase, regMade, regAcked>>
regLists == <<regAcl, regGrant>>
regOthers == <<regCameras, regSched, regLists>>

\* config numbers what the camera is configured as, born its first configuration.
RegCamera == [config : 1..RegCalls + 1, born : 1..RegCalls + 1, enabled : BOOLEAN,
              sched : RegScheds \cup {RegNone}]
ASSUME RegNoCamera == RegNone \notin RegCamera
RegIdle == [op |-> "none", id |-> RegNone, cam |-> RegNone, at |-> "idle"]
RegWaits == [at |-> "idle", cam |-> RegNone, born |-> 0, start |-> 0, end |-> 0, row |-> RegNone]

RegBorn(cams, id) == IF cams[id] = RegNone THEN 0 ELSE cams[id].born
RegCovers(e, m) == e.cam = m.cam /\ e.start <= m.start /\ m.end <= e.end

RegInit ==
    /\ \E cams \in [RegIds -> {RegNone, [config |-> 1, born |-> 1, enabled |-> TRUE, sched |-> RegNone]}] :
        /\ regRow = cams /\ regMem = cams
        \* seedTalkCodecs, before the first request
        /\ regProbes = {[id |-> id, config |-> 1, gen |-> 0, at |-> "fetch"] :
                            id \in {i \in RegIds : cams[i] # RegNone}}
    /\ regSched \in SUBSET RegScheds
    /\ regWork = RegIdle /\ regWritten = 1 /\ regReported = 0
    /\ regGen = [id \in RegIds |-> 0] /\ regCodecs = [id \in RegIds |-> 0]
    /\ regEvents = {} /\ regSeq = 0 /\ regHook = [h \in RegHooks |-> RegWaits]
    /\ regErase = RegNone /\ regAcl = {} /\ regGrant = {} /\ regMade = 0 /\ regAcked = {}

-----------------------------------------------------------------------------
(* Camera handlers.  regWork.at names the statement that comes next.       *)

RegAt(op, at) == regWork.op \in op /\ regWork.at = at
RegGo(at) == regWork' = [regWork EXCEPT !.at = at]
RegReturn == regWork' = RegIdle

\* The bound.
RegBudget == regWritten + regReported <= RegCalls

\* A create, update or delete of a camera, or the deletion of a program, takes the lock.
RegLocks(op, id, sched, enabled) ==
    /\ regWork = RegIdle /\ RegBudget
    /\ regWritten' = regWritten + 1
    /\ regWork' = [op |-> op, id |-> id, at |-> "check",
                   cam |-> IF op = "delete" THEN RegNone
                           ELSE [config |-> regWritten + 1, born |-> regWritten + 1,
                                 enabled |-> enabled, sched |-> sched]]
    /\ UNCHANGED <<regRow, regMem, regSched, regGen, regCodecs, regProbes, regTables, regLists>>

\* scheduleExists.
RegChecksSchedule ==
    /\ RegAt({"create", "update"}, "check")
    /\ IF regWork.cam.sched \in regSched \cup {RegNone} THEN RegGo("row") ELSE RegReturn
    /\ UNCHANGED <<regRow, regMem, regSched, regWritten, regGen, regCodecs, regProbes,
                   regTables, regLists>>

\* UniqueID and Create: an id that no camera has.
RegCreatesRow ==
    /\ RegAt({"create"}, "row")
    /\ IF regRow[regWork.id] = RegNone
       THEN regRow' = [regRow EXCEPT ![regWork.id] = regWork.cam] /\ RegGo("memory")
       ELSE UNCHANGED regRow /\ RegReturn
    /\ UNCHANGED <<regMem, regSched, regWritten, regGen, regCodecs, regProbes, regTables, regLists>>

\* Update; its camera keeps what it was born as.
RegUpdatesRow ==
    /\ RegAt({"update"}, "row")
    /\ LET old == regRow[regWork.id]
           new == [regWork.cam EXCEPT !.born = old.born]
       IN IF old = RegNone
          THEN UNCHANGED regRow /\ RegReturn
          ELSE /\ regRow' = [regRow EXCEPT ![regWork.id] = new]
               /\ regWork' = [regWork EXCEPT !.cam = new, !.at = "memory"]
    /\ UNCHANGED <<regMem, regSched, regWritten, regGen, regCodecs, regProbes, regTables, regLists>>

RegDeletesRow ==
    /\ RegAt({"delete"}, "check")
    /\ regRow' = [regRow EXCEPT ![regWork.id] = RegNone]
    /\ IF regRow[regWork.id] = RegNone THEN RegReturn ELSE RegGo("events")
    /\ UNCHANGED <<regMem, regSched, regWritten, regGen, regCodecs, regProbes, regTables, regLists>>

\* The motions that deleted rows stood for.
RegForgiven(rows) == {m \in regAcked : \E e \in rows : RegCovers(e, m)}

\* DeleteCamera of the events.
RegDeletesEvents ==
    /\ RegAt({"delete"}, "events")
    /\ LET rows == {e \in regEvents : e.cam = regWork.id}
       IN regEvents' = regEvents \ rows /\ regAcked' = regAcked \ RegForgiven(rows)
    /\ RegGo("lists")
    /\ UNCHANGED <<regRow, regMem, regSched, regWritten, regGen, regCodecs, regProbes,
                   regReported, regSeq, regHook, regErase, regMade, regLists>>

RegDeletesLists ==
    /\ RegAt({"delete"}, "lists")
    /\ regAcl' = {g \in regAcl : g.cam # regWork.id} /\ RegGo("memory")
    /\ UNCHANGED <<regRow, regMem, regSched, regWritten, regGen, regCodecs, regProbes,
                   regTables, regGrant>>

\* addCamera, updateCamera, removeCamera.
RegChangesMemory ==
    /\ RegAt({"create", "update", "delete"}, "memory")
    /\ regMem' = [regMem EXCEPT ![regWork.id] = regWork.cam]
    /\ RegGo(IF regWork.op = "create" THEN "seed" ELSE "bump")
    /\ UNCHANGED <<regRow, regSched, regWritten, regGen, regCodecs, regProbes, regTables, regLists>>

-----------------------------------------------------------------------------
(* Talk codecs.                                                            *)

\* A probe holds talkCodecsMu from its check of the generation to its write.  (In the
\* faulty form the drop does not wait for it.)
FaultyRegTalkFree == TRUE
RegTalkFree == \A p \in regProbes : p.at = "fetch"

\* dropCameraState: first the generation, then the cache.
RegBumps ==
    /\ RegAt({"update", "delete"}, "bump") /\ RegGo("drop")
    /\ regGen' = [regGen EXCEPT ![regWork.id] = @ + 1]
    /\ UNCHANGED <<regRow, regMem, regSched, regWritten, regCodecs, regProbes, regTables, regLists>>

RegDropsCodecs ==
    /\ RegAt({"update", "delete"}, "drop") /\ RegTalkFree
    /\ regCodecs' = [regCodecs EXCEPT ![regWork.id] = 0]
    /\ IF regWork.op = "delete" THEN RegReturn ELSE RegGo("seed")
    /\ UNCHANGED <<regRow, regMem, regSched, regWritten, regGen, regProbes, regTables, regLists>>

\* seedTalkCodecsFor: a camera in service is probed in the background.
RegSeeds ==
    /\ RegAt({"create", "update"}, "seed") /\ RegReturn
    /\ regProbes' = IF regWork.cam.enabled
                    THEN regProbes \cup {[id |-> regWork.id, config |-> regWork.cam.config,
                                          gen |-> regGen[regWork.id], at |-> "fetch"]}
                    ELSE regProbes
    /\ UNCHANGED <<regRow, regMem, regSched, regWritten, regGen, regCodecs, regTables, regLists>>

\* The camera has answered, or not; an answer is kept only if nothing dropped the
\* caches since the probe began.
RegProbeChecks(p) ==
    /\ p.at = "fetch" /\ RegTalkFree
    /\ \/ regProbes' = regProbes \ {p}
       \/ /\ regGen[p.id] = p.gen
          /\ regProbes' = (regProbes \ {p}) \cup {[p EXCEPT !.at = "write"]}
    /\ UNCHANGED <<regRow, regMem, regSched, regWork, regWritten, regGen, regCodecs,
                   regTables, regLists>>

RegProbeWrites(p) ==
    /\ p.at = "write"
    /\ regCodecs' = [regCodecs EXCEPT ![p.id] = p.config] /\ regProbes' = regProbes \ {p}
    /\ UNCHANGED <<regRow, regMem, regSched, regWork, regWritten, regGen, regTables, regLists>>

-----------------------------------------------------------------------------
(* Recording programs.  Only their deletion takes the lock.                *)

RegCreatesSchedule(s) ==
    /\ s \notin regSched /\ regSched' = regSched \cup {s}
    /\ UNCHANGED <<regCameras, regTables, regLists>>

\* camerasUsingSchedule
RegChecksUsage ==
    /\ RegAt({"unschedule"}, "check")
    /\ IF \E id \in RegIds : regRow[id] # RegNone /\ regRow[id].sched = regWork.id
       THEN RegReturn ELSE RegGo("forget")
    /\ UNCHANGED <<regRow, regMem, regSched, regWritten, regGen, regCodecs, regProbes,
                   regTables, regLists>>

RegDeletesSchedule ==
    /\ RegAt({"unschedule"}, "forget") /\ RegReturn
    /\ regSched' = regSched \ {regWork.id}
    /\ UNCHANGED <<regRow, regMem, regWritten, regGen, regCodecs, regProbes, regTables, regLists>>

-----------------------------------------------------------------------------
(* Motion events.                                                          *)

\* The webhook finds its camera in memory and in service; the range is what the body
\* and the configuration make of it.
RegHookFinds(h, id, start, end) ==
    /\ regHook[h].at = "idle" /\ RegBudget /\ regReported' = regReported + 1
    /\ regMem[id] # RegNone /\ regMem[id].enabled
    /\ regHook' = [regHook EXCEPT ![h] = [at |-> "found", cam |-> id, born |-> regMem[id].born,
                                          start |-> start, end |-> end, row |-> RegNone]]
    /\ UNCHANGED <<regOthers, regEvents, regSeq, regErase, regMade, regAcked>>

\* recordMu, held from the SELECT to the UPDATE or the INSERT.  (Without it, the faulty
\* form.)
FaultyRegRecordFree == TRUE
RegRecordFree == \A h \in RegHooks : regHook[h].at # "selected"

\* RecordMotion: the overlapping row that starts last.
RegOverlaps(e, m) == e.cam = m.cam /\ e.end >= m.start /\ e.start <= m.end

RegHookSelects(h) ==
    /\ regHook[h].at = "found" /\ RegRecordFree
    /\ LET rows == {e \in regEvents : RegOverlaps(e, regHook[h])}
       IN \E row \in IF rows = {} THEN {RegNone}
                     ELSE {e \in rows : \A f \in rows : f.start <= e.start} :
            regHook' = [regHook EXCEPT ![h].at = "selected", ![h].row = row]
    /\ UNCHANGED <<regOthers, regReported, regEvents, regSeq, regErase, regMade, regAcked>>

RegLower(a, b) == IF a < b THEN a ELSE b
RegHigher(a, b) == IF a < b THEN b ELSE a

RegAcknowledges(h) ==
    regAcked' = regAcked \cup {[cam |-> regHook[h].cam, start |-> regHook[h].start,
                                end |-> regHook[h].end]}

\* UPDATE to the union.  A row deleted meanwhile is not there to update, and the
\* request fails.
RegHookExtends(h) ==
    /\ regHook[h].at = "selected" /\ regHook[h].row # RegNone
    /\ LET m == regHook[h]
           rows == {e \in regEvents : e.id = m.row.id}
       IN /\ regEvents' = (regEvents \ rows) \cup
                {[e EXCEPT !.start = RegLower(m.row.start, m.start),
                           !.end = RegHigher(m.row.end, m.end)] : e \in rows}
          /\ IF rows = {} THEN UNCHANGED regAcked ELSE RegAcknowledges(h)
    /\ regHook' = [regHook EXCEPT ![h] = RegWaits]
    /\ UNCHANGED <<regOthers, regReported, regSeq, regErase, regMade>>

\* INSERT.  AUTOINCREMENT never gives an id twice; the faulty form, a plain PRIMARY
\* KEY, gives the one after the largest in the table.
FaultyRegFreshId == IF regEvents = {} THEN 1
                    ELSE 1 + CHOOSE n \in {e.id : e \in regEvents} : \A e \in regEvents : e.id <= n
RegFreshId == regSeq + 1

RegHookInserts(h) ==
    /\ regHook[h].at = "selected" /\ regHook[h].row = RegNone
    /\ LET m == regHook[h]
       IN regEvents' = regEvents \cup
            {[id |-> RegFreshId, cam |-> m.cam, start |-> m.start, end |-> m.end, made |-> regMade + 1,
              born |-> m.born, late |-> RegBorn(regRow, m.cam) # m.born]}
    /\ regSeq' = RegFreshId /\ regMade' = regMade + 1 /\ RegAcknowledges(h)
    /\ regHook' = [regHook EXCEPT ![h] = RegWaits]
    /\ UNCHANGED <<regOthers, regReported, regErase>>

\* An administrator lists the events of a camera, and later deletes one by its id.
RegLists(e) ==
    /\ regErase = RegNone /\ regMem[e.cam] # RegNone /\ regErase' = e
    /\ UNCHANGED <<regOthers, regReported, regEvents, regSeq, regHook, regMade, regAcked>>

\* Delete.  Only the motions of the listed event were meant to go.
RegErases ==
    /\ regErase # RegNone /\ regErase' = RegNone
    /\ LET rows == {e \in regEvents : e.id = regErase.id /\ e.cam = regErase.cam /\ regMem[e.cam] # RegNone}
       IN /\ regEvents' = regEvents \ rows
          /\ regAcked' = regAcked \ RegForgiven({e \in rows : e.made = regErase.made})
    /\ UNCHANGED <<regOthers, regReported, regSeq, regHook, regMade>>

\* Prune: the retention of events.
RegPrunes(cutoff) ==
    /\ LET rows == {e \in regEvents : e.end < cutoff}
       IN regEvents' = regEvents \ rows /\ regAcked' = regAcked \ RegForgiven(rows)
    /\ UNCHANGED <<regOthers, regReported, regSeq, regHook, regErase, regMade>>

-----------------------------------------------------------------------------
(* The cameras of a restricted user (handlePutUserCameras).                *)

RegGrantFinds(id) ==
    /\ regMem[id] # RegNone
    /\ regGrant' = regGrant \cup {[cam |-> id, born |-> regMem[id].born]}
    /\ \A g \in regGrant : g.cam # id
    /\ UNCHANGED <<regCameras, regSched, regTables, regAcl>>

\* The transaction replaces the list.
RegGrantWrites ==
    /\ regAcl' = {[cam |-> g.cam, born |-> g.born, late |-> RegBorn(regRow, g.cam) # g.born] :
                      g \in regGrant}
    /\ regGrant' = {}
    /\ UNCHANGED <<regCameras, regSched, regTables>>

RegNext ==
    \/ \E id \in RegIds, sched \in RegScheds \cup {RegNone}, enabled \in BOOLEAN :
        RegLocks("create", id, sched, enabled) \/ RegLocks("update", id, sched, enabled)
    \/ \E id \in RegIds : RegLocks("delete", id, RegNone, TRUE)
    \/ \E s \in RegScheds : RegLocks("unschedule", s, RegNone, TRUE)
    \/ RegChecksSchedule \/ RegCreatesRow \/ RegUpdatesRow \/ RegDeletesRow
    \/ RegDeletesEvents \/ RegDeletesLists \/ RegChangesMemory \/ RegBumps \/ RegDropsCodecs \/ RegSeeds
    \/ \E p \in regProbes : RegProbeChecks(p) \/ RegProbeWrites(p)
    \/ \E s \in RegScheds : RegCreatesSchedule(s)
    \/ RegChecksUsage \/ RegDeletesSchedule
    \/ \E h \in RegHooks, id \in RegIds : \E start \in 0..RegTimes : \E end \in start..RegTimes :
        RegHookFinds(h, id, start, end)
    \/ \E h \in RegHooks : RegHookSelects(h) \/ RegHookExtends(h) \/ RegHookInserts(h)
    \/ \E e \in regEvents : RegLists(e)
    \/ RegErases
    \/ \E cutoff \in 1..RegTimes : RegPrunes(cutoff)
    \/ \E id \in RegIds : RegGrantFinds(id)
    \/ RegGrantWrites

RegSpec == RegInit /\ [][RegNext]_regVars

RegTypeOK ==
    /\ \A cams \in {regRow, regMem} : cams \in [RegIds -> RegCamera \cup {RegNone}]
    /\ regSched \subseteq RegScheds
    /\ regWork.op \in {"none", "create", "update", "delete", "unschedule"}
    /\ regGen \in [RegIds -> Nat] /\ regCodecs \in [RegIds -> 0..RegCalls + 1]
    /\ \A p \in regProbes : p \in [id : RegIds, config : 1..RegCalls + 1, gen : Nat,
                                   at : {"fetch", "write"}]
    /\ \A e \in regEvents : /\ e.cam \in RegIds /\ e.late \in BOOLEAN
                            /\ 0 <= e.start /\ e.start <= e.end /\ e.end <= RegTimes
    /\ \A e, f \in regEvents : e.id = f.id => e = f

-----------------------------------------------------------------------------
RegPending(id, at) ==
    regWork.op \in {"update", "delete"} /\ regWork.id = id /\ regWork.at \in at

\* The programs, the caches and the memory agree with the database: no camera refers
\* to a program that is gone (handleDeleteSchedule); while no handler is at work the
\* memory is the table; and talk codecs are those of the configuration in force,
\* unless a handler has yet to drop them (dropCameraState, seedTalkCodecsFor).
RegNoStranded ==
    \A id \in RegIds : regRow[id] # RegNone => regRow[id].sched \in regSched \cup {RegNone}
RegMirrors == regWork = RegIdle => regMem = regRow
RegCodecsCurrent ==
    \A id \in RegIds : \/ regCodecs[id] = 0
                       \/ RegPending(id, {"events", "lists", "memory", "bump", "drop"})
                       \/ regRow[id] # RegNone /\ regCodecs[id] = regRow[id].config

RegAgrees == RegNoStranded /\ RegMirrors /\ RegCodecsCurrent

\* A motion that the webhook acknowledged stays inside an event of its camera until
\* an administrator deletes the event that he listed, or retention or the deletion of
\* the camera do (RecordMotion, handleDeleteEvent, Prune).
RegMotionKept == \A m \in regAcked : \E e \in regEvents : RegCovers(e, m)

\* Once a camera's deletion has cleaned up, no event and no grant of it is left for a
\* camera that gets its id, but for those that were written after the deletion by a
\* request that had found the camera before (handleDeleteCamera).
RegNothingInherited ==
    /\ \A e \in regEvents : e.late \/ e.born = RegBorn(regRow, e.cam) \/ RegPending(e.cam, {"events"})
    /\ \A g \in regAcl : g.late \/ g.born = RegBorn(regRow, g.cam) \/ RegPending(g.cam, {"events", "lists"})

RegKept == RegMotionKept /\ RegNothingInherited
=============================================================================
