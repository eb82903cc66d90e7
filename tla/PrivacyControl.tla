--------------------------- MODULE PrivacyControl ---------------------------
(***************************************************************************)
(* The server's privacy state of one camera id.  Five kinds of goroutine   *)
(* write it: privacy requests, the recording schedule, camera handlers,    *)
(* heartbeat seeds and the attachment of the media engine at boot.  Each   *)
(* first writes the state map (manual privacy, off-hours) and then tells   *)
(* the engine; a per-camera op lock and camMutateMu keep some of these     *)
(* pairs apart and two generation counters let a seed notice that its      *)
(* reading is out of date.                                                 *)
(*                                                                         *)
(* The engine is reduced to its contract: the camera's pipeline is absent, *)
(* armed or paused.  A generation is reduced to what a seed does with it:  *)
(* whether it has been bumped since the seed read it.                      *)
(*                                                                         *)
(* Operators named Faulty... are seeded faults, each a plausible bug in    *)
(* the definition after it.  No action uses them; they show that the       *)
(* properties can fail.                                                    *)
(***************************************************************************)
EXTENDS Naturals

CONSTANTS
    Requests,       \* privacy requests in progress at once
    Seeds,          \* heartbeat seeds in progress at once
    Thingino,       \* the camera has a firmware with a privacy mode
    Operations,     \* camera handlers: subset of {"create", "update", "delete"}
    MaxRequests,    \* bound: privacy requests
    MaxMutations,   \* bound: camera handlers
    MaxWindows,     \* bound: changes of the schedule's state
    MaxSwitches     \* bound: times privacy is switched on the camera itself

ASSUME BoundsAssumption ==
    /\ MaxRequests \in Nat /\ MaxMutations \in Nat
    /\ MaxWindows \in Nat /\ MaxSwitches \in Nat
    /\ Thingino \in BOOLEAN
    /\ Operations \subseteq {"create", "update", "delete"}
    /\ Requests \cap Seeds = {}
    /\ {"scheduler", "handler", "boot", "free"} \cap (Requests \cup Seeds) = {}

VARIABLES
    camera,     \* the in-memory camera: "absent", "disabled", "plain" (privacy
                \* capability off) or "capable"
    manual,     \* privacy[id]
    off,        \* schedOff[id]
    attached,   \* the engine has been attached
    pipe,       \* the engine's pipeline: "absent", "armed" or "paused"
    window,     \* the schedule says to record now
    lens,       \* the firmware's privacy mode
    mutate,     \* holder of camMutateMu, or "free"
    op,         \* holder of the camera's privacy op lock, or "free"
    proc,       \* goroutine -> its program point and locals
    count,      \* how many of each bounded event have happened
    asked       \* history: the last request that succeeded asked for privacy, and
                \* nothing has ended it since

maps == <<manual, off>>
locks == <<mutate, op>>
vars == <<camera, maps, attached, pipe, window, lens, locks, proc, count, asked>>

Goroutines == Requests \cup Seeds \cup {"scheduler", "handler", "boot"}
Enabled == {"plain", "capable"}
Cameras == Enabled \cup {"absent", "disabled"}
Points == {"idle", "lock", "firmware", "record", "apply", "configuration", "generation", "fetch", "check",
           "write", "evaluate", "relock", "mutate", "remove", "add", "publish", "bump",
           "drop", "restore", "pause", "unlock", "read"}

\* on is the state a goroutine carries to the engine, or the reading of a
\* seed; was what an update found; target the camera a handler writes;
\* edited and toggled that a seed's generations have moved.
Procs == [at : Points, on : BOOLEAN, was : BOOLEAN, target : Cameras,
          edited : BOOLEAN, toggled : BOOLEAN]
Idle == [at |-> "idle", on |-> FALSE, was |-> FALSE, target |-> "absent",
         edited |-> FALSE, toggled |-> FALSE]

Init ==
    /\ camera \in Cameras
    /\ manual = FALSE /\ off = FALSE
    /\ attached = FALSE
    /\ pipe = IF camera \in Enabled THEN "armed" ELSE "absent"
    /\ window \in BOOLEAN
    /\ lens \in IF Thingino THEN BOOLEAN ELSE {FALSE}
    /\ mutate = "free" /\ op = "free"
    /\ \E first \in Seeds :
        proc = [g \in Goroutines |->
            IF Thingino /\ camera \in Enabled /\ g = first
            THEN [Idle EXCEPT !.at = "configuration", !.target = camera] ELSE Idle]
    /\ count = [requests |-> 0, mutations |-> 0, windows |-> 0, switches |-> 0]
    /\ asked = FALSE

\* SetMediaEngine has returned: the server serves, the loops tick.
Booted == proc["boot"].at = "unlock"

At(g, point) == proc[g].at = point
Go(g, point) == proc' = [proc EXCEPT ![g].at = point]
Carry(g, on, point) == proc' = [proc EXCEPT ![g].on = on, ![g].at = point]

\* SetPrivacy: a camera without a pipeline is ignored.
Pause(on) == IF pipe = "absent" THEN pipe ELSE IF on THEN "paused" ELSE "armed"

-----------------------------------------------------------------------------
(* handlePrivacy.                                                          *)

\* The camera is looked up before the op lock is waited for.
Request(r) ==
    /\ Booted /\ At(r, "idle")
    /\ count.requests < MaxRequests
    /\ camera = "capable"
    /\ \E on \in BOOLEAN : Carry(r, on, "lock")
    /\ count' = [count EXCEPT !.requests = @ + 1]
    /\ UNCHANGED <<camera, maps, attached, pipe, window, lens, locks, asked>>

\* Fault: requests are not kept apart by the op lock.
FaultyLockRequest(r) ==
    /\ At(r, "lock")
    /\ Go(r, IF Thingino THEN "firmware" ELSE "record")
    /\ UNCHANGED <<camera, maps, attached, pipe, window, lens, locks, count, asked>>

LockRequest(r) ==
    /\ At(r, "lock") /\ op = "free"
    /\ op' = r
    /\ Go(r, IF Thingino THEN "firmware" ELSE "record")
    /\ UNCHANGED <<camera, maps, attached, pipe, window, lens, mutate, count, asked>>

\* The firmware calls: blackout and the move to or from the privacy position.
\* A call that fails ends the request, whether or not the camera obeyed.
Firmware(r) ==
    /\ At(r, "firmware")
    /\ \/ lens' = proc[r].on /\ Go(r, "record") /\ UNCHANGED op
       \/ /\ lens' \in {lens, proc[r].on}
          /\ proc' = [proc EXCEPT ![r] = Idle]
          /\ op' = "free"
    /\ asked' = (asked /\ lens')
    /\ UNCHANGED <<camera, maps, attached, pipe, window, mutate, count>>

\* setManualPrivacyLocked bumps the privacy generation.
Toggled == [g \in Goroutines |-> [proc[g] EXCEPT !.toggled = (@ \/ g \in Seeds)]]

\* Fault: the off-hours state is not part of what the engine is told.
FaultyRecord(r) ==
    /\ At(r, "record")
    /\ manual' = proc[r].on
    /\ proc' = [Toggled EXCEPT ![r].at = "apply"]
    /\ asked' = (proc[r].on /\ (Thingino => lens))
    /\ UNCHANGED <<camera, off, attached, pipe, window, lens, locks, count>>

Record(r) ==
    /\ At(r, "record")
    /\ manual' = proc[r].on
    /\ proc' = [Toggled EXCEPT ![r].at = "apply", ![r].on = (@ \/ off)]
    /\ asked' = (proc[r].on /\ (Thingino => lens))
    /\ UNCHANGED <<camera, off, attached, pipe, window, lens, locks, count>>

ApplyRequest(r) ==
    /\ At(r, "apply")
    /\ pipe' = Pause(proc[r].on)
    /\ proc' = [proc EXCEPT ![r] = Idle]
    /\ op' = "free"
    /\ UNCHANGED <<camera, maps, attached, window, lens, mutate, count, asked>>

PrivacyRequest(r) == LockRequest(r) \/ Firmware(r) \/ Record(r) \/ ApplyRequest(r)

-----------------------------------------------------------------------------
(* Heartbeat seeds.                                                        *)

\* The loop's tick, or a handler's own seed.  The camera is the caller's copy,
\* older than the configuration generation read after it.  The seed of the
\* boot, a goroutine that New starts, is under way at the start.
StartSeed(s) ==
    /\ Booted /\ Thingino /\ At(s, "idle")
    /\ camera \in Enabled
    /\ proc' = [proc EXCEPT ![s] = [Idle EXCEPT !.at = "configuration", !.target = camera]]
    /\ UNCHANGED <<camera, maps, attached, pipe, window, lens, locks, count, asked>>

ReadConfiguration(s) ==
    /\ At(s, "configuration")
    /\ proc' = [proc EXCEPT ![s].edited = FALSE, ![s].at = "generation"]
    /\ UNCHANGED <<camera, maps, attached, pipe, window, lens, locks, count, asked>>

ReadGeneration(s) ==
    /\ At(s, "generation")
    /\ proc' = [proc EXCEPT ![s].toggled = FALSE, ![s].at = "fetch"]
    /\ UNCHANGED <<camera, maps, attached, pipe, window, lens, locks, count, asked>>

\* The reading is taken on the camera; the answer arrives some time later.
Answer(s) ==
    /\ At(s, "fetch")
    /\ Carry(s, lens, "check")
    /\ UNCHANGED <<camera, maps, attached, pipe, window, lens, locks, count, asked>>

FetchFails(s) ==
    /\ At(s, "fetch")
    /\ proc' = [proc EXCEPT ![s] = Idle]
    /\ UNCHANGED <<camera, maps, attached, pipe, window, lens, locks, count, asked>>

CheckEdited(s) ==
    /\ At(s, "check")
    /\ proc' = IF proc[s].edited \/ proc[s].target # "capable"
               THEN [proc EXCEPT ![s] = Idle]
               ELSE [proc EXCEPT ![s].at = "lock"]
    /\ UNCHANGED <<camera, maps, attached, pipe, window, lens, locks, count, asked>>

LockSeed(s) ==
    /\ At(s, "lock") /\ op = "free"
    /\ op' = s
    /\ Go(s, "write")
    /\ UNCHANGED <<camera, maps, attached, pipe, window, lens, mutate, count, asked>>

\* Fault: the reading is used although a toggle came after it.
FaultyFreshToggle(s) == ~proc[s].edited

Fresh(s) == ~proc[s].edited /\ ~proc[s].toggled

\* Fault: a reading can turn privacy on but not off.
FaultyWriteSeed(s) ==
    /\ At(s, "write")
    /\ IF Fresh(s) /\ proc[s].on
       THEN manual' = TRUE /\ Carry(s, TRUE, "apply") /\ UNCHANGED op
       ELSE proc' = [proc EXCEPT ![s] = Idle] /\ op' = "free" /\ UNCHANGED manual
    /\ UNCHANGED <<camera, off, attached, pipe, window, lens, mutate, count, asked>>

WriteSeed(s) ==
    /\ At(s, "write")
    /\ IF Fresh(s)
       THEN /\ manual' = proc[s].on
            /\ Carry(s, proc[s].on \/ off, "apply")
            /\ UNCHANGED op
       ELSE /\ proc' = [proc EXCEPT ![s] = Idle]
            /\ op' = "free"
            /\ UNCHANGED manual
    /\ UNCHANGED <<camera, off, attached, pipe, window, lens, mutate, count, asked>>

\* Before the engine is attached only the map is written.
ApplySeed(s) ==
    /\ At(s, "apply")
    /\ pipe' = IF attached THEN Pause(proc[s].on) ELSE pipe
    /\ proc' = [proc EXCEPT ![s] = Idle]
    /\ op' = "free"
    /\ UNCHANGED <<camera, maps, attached, window, lens, mutate, count, asked>>

Seed(s) ==
    \/ ReadConfiguration(s) \/ ReadGeneration(s) \/ Answer(s) \/ FetchFails(s)
    \/ CheckEdited(s) \/ LockSeed(s) \/ WriteSeed(s) \/ ApplySeed(s)

-----------------------------------------------------------------------------
(* SetMediaEngine.                                                         *)

\* Fault: the map is read before the engine is attached.
FaultyAttach ==
    /\ ~attached
    /\ \/ At("boot", "idle") /\ Carry("boot", manual, "read") /\ UNCHANGED attached
       \/ At("boot", "read") /\ attached' = TRUE /\ Go("boot", "apply")
    /\ UNCHANGED <<camera, maps, pipe, window, lens, locks, count, asked>>

\* The engine is visible to the seeds before the map is read, so a seed that
\* found no engine is found in the map.
Attach ==
    /\ ~attached /\ At("boot", "idle")
    /\ attached' = TRUE
    /\ Go("boot", "read")
    /\ UNCHANGED <<camera, maps, pipe, window, lens, locks, count, asked>>

ReadMap ==
    /\ attached /\ At("boot", "read")
    /\ Carry("boot", manual, "apply")
    /\ UNCHANGED <<camera, maps, attached, pipe, window, lens, locks, count, asked>>

\* Privacy that is on in the map is applied; the op lock is not taken.
ApplyMap ==
    /\ At("boot", "apply")
    /\ pipe' = IF proc["boot"].on THEN Pause(TRUE) ELSE pipe
    /\ Go("boot", "unlock")
    /\ UNCHANGED <<camera, maps, attached, window, lens, locks, count, asked>>

Boot == Attach \/ ReadMap \/ ApplyMap

-----------------------------------------------------------------------------
(* The schedule, evaluated by the scheduler and by the camera handlers.    *)

Tick ==
    /\ Booted /\ mutate = "free" /\ At("scheduler", "idle")
    /\ mutate' = "scheduler"
    /\ Go("scheduler", "evaluate")
    /\ UNCHANGED <<camera, maps, attached, pipe, window, lens, op, count, asked>>

\* Fault: off-hours that end are not deleted.
FaultyOffHours == off \/ (camera \in Enabled /\ ~window)

\* A disabled camera keeps what it had.
OffHours == IF camera \in Enabled THEN ~window ELSE off

\* Only a change of the off-hours state is applied.
Evaluate(g) ==
    /\ At(g, "evaluate")
    /\ off' = OffHours
    /\ IF off' # off
       THEN Go(g, "relock") /\ UNCHANGED mutate
       ELSE proc' = [proc EXCEPT ![g] = Idle] /\ mutate' = "free"
    /\ UNCHANGED <<camera, manual, attached, pipe, window, lens, op, count, asked>>

\* Fault: the scheduler tells the engine about the off-hours state alone.
FaultyEffective == off

Effective == manual \/ off

\* applyPause: both flags are read under the op lock.
LockApply(g) ==
    /\ At(g, "relock") /\ op = "free"
    /\ op' = g
    /\ Carry(g, Effective, "apply")
    /\ UNCHANGED <<camera, maps, attached, pipe, window, lens, mutate, count, asked>>

ApplyPause(g) ==
    /\ g \in {"scheduler", "handler"} /\ At(g, "apply")
    /\ pipe' = Pause(proc[g].on)
    /\ proc' = [proc EXCEPT ![g] = Idle]
    /\ op' = "free" /\ mutate' = "free"
    /\ UNCHANGED <<camera, maps, attached, window, lens, count, asked>>

Schedule(g) == Evaluate(g) \/ LockApply(g) \/ ApplyPause(g)

-----------------------------------------------------------------------------
(* The camera handlers: create, update (which holds the op lock until the  *)
(* manual privacy is restored) and delete (which does not take it).        *)

BeginMutation ==
    /\ Booted /\ mutate = "free" /\ At("handler", "idle")
    /\ count.mutations < MaxMutations
    /\ mutate' = "handler"
    /\ count' = [count EXCEPT !.mutations = @ + 1]
    /\ \E o \in Operations, target \in Cameras :
        /\ (o = "create") <=> (camera = "absent")
        /\ (o = "delete") <=> (target = "absent")
        /\ proc' = [proc EXCEPT !["handler"] = [Idle EXCEPT !.target = target,
                !.at = CASE o = "create" -> "add" [] o = "update" -> "lock" [] o = "delete" -> "remove"]]
    /\ UNCHANGED <<camera, maps, attached, pipe, window, lens, op, asked>>

LockUpdate ==
    /\ At("handler", "lock") /\ op = "free"
    /\ op' = "handler"
    /\ proc' = [proc EXCEPT !["handler"].was = manual, !["handler"].at = "remove"]
    /\ UNCHANGED <<camera, maps, attached, pipe, window, lens, mutate, count, asked>>

Deleting == proc["handler"].target = "absent"

RemovePipe ==
    /\ At("handler", "remove")
    /\ pipe' = "absent"
    /\ Go("handler", IF Deleting THEN "publish" ELSE "add")
    /\ UNCHANGED <<camera, maps, attached, window, lens, locks, count, asked>>

AddPipe ==
    /\ At("handler", "add")
    /\ pipe' = IF proc["handler"].target \in Enabled THEN "armed" ELSE "absent"
    /\ Go("handler", "publish")
    /\ UNCHANGED <<camera, maps, attached, window, lens, locks, count, asked>>

\* A camera that was not there has no state to drop.
Publish ==
    /\ At("handler", "publish")
    /\ camera' = proc["handler"].target
    /\ Go("handler", IF camera = "absent" THEN "evaluate" ELSE "bump")
    /\ UNCHANGED <<maps, attached, pipe, window, lens, locks, count, asked>>

\* dropCameraState bumps the configuration generation first.
Bump ==
    /\ At("handler", "bump")
    /\ proc' = [g \in Goroutines |->
            [proc[g] EXCEPT !.edited = (@ \/ g \in Seeds),
                            !.at = IF g = "handler" THEN "drop" ELSE @]]
    /\ UNCHANGED <<camera, maps, attached, pipe, window, lens, locks, count, asked>>

\* Fault: an update forgets that the camera was private.
FaultyRestores == FALSE

Restores == proc["handler"].was /\ proc["handler"].target = "capable"

\* Fault: the off-hours state outlives the camera.
FaultyDropped == off

\* What is left of the off-hours state: nothing.
Dropped == FALSE

Drop ==
    /\ At("handler", "drop")
    /\ manual' = FALSE /\ off' = Dropped
    /\ asked' = (asked /\ proc["handler"].target = "capable")
    /\ IF Deleting
       THEN proc' = [proc EXCEPT !["handler"] = Idle] /\ mutate' = "free"
       ELSE Go("handler", IF Restores THEN "restore" ELSE "unlock") /\ UNCHANGED mutate
    /\ UNCHANGED <<camera, attached, pipe, window, lens, op, count>>

Restore ==
    /\ At("handler", "restore")
    /\ manual' = TRUE
    /\ proc' = [Toggled EXCEPT !["handler"].at = "pause"]
    /\ UNCHANGED <<camera, off, attached, pipe, window, lens, locks, count, asked>>

PauseRestored ==
    /\ At("handler", "pause")
    /\ pipe' = Pause(TRUE)
    /\ Go("handler", "unlock")
    /\ UNCHANGED <<camera, maps, attached, window, lens, locks, count, asked>>

UnlockUpdate ==
    /\ At("handler", "unlock")
    /\ op' = "free"
    /\ Go("handler", "evaluate")
    /\ UNCHANGED <<camera, maps, attached, pipe, window, lens, mutate, count, asked>>

Mutation ==
    \/ LockUpdate \/ RemovePipe \/ AddPipe \/ Publish \/ Bump \/ Drop
    \/ Restore \/ PauseRestored \/ UnlockUpdate \/ Schedule("handler")

-----------------------------------------------------------------------------
(* The world: the hour, and the button on the camera.                      *)

WindowChanges ==
    /\ count.windows < MaxWindows
    /\ count' = [count EXCEPT !.windows = @ + 1]
    /\ window' = ~window
    /\ UNCHANGED <<camera, maps, attached, pipe, lens, locks, proc, asked>>

LensSwitched ==
    /\ Thingino /\ count.switches < MaxSwitches
    /\ count' = [count EXCEPT !.switches = @ + 1]
    /\ lens' = ~lens
    /\ asked' = (asked /\ lens')
    /\ UNCHANGED <<camera, maps, attached, pipe, window, locks, proc>>

Next ==
    \/ \E r \in Requests : Request(r) \/ PrivacyRequest(r)
    \/ \E s \in Seeds : StartSeed(s) \/ Seed(s)
    \/ Boot \/ Tick \/ Schedule("scheduler")
    \/ BeginMutation \/ Mutation
    \/ WindowChanges \/ LensSwitched

Spec == Init /\ [][Next]_vars

\* The goroutines run, the loops tick, and a mutex that is released again and
\* again is acquired in the end.  A camera asked again and again answers.
Fairness ==
    /\ WF_vars(Boot) /\ SF_vars(Tick)
    /\ \A r \in Requests : SF_vars(LockRequest(r)) /\ WF_vars(PrivacyRequest(r))
    /\ \A s \in Seeds : WF_vars(StartSeed(s)) /\ SF_vars(LockSeed(s)) /\ SF_vars(Answer(s)) /\ WF_vars(Seed(s))
    /\ \A g \in {"scheduler", "handler"} : SF_vars(LockApply(g)) /\ WF_vars(Schedule(g))
    /\ SF_vars(LockUpdate) /\ WF_vars(Mutation)

FairSpec == Spec /\ Fairness

-----------------------------------------------------------------------------
(* Properties.                                                             *)

\* Every variable has its type, and the lock holders are where they hold it.
TypeOK ==
    /\ camera \in Cameras
    /\ manual \in BOOLEAN /\ off \in BOOLEAN /\ attached \in BOOLEAN
    /\ pipe \in {"absent", "armed", "paused"}
    /\ window \in BOOLEAN /\ lens \in BOOLEAN /\ asked \in BOOLEAN
    /\ mutate \in {"scheduler", "handler", "free"} /\ op \in Goroutines \cup {"free"}
    /\ proc \in [Goroutines -> Procs]
    /\ count \in [requests : 0..MaxRequests, mutations : 0..MaxMutations,
                    windows : 0..MaxWindows, switches : 0..MaxSwitches]
    /\ \A r \in Requests : proc[r].at \in {"firmware", "record", "apply"} => op = r

Quiet == Booted /\ mutate = "free" /\ op = "free"

\* Whenever nobody is in the middle of a change, the engine is paused exactly
\* when the map says so: "the engine never disagrees with the state map".
EngineMatchesMap == Quiet /\ pipe # "absent" => ((pipe = "paused") <=> (manual \/ off))

\* A privacy request that succeeded holds through updates, schedule changes
\* and readings of the firmware, until someone ends it.
PrivacyHolds == Quiet /\ asked => pipe # "armed"

\* The schedule wins in the end: when it stays closed the camera stops, and
\* when it stays open and nobody wants privacy the camera records.
ScheduleSettles ==
    /\ <>[](~window) => <>[](pipe # "armed")
    /\ <>[](window /\ ~manual) => <>[](pipe # "paused")

\* Manual privacy follows the firmware in the end, also after a request that
\* failed half way and after privacy was switched on the camera.
FollowsFirmware ==
    <>[](camera = "capable") => <>[](manual = lens)

=============================================================================
