--------------------------- MODULE DiskPressure ---------------------------
(***************************************************************************)
(* The low-disk watcher and the emergency purges it starts.  The watcher   *)
(* samples the free space of the recording volume and then acts on the     *)
(* sample, with the recorder, other programs and a purge changing the free *)
(* space meanwhile.  A purge is a goroutine: it checks the free space,     *)
(* asks the index for the oldest batch and deletes it, until enough is     *)
(* free or something fails.                                                *)
(*                                                                         *)
(* Space is counted in segments.  The index keeps a row whose file is gone *)
(* when it could not be updated after the files were removed: such rows    *)
(* are among the oldest and only take up room in a batch.                  *)
(*                                                                         *)
(* Operators named Faulty... are seeded faults, each a plausible bug in    *)
(* the definition after it; no action uses them.                           *)
(***************************************************************************)
EXTENDS Integers

CONSTANTS
    Purges,         \* names for purge goroutines, more than the code may run
    Capacity,       \* size of the volume
    Low,            \* [media] min_free_bytes
    Batch,          \* purgeBatchSize
    MaxWrites,      \* bound: segments recorded and other files written
    MaxReleases,    \* bound: other files removed
    MaxStops        \* bound: Close, 0 or 1

ASSUME DiskAssumption ==
    /\ Capacity \in Nat /\ Low \in Nat \ {0} /\ 2 * Low <= Capacity
    /\ Batch \in Nat \ {0}
    /\ MaxWrites \in Nat /\ MaxReleases \in Nat /\ MaxStops \in 0..1

VARIABLES
    footage,        \* recorded segments on the volume
    other,          \* what everything else occupies
    gone,           \* rows of the index whose file is gone
    paused,         \* Watcher.paused: in a low episode
    poll,           \* the watcher: "wait", "decide" or "stopped"
    sample,         \* the free space it read
    purgeRunning,   \* Engine.purgeRunning
    purge,          \* purge goroutine -> "idle", "check", "query", "delete", "return"
    batch,          \* purge goroutine -> size of the batch it holds
    cancelled,      \* the engine's context is cancelled
    late,           \* history: segments deleted after that
    count           \* how many of each bounded event have happened

volume == <<footage, other, gone>>
watcher == <<paused, poll, sample>>
purges == <<purgeRunning, purge, batch>>
vars == <<volume, watcher, purges, cancelled, late, count>>

Free == Capacity - footage - other
High == 2 * Low
Least(a, b) == IF a <= b THEN a ELSE b

Init ==
    /\ footage \in 0..Capacity /\ other \in 0..(Capacity - footage)
    /\ gone = 0
    /\ paused = FALSE /\ poll = "wait" /\ sample = 0
    /\ purgeRunning = FALSE
    /\ purge = [p \in Purges |-> "idle"] /\ batch = [p \in Purges |-> 0]
    /\ cancelled = FALSE /\ late = 0
    /\ count = [writes |-> 0, releases |-> 0]

InFlight == {p \in Purges : purge[p] # "idle"}

-----------------------------------------------------------------------------
(* The watcher.                                                            *)

Sample ==
    /\ poll = "wait" /\ ~cancelled
    /\ sample' = Free
    /\ poll' = "decide"
    /\ UNCHANGED <<volume, paused, purges, cancelled, late, count>>

\* Statfs failed: nothing changes until the next poll.  Ctx.Done ends Run.
StopWatching ==
    /\ poll = "wait" /\ cancelled
    /\ poll' = "stopped"
    /\ UNCHANGED <<volume, paused, sample, purges, cancelled, late, count>>

ShouldPause == sample < Low

ShouldResume == sample >= High

\* Fault: a purge in flight does not keep another from starting.
FaultyStartEmergencyPurge ==
    /\ purgeRunning' = TRUE
    /\ \E p \in Purges \ InFlight : purge' = [purge EXCEPT ![p] = "check"]
    /\ UNCHANGED batch

\* The flag is taken by compare-and-swap.
StartEmergencyPurge ==
    IF purgeRunning
    THEN UNCHANGED purges
    ELSE /\ purgeRunning' = TRUE
         /\ \E p \in Purges \ InFlight : purge' = [purge EXCEPT ![p] = "check"]
         /\ UNCHANGED batch

\* Fault: a low episode starts one purge only.
FaultyStillLow == UNCHANGED purges

StillLow == StartEmergencyPurge

Decide ==
    /\ poll = "decide"
    /\ poll' = "wait"
    /\ \/ ~paused /\ ShouldPause /\ paused' = TRUE /\ StartEmergencyPurge
       \/ paused /\ ShouldPause /\ StillLow /\ UNCHANGED paused
       \/ paused /\ ~ShouldPause /\ ShouldResume /\ paused' = FALSE /\ UNCHANGED purges
       \/ /\ ~ShouldPause /\ ~(paused /\ ShouldResume)
          /\ UNCHANGED <<paused, purges>>
    /\ UNCHANGED <<volume, sample, cancelled, late, count>>

-----------------------------------------------------------------------------
(* PurgeToFree.                                                            *)

\* Fault: the free space is checked when the purge begins and not again.
FaultyEnough(p) == Free >= High /\ batch[p] = 0

Enough(p) == Free >= High

\* Fault: the purge works on regardless of the shutdown.
FaultyInterrupted == FALSE

Interrupted == cancelled

Check(p) ==
    /\ purge[p] = "check"
    /\ \/ purge' = [purge EXCEPT ![p] = IF Interrupted \/ Enough(p) THEN "return" ELSE "query"]
       \/ purge' = [purge EXCEPT ![p] = "return"]       \* statfs failed
    /\ UNCHANGED <<volume, watcher, purgeRunning, batch, cancelled, late, count>>

Query(p) ==
    /\ purge[p] = "query"
    /\ batch' = [batch EXCEPT ![p] = Least(Batch, gone + footage)]
    /\ purge' = [purge EXCEPT ![p] = IF gone + footage = 0 THEN "return" ELSE "delete"]
    /\ UNCHANGED <<volume, watcher, purgeRunning, cancelled, late, count>>

QueryFails(p) ==
    /\ purge[p] = "query"
    /\ purge' = [purge EXCEPT ![p] = "return"]
    /\ UNCHANGED <<volume, watcher, purgeRunning, batch, cancelled, late, count>>

Empty(p) == Least(batch[p], gone)

\* Fault: a row whose file is gone already counts as a file removed again.
FaultyFull(p) == batch[p]

Full(p) == Least(batch[p] - Empty(p), footage)

Unlink(k) ==
    /\ footage' = footage - k
    /\ late' = IF cancelled THEN late + k ELSE late

\* Every file that can be removed is, and then the rows go in one transaction.
Delete(p) ==
    /\ purge[p] = "delete"
    /\ \E k \in 0..Full(p) :
        /\ Unlink(k)
        /\ gone' = gone - Empty(p)
        /\ purge' = [purge EXCEPT ![p] = IF Empty(p) + k = 0 THEN "return" ELSE "check"]
    /\ UNCHANGED <<other, watcher, purgeRunning, batch, cancelled, count>>

\* The files are gone and the transaction fails.
DeleteFails(p) ==
    /\ purge[p] = "delete"
    /\ \E k \in 0..Full(p) : Unlink(k) /\ gone' = gone + k
    /\ purge' = [purge EXCEPT ![p] = "return"]
    /\ UNCHANGED <<other, watcher, purgeRunning, batch, cancelled, count>>

\* Fault: the flag stays set.
FaultyCleared == purgeRunning

Cleared == FALSE

ReturnPurge(p) ==
    /\ purge[p] = "return"
    /\ purgeRunning' = Cleared
    /\ purge' = [purge EXCEPT ![p] = "idle"]
    /\ batch' = [batch EXCEPT ![p] = 0]
    /\ UNCHANGED <<volume, watcher, cancelled, late, count>>

Purge(p) == Check(p) \/ Query(p) \/ QueryFails(p) \/ Delete(p) \/ DeleteFails(p) \/ ReturnPurge(p)

-----------------------------------------------------------------------------
(* The volume's other users, and Close.                                    *)

\* A segment is recorded, or another program writes a file.
Write ==
    /\ Free > 0 /\ count.writes < MaxWrites
    /\ count' = [count EXCEPT !.writes = @ + 1]
    /\ \/ footage' = footage + 1 /\ UNCHANGED other
       \/ other' = other + 1 /\ UNCHANGED footage
    /\ UNCHANGED <<gone, watcher, purges, cancelled, late>>

Release ==
    /\ other > 0 /\ count.releases < MaxReleases
    /\ count' = [count EXCEPT !.releases = @ + 1]
    /\ other' = other - 1
    /\ UNCHANGED <<footage, gone, watcher, purges, cancelled, late>>

Close ==
    /\ MaxStops = 1 /\ ~cancelled
    /\ cancelled' = TRUE
    /\ UNCHANGED <<volume, watcher, purges, late, count>>

Next ==
    \/ Sample \/ StopWatching \/ Decide
    \/ \E p \in Purges : Purge(p)
    \/ Write \/ Release \/ Close

Spec == Init /\ [][Next]_vars

\* The goroutines run, and what keeps being tried does not fail for ever.
Fairness ==
    /\ WF_vars(Sample) /\ WF_vars(StopWatching) /\ WF_vars(Decide)
    /\ \A p \in Purges :
        /\ WF_vars(Purge(p))
        /\ SF_vars(Check(p) /\ purge'[p] = "query")
        /\ SF_vars(Query(p))
        /\ SF_vars(Delete(p) /\ purge'[p] = "check" /\ footage' + gone' < footage + gone)

FairSpec == Spec /\ Fairness

-----------------------------------------------------------------------------
(* Properties.                                                             *)

TypeOK ==
    /\ footage \in 0..Capacity /\ other \in 0..Capacity /\ Free >= 0
    /\ gone \in Nat
    /\ paused \in BOOLEAN /\ poll \in {"wait", "decide", "stopped"} /\ sample \in 0..Capacity
    /\ purgeRunning \in BOOLEAN
    /\ purge \in [Purges -> {"idle", "check", "query", "delete", "return"}]
    /\ batch \in [Purges -> 0..Batch]
    /\ cancelled \in BOOLEAN /\ late \in Nat
    /\ count \in [writes : 0..MaxWrites, releases : 0..MaxReleases]

\* Two purges never run side by side, though the watcher starts one at each
\* poll that stays low and a finished purge clears the flag on its own time.
OnePurge ==
    /\ \A p, q \in InFlight : p = q
    /\ InFlight # {} => purgeRunning

\* A purge never deletes a batch when enough is free already: it overshoots by
\* the rest of one batch at most, and by what others freed meanwhile.
DeletesUnderPressure == [][footage' < footage => Free < High + count.releases]_vars

\* A low volume is never given up: a purge that failed half way is started
\* again, until space is back, there is no footage left or the engine closes.
LowIsAnswered == []<>(Free >= Low \/ footage = 0 \/ cancelled)

\* A shutdown ends a purge at the next batch, also one that the watcher starts
\* from a sample taken before the shutdown.
ShutdownIsPrompt == late <= Batch

=============================================================================
