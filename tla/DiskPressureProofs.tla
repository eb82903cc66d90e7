----------------------- MODULE DiskPressureProofs -----------------------
(***************************************************************************)
(* Proofs about DiskPressure: types, at most one purge, a prompt shutdown, *)
(* and deletion only under pressure.                                       *)
(***************************************************************************)
EXTENDS DiskPressure, TLAPS

Deleting == {p \in Purges : purge[p] \in {"query", "delete"}}

\* The inductive invariant: a purge about to delete has passed its check
\* before the shutdown, so nothing was deleted after the shutdown before it.
Prompt ==
    /\ late > 0 => cancelled
    /\ Deleting # {} => late = 0
    /\ late <= Batch

IInv == TypeOK /\ OnePurge /\ Prompt

\* What a deletion removes is part of the footage and of one batch.
LEMMA DeletionBounds ==
    ASSUME TypeOK, NEW p \in Purges, NEW k \in 0..Full(p)
    PROVE  /\ k \in Nat /\ k <= footage /\ k <= Batch
           /\ Empty(p) \in Nat /\ Empty(p) <= gone
<1>1. Empty(p) \in Nat /\ Empty(p) <= gone /\ Empty(p) <= batch[p]
  BY DiskAssumption DEF TypeOK, Empty, Least
<1>2. Full(p) \in Int /\ Full(p) <= batch[p] /\ Full(p) <= footage
  BY <1>1, DiskAssumption DEF TypeOK, Full, Least
<1>3. batch[p] \in 0..Batch /\ footage \in Int
  BY DEF TypeOK
<1> QED
  BY <1>1, <1>2, <1>3, DiskAssumption

\* The initial states satisfy the inductive invariant.
LEMMA InitHolds == Init => IInv
<1> SUFFICES ASSUME Init PROVE IInv
  OBVIOUS
<1>1. TypeOK
  <2>1. footage \in Nat /\ other \in Nat /\ footage <= Capacity /\ other <= Capacity /\ Free >= 0
    BY DiskAssumption DEF Init, Free
  <2>2. purge \in [Purges -> {"idle", "check", "query", "delete", "return"}]
        /\ batch \in [Purges -> 0..Batch]
    BY DiskAssumption DEF Init
  <2>3. count \in [writes : 0..MaxWrites, releases : 0..MaxReleases]
    BY DiskAssumption DEF Init
  <2>4. paused \in BOOLEAN /\ purgeRunning \in BOOLEAN /\ cancelled \in BOOLEAN
    BY DEF Init
  <2>5. gone \in Nat /\ poll \in {"wait", "decide", "stopped"} /\ sample \in 0..Capacity /\ late \in Nat
    BY DiskAssumption DEF Init
  <2> QED
    BY <2>1, <2>2, <2>3, <2>4, <2>5, DiskAssumption DEF TypeOK
<1>2. OnePurge
  BY DEF Init, OnePurge, InFlight
<1>3. Prompt
  BY DiskAssumption DEF Init, Prompt, Deleting
<1> QED
  BY <1>1, <1>2, <1>3 DEF IInv

\* Every step of Next preserves the types.
LEMMA TypeStep == TypeOK /\ [Next]_vars => TypeOK'
<1> SUFFICES ASSUME TypeOK, [Next]_vars PROVE TypeOK'
  OBVIOUS
<1> USE DiskAssumption
<1>1. CASE Sample
  <2>1. sample' \in 0..Capacity
    BY <1>1 DEF Sample, TypeOK, Free
  <2> QED
    BY <1>1, <2>1, ZenonT(30) DEF Sample, TypeOK, Free, volume, purges
<1>2. CASE StopWatching
  BY <1>2 DEF StopWatching, TypeOK, Free, volume, purges
<1>3. CASE Decide
  <2>1. purgeRunning' \in BOOLEAN /\ batch' = batch
        /\ purge' \in [Purges -> {"idle", "check", "query", "delete", "return"}]
    BY <1>3 DEF Decide, StillLow, StartEmergencyPurge, TypeOK, purges
  <2>2. paused' \in BOOLEAN
    BY <1>3 DEF Decide, TypeOK
  <2> QED
    BY <1>3, <2>1, <2>2 DEF Decide, TypeOK, Free, volume
<1>4. ASSUME NEW p \in Purges, Check(p) PROVE TypeOK'
  BY <1>4 DEF Check, TypeOK, Free, volume, watcher
<1>5. ASSUME NEW p \in Purges, Query(p) PROVE TypeOK'
  BY <1>5 DEF Query, TypeOK, Free, Least, volume, watcher
<1>6. ASSUME NEW p \in Purges, QueryFails(p) PROVE TypeOK'
  BY <1>6 DEF QueryFails, TypeOK, Free, volume, watcher
<1>7. ASSUME NEW p \in Purges, Delete(p) PROVE TypeOK'
  <2>1. PICK k \in 0..Full(p) :
          Unlink(k) /\ gone' = gone - Empty(p)
          /\ purge' = [purge EXCEPT ![p] = IF Empty(p) + k = 0 THEN "return" ELSE "check"]
    BY <1>7 DEF Delete
  <2>2. k \in Nat /\ k <= footage /\ Empty(p) \in Nat /\ Empty(p) <= gone
    BY DeletionBounds
  <2> QED
    BY <1>7, <2>1, <2>2 DEF Delete, Unlink, TypeOK, Free, watcher
<1>8. ASSUME NEW p \in Purges, DeleteFails(p) PROVE TypeOK'
  <2>1. PICK k \in 0..Full(p) : Unlink(k) /\ gone' = gone + k
    BY <1>8 DEF DeleteFails
  <2>2. k \in Nat /\ k <= footage
    BY DeletionBounds
  <2> QED
    BY <1>8, <2>1, <2>2 DEF DeleteFails, Unlink, TypeOK, Free, watcher
<1>9. ASSUME NEW p \in Purges, ReturnPurge(p) PROVE TypeOK'
  <2>1. purgeRunning' \in BOOLEAN
    BY <1>9 DEF ReturnPurge, Cleared
  <2>2. purge' \in [Purges -> {"idle", "check", "query", "delete", "return"}]
    BY <1>9 DEF ReturnPurge, TypeOK
  <2>3. batch' \in [Purges -> 0..Batch]
    BY <1>9 DEF ReturnPurge, TypeOK
  <2> QED
    BY <1>9, <2>1, <2>2, <2>3 DEF ReturnPurge, TypeOK, Free, volume, watcher
<1>10. CASE Write
  BY <1>10 DEF Write, TypeOK, Free, watcher, purges
<1>11. CASE Release
  BY <1>11 DEF Release, TypeOK, Free, watcher, purges
<1>12. CASE Close
  BY <1>12 DEF Close, TypeOK, Free, volume, watcher, purges
<1>13. CASE UNCHANGED vars
  BY <1>13 DEF vars, volume, watcher, purges, TypeOK, Free
<1> QED
  BY <1>1, <1>2, <1>3, <1>4, <1>5, <1>6, <1>7, <1>8, <1>9, <1>10, <1>11, <1>12, <1>13
  DEF Next, Purge

\* Every step of Next keeps at most one purge in flight.
LEMMA OnePurgeStep == TypeOK /\ OnePurge /\ [Next]_vars => OnePurge'
<1> SUFFICES ASSUME TypeOK, OnePurge, [Next]_vars PROVE OnePurge'
  OBVIOUS
<1>1. CASE UNCHANGED purges
  BY <1>1 DEF purges, OnePurge, InFlight
<1>2. CASE Decide
  BY <1>2 DEF Decide, StillLow, StartEmergencyPurge, OnePurge, InFlight, TypeOK, purges
<1>3. ASSUME NEW p \in Purges, purge[p] # "idle", purgeRunning' = purgeRunning,
             \A q \in Purges \ {p} : purge'[q] = purge[q]
      PROVE  OnePurge'
  BY <1>3 DEF OnePurge, InFlight
<1>4. ASSUME NEW p \in Purges, Check(p) PROVE OnePurge'
  BY <1>3, <1>4 DEF Check, TypeOK
<1>5. ASSUME NEW p \in Purges, Query(p) PROVE OnePurge'
  BY <1>3, <1>5 DEF Query, TypeOK
<1>6. ASSUME NEW p \in Purges, QueryFails(p) PROVE OnePurge'
  BY <1>3, <1>6 DEF QueryFails, TypeOK
<1>7. ASSUME NEW p \in Purges, Delete(p) PROVE OnePurge'
  BY <1>3, <1>7 DEF Delete, TypeOK
<1>8. ASSUME NEW p \in Purges, DeleteFails(p) PROVE OnePurge'
  BY <1>3, <1>8 DEF DeleteFails, TypeOK
<1>9. ASSUME NEW p \in Purges, ReturnPurge(p) PROVE OnePurge'
  BY <1>9 DEF ReturnPurge, OnePurge, InFlight, TypeOK
<1> QED
  BY <1>1, <1>2, <1>4, <1>5, <1>6, <1>7, <1>8, <1>9
  DEF Next, Purge, vars, Sample, StopWatching, Write, Release, Close

\* Every step of Next keeps the shutdown prompt.
LEMMA PromptStep == IInv /\ [Next]_vars => Prompt'
<1> SUFFICES ASSUME IInv, [Next]_vars PROVE Prompt'
  OBVIOUS
<1> USE DiskAssumption DEF IInv
<1>1. CASE UNCHANGED <<purge, cancelled, late>>
  BY <1>1 DEF Prompt, Deleting
<1>2. CASE Decide
  <2>1. Deleting' \subseteq Deleting /\ UNCHANGED <<cancelled, late>>
    BY <1>2 DEF Decide, StillLow, StartEmergencyPurge, Deleting, TypeOK, purges
  <2> QED
    BY <2>1 DEF Prompt
<1>3. ASSUME NEW p \in Purges, Check(p) PROVE Prompt'
  <2>1. CASE cancelled
    BY <1>3, <2>1 DEF Check, Interrupted, Prompt, Deleting, TypeOK
  <2>2. CASE ~cancelled
    BY <1>3, <2>2 DEF Check, Prompt, TypeOK
  <2> QED
    BY <2>1, <2>2
<1>4. ASSUME NEW p \in Purges, Query(p) \/ QueryFails(p) PROVE Prompt'
  <2>1. p \in Deleting /\ late' = late /\ cancelled' = cancelled
    BY <1>4 DEF Query, QueryFails, Deleting
  <2> QED
    BY <2>1 DEF Prompt
<1>5. ASSUME NEW p \in Purges, Delete(p) \/ DeleteFails(p) PROVE Prompt'
  <2>1. PICK k \in 0..Full(p) : Unlink(k)
    BY <1>5 DEF Delete, DeleteFails
  <2>2. k \in Nat /\ k <= Batch
    BY DeletionBounds
  <2>3. p \in Deleting /\ late = 0
    BY <1>5 DEF Delete, DeleteFails, Deleting, Prompt
  <2>4. Deleting' = {}
    <3>1. \A q \in Purges : q # p => purge[q] = "idle"
      BY <1>5 DEF Delete, DeleteFails, OnePurge, InFlight
    <3>2. purge'[p] \in {"return", "check"}
      BY <1>5 DEF Delete, DeleteFails, TypeOK
    <3>3. \A q \in Purges : q # p => purge'[q] = purge[q]
      BY <1>5 DEF Delete, DeleteFails, TypeOK
    <3> QED
      BY <3>1, <3>2, <3>3 DEF Deleting
  <2>5. cancelled' = cancelled
    BY <1>5 DEF Delete, DeleteFails
  <2> QED
    BY <2>1, <2>2, <2>3, <2>4, <2>5 DEF Unlink, Prompt, TypeOK
<1>6. ASSUME NEW p \in Purges, ReturnPurge(p) PROVE Prompt'
  <2>1. Deleting' \subseteq Deleting /\ UNCHANGED <<cancelled, late>>
    BY <1>6 DEF ReturnPurge, Deleting, TypeOK
  <2> QED
    BY <2>1 DEF Prompt
<1>7. CASE Close
  BY <1>7 DEF Close, Prompt, Deleting, purges
<1> QED
  BY <1>1, <1>2, <1>3, <1>4, <1>5, <1>6, <1>7
  DEF Next, Purge, vars, purges, Sample, StopWatching, Write, Release

LEMMA Inductive == Spec => []IInv
<1>1. IInv /\ [Next]_vars => IInv'
  BY TypeStep, OnePurgeStep, PromptStep DEF IInv
<1> QED
  BY InitHolds, <1>1, PTL DEF Spec

\* The types hold, for every volume, mark and batch size.
THEOREM VolumeTypes == Spec => []TypeOK
<1>1. IInv => TypeOK
  BY DEF IInv
<1> QED
  BY Inductive, <1>1, PTL

\* Engine.purgeRunning keeps purges from running side by side, whenever the
\* watcher polls and whenever a purge returns.
THEOREM AtMostOnePurge == Spec => []OnePurge
<1>1. IInv => OnePurge
  BY DEF IInv
<1> QED
  BY Inductive, <1>1, PTL

\* After Close a purge deletes what is left of one batch and no more.
THEOREM PromptShutdown == Spec => []ShutdownIsPrompt
<1>1. IInv => ShutdownIsPrompt
  BY DEF IInv, Prompt, ShutdownIsPrompt
<1> QED
  BY Inductive, <1>1, PTL

-----------------------------------------------------------------------------
\* What a purge found at its check stays true until it deletes, but for what
\* others freed in between.
Pressed == Deleting # {} => Free < High + count.releases

\* Every step of Next keeps the pressure.
LEMMA PressedStep == IInv /\ Pressed /\ [Next]_vars => Pressed'
<1> SUFFICES ASSUME IInv, Pressed, [Next]_vars PROVE Pressed'
  OBVIOUS
<1> USE DiskAssumption DEF IInv
<1>0. count.releases \in Nat /\ Free \in Int /\ High \in Int
  BY DEF TypeOK, Free, High
<1>1. CASE UNCHANGED <<purge, footage, other, count>>
  BY <1>1 DEF Pressed, Deleting, Free, High
<1>2. CASE Decide
  <2>1. Deleting' \subseteq Deleting /\ UNCHANGED <<footage, other, count>>
    BY <1>2 DEF Decide, StillLow, StartEmergencyPurge, Deleting, TypeOK, purges, volume
  <2> QED
    BY <2>1 DEF Pressed, Free, High
<1>3. ASSUME NEW p \in Purges, Check(p) PROVE Pressed'
  <2>1. UNCHANGED <<footage, other, count>>
    BY <1>3 DEF Check, volume
  <2>2. CASE Free >= High
    <3>1. Deleting' \subseteq Deleting
      BY <1>3, <2>2 DEF Check, Enough, Deleting, TypeOK
    <3> QED
      BY <2>1, <3>1 DEF Pressed, Free, High
  <2>3. CASE Free < High
    BY <1>0, <2>1, <2>3 DEF Pressed, Free, High
  <2> QED
    BY <1>0, <2>2, <2>3
<1>4. ASSUME NEW p \in Purges, Query(p) \/ QueryFails(p) PROVE Pressed'
  <2>1. p \in Deleting /\ UNCHANGED <<footage, other, count>>
    BY <1>4 DEF Query, QueryFails, Deleting, volume
  <2> QED
    BY <2>1 DEF Pressed, Free, High
<1>5. ASSUME NEW p \in Purges, Delete(p) \/ DeleteFails(p) PROVE Pressed'
  <2>1. \A q \in Purges : q # p => purge'[q] = "idle"
    BY <1>5 DEF Delete, DeleteFails, OnePurge, InFlight, TypeOK
  <2>2. purge'[p] \in {"return", "check"}
    BY <1>5 DEF Delete, DeleteFails, TypeOK
  <2> QED
    BY <2>1, <2>2 DEF Deleting, Pressed
<1>6. ASSUME NEW p \in Purges, ReturnPurge(p) PROVE Pressed'
  <2>1. Deleting' \subseteq Deleting /\ UNCHANGED <<footage, other, count>>
    BY <1>6 DEF ReturnPurge, Deleting, TypeOK, volume
  <2> QED
    BY <2>1 DEF Pressed, Free, High
<1>7. CASE Write
  <2>1. Free' < Free /\ Free \in Int /\ Free' \in Int /\ High' = High /\ High \in Int
    BY <1>7 DEF Write, Free, High, TypeOK
  <2>2. Deleting' = Deleting /\ count'.releases = count.releases
    BY <1>7 DEF Write, Deleting, purges, TypeOK
  <2> QED
    BY <1>0, <2>1, <2>2 DEF Pressed
<1>8. CASE Release
  <2>1. Free' = Free + 1 /\ High' = High
    BY <1>8 DEF Release, Free, High, TypeOK
  <2>2. Deleting' = Deleting /\ count'.releases = count.releases + 1
    BY <1>8 DEF Release, Deleting, purges, TypeOK
  <2> QED
    BY <1>0, <2>1, <2>2 DEF Pressed
<1> QED
  BY <1>1, <1>2, <1>3, <1>4, <1>5, <1>6, <1>7, <1>8
  DEF Next, Purge, vars, purges, volume, Sample, StopWatching, Close

\* PurgeToFree checks the free space once per batch: every batch is deleted
\* while too little is free, not counting what others freed.
THEOREM PurgesOnlyUnderPressure == Spec => DeletesUnderPressure
<1>1. Init => Pressed
  BY DEF Init, Pressed, Deleting
<1>2. IInv /\ Pressed /\ [Next]_vars => Pressed'
  BY PressedStep
<1>3. IInv /\ Pressed /\ [Next]_vars => [footage' < footage => Free < High + count.releases]_vars
  <2> SUFFICES ASSUME IInv, Pressed, Next, footage' < footage
                PROVE Free < High + count.releases
    BY DEF vars, volume, IInv, TypeOK
  <2>1. \E p \in Purges : Delete(p) \/ DeleteFails(p)
    BY DEF Next, Purge, Sample, StopWatching, Decide, Check, Query, QueryFails, ReturnPurge,
           Write, Release, Close, volume, IInv, TypeOK
  <2> QED
    BY <2>1 DEF Delete, DeleteFails, Deleting, Pressed
<1> QED
  BY Inductive, <1>1, <1>2, <1>3, PTL DEF Spec, DeletesUnderPressure

=========================================================================
