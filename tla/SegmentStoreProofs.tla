------------------------- MODULE SegmentStoreProofs -------------------------
(***************************************************************************)
(* Proofs about SegmentStore, for every value of its constants: the types, *)
(* that purging a deleted camera spares the camera re-created with its id, *)
(* that a graceful stop indexes all, and that no step takes a row before   *)
(* its file.  For executions in which no camera records while a Reindex    *)
(* walks its footage: no purge takes an open file, rows cover their files, *)
(* the index tells all and retention spares what is fresh.  For executions   *)
(* in which a camera is deleted when its Reindex has ended, and created    *)
(* again when its purge has ended: what a deletion purged stays gone.      *)
(***************************************************************************)
EXTENDS SegmentStore, TLAPS

\* The clock is ahead of everything it stamped: an open segment started before
\* now, the file it wrote was last written after that start, and so was every
\* file on disk.
ClockInv ==
    /\ \A c \in Cameras : cur[c] # Absent => cur[c] < now
    /\ \A c \in Cameras : cur[c] # Absent /\ opened[c] => cur[c] <= mtime[<<c, cur[c]>>]
    /\ \A s \in Segs : mtime[s] <= now
    /\ \A s \in Segs : file[s] # Absent => Start(s) <= mtime[s]

\* Only the purge of a camera passes through the states of that purge.
PassInv ==
    \A t \in purges :
        /\ t.pc \in {"removed", "flush", "barrier", "query", "orphans"} => t.kind = "camera"
        /\ t.kind = "camera" => t.cam \in Cameras

TypeInv == TypeOK /\ ClockInv /\ PassInv

\* What a camera purge knows of its camera.  While the handler of the deletion
\* runs nothing is recorded and nothing chosen; after it read its cutoff, the
\* camera only records what starts at or after it.
PassSpares(t) ==
    /\ t.pc = "removed" => /\ t.list \cup t.todo \cup t.gone = {}
                           /\ cur[t.cam] = Absent /\ t.cam \notin engaged
    /\ t.pc # "removed" => /\ t.cutoff <= now
                           /\ cur[t.cam] # Absent => t.cutoff <= cur[t.cam]
    /\ \A s \in t.list \cup t.todo \cup t.gone : Start(s) < t.cutoff /\ Cam(s) = t.cam

\* Purges run only between the end of Start and the end of Close.
IdleInv == phase \in {"booting", "down"} => purges = {}

SpareInv == IdleInv /\ \A t \in purges : t.kind = "camera" => PassSpares(t)

-----------------------------------------------------------------------------
(* Helpers: segments, queue items, the ending of a segment, batches.        *)

\* A camera and an instant make a segment, and nothing else does.
LEMMA SegmentParts ==
    /\ \A c \in Cameras, t \in Instants : <<c, t>> \in Segs
    /\ \A s \in Segs : Cam(s) \in Cameras /\ Start(s) \in Instants
BY DEF Segs, Cam, Start

\* Instants and durations are integers, zero is one of them, Absent is none.
LEMMA InstantFacts ==
    /\ Instants \subseteq Int /\ Durations = Instants /\ 0 \in Instants
    /\ Absent \notin Instants /\ Absent \in Int
BY SizesAssumption DEF Instants, Durations, Absent

\* What enqueueIndex and flushIndex send is an item of the queue.
LEMMA ItemIsTyped ==
    /\ \A s \in Segs, d \in Durations : Item(s, d) \in Items
    /\ \A t \in Passes : t.cam \in Cameras => Barrier(t) \in Items
BY SegmentParts, InstantFacts DEF Item, Barrier, Items, Passes

\* A batch is taken from the candidates.
LEMMA BatchOfCandidates == ASSUME NEW S, NEW B \in Batches(S) PROVE B \subseteq S
BY DEF Batches

\* A failure stays within its bound.
LEMMA FailureBudget == ASSUME BudgetType, MayFail, Fail PROVE failures' \in 0..MaxFailures
BY SizesAssumption DEF BudgetType, MayFail, Fail

\* Both ends of segment.close: content and duration never exceed the clock.
LEMMA ClosingIsTyped ==
    ASSUME TypeInv, NEW c \in Cameras, cur[c] # Absent, NEW e \in Closings(c)
    PROVE  /\ e.len \in Durations \cup {Absent} /\ e.dur \in Durations \cup {Absent}
           /\ <<c, cur[c]>> \in Segs /\ cur[c] \in Instants /\ cur[c] < now
<1> DEFINE s == <<c, cur[c]>>
<1>1. cur[c] \in Instants /\ cur[c] < now /\ now \in Instants /\ s \in Segs
  BY SegmentParts DEF TypeInv, TypeOK, ClockType, RecorderType, ClockInv
<1>2. now - cur[c] \in Durations
  BY <1>1, SizesAssumption DEF Instants, Durations
<1>3. file[s] \in Durations \cup {Absent} /\ mtime[s] \in Instants /\ mtime[s] <= now
  BY <1>1 DEF TypeInv, TypeOK, DiskType, ClockInv
<1>4. opened[c] => mtime[s] - cur[c] \in Durations
  <2>1. opened[c] => cur[c] <= mtime[s]
    BY DEF TypeInv, ClockInv
  <2> QED BY <1>1, <1>3, <2>1, SizesAssumption DEF Instants, Durations
<1>5. 0 \in Durations /\ Absent \in Durations \cup {Absent}
  BY InstantFacts
<1> DEFINE ending(l, d, f) == [len |-> l, dur |-> d, failed |-> f]
<1>6. CASE opened[c]
  <2>1. e \in {ending(now - cur[c], now - cur[c], FALSE),
               ending(file[s], mtime[s] - cur[c], FALSE),
               ending(file[s], now - cur[c], TRUE), ending(now - cur[c], Absent, TRUE)}
    BY <1>6 DEF Closings
  <2> QED BY <1>1, <1>2, <1>3, <1>4, <1>5, <1>6, <2>1
<1>7. CASE ~opened[c]
  <2>1. e \in {ending(now - cur[c], now - cur[c], FALSE), ending(Absent, Absent, FALSE),
               ending(Absent, Absent, TRUE), ending(0, Absent, TRUE),
               ending(0, now - cur[c], TRUE)}
    BY <1>7 DEF Closings
  <2> QED BY <1>1, <1>2, <1>5, <2>1
<1> QED BY <1>6, <1>7

\* Finalizing a segment keeps disk, queue, budget and history well typed, and
\* the clock ahead of what it stamped.
LEMMA FinalizeKeepsTypes ==
    ASSUME TypeInv, NEW c \in Cameras, cur[c] # Absent, NEW e \in Closings(c), Finalize(c, e)
    PROVE  /\ DiskType' /\ queue' \in Seq(Items) /\ dropped' \subseteq Segs
           /\ cur' \in [Cameras -> Instants \cup {Absent}] /\ opened' \in [Cameras -> BOOLEAN]
           /\ failures' \in 0..MaxFailures
           /\ now' = now => ClockInv'
<1> DEFINE s == <<c, cur[c]>>
<1>1. /\ e.len \in Durations \cup {Absent} /\ e.dur \in Durations \cup {Absent}
      /\ s \in Segs /\ cur[c] \in Instants /\ cur[c] < now /\ now \in Instants
  BY ClosingIsTyped DEF TypeInv, TypeOK, ClockType
<1>2. DiskType /\ queue \in Seq(Items) /\ dropped \subseteq Segs /\ BudgetType /\ RecorderType
  BY DEF TypeInv, TypeOK, QueueType, HistoryType
<1>3. e.dur # Absent => Item(s, e.dur) \in Items
  BY <1>1, ItemIsTyped
<1>4. file' \in [Segs -> Durations \cup {Absent}] /\ mtime' \in [Segs -> Instants]
  BY <1>1, <1>2 DEF Finalize, DiskType
<1>5. row' \in [Segs -> Durations \cup {Absent}]
  BY <1>1, <1>2 DEF Finalize, Enqueue, DiskType
<1>6. queue' \in Seq(Items)
  <2>1. queue' = queue \/ (e.dur # Absent /\ queue' = Append(queue, Item(s, e.dur)))
    BY DEF Finalize, Enqueue
  <2> QED BY <1>2, <1>3, <2>1
<1>7. dropped' \subseteq Segs
  BY <1>1, <1>2 DEF Finalize, Enqueue
<1>8. failures' \in 0..MaxFailures
  <2>1. failures' = failures \/ (MayFail /\ Fail)
    BY DEF Finalize, Enqueue
  <2> QED BY <1>2, <2>1, FailureBudget DEF BudgetType
<1>9. cur' \in [Cameras -> Instants \cup {Absent}] /\ opened' \in [Cameras -> BOOLEAN]
  BY <1>2 DEF Finalize, RecorderType
<1>10. ASSUME now' = now PROVE ClockInv'
  <2>1. ClockInv
    BY DEF TypeInv
  <2>2. \A d \in Cameras : cur'[d] # Absent => d # c /\ cur'[d] = cur[d] /\ opened'[d] = opened[d]
    BY <1>2 DEF Finalize, RecorderType
  <2>3. \A u \in Segs : u # s => file'[u] = file[u] /\ mtime'[u] = mtime[u]
    BY <1>2 DEF Finalize, DiskType
  <2>4. /\ mtime'[s] \in {mtime[s], now}
        /\ file'[s] # Absent => mtime'[s] = now
    BY <1>1, <1>2 DEF Finalize, DiskType
  <2>5. \A d \in Cameras : cur'[d] # Absent => <<d, cur[d]>> \in Segs /\ <<d, cur[d]>> # s
    BY <1>2, <2>2, SegmentParts DEF RecorderType
  <2>6. \A u \in Segs : mtime'[u] <= now'
    BY <1>1, <1>10, <2>1, <2>3, <2>4, InstantFacts DEF ClockInv
  <2>7. \A u \in Segs : file'[u] # Absent => Start(u) <= mtime'[u]
    <3>1. Start(s) < now /\ now \in Int /\ Start(s) \in Int
      BY <1>1, InstantFacts DEF Start
    <3> QED BY <2>1, <2>3, <2>4, <3>1 DEF ClockInv
  <2> QED BY <1>10, <2>1, <2>2, <2>3, <2>5, <2>6, <2>7 DEF ClockInv
<1> QED BY <1>4, <1>5, <1>6, <1>7, <1>8, <1>9, <1>10 DEF DiskType

\* One purge pass replaced by its next state, or ended.
LEMMA StepPassKeeps ==
    ASSUME TypeInv, NEW t \in purges, NEW u \in Passes, StepPass(t, u),
           u.kind = t.kind, u.cam = t.cam,
           u.pc \in {"removed", "flush", "barrier", "query", "orphans"} => t.kind = "camera"
    PROVE  PassType' /\ PassInv'
BY DEF TypeInv, TypeOK, PassType, PassInv, StepPass

\* A pass that ends leaves the others well typed.
LEMMA EndPassKeeps ==
    ASSUME TypeInv, NEW t \in purges, EndPass(t)
    PROVE  PassType' /\ PassInv'
BY DEF TypeInv, TypeOK, PassType, PassInv, EndPass

\* What TypeInv says of one pass, and of one scan.
LEMMA PassFacts ==
    ASSUME TypeInv, NEW t \in purges
    PROVE  /\ t \in Passes /\ t.kind \in Kinds /\ t.list \subseteq Segs
           /\ t.todo \subseteq Segs /\ t.gone \subseteq Segs
           /\ t.kind = "camera" => t.cam \in Cameras
           /\ t.pc \in {"removed", "flush", "barrier", "query", "orphans"} => t.kind = "camera"
BY DEF TypeInv, TypeOK, PassType, PassInv, Passes

\* What TypeInv says of one Reindex goroutine.
LEMMA ScanFacts ==
    ASSUME TypeInv, NEW t \in scans
    PROVE  t \in Scans /\ t.cam \in Cameras /\ t.seg \in Segs /\ t.len \in Durations
BY DEF TypeInv, TypeOK, ScanType, Scans

-----------------------------------------------------------------------------
(* The type invariant holds initially, and every step preserves it.         *)

\* The initial state is well typed.
LEMMA InitType == Init => TypeInv
<1> SUFFICES ASSUME Init PROVE TypeInv
  OBVIOUS
<1>1. ClockType /\ DiskType /\ RecorderType /\ QueueType
  BY InstantFacts DEF Init, ClockType, DiskType, RecorderType, QueueType
<1>2. ScanType /\ PassType /\ BudgetType /\ HistoryType
  BY InstantFacts, SizesAssumption DEF Init, ScanType, PassType, BudgetType, HistoryType
<1>3. ClockInv /\ PassInv
  BY InstantFacts DEF Init, ClockInv, PassInv
<1> QED BY <1>1, <1>2, <1>3 DEF TypeInv, TypeOK

\* The type invariant survives when the clock advances.
LEMMA TickType ==
    ASSUME TypeInv, Tick
    PROVE  TypeInv'
<1>1. DiskType' /\ RecorderType' /\ QueueType' /\ ScanType' /\ PassType' /\ BudgetType'
        /\ HistoryType' /\ PassInv'
  BY DEF Tick, TypeInv, TypeOK, DiskType, RecorderType, QueueType, ScanType, PassType,
     BudgetType, HistoryType, PassInv, memory, history, budgets
<1>2. ClockType'
  BY SizesAssumption DEF Tick, MayAdvance, TypeInv, TypeOK, ClockType, Instants
<1>3. ClockInv'
  BY SizesAssumption DEF Tick, TypeInv, TypeOK, ClockType, DiskType, RecorderType, ClockInv, Instants,
     memory
<1> QED BY <1>1, <1>2, <1>3 DEF TypeInv, TypeOK

\* The type invariant survives when the recorder starts a segment (newSegment).
LEMMA OpenSegmentType ==
    ASSUME TypeInv, NEW c \in Cameras, OpenSegment(c)
    PROVE  TypeInv'
<1>1. DiskType' /\ QueueType' /\ ScanType' /\ PassType' /\ BudgetType' /\ HistoryType' /\
        PassInv'
  BY DEF OpenSegment, TypeInv, TypeOK, DiskType, QueueType, ScanType, PassType,
     BudgetType, HistoryType, PassInv, memory, history, budgets
<1>2. ClockType'
  BY SizesAssumption DEF OpenSegment, MayAdvance, TypeInv, TypeOK, ClockType, Instants
<1>3. RecorderType'
  BY DEF OpenSegment, TypeInv, TypeOK, ClockType, RecorderType
<1>4. ClockInv'
  BY SizesAssumption DEF OpenSegment, TypeInv, TypeOK, ClockType, DiskType, RecorderType, ClockInv,
     Instants
<1> QED BY <1>1, <1>2, <1>3, <1>4 DEF TypeInv, TypeOK

\* The type invariant survives when a part reaches the file (closeCurPart).
LEMMA WritePartType ==
    ASSUME TypeInv, NEW c \in Cameras, WritePart(c)
    PROVE  TypeInv'
<1>1. ClockType' /\ QueueType' /\ ScanType' /\ PassType' /\ BudgetType' /\ HistoryType'
        /\ PassInv'
  BY DEF WritePart, TypeInv, TypeOK, ClockType, QueueType, ScanType, PassType,
     BudgetType, HistoryType, PassInv, memory, history, budgets
<1>2. cur[c] \in Instants /\ cur[c] < now /\ now \in Instants /\ <<c, cur[c]>> \in Segs
  BY SegmentParts DEF WritePart, TypeInv, TypeOK, ClockType, RecorderType, ClockInv
<1>3. now - cur[c] \in Durations
  BY <1>2, SizesAssumption DEF Instants, Durations
<1>4. DiskType'
  BY <1>2, <1>3 DEF WritePart, TypeInv, TypeOK, DiskType
<1>5. RecorderType'
  BY DEF WritePart, TypeInv, TypeOK, RecorderType
<1>6. ClockInv'
  <2> DEFINE s == <<c, cur[c]>>
  <2>1. ClockInv /\ now' = now /\ cur' = cur /\ mtime'[s] = now /\ Start(s) = cur[c]
    BY <1>2 DEF WritePart, TypeInv, TypeOK, DiskType, Start
  <2>2. \A u \in Segs : u # s => file'[u] = file[u] /\ mtime'[u] = mtime[u]
    BY <1>2 DEF WritePart, TypeInv, TypeOK, DiskType
  <2>3. \A d \in Cameras : d # c => opened'[d] = opened[d]
    BY DEF WritePart, TypeInv, TypeOK, RecorderType
  <2>4. \A d \in Cameras : cur[d] # Absent => <<d, cur[d]>> \in Segs
    BY SegmentParts DEF TypeInv, TypeOK, RecorderType
  <2>5. \A d \in Cameras : d # c => <<d, cur[d]>> # s
    OBVIOUS
  <2>6. cur[c] <= now /\ now <= now
    BY <1>2, SizesAssumption DEF Instants
  <2>7. \A u \in Segs : mtime'[u] <= now'
    BY <2>1, <2>2, <2>6 DEF ClockInv
  <2>8. \A u \in Segs : file'[u] # Absent => Start(u) <= mtime'[u]
    BY <2>1, <2>2, <2>6 DEF ClockInv
  <2>9. \A d \in Cameras : cur'[d] # Absent /\ opened'[d] => cur'[d] <= mtime'[<<d, cur'[d]>>]
    BY <2>1, <2>2, <2>3, <2>4, <2>5, <2>6 DEF ClockInv
  <2> QED BY <2>1, <2>7, <2>8, <2>9 DEF ClockInv
<1> QED BY <1>1, <1>2, <1>3, <1>4, <1>5, <1>6 DEF TypeInv, TypeOK

\* The type invariant survives when a segment ends (segment.close).
LEMMA CloseSegmentType ==
    ASSUME TypeInv, NEW c \in Cameras, CloseSegment(c)
    PROVE  TypeInv'
<1>1. ClockType' /\ ScanType' /\ PassType' /\ PassInv'
  BY DEF CloseSegment, TypeInv, TypeOK, ClockType, ScanType, PassType, PassInv, memory,
     history, budgets
<1>2. PICK e \in Closings(c) : cur[c] # Absent /\ Finalize(c, e)
  BY DEF CloseSegment
<1>3. DiskType' /\ RecorderType' /\ QueueType' /\ BudgetType' /\ HistoryType' /\ ClockInv'
  BY <1>2, FinalizeKeepsTypes DEF CloseSegment, TypeInv, TypeOK, RecorderType, QueueType, BudgetType,
     HistoryType
<1> QED BY <1>1, <1>2, <1>3 DEF TypeInv, TypeOK

\* The type invariant survives when runIndexer receives an item.
LEMMA IndexerTakeType ==
    ASSUME TypeInv, IndexerTake
    PROVE  TypeInv'
<1>1. ClockType' /\ DiskType' /\ RecorderType' /\ ScanType' /\ PassType' /\ BudgetType'
        /\ HistoryType' /\ ClockInv' /\ PassInv'
  BY DEF IndexerTake, TypeInv, TypeOK, ClockType, DiskType, RecorderType, ScanType,
     PassType, BudgetType, HistoryType, ClockInv, PassInv, memory, history, budgets, Cam,
     Start
<1>2. QueueType'
  <2>1. queue \in Seq(Items) /\ queue # <<>>
    BY DEF IndexerTake, TypeInv, TypeOK, QueueType
  <2>2. Head(queue) \in Items /\ Tail(queue) \in Seq(Items)
    BY <2>1
  <2> QED BY <2>2 DEF IndexerTake, QueueType
<1> QED BY <1>1, <1>2 DEF TypeInv, TypeOK

\* The type invariant survives when runIndexer inserts a row.
LEMMA IndexerInsertType ==
    ASSUME TypeInv, IndexerInsert
    PROVE  TypeInv'
<1>1. ClockType' /\ RecorderType' /\ ScanType' /\ PassType' /\ BudgetType' /\
        HistoryType' /\ ClockInv' /\ PassInv'
  BY DEF IndexerInsert, TypeInv, TypeOK, ClockType, RecorderType, ScanType, PassType,
     BudgetType, HistoryType, ClockInv, PassInv, memory, history, budgets
<1>2. inflight[1].seg \in Segs /\ inflight[1].len \in Durations
  <2>1. inflight \in Seq(Items) /\ inflight # <<>>
    BY DEF IndexerInsert, TypeInv, TypeOK, QueueType
  <2>2. inflight[1] \in Items
    BY <2>1
  <2> QED BY <2>2 DEF Items
<1>3. DiskType'
  BY <1>2 DEF IndexerInsert, TypeInv, TypeOK, DiskType
<1>4. QueueType'
  BY DEF IndexerInsert, TypeInv, TypeOK, QueueType
<1> QED BY <1>1, <1>2, <1>3, <1>4 DEF TypeInv, TypeOK

\* The type invariant survives when insertWithRetry gives a row up.
LEMMA IndexerGiveUpType ==
    ASSUME TypeInv, IndexerGiveUp
    PROVE  TypeInv'
<1>1. ClockType' /\ DiskType' /\ RecorderType' /\ ScanType' /\ PassType' /\ ClockInv' /\
        PassInv'
  BY DEF IndexerGiveUp, TypeInv, TypeOK, ClockType, DiskType, RecorderType, ScanType,
     PassType, ClockInv, PassInv, memory, history, budgets
<1>2. inflight[1].seg \in Segs
  <2>1. inflight \in Seq(Items) /\ inflight # <<>>
    BY DEF IndexerGiveUp, TypeInv, TypeOK, QueueType
  <2>2. inflight[1] \in Items
    BY <2>1
  <2> QED BY <2>2 DEF Items
<1>3. HistoryType'
  BY <1>2 DEF IndexerGiveUp, TypeInv, TypeOK, HistoryType
<1>4. QueueType'
  BY DEF IndexerGiveUp, TypeInv, TypeOK, QueueType
<1>5. BudgetType'
  BY FailureBudget DEF IndexerGiveUp, TypeInv, TypeOK, BudgetType
<1> QED BY <1>1, <1>2, <1>3, <1>4, <1>5 DEF TypeInv, TypeOK

\* The type invariant survives when runIndexer releases a flush.
LEMMA IndexerBarrierType ==
    ASSUME TypeInv, IndexerBarrier
    PROVE  TypeInv'
<1>1. ClockType' /\ DiskType' /\ RecorderType' /\ ScanType' /\ BudgetType' /\
        HistoryType' /\ ClockInv'
  BY DEF IndexerBarrier, TypeInv, TypeOK, ClockType, DiskType, RecorderType, ScanType,
     BudgetType, HistoryType, ClockInv, memory, history, budgets
<1>2. QueueType'
  BY DEF IndexerBarrier, TypeInv, TypeOK, QueueType
<1>3. \A u \in purges' : \/ u \in purges
                           \/ \E t \in purges : /\ t.pc = "barrier" /\ t \in Passes
                                                 /\ u = [t EXCEPT !.pc = "query"]
  BY DEF IndexerBarrier, TypeInv, TypeOK, PassType
<1>4. \A t \in Passes : /\ [t EXCEPT !.pc = "query"] \in Passes
                        /\ [t EXCEPT !.pc = "query"].kind = t.kind
                        /\ [t EXCEPT !.pc = "query"].cam = t.cam
                        /\ [t EXCEPT !.pc = "query"].pc = "query"
  BY DEF Passes, PurgeStates
<1>5. PassType'
  BY <1>3, <1>4 DEF TypeInv, TypeOK, PassType
<1>6. PassInv'
  <2>1. \A t \in purges : t.pc = "barrier" => t.kind = "camera" /\ t.cam \in Cameras
    BY DEF TypeInv, PassInv
  <2>2. SUFFICES ASSUME NEW u \in purges'
        PROVE  /\ u.pc \in {"removed", "flush", "barrier", "query", "orphans"} => u.kind = "camera"
               /\ u.kind = "camera" => u.cam \in Cameras
    BY DEF PassInv
  <2>3. CASE u \in purges
    BY <2>3 DEF TypeInv, PassInv
  <2>4. CASE \E t \in purges : /\ t.pc = "barrier" /\ t \in Passes
                              /\ u = [t EXCEPT !.pc = "query"]
    <3>1. PICK t \in purges : /\ t.pc = "barrier" /\ t \in Passes
                             /\ u = [t EXCEPT !.pc = "query"]
      BY <2>4
    <3> QED BY <1>4, <2>1, <3>1
  <2> QED BY <1>3, <2>3, <2>4
<1> QED BY <1>1, <1>2, <1>3, <1>4, <1>5, <1>6 DEF TypeInv, TypeOK

\* The type invariant survives when Start engages a camera.
LEMMA BootCameraType ==
    ASSUME TypeInv, NEW c \in Cameras, BootCamera(c)
    PROVE  TypeInv'
<1>1. ClockType' /\ QueueType' /\ PassType' /\ BudgetType' /\ HistoryType' /\ PassInv'
  BY DEF BootCamera, TypeInv, TypeOK, ClockType, QueueType, PassType, BudgetType,
     HistoryType, PassInv, memory, history, budgets, Engage
<1>2. DiskType'
  <2>1. \A s \in Recovered(c) : file[s] = file[s]
    OBVIOUS
  <2> QED BY <2>1 DEF BootCamera, Engage, TypeInv, TypeOK, DiskType
<1>3. RecorderType'
  BY DEF BootCamera, Engage, TypeInv, TypeOK, RecorderType
<1>4. ScanType'
  BY SizesAssumption, SegmentParts, InstantFacts DEF BootCamera, Engage, Scan, Scans, TypeInv, TypeOK, ScanType
<1>5. ClockInv'
  BY DEF BootCamera, Engage, TypeInv, TypeOK, ClockInv
<1> QED BY <1>1, <1>2, <1>3, <1>4, <1>5 DEF TypeInv, TypeOK

\* The type invariant survives when a camera is created or enabled.
LEMMA EnableCameraType ==
    ASSUME TypeInv, NEW c \in Cameras, EnableCamera(c)
    PROVE  TypeInv'
<1>1. ClockType' /\ QueueType' /\ PassType' /\ BudgetType' /\ HistoryType' /\ PassInv'
  BY DEF EnableCamera, TypeInv, TypeOK, ClockType, QueueType, PassType, BudgetType,
     HistoryType, PassInv, memory, history, budgets, Engage
<1>2. DiskType'
  <2>1. \A s \in Recovered(c) : file[s] = file[s]
    OBVIOUS
  <2> QED BY <2>1 DEF EnableCamera, Engage, TypeInv, TypeOK, DiskType
<1>3. RecorderType'
  BY DEF EnableCamera, Engage, TypeInv, TypeOK, RecorderType
<1>4. ScanType'
  BY SizesAssumption, SegmentParts, InstantFacts DEF EnableCamera, Engage, Scan, Scans, TypeInv, TypeOK, ScanType
<1>5. ClockInv'
  BY DEF EnableCamera, Engage, TypeInv, TypeOK, ClockInv
<1> QED BY <1>1, <1>2, <1>3, <1>4, <1>5 DEF TypeInv, TypeOK

\* The type invariant survives when Start returns.
LEMMA BootDoneType ==
    ASSUME TypeInv, BootDone
    PROVE  TypeInv'
<1>1. DiskType' /\ RecorderType' /\ QueueType' /\ ScanType' /\ PassType' /\ BudgetType'
        /\ HistoryType' /\ ClockInv' /\ PassInv'
  BY DEF BootDone, TypeInv, TypeOK, DiskType, RecorderType, QueueType, ScanType,
     PassType, BudgetType, HistoryType, ClockInv, PassInv, memory, history, budgets, Cam,
     Start
<1>2. ClockType'
  BY DEF BootDone, TypeInv, TypeOK, ClockType
<1> QED BY <1>1, <1>2 DEF TypeInv, TypeOK

\* The type invariant survives when a camera is disabled (RemoveCamera).
LEMMA DisableCameraType ==
    ASSUME TypeInv, NEW c \in Cameras, DisableCamera(c)
    PROVE  TypeInv'
<1>1. ClockType' /\ ScanType' /\ PassType' /\ PassInv'
  BY DEF DisableCamera, TypeInv, TypeOK, ClockType, ScanType, PassType, PassInv, memory,
     history, budgets, Detach
<1>2. DiskType' /\ RecorderType' /\ QueueType' /\ BudgetType' /\ HistoryType' /\ ClockInv'
  <2>1. CASE cur[c] # Absent
    <3>1. PICK e \in Closings(c) : Finalize(c, e)
      BY <2>1 DEF DisableCamera, Detach
    <3> QED BY <2>1, <3>1, FinalizeKeepsTypes DEF DisableCamera, Detach, TypeInv, TypeOK, RecorderType, QueueType,
       BudgetType, HistoryType
  <2>2. CASE cur[c] = Absent
    BY <2>2 DEF DisableCamera, Detach, TypeInv, TypeOK, DiskType, RecorderType, QueueType, BudgetType, HistoryType,
       ClockInv
  <2> QED BY <2>1, <2>2
<1> QED BY <1>1, <1>2 DEF TypeInv, TypeOK

\* The type invariant survives when a camera is deleted (RemoveCamera).
LEMMA DeleteCameraType ==
    ASSUME TypeInv, NEW c \in Cameras, DeleteCamera(c)
    PROVE  TypeInv'
<1>1. ClockType' /\ ScanType'
  BY DEF DeleteCamera, TypeInv, TypeOK, ClockType, ScanType, memory, history, budgets,
     Detach
<1>2. DiskType' /\ RecorderType' /\ QueueType' /\ BudgetType' /\ HistoryType' /\ ClockInv'
  <2>1. CASE cur[c] # Absent
    <3>1. PICK e \in Closings(c) : Finalize(c, e)
      BY <2>1 DEF DeleteCamera, Detach
    <3> QED BY <2>1, <3>1, FinalizeKeepsTypes DEF DeleteCamera, Detach, TypeInv, TypeOK, RecorderType, QueueType,
       BudgetType, HistoryType
  <2>2. CASE cur[c] = Absent
    BY <2>2 DEF DeleteCamera, Detach, TypeInv, TypeOK, DiskType, RecorderType, QueueType, BudgetType, HistoryType,
       ClockInv
  <2> QED BY <2>1, <2>2
<1>3. LET u == Pass("camera", c, 0, "removed", {})
     IN  u \in Passes /\ u.kind = "camera" /\ u.cam = c
  BY InstantFacts DEF Pass, Passes, Kinds, PurgeStates
<1>4. PassType' /\ PassInv'
  BY <1>3 DEF DeleteCamera, TypeInv, TypeOK, PassType, PassInv
<1> QED BY <1>1, <1>2, <1>3, <1>4 DEF TypeInv, TypeOK

\* The type invariant survives when Reindex reads the rows it knows.
LEMMA ReindexRangeType ==
    ASSUME TypeInv, NEW t \in scans, ReindexRange(t)
    PROVE  TypeInv'
<1>1. ClockType' /\ DiskType' /\ RecorderType' /\ QueueType' /\ PassType' /\ BudgetType'
        /\ HistoryType' /\ ClockInv' /\ PassInv'
  BY DEF ReindexRange, TypeInv, TypeOK, ClockType, DiskType, RecorderType, QueueType,
     PassType, BudgetType, HistoryType, ClockInv, PassInv, memory, history, budgets, Cam,
     Start
<1>2. ScanType'
  <2>1. t \in Scans /\ now \in Instants
    BY ScanFacts DEF TypeInv, TypeOK, ClockType
  <2>2. [t EXCEPT !.pc = "walk", !.known = Indexed \cap Of(t.cam), !.since = now] \in Scans
    BY <2>1 DEF Scans, Indexed
  <2> QED BY <2>2 DEF ReindexRange, StepScan, TypeInv, TypeOK, ScanType
<1> QED BY <1>1, <1>2 DEF TypeInv, TypeOK

\* The type invariant survives when Reindex probes a file.
LEMMA ReindexProbeType ==
    ASSUME TypeInv, NEW t \in scans, ReindexProbe(t)
    PROVE  TypeInv'
<1>1. ClockType' /\ DiskType' /\ RecorderType' /\ QueueType' /\ PassType' /\ BudgetType'
        /\ HistoryType' /\ ClockInv' /\ PassInv'
  BY DEF ReindexProbe, TypeInv, TypeOK, ClockType, DiskType, RecorderType, QueueType,
     PassType, BudgetType, HistoryType, ClockInv, PassInv, memory, history, budgets, Cam,
     Start
<1>2. ScanType'
  <2>1. PICK s \in Ahead(t) :
          StepScan(t, [t EXCEPT !.pc = "insert", !.next = Start(s) + 1, !.seg = s, !.len = file[s]])
    BY DEF ReindexProbe
  <2>2. s \in Segs /\ file[s] \in Durations
    BY DEF Ahead, Playable, TypeInv, TypeOK, DiskType
  <2>3. Start(s) + 1 \in 0..(MaxTime + 1)
    BY <2>2, SegmentParts, SizesAssumption DEF Instants
  <2>4. [t EXCEPT !.pc = "insert", !.next = Start(s) + 1, !.seg = s, !.len = file[s]] \in Scans
    BY <2>2, <2>3, ScanFacts DEF Scans
  <2> QED BY <2>1, <2>4 DEF StepScan, TypeInv, TypeOK, ScanType
<1> QED BY <1>1, <1>2 DEF TypeInv, TypeOK

\* The type invariant survives when Reindex inserts a row.
LEMMA ReindexInsertType ==
    ASSUME TypeInv, NEW t \in scans, ReindexInsert(t)
    PROVE  TypeInv'
<1>1. ClockType' /\ RecorderType' /\ QueueType' /\ PassType' /\ ClockInv' /\ PassInv'
  BY DEF ReindexInsert, TypeInv, TypeOK, ClockType, RecorderType, QueueType, PassType,
     ClockInv, PassInv, memory, history, budgets, Cam, Start
<1>2. t \in Scans /\ t.cam \in Cameras /\ t.seg \in Segs /\ t.len \in Durations
  BY ScanFacts
<1>3. DiskType'
  BY <1>2 DEF ReindexInsert, TypeInv, TypeOK, DiskType
<1>4. ScanType'
  <2>1. [t EXCEPT !.pc = "walk", !.seg = <<t.cam, 0>>, !.len = 0] \in Scans
    BY <1>2, SegmentParts, InstantFacts DEF Scans
  <2> QED BY <2>1 DEF ReindexInsert, StepScan, TypeInv, TypeOK, ScanType
<1>5. BudgetType'
  <2>1. failures' = failures \/ (MayFail /\ Fail)
    BY DEF ReindexInsert
  <2> QED BY <2>1, FailureBudget DEF ReindexInsert, TypeInv, TypeOK, BudgetType
<1>6. HistoryType'
  BY <1>2 DEF ReindexInsert, TypeInv, TypeOK, HistoryType
<1> QED BY <1>1, <1>2, <1>3, <1>4, <1>5, <1>6 DEF TypeInv, TypeOK

\* The type invariant survives when Reindex ends.
LEMMA ReindexDoneType ==
    ASSUME TypeInv, NEW t \in scans, ReindexDone(t)
    PROVE  TypeInv'
<1>1. ClockType' /\ DiskType' /\ RecorderType' /\ QueueType' /\ PassType' /\ BudgetType'
        /\ ClockInv' /\ PassInv'
  BY DEF ReindexDone, TypeInv, TypeOK, ClockType, DiskType, RecorderType, QueueType,
     PassType, BudgetType, ClockInv, PassInv, memory, history, budgets, Cam, Start
<1>2. ScanType'
  BY DEF ReindexDone, TypeInv, TypeOK, ScanType
<1>3. HistoryType'
  <2>1. Ahead(t) \subseteq Segs
    BY DEF Ahead, Playable
  <2> QED BY <2>1 DEF ReindexDone, TypeInv, TypeOK, HistoryType
<1> QED BY <1>1, <1>2, <1>3 DEF TypeInv, TypeOK

\* The type invariant survives when clean or the sweep starts.
LEMMA StartRetentionType ==
    ASSUME TypeInv, NEW k \in {"clean", "sweep"}, StartRetention(k)
    PROVE  TypeInv'
<1>1. ClockType' /\ DiskType' /\ RecorderType' /\ QueueType' /\ ScanType' /\ BudgetType'
        /\ HistoryType' /\ ClockInv'
  BY DEF StartRetention, TypeInv, TypeOK, ClockType, DiskType, RecorderType, QueueType,
     ScanType, BudgetType, HistoryType, ClockInv, memory, history, budgets, Cam, Start
<1>2. now - Retain \in Instants
  BY SizesAssumption DEF StartRetention, TypeInv, TypeOK, ClockType, Instants
<1>3. PICK L \in SUBSET Segs :
          purges' = purges \cup {Pass(k, NoCamera, now - Retain, "next", L)}
  BY DEF StartRetention, Stale, Stored
<1>4. LET u == Pass(k, NoCamera, now - Retain, "next", L)
     IN  u \in Passes /\ u.kind = k /\ u.pc = "next"
  BY <1>2 DEF Pass, Passes, Kinds, PurgeStates
<1>5. PassType' /\ PassInv'
  BY <1>3, <1>4 DEF TypeInv, TypeOK, PassType, PassInv
<1> QED BY <1>1, <1>2, <1>3, <1>4, <1>5 DEF TypeInv, TypeOK

\* The type invariant survives when an emergency purge starts.
LEMMA StartFreeType ==
    ASSUME TypeInv, StartFree
    PROVE  TypeInv'
<1>1. ClockType' /\ DiskType' /\ RecorderType' /\ QueueType' /\ ScanType' /\ BudgetType'
        /\ HistoryType' /\ ClockInv'
  BY DEF StartFree, TypeInv, TypeOK, ClockType, DiskType, RecorderType, QueueType,
     ScanType, BudgetType, HistoryType, ClockInv, memory, history, budgets, Cam, Start
<1>2. LET u == Pass("free", NoCamera, 0, "next", {})
     IN  u \in Passes /\ u.kind = "free" /\ u.pc = "next"
  BY InstantFacts DEF Pass, Passes, Kinds, PurgeStates
<1>3. PassType' /\ PassInv'
  BY <1>2 DEF StartFree, TypeInv, TypeOK, PassType, PassInv
<1> QED BY <1>1, <1>2, <1>3 DEF TypeInv, TypeOK

\* The type invariant survives when PurgeCameraRecordings reads its cutoff.
LEMMA StartCameraPurgeType ==
    ASSUME TypeInv, NEW t \in purges, StartCameraPurge(t)
    PROVE  TypeInv'
<1>1. DiskType' /\ RecorderType' /\ QueueType' /\ ScanType' /\ BudgetType' /\
        HistoryType'
  BY DEF StartCameraPurge, TypeInv, TypeOK, DiskType, RecorderType, QueueType, ScanType,
     BudgetType, HistoryType, memory, history, budgets
<1>2. ClockType'
  BY SizesAssumption DEF StartCameraPurge, MayAdvance, TypeInv, TypeOK, ClockType, Instants
<1>3. PassType' /\ PassInv'
  <2>1. now + 1 \in Instants
    BY SizesAssumption DEF StartCameraPurge, MayAdvance, TypeInv, TypeOK, ClockType, Instants
  <2> DEFINE u == [t EXCEPT !.cutoff = now + 1, !.pc = "flush"]
  <2>2. u \in Passes /\ u.kind = t.kind /\ u.cam = t.cam
    BY <2>1, PassFacts DEF Passes, PurgeStates
  <2>3. t.kind = "camera" /\ StepPass(t, u)
    BY PassFacts DEF StartCameraPurge
  <2> HIDE DEF u
  <2> QED BY <2>2, <2>3, StepPassKeeps
<1>4. ClockInv'
  BY SizesAssumption DEF StartCameraPurge, TypeInv, TypeOK, ClockType, DiskType, RecorderType, ClockInv,
     Instants
<1> QED BY <1>1, <1>2, <1>3, <1>4 DEF TypeInv, TypeOK

\* The type invariant survives when flushIndex sends its barrier or gives up.
LEMMA FlushIndexType ==
    ASSUME TypeInv, NEW t \in purges, FlushIndex(t)
    PROVE  TypeInv'
<1>1. ClockType' /\ DiskType' /\ RecorderType' /\ ScanType' /\ BudgetType' /\
        HistoryType' /\ ClockInv'
  BY DEF FlushIndex, TypeInv, TypeOK, ClockType, DiskType, RecorderType, ScanType,
     BudgetType, HistoryType, ClockInv, memory, history, budgets, Cam, Start
<1>2. t.kind = "camera"
  BY PassFacts DEF FlushIndex
<1>3. QueueType'
  <2>1. Barrier(t) \in Items
    BY <1>2, PassFacts, ItemIsTyped
  <2>2. queue' = queue \/ queue' = Append(queue, Barrier(t))
    BY DEF FlushIndex
  <2> QED BY <2>1, <2>2 DEF FlushIndex, TypeInv, TypeOK, QueueType
<1>4. PassType' /\ PassInv'
  <2>1. PICK p \in {"barrier", "query"} : StepPass(t, [t EXCEPT !.pc = p])
    BY DEF FlushIndex
  <2> DEFINE u == [t EXCEPT !.pc = p]
  <2>2. u \in Passes /\ u.kind = t.kind /\ u.cam = t.cam
    BY PassFacts DEF Passes, PurgeStates
  <2>3. StepPass(t, u)
    BY <2>1
  <2> HIDE DEF u
  <2> QED BY <1>2, <2>2, <2>3, StepPassKeeps
<1> QED BY <1>1, <1>2, <1>3, <1>4 DEF TypeInv, TypeOK

\* The type invariant survives when PurgeCamera queries its rows.
LEMMA QueryCameraType ==
    ASSUME TypeInv, NEW t \in purges, QueryCamera(t)
    PROVE  TypeInv'
<1>1. ClockType' /\ DiskType' /\ RecorderType' /\ QueueType' /\ ScanType' /\ BudgetType'
        /\ HistoryType' /\ ClockInv'
  BY DEF QueryCamera, TypeInv, TypeOK, ClockType, DiskType, RecorderType, QueueType,
     ScanType, BudgetType, HistoryType, ClockInv, memory, history, budgets, Cam, Start
<1>2. PassType' /\ PassInv'
  <2> DEFINE u == [t EXCEPT !.pc = "next", !.list = CameraRows(t)]
  <2>1. u \in Passes /\ u.kind = t.kind /\ u.cam = t.cam /\ u.pc = "next"
    BY PassFacts DEF Passes, PurgeStates, CameraRows, Indexed
  <2>2. StepPass(t, u)
    BY DEF QueryCamera
  <2> HIDE DEF u
  <2> QED BY <2>1, <2>2, StepPassKeeps
<1> QED BY <1>1, <1>2 DEF TypeInv, TypeOK

\* The type invariant survives when a pass takes a batch, or ends.
LEMMA NextBatchType ==
    ASSUME TypeInv, NEW t \in purges, NextBatch(t)
    PROVE  TypeInv'
<1>1. ClockType' /\ DiskType' /\ RecorderType' /\ QueueType' /\ ScanType' /\ BudgetType'
        /\ HistoryType' /\ ClockInv'
  BY DEF NextBatch, TypeInv, TypeOK, ClockType, DiskType, RecorderType, QueueType,
     ScanType, BudgetType, HistoryType, ClockInv, memory, history, budgets, Cam, Start
<1>2. Candidates(t) \subseteq Segs
  BY PassFacts DEF Candidates, Expired, Indexed
<1>3. ASSUME NEW B \in Batches(Candidates(t)),
             StepPass(t, [t EXCEPT !.pc = "unlink", !.todo = B, !.list = @ \ B])
      PROVE  PassType' /\ PassInv'
  <2> DEFINE u == [t EXCEPT !.pc = "unlink", !.todo = B, !.list = @ \ B]
  <2>1. B \subseteq Segs
    BY <1>2, BatchOfCandidates
  <2>2. u \in Passes /\ u.kind = t.kind /\ u.cam = t.cam /\ u.pc = "unlink"
    BY <2>1, PassFacts DEF Passes, PurgeStates
  <2>3. StepPass(t, u)
    BY <1>3
  <2> HIDE DEF u
  <2> QED BY <2>2, <2>3, StepPassKeeps
<1>4. ASSUME t.kind = "camera",
             StepPass(t, [t EXCEPT !.pc = "orphans", !.list = Stale(t.cutoff) \cap Of(t.cam)])
      PROVE  PassType' /\ PassInv'
  <2> DEFINE u == [t EXCEPT !.pc = "orphans", !.list = Stale(t.cutoff) \cap Of(t.cam)]
  <2>1. u \in Passes /\ u.kind = t.kind /\ u.cam = t.cam
    BY PassFacts DEF Passes, PurgeStates, Stale, Stored
  <2>2. StepPass(t, u)
    BY <1>4
  <2> HIDE DEF u
  <2> QED BY <1>4, <2>1, <2>2, StepPassKeeps
<1>5. PassType' /\ PassInv'
  BY <1>3, <1>4, EndPassKeeps DEF NextBatch
<1> QED BY <1>1, <1>2, <1>3, <1>4, <1>5 DEF TypeInv, TypeOK

\* The type invariant survives when deleteFilesParallel removes a file or fails to.
LEMMA UnlinkType ==
    ASSUME TypeInv, NEW t \in purges, Unlink(t)
    PROVE  TypeInv'
<1>1. ClockType' /\ RecorderType' /\ QueueType' /\ ScanType' /\ HistoryType'
  BY DEF Unlink, TypeInv, TypeOK, ClockType, RecorderType, QueueType, ScanType,
     HistoryType, memory, history, budgets
<1>2. PICK s \in t.todo :
          \/ /\ file' = [file EXCEPT ![s] = Absent] /\ UNCHANGED failures
             /\ StepPass(t, [t EXCEPT !.todo = @ \ {s}, !.gone = @ \cup {s}])
          \/ /\ MayFail /\ Fail /\ UNCHANGED file
             /\ StepPass(t, [t EXCEPT !.todo = @ \ {s}, !.failed = TRUE])
  BY DEF Unlink
<1>3. s \in Segs
  BY PassFacts
<1>4. DiskType'
  BY <1>2 DEF Unlink, TypeInv, TypeOK, DiskType
<1>5. BudgetType'
  BY <1>2, FailureBudget DEF Unlink, TypeInv, TypeOK, BudgetType
<1>6. ClockInv'
  BY <1>2, <1>3 DEF Unlink, TypeInv, TypeOK, DiskType, ClockInv
<1>7. PassType' /\ PassInv'
  <2> DEFINE u == [t EXCEPT !.todo = @ \ {s}, !.gone = @ \cup {s}]
              v == [t EXCEPT !.todo = @ \ {s}, !.failed = TRUE]
  <2>1. u \in Passes /\ u.kind = t.kind /\ u.cam = t.cam /\ u.pc = t.pc
    BY <1>3, PassFacts DEF Passes
  <2>2. v \in Passes /\ v.kind = t.kind /\ v.cam = t.cam /\ v.pc = t.pc
    BY <1>3, PassFacts DEF Passes
  <2>3. StepPass(t, u) \/ StepPass(t, v)
    BY <1>2
  <2> HIDE DEF u, v
  <2> QED BY <2>1, <2>2, <2>3, PassFacts, StepPassKeeps
<1> QED BY <1>1, <1>2, <1>3, <1>4, <1>5, <1>6, <1>7 DEF TypeInv, TypeOK

\* The type invariant survives when DeleteBatch commits or fails.
LEMMA DeleteRowsType ==
    ASSUME TypeInv, NEW t \in purges, DeleteRows(t)
    PROVE  TypeInv'
<1>1. ClockType' /\ RecorderType' /\ QueueType' /\ ScanType' /\ HistoryType' /\ ClockInv'
  BY DEF DeleteRows, TypeInv, TypeOK, ClockType, RecorderType, QueueType, ScanType,
     HistoryType, ClockInv, memory, history, budgets, Cam, Start
<1>2. DiskType'
  BY DEF DeleteRows, TypeInv, TypeOK, DiskType
<1>3. BudgetType'
  <2>1. failures' = failures \/ (MayFail /\ Fail)
    BY DEF DeleteRows
  <2> QED BY <2>1, FailureBudget DEF DeleteRows, TypeInv, TypeOK, BudgetType
<1>4. PassType' /\ PassInv'
  <2> DEFINE u == [t EXCEPT !.pc = "next", !.gone = {}]
  <2>1. u \in Passes /\ u.kind = t.kind /\ u.cam = t.cam /\ u.pc = "next"
    BY PassFacts DEF Passes, PurgeStates
  <2>2. EndPass(t) \/ StepPass(t, u)
    BY DEF DeleteRows
  <2> HIDE DEF u
  <2> QED BY <2>1, <2>2, StepPassKeeps, EndPassKeeps
<1> QED BY <1>1, <1>2, <1>3, <1>4 DEF TypeInv, TypeOK

\* The type invariant survives when the second pass of PurgeCamera removes a file or
\* fails to.
LEMMA UnlinkOrphanType ==
    ASSUME TypeInv, NEW t \in purges, UnlinkOrphan(t)
    PROVE  TypeInv'
<1>1. ClockType' /\ RecorderType' /\ QueueType' /\ ScanType' /\ HistoryType'
  BY DEF UnlinkOrphan, TypeInv, TypeOK, ClockType, RecorderType, QueueType, ScanType,
     HistoryType, memory, history, budgets
<1>2. PICK s \in t.list :
          \/ /\ file' = [file EXCEPT ![s] = Absent] /\ UNCHANGED failures
             /\ StepPass(t, [t EXCEPT !.list = @ \ {s}])
          \/ /\ MayFail /\ Fail /\ UNCHANGED file
             /\ StepPass(t, [t EXCEPT !.list = @ \ {s}, !.failed = TRUE])
  BY DEF UnlinkOrphan
<1>3. s \in Segs
  BY PassFacts
<1>4. DiskType'
  BY <1>2 DEF UnlinkOrphan, TypeInv, TypeOK, DiskType
<1>5. BudgetType'
  BY <1>2, FailureBudget DEF UnlinkOrphan, TypeInv, TypeOK, BudgetType
<1>6. ClockInv'
  BY <1>2, <1>3 DEF UnlinkOrphan, TypeInv, TypeOK, DiskType, ClockInv
<1>7. PassType' /\ PassInv'
  <2> DEFINE u == [t EXCEPT !.list = @ \ {s}]
              v == [t EXCEPT !.list = @ \ {s}, !.failed = TRUE]
  <2>1. u \in Passes /\ u.kind = t.kind /\ u.cam = t.cam /\ u.pc = t.pc
    BY <1>3, PassFacts DEF Passes
  <2>2. v \in Passes /\ v.kind = t.kind /\ v.cam = t.cam /\ v.pc = t.pc
    BY <1>3, PassFacts DEF Passes
  <2>3. StepPass(t, u) \/ StepPass(t, v)
    BY <1>2
  <2> HIDE DEF u, v
  <2> QED BY <2>1, <2>2, <2>3, PassFacts, StepPassKeeps
<1> QED BY <1>1, <1>2, <1>3, <1>4, <1>5, <1>6, <1>7 DEF TypeInv, TypeOK

\* The type invariant survives when PurgeCamera ends.
LEMMA EndCameraPurgeType ==
    ASSUME TypeInv, NEW t \in purges, EndCameraPurge(t)
    PROVE  TypeInv'
<1>1. ClockType' /\ DiskType' /\ RecorderType' /\ QueueType' /\ ScanType' /\ BudgetType'
        /\ ClockInv'
  BY DEF EndCameraPurge, TypeInv, TypeOK, ClockType, DiskType, RecorderType, QueueType,
     ScanType, BudgetType, ClockInv, memory, history, budgets, Cam, Start
<1>2. PassType' /\ PassInv'
  BY EndPassKeeps DEF EndCameraPurge
<1>3. HistoryType'
  BY PassFacts DEF EndCameraPurge, TypeInv, TypeOK, HistoryType, Passes
<1> QED BY <1>1, <1>2, <1>3 DEF TypeInv, TypeOK

\* The type invariant survives when Close cancels the context.
LEMMA BeginCloseType ==
    ASSUME TypeInv, BeginClose
    PROVE  TypeInv'
<1>1. DiskType' /\ RecorderType' /\ QueueType' /\ ScanType' /\ PassType' /\ HistoryType'
        /\ ClockInv' /\ PassInv'
  BY DEF BeginClose, TypeInv, TypeOK, DiskType, RecorderType, QueueType, ScanType,
     PassType, HistoryType, ClockInv, PassInv, memory, history, budgets, Cam, Start
<1>2. ClockType'
  BY DEF BeginClose, TypeInv, TypeOK, ClockType
<1>3. BudgetType'
  BY SizesAssumption DEF BeginClose, TypeInv, TypeOK, BudgetType
<1> QED BY <1>1, <1>2, <1>3 DEF TypeInv, TypeOK

\* The type invariant survives when Close returns.
LEMMA FinishCloseType ==
    ASSUME TypeInv, FinishClose
    PROVE  TypeInv'
<1>1. DiskType' /\ ScanType' /\ PassType' /\ BudgetType' /\ HistoryType' /\ ClockInv' /\
        PassInv'
  BY DEF FinishClose, TypeInv, TypeOK, DiskType, ScanType, PassType, BudgetType,
     HistoryType, ClockInv, PassInv, memory, history, budgets, Cam, Start
<1>2. ClockType'
  BY DEF FinishClose, TypeInv, TypeOK, ClockType
<1>3. RecorderType'
  BY DEF FinishClose, TypeInv, TypeOK, RecorderType
<1>4. QueueType'
  BY DEF FinishClose, QueueType
<1> QED BY <1>1, <1>2, <1>3, <1>4 DEF TypeInv, TypeOK

\* The type invariant survives when the process dies.
LEMMA CrashType ==
    ASSUME TypeInv, Crash
    PROVE  TypeInv'
<1>1. ClockType' /\ RecorderType' /\ QueueType' /\ ScanType' /\ PassType' /\ PassInv'
  BY DEF Crash, TypeInv, TypeOK, ClockType, RecorderType, QueueType, ScanType, PassType, PassInv
<1>2. BudgetType'
  BY SizesAssumption DEF Crash, TypeInv, TypeOK, BudgetType
<1>3. HistoryType'
  BY DEF Crash, Playable, TypeInv, TypeOK, HistoryType
<1>4. PICK P \in SUBSET {s \in Open : ~opened[Cam(s)]} :
          /\ file' = [s \in Segs |-> IF s \in P THEN 0 ELSE file[s]]
          /\ mtime' = [s \in Segs |-> IF s \in P THEN now ELSE mtime[s]]
  BY DEF Crash
<1>5. DiskType'
  BY <1>4, InstantFacts DEF Crash, TypeInv, TypeOK, ClockType, DiskType
<1>6. ClockInv'
  <2>1. ClockInv /\ now' = now /\ now \in Instants /\ mtime \in [Segs -> Instants]
    BY DEF Crash, TypeInv, TypeOK, ClockType, DiskType
  <2>2. \A s \in P : s \in Segs /\ Cam(s) \in Cameras /\ Start(s) = cur[Cam(s)] /\ Start(s) \in Instants
    BY SegmentParts DEF Open
  <2>3. \A s \in P : Start(s) < now
    BY <2>1, <2>2, InstantFacts DEF ClockInv
  <2>4. \A s \in Segs : mtime'[s] <= now'
    BY <1>4, <2>1, InstantFacts DEF ClockInv
  <2>5. \A s \in Segs : file'[s] # Absent => Start(s) <= mtime'[s]
    <3> SUFFICES ASSUME NEW s \in Segs, file'[s] # Absent PROVE Start(s) <= mtime'[s]
      OBVIOUS
    <3>1. CASE s \in P
      <4>1. mtime'[s] = now /\ Start(s) < now /\ Start(s) \in Int /\ now \in Int
        BY <1>4, <2>1, <2>2, <2>3, <3>1, InstantFacts
      <4> QED BY <4>1
    <3>2. CASE s \notin P
      BY <1>4, <2>1, <3>2 DEF ClockInv
    <3> QED BY <3>1, <3>2
  <2> QED BY <2>4, <2>5 DEF Crash, ClockInv
<1> QED BY <1>1, <1>2, <1>3, <1>4, <1>5, <1>6 DEF TypeInv, TypeOK

\* The type invariant survives when the server starts again.
LEMMA RestartType ==
    ASSUME TypeInv, Restart
    PROVE  TypeInv'
<1>1. RecorderType' /\ QueueType' /\ ScanType' /\ PassType' /\ BudgetType' /\
        HistoryType' /\ ClockInv' /\ PassInv'
  BY DEF Restart, TypeInv, TypeOK, RecorderType, QueueType, ScanType, PassType,
     BudgetType, HistoryType, ClockInv, PassInv, memory, history, budgets, Cam, Start
<1>2. ClockType'
  BY DEF Restart, TypeInv, TypeOK, ClockType
<1>3. DiskType'
  BY DEF Restart, TypeInv, TypeOK, DiskType
<1> QED BY <1>1, <1>2, <1>3 DEF TypeInv, TypeOK

\* The type invariant survives when the index file is lost.
LEMMA LoseIndexType ==
    ASSUME TypeInv, LoseIndex
    PROVE  TypeInv'
<1>1. ClockType' /\ RecorderType' /\ QueueType' /\ ScanType' /\ PassType' /\ HistoryType'
        /\ ClockInv' /\ PassInv'
  BY DEF LoseIndex, TypeInv, TypeOK, ClockType, RecorderType, QueueType, ScanType,
     PassType, HistoryType, ClockInv, PassInv, memory, history, budgets, Cam, Start
<1>2. DiskType'
  BY DEF LoseIndex, TypeInv, TypeOK, DiskType
<1>3. BudgetType'
  BY SizesAssumption DEF LoseIndex, TypeInv, TypeOK, BudgetType
<1> QED BY <1>1, <1>2, <1>3 DEF TypeInv, TypeOK

\* A stuttering step changes nothing.
LEMMA StutterType == ASSUME TypeInv, UNCHANGED vars PROVE TypeInv'
BY DEF TypeInv, TypeOK, ClockType, DiskType, RecorderType, QueueType, ScanType, PassType,
   BudgetType, HistoryType, ClockInv, PassInv, vars, memory, history, budgets, Cam, Start

\* Every step of the system preserves the type invariant.
LEMMA NextType == ASSUME TypeInv, [Next]_vars PROVE TypeInv'
<1>1. CASE Tick
  BY <1>1, TickType
<1>2. CASE Indexer
  BY <1>2, IndexerTakeType, IndexerInsertType, IndexerGiveUpType, IndexerBarrierType
     DEF Indexer
<1>3. CASE Process
  BY <1>3, BootDoneType, BeginCloseType, FinishCloseType, CrashType, RestartType,
     LoseIndexType DEF Process
<1>4. ASSUME NEW c \in Cameras, Recorder(c) PROVE TypeInv'
  BY <1>4, OpenSegmentType, WritePartType, CloseSegmentType DEF Recorder
<1>5. ASSUME NEW c \in Cameras, Operator(c) PROVE TypeInv'
  BY <1>5, BootCameraType, EnableCameraType, DisableCameraType, DeleteCameraType
     DEF Operator
<1>6. ASSUME NEW t \in scans, Reindex(t) PROVE TypeInv'
  BY <1>6, ReindexRangeType, ReindexProbeType, ReindexInsertType, ReindexDoneType
     DEF Reindex
<1>7. ASSUME NEW t \in purges, PurgeStep(t) PROVE TypeInv'
  BY <1>7, StartCameraPurgeType, FlushIndexType, QueryCameraType, NextBatchType,
     UnlinkType, DeleteRowsType, UnlinkOrphanType, EndCameraPurgeType DEF PurgeStep
<1>8. ASSUME NEW k \in {"clean", "sweep"}, StartRetention(k) PROVE TypeInv'
  BY <1>8, StartRetentionType
<1>9. CASE StartFree
  BY <1>9, StartFreeType
<1>10. CASE UNCHANGED vars
  BY <1>10, StutterType
<1> QED BY <1>1, <1>2, <1>3, <1>4, <1>5, <1>6, <1>7, <1>8, <1>9, <1>10 DEF Next

\* The type invariant of the segment store.
THEOREM TypeCorrect == Spec => []TypeOK
<1>1. Init => TypeInv
  BY InitType
<1>2. TypeInv /\ [Next]_vars => TypeInv'
  BY NextType
<1>3. TypeInv => TypeOK
  BY DEF TypeInv
<1> QED BY <1>1, <1>2, <1>3, PTL DEF Spec

-----------------------------------------------------------------------------
(* The purge of a deleted camera spares the camera re-created with its id.  *)

\* A step that starts no purge, engages no camera and opens no segment keeps
\* what each running purge knows.
LEMMA PassSparesKept ==
    ASSUME TypeInv, TypeInv', NEW t \in purges, t.kind = "camera", PassSpares(t), now <= now',
           engaged' \subseteq engaged, \A c \in Cameras : cur'[c] \in {cur[c], Absent}
    PROVE  PassSpares(t)'
<1>1. t.cam \in Cameras /\ t.cutoff \in Int /\ now \in Int /\ now' \in Int
  BY PassFacts, InstantFacts DEF Passes, TypeInv, TypeOK, ClockType
<1> QED BY <1>1 DEF PassSpares, Start, Cam

\* Such a step preserves the whole invariant when purges only end.
LEMMA QuietStep ==
    ASSUME TypeInv, TypeInv', SpareInv, purges' \subseteq purges, now <= now', IdleInv',
           engaged' \subseteq engaged, \A c \in Cameras : cur'[c] \in {cur[c], Absent}
    PROVE  SpareInv'
<1>1. \A t \in purges : t.kind = "camera" => PassSpares(t)'
  BY PassSparesKept DEF SpareInv
<1> QED BY <1>1 DEF SpareInv

\* A pass moved to its next state keeps the invariant if the next state does.
LEMMA PassStep ==
    ASSUME TypeInv, TypeInv', SpareInv, NEW t \in purges, NEW u, StepPass(t, u), now <= now',
           UNCHANGED <<phase, engaged, cur>>, u.kind = "camera" => PassSpares(u)'
    PROVE  SpareInv'
<1>1. \A p \in purges : p.kind = "camera" => PassSpares(p)'
  BY PassSparesKept DEF SpareInv
<1>2. IdleInv'
  BY DEF StepPass, SpareInv, IdleInv
<1> QED BY <1>1, <1>2 DEF SpareInv, StepPass

\* The clock is a number, and time does not run backwards.
LEMMA ClockNumber == ASSUME TypeInv PROVE now \in Int /\ now <= now /\ now <= now + 1
BY InstantFacts DEF TypeInv, TypeOK, ClockType

\* What the purges know survives when the clock advances.
LEMMA TickSpares ==
    ASSUME TypeInv, TypeInv', SpareInv, Tick
    PROVE  SpareInv'
<1>1. purges' \subseteq purges /\ now <= now' /\ engaged' \subseteq engaged /\ IdleInv'
  BY ClockNumber DEF Tick, SpareInv, IdleInv, memory
<1>2. \A c \in Cameras : cur'[c] \in {cur[c], Absent}
  BY DEF Tick, memory, TypeInv, TypeOK, RecorderType
<1> QED BY <1>1, <1>2, QuietStep

\* What the purges know survives when the recorder starts a segment (newSegment): the
\* new segment starts now, and every cutoff was read before.
LEMMA OpenSegmentSpares ==
    ASSUME TypeInv, TypeInv', SpareInv, NEW c \in Cameras, OpenSegment(c)
    PROVE  SpareInv'
<1>1. /\ now' = now + 1 /\ UNCHANGED <<phase, engaged, purges>> /\ c \in engaged
      /\ cur' = [cur EXCEPT ![c] = now]
  BY DEF OpenSegment
<1>2. SUFFICES ASSUME NEW t \in purges, t.kind = "camera" PROVE PassSpares(t)'
  BY <1>1 DEF SpareInv, IdleInv
<1>3. PassSpares(t) /\ t.cam \in Cameras /\ t.cutoff \in Int /\ now \in Int
  BY <1>2, PassFacts, ClockNumber, InstantFacts DEF SpareInv, Passes
<1>4. cur \in [Cameras -> Instants \cup {Absent}]
  BY DEF TypeInv, TypeOK, RecorderType
<1> QED BY <1>1, <1>3, <1>4 DEF PassSpares, Start, Cam

\* What the purges know survives when a part reaches the file (closeCurPart).
LEMMA WritePartSpares ==
    ASSUME TypeInv, TypeInv', SpareInv, NEW c \in Cameras, WritePart(c)
    PROVE  SpareInv'
<1>1. purges' \subseteq purges /\ now <= now' /\ engaged' \subseteq engaged /\ IdleInv'
  BY ClockNumber DEF WritePart, SpareInv, IdleInv, memory
<1>2. \A d \in Cameras : cur'[d] \in {cur[d], Absent}
  BY DEF WritePart, memory, TypeInv, TypeOK, RecorderType
<1> QED BY <1>1, <1>2, QuietStep

\* What the purges know survives when a segment ends (segment.close).
LEMMA CloseSegmentSpares ==
    ASSUME TypeInv, TypeInv', SpareInv, NEW c \in Cameras, CloseSegment(c)
    PROVE  SpareInv'
<1>1. purges' \subseteq purges /\ now <= now' /\ engaged' \subseteq engaged /\ IdleInv'
  BY ClockNumber DEF CloseSegment, SpareInv, IdleInv, memory, Finalize
<1>2. \A d \in Cameras : cur'[d] \in {cur[d], Absent}
  BY DEF CloseSegment, memory, TypeInv, TypeOK, RecorderType, Finalize
<1> QED BY <1>1, <1>2, QuietStep

\* What the purges know survives when runIndexer receives an item.
LEMMA IndexerTakeSpares ==
    ASSUME TypeInv, TypeInv', SpareInv, IndexerTake
    PROVE  SpareInv'
<1>1. purges' \subseteq purges /\ now <= now' /\ engaged' \subseteq engaged /\ IdleInv'
  BY ClockNumber DEF IndexerTake, SpareInv, IdleInv, memory
<1>2. \A c \in Cameras : cur'[c] \in {cur[c], Absent}
  BY DEF IndexerTake, memory, TypeInv, TypeOK, RecorderType
<1> QED BY <1>1, <1>2, QuietStep

\* What the purges know survives when runIndexer inserts a row.
LEMMA IndexerInsertSpares ==
    ASSUME TypeInv, TypeInv', SpareInv, IndexerInsert
    PROVE  SpareInv'
<1>1. purges' \subseteq purges /\ now <= now' /\ engaged' \subseteq engaged /\ IdleInv'
  BY ClockNumber DEF IndexerInsert, SpareInv, IdleInv, memory
<1>2. \A c \in Cameras : cur'[c] \in {cur[c], Absent}
  BY DEF IndexerInsert, memory, TypeInv, TypeOK, RecorderType
<1> QED BY <1>1, <1>2, QuietStep

\* What the purges know survives when insertWithRetry gives a row up.
LEMMA IndexerGiveUpSpares ==
    ASSUME TypeInv, TypeInv', SpareInv, IndexerGiveUp
    PROVE  SpareInv'
<1>1. purges' \subseteq purges /\ now <= now' /\ engaged' \subseteq engaged /\ IdleInv'
  BY ClockNumber DEF IndexerGiveUp, SpareInv, IdleInv, memory
<1>2. \A c \in Cameras : cur'[c] \in {cur[c], Absent}
  BY DEF IndexerGiveUp, memory, TypeInv, TypeOK, RecorderType
<1> QED BY <1>1, <1>2, QuietStep

\* What the purges know survives when runIndexer releases a flush.
LEMMA IndexerBarrierSpares ==
    ASSUME TypeInv, TypeInv', SpareInv, IndexerBarrier
    PROVE  SpareInv'
<1>1. UNCHANGED <<now, phase, engaged, cur>>
  BY DEF IndexerBarrier
<1>2. \A t \in purges : t.kind = "camera" => PassSpares(t)'
  BY <1>1 DEF SpareInv, PassSpares, Start, Cam
<1>3. \A u \in purges' : \/ u \in purges
                          \/ \E t \in purges : /\ t.pc = "barrier" /\ t \in Passes
                                                /\ u = [t EXCEPT !.pc = "query"]
  BY DEF IndexerBarrier, TypeInv, TypeOK, PassType
<1>4. ASSUME NEW t \in purges, t.pc = "barrier", t \in Passes, t.kind = "camera"
      PROVE  PassSpares([t EXCEPT !.pc = "query"])'
  <2> DEFINE u == [t EXCEPT !.pc = "query"]
  <2>1. /\ u.pc = "query" /\ u.cam = t.cam /\ u.cutoff = t.cutoff /\ u.list = t.list
        /\ u.todo = t.todo /\ u.gone = t.gone
    BY <1>4 DEF Passes
  <2>2. PassSpares(t)'
    BY <1>2, <1>4
  <2> HIDE DEF u
  <2>3. PassSpares(u)'
    BY <1>4, <2>1, <2>2 DEF PassSpares
  <2> QED BY <2>3 DEF u
<1>5. ASSUME NEW t \in Passes PROVE [t EXCEPT !.pc = "query"].kind = t.kind
  BY DEF Passes
<1>6. ASSUME NEW u \in purges', u.kind = "camera" PROVE PassSpares(u)'
  <2>1. CASE u \in purges
    BY <1>2, <1>6, <2>1
  <2>2. CASE u \notin purges
    <3>1. PICK t \in purges : /\ t.pc = "barrier" /\ t \in Passes
                             /\ u = [t EXCEPT !.pc = "query"]
      BY <1>3, <2>2
    <3>2. t.kind = "camera"
      BY <1>5, <1>6, <3>1
    <3>3. PassSpares([t EXCEPT !.pc = "query"])'
      BY <1>4, <3>1, <3>2
    <3> QED BY <3>1, <3>3
  <2> QED BY <2>1, <2>2
<1>7. IdleInv'
  BY <1>1 DEF IndexerBarrier, SpareInv, IdleInv
<1> QED BY <1>6, <1>7 DEF SpareInv

\* What the purges know survives when Start engages a camera: no purge runs before
\* Start returns.
LEMMA BootCameraSpares ==
    ASSUME TypeInv, TypeInv', SpareInv, NEW c \in Cameras, BootCamera(c)
    PROVE  SpareInv'
<1>1. purges = {} /\ purges' = purges
  BY DEF BootCamera, Engage, SpareInv, IdleInv
<1> QED BY <1>1 DEF SpareInv, IdleInv

\* What the purges know survives when Start returns.
LEMMA BootDoneSpares ==
    ASSUME TypeInv, TypeInv', SpareInv, BootDone
    PROVE  SpareInv'
<1>1. purges' \subseteq purges /\ now <= now' /\ engaged' \subseteq engaged /\ IdleInv'
  BY ClockNumber DEF BootDone, SpareInv, IdleInv, memory
<1>2. \A c \in Cameras : cur'[c] \in {cur[c], Absent}
  BY DEF BootDone, memory, TypeInv, TypeOK, RecorderType
<1> QED BY <1>1, <1>2, QuietStep

\* What the purges know survives when a camera is created or enabled: camMutateMu
\* excludes a purge that has not read its cutoff.
LEMMA EnableCameraSpares ==
    ASSUME TypeInv, TypeInv', SpareInv, NEW c \in Cameras, EnableCamera(c)
    PROVE  SpareInv'
<1>1. UNCHANGED <<now, phase, purges, cur>> /\ \A t \in purges : t.pc # "removed"
  BY DEF EnableCamera, Engage, MutateFree
<1>2. \A t \in purges : t.kind = "camera" => PassSpares(t)'
  BY <1>1 DEF SpareInv, PassSpares, Start, Cam
<1> QED BY <1>1, <1>2 DEF SpareInv, IdleInv

\* What the purges know survives when a camera is disabled (RemoveCamera).
LEMMA DisableCameraSpares ==
    ASSUME TypeInv, TypeInv', SpareInv, NEW c \in Cameras, DisableCamera(c)
    PROVE  SpareInv'
<1>1. purges' \subseteq purges /\ now <= now' /\ engaged' \subseteq engaged /\ IdleInv'
  BY ClockNumber DEF DisableCamera, SpareInv, IdleInv, memory, Detach, Finalize
<1>2. \A d \in Cameras : cur'[d] \in {cur[d], Absent}
  BY DEF DisableCamera, memory, TypeInv, TypeOK, RecorderType, Detach, Finalize
<1> QED BY <1>1, <1>2, QuietStep

\* What the purges know survives when a camera is deleted (RemoveCamera): the new
\* purge holds nothing and its camera is detached.
LEMMA DeleteCameraSpares ==
    ASSUME TypeInv, TypeInv', SpareInv, NEW c \in Cameras, DeleteCamera(c)
    PROVE  SpareInv'
<1> DEFINE u == Pass("camera", c, 0, "removed", {})
<1>1. /\ UNCHANGED <<now, phase>> /\ engaged' = engaged \ {c} /\ phase = "up"
      /\ purges' = purges \cup {u}
  BY DEF DeleteCamera, Detach
<1>2. cur'[c] = Absent /\ \A d \in Cameras : cur'[d] \in {cur[d], Absent}
  BY DEF DeleteCamera, Detach, Finalize, TypeInv, TypeOK, RecorderType
<1>3. \A t \in purges : t.kind = "camera" => PassSpares(t)'
  BY <1>1, <1>2, PassSparesKept, ClockNumber DEF SpareInv
<1>4. PassSpares(u)'
  BY <1>1, <1>2 DEF PassSpares, Pass
<1> HIDE DEF u
<1> QED BY <1>1, <1>3, <1>4 DEF SpareInv, IdleInv

\* What the purges know survives when Reindex reads the rows it knows.
LEMMA ReindexRangeSpares ==
    ASSUME TypeInv, TypeInv', SpareInv, NEW t \in scans, ReindexRange(t)
    PROVE  SpareInv'
<1>1. purges' \subseteq purges /\ now <= now' /\ engaged' \subseteq engaged /\ IdleInv'
  BY ClockNumber DEF ReindexRange, SpareInv, IdleInv, memory
<1>2. \A c \in Cameras : cur'[c] \in {cur[c], Absent}
  BY DEF ReindexRange, memory, TypeInv, TypeOK, RecorderType
<1> QED BY <1>1, <1>2, QuietStep

\* What the purges know survives when Reindex probes a file.
LEMMA ReindexProbeSpares ==
    ASSUME TypeInv, TypeInv', SpareInv, NEW t \in scans, ReindexProbe(t)
    PROVE  SpareInv'
<1>1. purges' \subseteq purges /\ now <= now' /\ engaged' \subseteq engaged /\ IdleInv'
  BY ClockNumber DEF ReindexProbe, SpareInv, IdleInv, memory
<1>2. \A c \in Cameras : cur'[c] \in {cur[c], Absent}
  BY DEF ReindexProbe, memory, TypeInv, TypeOK, RecorderType
<1> QED BY <1>1, <1>2, QuietStep

\* What the purges know survives when Reindex inserts a row.
LEMMA ReindexInsertSpares ==
    ASSUME TypeInv, TypeInv', SpareInv, NEW t \in scans, ReindexInsert(t)
    PROVE  SpareInv'
<1>1. purges' \subseteq purges /\ now <= now' /\ engaged' \subseteq engaged /\ IdleInv'
  BY ClockNumber DEF ReindexInsert, SpareInv, IdleInv, memory
<1>2. \A c \in Cameras : cur'[c] \in {cur[c], Absent}
  BY DEF ReindexInsert, memory, TypeInv, TypeOK, RecorderType
<1> QED BY <1>1, <1>2, QuietStep

\* What the purges know survives when Reindex ends.
LEMMA ReindexDoneSpares ==
    ASSUME TypeInv, TypeInv', SpareInv, NEW t \in scans, ReindexDone(t)
    PROVE  SpareInv'
<1>1. purges' \subseteq purges /\ now <= now' /\ engaged' \subseteq engaged /\ IdleInv'
  BY ClockNumber DEF ReindexDone, SpareInv, IdleInv, memory
<1>2. \A c \in Cameras : cur'[c] \in {cur[c], Absent}
  BY DEF ReindexDone, memory, TypeInv, TypeOK, RecorderType
<1> QED BY <1>1, <1>2, QuietStep

\* What the purges know survives when clean or the sweep starts: the new pass is no
\* camera purge.
LEMMA StartRetentionSpares ==
    ASSUME TypeInv, TypeInv', SpareInv, NEW k \in {"clean", "sweep"}, StartRetention(k)
    PROVE  SpareInv'
<1>1. UNCHANGED <<now, phase, engaged, cur>> /\ phase = "up"
  BY DEF StartRetention
<1>2. PICK L : purges' = purges \cup {Pass(k, NoCamera, now - Retain, "next", L)}
  BY DEF StartRetention
<1>3. Pass(k, NoCamera, now - Retain, "next", L).kind # "camera"
  BY DEF Pass
<1>4. \A t \in purges : t.kind = "camera" => PassSpares(t)'
  BY <1>1 DEF SpareInv, PassSpares, Start, Cam
<1> QED BY <1>1, <1>2, <1>3, <1>4 DEF SpareInv, IdleInv

\* What the purges know survives when an emergency purge starts: the new pass is no
\* camera purge.
LEMMA StartFreeSpares ==
    ASSUME TypeInv, TypeInv', SpareInv, StartFree
    PROVE  SpareInv'
<1>1. UNCHANGED <<now, phase, engaged, cur>> /\ phase = "up"
  BY DEF StartFree
<1>2. purges' = purges \cup {Pass("free", NoCamera, 0, "next", {})}
  BY DEF StartFree
<1>3. Pass("free", NoCamera, 0, "next", {}).kind # "camera"
  BY DEF Pass
<1>4. \A t \in purges : t.kind = "camera" => PassSpares(t)'
  BY <1>1 DEF SpareInv, PassSpares, Start, Cam
<1> QED BY <1>1, <1>2, <1>3, <1>4 DEF SpareInv, IdleInv

\* What the purges know survives when PurgeCameraRecordings reads its cutoff: its
\* camera is detached, so nothing is open.
LEMMA StartCameraPurgeSpares ==
    ASSUME TypeInv, TypeInv', SpareInv, NEW t \in purges, StartCameraPurge(t)
    PROVE  SpareInv'
<1>1. t.kind = "camera" /\ t \in Passes /\ PassSpares(t)
  BY PassFacts DEF StartCameraPurge, SpareInv
<1>2. PICK u : u = [t EXCEPT !.cutoff = now + 1, !.pc = "flush"]
  OBVIOUS
<1>3. StepPass(t, u) /\ now' = now + 1 /\ t.pc = "removed" /\ UNCHANGED <<phase, engaged, cur>>
  BY <1>2 DEF StartCameraPurge
<1>4. /\ u.pc = "flush" /\ u.cam = t.cam /\ u.cutoff = now + 1 /\ u.list = t.list
      /\ u.todo = t.todo /\ u.gone = t.gone
  BY <1>1, <1>2 DEF Passes
<1>5. PassSpares(u)'
  BY <1>1, <1>3, <1>4, ClockNumber DEF PassSpares
<1> QED BY <1>3, <1>5, ClockNumber, PassStep

\* What the purges know survives when flushIndex sends its barrier or gives up.
LEMMA FlushIndexSpares ==
    ASSUME TypeInv, TypeInv', SpareInv, NEW t \in purges, FlushIndex(t)
    PROVE  SpareInv'
<1>1. t.kind = "camera" /\ t \in Passes /\ PassSpares(t) /\ t.pc # "removed"
  BY PassFacts DEF FlushIndex, SpareInv
<1>2. PICK p \in {"barrier", "query"} : StepPass(t, [t EXCEPT !.pc = p])
  BY DEF FlushIndex
<1> DEFINE u == [t EXCEPT !.pc = p]
<1>3. /\ u.pc # "removed" /\ u.cam = t.cam /\ u.cutoff = t.cutoff /\ u.list = t.list
      /\ u.todo = t.todo /\ u.gone = t.gone /\ StepPass(t, u)
  BY <1>1, <1>2 DEF Passes
<1>4. UNCHANGED <<now, phase, engaged, cur>>
  BY DEF FlushIndex
<1> HIDE DEF u
<1>5. PassSpares(u)'
  BY <1>1, <1>3, <1>4 DEF PassSpares, Start, Cam
<1> QED BY <1>3, <1>4, <1>5, ClockNumber, PassStep

\* What the purges know survives when PurgeCamera queries its rows: the filter keeps
\* the rows before the cutoff.
LEMMA QueryCameraSpares ==
    ASSUME TypeInv, TypeInv', SpareInv, NEW t \in purges, QueryCamera(t)
    PROVE  SpareInv'
<1>1. t.kind = "camera" /\ t \in Passes /\ PassSpares(t) /\ t.pc # "removed"
  BY PassFacts DEF QueryCamera, SpareInv
<1>2. PICK u : u = [t EXCEPT !.pc = "next", !.list = CameraRows(t)]
  OBVIOUS
<1>3. /\ u.pc # "removed" /\ u.cam = t.cam /\ u.cutoff = t.cutoff /\ u.list = CameraRows(t)
      /\ u.todo = t.todo /\ u.gone = t.gone
  BY <1>1, <1>2 DEF Passes
<1>4. UNCHANGED <<now, phase, engaged, cur>> /\ StepPass(t, u)
  BY <1>2 DEF QueryCamera
<1>5. \A s \in u.list : Start(s) < t.cutoff /\ Cam(s) = t.cam
  BY <1>3 DEF CameraRows, Of
<1>6. PassSpares(u)'
  BY <1>1, <1>3, <1>4, <1>5 DEF PassSpares, Start, Cam
<1> QED BY <1>4, <1>6, ClockNumber, PassStep

\* What the purges know survives when a pass takes a batch, or ends: a batch comes
\* from the list, the orphan walk from files older than the cutoff.
LEMMA NextBatchSpares ==
    ASSUME TypeInv, TypeInv', SpareInv, NEW t \in purges, NextBatch(t)
    PROVE  SpareInv'
<1>1. t \in Passes /\ (t.kind = "camera" => PassSpares(t)) /\ t.pc = "next"
  BY PassFacts DEF NextBatch, SpareInv
<1>2. UNCHANGED <<now, phase, engaged, cur>>
  BY DEF NextBatch
<1>3. ASSUME NEW B \in Batches(Candidates(t)),
             StepPass(t, [t EXCEPT !.pc = "unlink", !.todo = B, !.list = @ \ B])
      PROVE  SpareInv'
  <2> DEFINE u == [t EXCEPT !.pc = "unlink", !.todo = B, !.list = @ \ B]
  <2>1. /\ u.kind = t.kind /\ u.pc # "removed" /\ u.cam = t.cam /\ u.cutoff = t.cutoff
        /\ u.list = t.list \ B /\ u.todo = B /\ u.gone = t.gone
    BY <1>1 DEF Passes
  <2>2. StepPass(t, u)
    BY <1>3
  <2>3. t.kind = "camera" => B \subseteq t.list
    BY BatchOfCandidates DEF Candidates
  <2> HIDE DEF u
  <2>4. u.kind = "camera" => PassSpares(u)'
    BY <1>1, <1>2, <2>1, <2>3 DEF PassSpares, Start, Cam
  <2> QED BY <1>2, <2>2, <2>4, ClockNumber, PassStep
<1>4. ASSUME t.kind = "camera",
             StepPass(t, [t EXCEPT !.pc = "orphans", !.list = Stale(t.cutoff) \cap Of(t.cam)])
      PROVE  SpareInv'
  <2>1. PICK u : u = [t EXCEPT !.pc = "orphans", !.list = Stale(t.cutoff) \cap Of(t.cam)]
    OBVIOUS
  <2>2. /\ u.pc # "removed" /\ u.cam = t.cam /\ u.cutoff = t.cutoff
        /\ u.list = Stale(t.cutoff) \cap Of(t.cam) /\ u.todo = t.todo /\ u.gone = t.gone
    BY <1>1, <2>1 DEF Passes
  <2>3. StepPass(t, u)
    BY <1>4, <2>1
  <2>4. ASSUME NEW s \in u.list PROVE Start(s) < t.cutoff /\ Cam(s) = t.cam
    <3>1. s \in Segs /\ file[s] # Absent /\ mtime[s] < t.cutoff /\ Cam(s) = t.cam
      BY <2>2 DEF Stale, Stored, Of
    <3>2. Start(s) <= mtime[s]
      BY <3>1 DEF TypeInv, ClockInv
    <3>3. Start(s) \in Int /\ mtime[s] \in Int /\ t.cutoff \in Int
      BY <1>1, <3>1, SegmentParts, InstantFacts DEF Passes, TypeInv, TypeOK, DiskType
    <3> QED BY <3>1, <3>2, <3>3
  <2>5. PassSpares(u)'
    BY <1>1, <1>2, <1>4, <2>2, <2>4 DEF PassSpares, Start, Cam
  <2> QED BY <1>2, <2>3, <2>5, ClockNumber, PassStep
<1>5. ASSUME EndPass(t) PROVE SpareInv'
  <2>1. purges' \subseteq purges /\ IdleInv'
    BY <1>2, <1>5 DEF EndPass, SpareInv, IdleInv
  <2> QED BY <1>2, <2>1, ClockNumber, QuietStep
<1> QED BY <1>3, <1>4, <1>5 DEF NextBatch

\* What the purges know survives when deleteFilesParallel removes a file or fails to.
LEMMA UnlinkSpares ==
    ASSUME TypeInv, TypeInv', SpareInv, NEW t \in purges, Unlink(t)
    PROVE  SpareInv'
<1>1. t \in Passes /\ (t.kind = "camera" => PassSpares(t)) /\ t.pc # "removed"
  BY PassFacts DEF Unlink, SpareInv
<1>2. UNCHANGED <<now, phase, engaged, cur>>
  BY DEF Unlink
<1>3. PICK s \in t.todo :
          \/ StepPass(t, [t EXCEPT !.todo = @ \ {s}, !.gone = @ \cup {s}])
          \/ StepPass(t, [t EXCEPT !.todo = @ \ {s}, !.failed = TRUE])
  BY DEF Unlink
<1>4. ASSUME NEW u, u.kind = t.kind, u.pc = t.pc, u.cam = t.cam, u.cutoff = t.cutoff,
             u.list \cup u.todo \cup u.gone \subseteq t.list \cup t.todo \cup t.gone,
             StepPass(t, u)
      PROVE  SpareInv'
  <2>1. u.kind = "camera" => PassSpares(u)'
    BY <1>1, <1>2, <1>4 DEF PassSpares, Start, Cam
  <2> QED BY <1>2, <1>4, <2>1, ClockNumber, PassStep
<1>5. CASE StepPass(t, [t EXCEPT !.todo = @ \ {s}, !.gone = @ \cup {s}])
  <2> DEFINE u == [t EXCEPT !.todo = @ \ {s}, !.gone = @ \cup {s}]
  <2>1. u.kind = t.kind /\ u.pc = t.pc /\ u.cam = t.cam /\ u.cutoff = t.cutoff
    BY <1>1 DEF Passes
  <2>2. u.list \cup u.todo \cup u.gone \subseteq t.list \cup t.todo \cup t.gone
    BY <1>1, <1>3 DEF Passes
  <2>3. StepPass(t, u)
    BY <1>5
  <2> HIDE DEF u
  <2> QED BY <1>4, <2>1, <2>2, <2>3
<1>6. CASE StepPass(t, [t EXCEPT !.todo = @ \ {s}, !.failed = TRUE])
  <2> DEFINE v == [t EXCEPT !.todo = @ \ {s}, !.failed = TRUE]
  <2>1. v.kind = t.kind /\ v.pc = t.pc /\ v.cam = t.cam /\ v.cutoff = t.cutoff
    BY <1>1 DEF Passes
  <2>2. v.list \cup v.todo \cup v.gone \subseteq t.list \cup t.todo \cup t.gone
    BY <1>1, <1>3 DEF Passes
  <2>3. StepPass(t, v)
    BY <1>6
  <2> HIDE DEF v
  <2> QED BY <1>4, <2>1, <2>2, <2>3
<1> QED BY <1>3, <1>5, <1>6

\* What the purges know survives when DeleteBatch commits or fails.
LEMMA DeleteRowsSpares ==
    ASSUME TypeInv, TypeInv', SpareInv, NEW t \in purges, DeleteRows(t)
    PROVE  SpareInv'
<1> DEFINE u == [t EXCEPT !.pc = "next", !.gone = {}]
<1>1. t \in Passes /\ (t.kind = "camera" => PassSpares(t)) /\ t.pc # "removed"
  BY PassFacts DEF DeleteRows, SpareInv
<1>2. UNCHANGED <<now, phase, engaged, cur>>
  BY DEF DeleteRows
<1>3. EndPass(t) \/ StepPass(t, u)
  BY DEF DeleteRows
<1>4. /\ u.kind = t.kind /\ u.pc # "removed" /\ u.cam = t.cam /\ u.cutoff = t.cutoff
      /\ u.list = t.list /\ u.todo = t.todo /\ u.gone = {}
  BY <1>1 DEF Passes
<1> HIDE DEF u
<1>5. u.kind = "camera" => PassSpares(u)'
  BY <1>1, <1>2, <1>4 DEF PassSpares, Start, Cam
<1>6. EndPass(t) => purges' \subseteq purges /\ IdleInv'
  BY <1>2 DEF EndPass, SpareInv, IdleInv
<1> QED BY <1>2, <1>3, <1>5, <1>6, ClockNumber, QuietStep, PassStep

\* What the purges know survives when the second pass of PurgeCamera removes a file or
\* fails to.
LEMMA UnlinkOrphanSpares ==
    ASSUME TypeInv, TypeInv', SpareInv, NEW t \in purges, UnlinkOrphan(t)
    PROVE  SpareInv'
<1>1. t \in Passes /\ (t.kind = "camera" => PassSpares(t)) /\ t.pc # "removed"
  BY PassFacts DEF UnlinkOrphan, SpareInv
<1>2. UNCHANGED <<now, phase, engaged, cur>>
  BY DEF UnlinkOrphan
<1>3. PICK s \in t.list :
          \/ StepPass(t, [t EXCEPT !.list = @ \ {s}])
          \/ StepPass(t, [t EXCEPT !.list = @ \ {s}, !.failed = TRUE])
  BY DEF UnlinkOrphan
<1>4. ASSUME NEW u, u.kind = t.kind, u.pc = t.pc, u.cam = t.cam, u.cutoff = t.cutoff,
             u.list \cup u.todo \cup u.gone \subseteq t.list \cup t.todo \cup t.gone,
             StepPass(t, u)
      PROVE  SpareInv'
  <2>1. u.kind = "camera" => PassSpares(u)'
    BY <1>1, <1>2, <1>4 DEF PassSpares, Start, Cam
  <2> QED BY <1>2, <1>4, <2>1, ClockNumber, PassStep
<1>5. CASE StepPass(t, [t EXCEPT !.list = @ \ {s}])
  <2> DEFINE u == [t EXCEPT !.list = @ \ {s}]
  <2>1. u.kind = t.kind /\ u.pc = t.pc /\ u.cam = t.cam /\ u.cutoff = t.cutoff
    BY <1>1 DEF Passes
  <2>2. u.list \cup u.todo \cup u.gone \subseteq t.list \cup t.todo \cup t.gone
    BY <1>1, <1>3 DEF Passes
  <2>3. StepPass(t, u)
    BY <1>5
  <2> HIDE DEF u
  <2> QED BY <1>4, <2>1, <2>2, <2>3
<1>6. CASE StepPass(t, [t EXCEPT !.list = @ \ {s}, !.failed = TRUE])
  <2> DEFINE v == [t EXCEPT !.list = @ \ {s}, !.failed = TRUE]
  <2>1. v.kind = t.kind /\ v.pc = t.pc /\ v.cam = t.cam /\ v.cutoff = t.cutoff
    BY <1>1 DEF Passes
  <2>2. v.list \cup v.todo \cup v.gone \subseteq t.list \cup t.todo \cup t.gone
    BY <1>1, <1>3 DEF Passes
  <2>3. StepPass(t, v)
    BY <1>6
  <2> HIDE DEF v
  <2> QED BY <1>4, <2>1, <2>2, <2>3
<1> QED BY <1>3, <1>5, <1>6

\* What the purges know survives when PurgeCamera ends.
LEMMA EndCameraPurgeSpares ==
    ASSUME TypeInv, TypeInv', SpareInv, NEW t \in purges, EndCameraPurge(t)
    PROVE  SpareInv'
<1>1. purges' \subseteq purges /\ now <= now' /\ engaged' \subseteq engaged /\ IdleInv'
  BY ClockNumber DEF EndCameraPurge, SpareInv, IdleInv, memory, EndPass
<1>2. \A c \in Cameras : cur'[c] \in {cur[c], Absent}
  BY DEF EndCameraPurge, memory, TypeInv, TypeOK, RecorderType, EndPass
<1> QED BY <1>1, <1>2, QuietStep

\* What the purges know survives when Close cancels the context.
LEMMA BeginCloseSpares ==
    ASSUME TypeInv, TypeInv', SpareInv, BeginClose
    PROVE  SpareInv'
<1>1. purges' \subseteq purges /\ now <= now' /\ engaged' \subseteq engaged /\ IdleInv'
  BY ClockNumber DEF BeginClose, SpareInv, IdleInv, memory
<1>2. \A c \in Cameras : cur'[c] \in {cur[c], Absent}
  BY DEF BeginClose, memory, TypeInv, TypeOK, RecorderType
<1> QED BY <1>1, <1>2, QuietStep

\* What the purges know survives when Close returns.
LEMMA FinishCloseSpares ==
    ASSUME TypeInv, TypeInv', SpareInv, FinishClose
    PROVE  SpareInv'
<1>1. purges' \subseteq purges /\ now <= now' /\ engaged' \subseteq engaged /\ IdleInv'
  BY ClockNumber DEF FinishClose, SpareInv, IdleInv, memory
<1>2. \A c \in Cameras : cur'[c] \in {cur[c], Absent}
  BY DEF FinishClose, memory, TypeInv, TypeOK, RecorderType
<1> QED BY <1>1, <1>2, QuietStep

\* What the purges know survives when the process dies.
LEMMA CrashSpares ==
    ASSUME TypeInv, TypeInv', SpareInv, Crash
    PROVE  SpareInv'
<1>1. purges' \subseteq purges /\ now <= now' /\ engaged' \subseteq engaged /\ IdleInv'
  BY ClockNumber DEF Crash, SpareInv, IdleInv, memory
<1>2. \A c \in Cameras : cur'[c] \in {cur[c], Absent}
  BY DEF Crash, memory, TypeInv, TypeOK, RecorderType
<1> QED BY <1>1, <1>2, QuietStep

\* What the purges know survives when the server starts again.
LEMMA RestartSpares ==
    ASSUME TypeInv, TypeInv', SpareInv, Restart
    PROVE  SpareInv'
<1>1. purges' \subseteq purges /\ now <= now' /\ engaged' \subseteq engaged /\ IdleInv'
  BY ClockNumber DEF Restart, SpareInv, IdleInv, memory
<1>2. \A c \in Cameras : cur'[c] \in {cur[c], Absent}
  BY DEF Restart, memory, TypeInv, TypeOK, RecorderType
<1> QED BY <1>1, <1>2, QuietStep

\* What the purges know survives when the index file is lost.
LEMMA LoseIndexSpares ==
    ASSUME TypeInv, TypeInv', SpareInv, LoseIndex
    PROVE  SpareInv'
<1>1. purges' \subseteq purges /\ now <= now' /\ engaged' \subseteq engaged /\ IdleInv'
  BY ClockNumber DEF LoseIndex, SpareInv, IdleInv, memory
<1>2. \A c \in Cameras : cur'[c] \in {cur[c], Absent}
  BY DEF LoseIndex, memory, TypeInv, TypeOK, RecorderType
<1> QED BY <1>1, <1>2, QuietStep

\* Every step of the system preserves what the purges know.
LEMMA NextSpares == ASSUME TypeInv, TypeInv', SpareInv, [Next]_vars PROVE SpareInv'
<1>1. CASE Tick
  BY <1>1, TickSpares
<1>2. CASE Indexer
  BY <1>2, IndexerTakeSpares, IndexerInsertSpares, IndexerGiveUpSpares, IndexerBarrierSpares
     DEF Indexer
<1>3. CASE Process
  BY <1>3, BootDoneSpares, BeginCloseSpares, FinishCloseSpares, CrashSpares, RestartSpares,
     LoseIndexSpares DEF Process
<1>4. ASSUME NEW c \in Cameras, Recorder(c) PROVE SpareInv'
  BY <1>4, OpenSegmentSpares, WritePartSpares, CloseSegmentSpares DEF Recorder
<1>5. ASSUME NEW c \in Cameras, Operator(c) PROVE SpareInv'
  BY <1>5, BootCameraSpares, EnableCameraSpares, DisableCameraSpares, DeleteCameraSpares
     DEF Operator
<1>6. ASSUME NEW t \in scans, Reindex(t) PROVE SpareInv'
  BY <1>6, ReindexRangeSpares, ReindexProbeSpares, ReindexInsertSpares, ReindexDoneSpares
     DEF Reindex
<1>7. ASSUME NEW t \in purges, PurgeStep(t) PROVE SpareInv'
  BY <1>7, StartCameraPurgeSpares, FlushIndexSpares, QueryCameraSpares, NextBatchSpares,
     UnlinkSpares, DeleteRowsSpares, UnlinkOrphanSpares, EndCameraPurgeSpares DEF PurgeStep
<1>8. ASSUME NEW k \in {"clean", "sweep"}, StartRetention(k) PROVE SpareInv'
  BY <1>8, StartRetentionSpares
<1>9. CASE StartFree
  BY <1>9, StartFreeSpares
<1>10. CASE UNCHANGED vars
  BY <1>10 DEF vars, memory, SpareInv, IdleInv, PassSpares, Start
<1> QED BY <1>1, <1>2, <1>3, <1>4, <1>5, <1>6, <1>7, <1>8, <1>9, <1>10 DEF Next

\* What the invariant is for: a segment a camera purge holds starts before its
\* cutoff, the open segment of its camera does not.
LEMMA SpareSuffices == TypeInv /\ SpareInv => PurgeSparesRecreated
<1> SUFFICES ASSUME TypeInv, SpareInv, NEW t \in purges, t.kind = "camera",
                    NEW s \in t.list \cup t.todo \cup t.gone
             PROVE  Start(s) < t.cutoff /\ s \notin Open
  BY DEF PurgeSparesRecreated
<1>1. PassSpares(t) /\ t.pc # "removed" /\ Start(s) < t.cutoff /\ Cam(s) = t.cam
  BY DEF SpareInv, PassSpares
<1>2. Start(s) \in Int /\ t.cutoff \in Int /\ Start(s) # Absent /\ s \in Segs
  BY PassFacts, SegmentParts, InstantFacts DEF Passes
<1>3. ASSUME s \in Open PROVE FALSE
  <2>1. cur[Cam(s)] = Start(s)
    BY <1>3 DEF Open
  <2> QED BY <1>1, <1>2, <2>1 DEF PassSpares
<1> QED BY <1>1, <1>3

\* The purge of a deleted camera spares the camera re-created with the same id,
\* whatever it records while the purge still runs.
THEOREM SparesRecreated == Spec => []PurgeSparesRecreated
<1>1. Init => TypeInv /\ SpareInv
  BY InitType DEF Init, SpareInv, IdleInv
<1>2. TypeInv /\ SpareInv /\ [Next]_vars => TypeInv' /\ SpareInv'
  BY NextType, NextSpares
<1>3. TypeInv /\ SpareInv => PurgeSparesRecreated
  BY SpareSuffices
<1> QED BY <1>1, <1>2, <1>3, PTL DEF Spec

-----------------------------------------------------------------------------
(* Footage and its rows: what is known of a segment, and that nothing is    *)
(* forgotten.                                                               *)

\* What a pass has chosen, and what Reindex has in its hands.
Held(t) == t.list \cup t.todo \cup t.gone
HeldSegs == UNION {Held(t) : t \in purges}
ProbedSegs == {t.seg : t \in {u \in scans : u.pc = "insert"}}

\* Every segment that anything but its recorder knows of started before now, and
\* is none that a recorder has begun and written nothing of.
Known == Stored \cup Indexed \cup Queued \cup ProbedSegs \cup HeldSegs
Fresh == {s \in Open : ~opened[Cam(s)]}
KnownInv == Known \cap Fresh = {} /\ \A s \in Known : Start(s) < now

\* What a pass has unlinked stays away as long as the pass holds it.
GoneInv == \A t \in purges : t.gone \cap Stored = {}

\* The indexer holds one item at a time.
HandInv == inflight = <<>> \/ Len(inflight) = 1

\* A process that is down has nothing in memory.
DownInv == phase = "down" => Open = {} /\ Pending = {} /\ scans = {} /\ purges = {}

\* Footage is accounted for until a crash or the loss of the index file.
Covered == Indexed \cup Open \cup Queued \cup dropped
CoverInv == crashes = 0 /\ losses = 0 => Playable \subseteq Covered

StoreInv == KnownInv /\ GoneInv /\ HandInv /\ DownInv /\ CoverInv

\* What a step may do without touching any of this: it learns of no segment that a
\* recorder has not written to or ended, and brings no file back.
LearnsNothing ==
    /\ now <= now' /\ Fresh' \subseteq Fresh
    /\ Stored' \subseteq Stored \cup (Fresh \ Fresh')
    /\ Indexed' \cup Queued' \cup ProbedSegs' \cup HeldSegs' \subseteq Known \cup (Open \ Fresh')
    /\ \A t \in purges' : \A s \in t.gone : s \in Stored' => \E u \in purges : s \in u.gone

LEMMA KnownSegs == ASSUME TypeInv PROVE Known \subseteq Segs
<1>1. Stored \cup Indexed \subseteq Segs
  BY DEF Stored, Indexed
<1>2. ProbedSegs \subseteq Segs
  BY ScanFacts DEF ProbedSegs
<1>3. HeldSegs \subseteq Segs
  BY PassFacts DEF HeldSegs, Held
<1>4. Queued \subseteq Segs
  <2>1. \A i \in Pending : i \in Items
    BY DEF Pending, TypeInv, TypeOK, QueueType
  <2> QED BY <2>1 DEF Queued, Items
<1> QED BY <1>1, <1>2, <1>3, <1>4 DEF Known

LEMMA LearningKeeps ==
    ASSUME TypeInv, TypeInv', KnownInv, GoneInv, LearnsNothing
    PROVE  KnownInv' /\ GoneInv'
<1>1. \A s \in Open : s \in Segs /\ Start(s) < now
  BY SegmentParts, InstantFacts DEF Open, TypeInv, ClockInv
<1>2. now \in Int /\ now' \in Int /\ Known \subseteq Segs
  BY KnownSegs, InstantFacts DEF TypeInv, TypeOK, ClockType
<1>3. Fresh \subseteq Open
  BY DEF Fresh
<1>4. Known' \subseteq Known \cup (Open \ Fresh')
  BY <1>3 DEF LearnsNothing, Known
<1>5. \A s \in Segs : Start(s) < now => Start(s) < now'
  <2>1. now <= now'
    BY DEF LearnsNothing
  <2>2. \A s \in Segs : Start(s) \in Int
    BY SegmentParts, InstantFacts
  <2> QED BY <1>2, <2>1, <2>2
<1>6. KnownInv'
  <2>1. \A s \in Known' : s \notin Fresh' /\ s \in Segs /\ Start(s) < now
    BY <1>1, <1>2, <1>4 DEF KnownInv, LearnsNothing
  <2> QED BY <1>5, <2>1 DEF KnownInv
<1>7. GoneInv'
  <2>1. \A u \in purges : u.gone \subseteq Known
    BY DEF Known, HeldSegs, Held
  <2>2. \A s \in Stored' : s \in Stored \/ s \in Fresh
    BY DEF LearnsNothing
  <2>3. \A u \in purges : u.gone \cap Stored' = {}
    BY <2>1, <2>2 DEF GoneInv, KnownInv
  <2> QED BY <2>3 DEF LearnsNothing, GoneInv
<1> QED BY <1>6, <1>7

\* What does not change when the variables it is made of do not.
LEMMA SameSets ==
    /\ file' = file => Stored' = Stored /\ Playable' = Playable
    /\ row' = row => Indexed' = Indexed
    /\ queue' = queue /\ inflight' = inflight => Pending' = Pending /\ Queued' = Queued
    /\ scans' = scans => ProbedSegs' = ProbedSegs
    /\ purges' = purges => HeldSegs' = HeldSegs
    /\ cur' = cur => Open' = Open
    /\ cur' = cur /\ opened' = opened => Fresh' = Fresh
<1>1. file' = file => Stored' = Stored /\ Playable' = Playable
  BY DEF Stored, Playable
<1>2. row' = row => Indexed' = Indexed
  BY DEF Indexed
<1>3. queue' = queue /\ inflight' = inflight => Pending' = Pending /\ Queued' = Queued
  BY DEF Pending, Queued
<1>4. scans' = scans => ProbedSegs' = ProbedSegs
  BY DEF ProbedSegs
<1>5. purges' = purges => HeldSegs' = HeldSegs
  BY DEF HeldSegs, Held
<1>6. cur' = cur => Open' = Open
  BY DEF Open
<1>7. cur' = cur /\ opened' = opened => Fresh' = Fresh
  BY DEF Fresh, Open
<1> QED BY <1>1, <1>2, <1>3, <1>4, <1>5, <1>6, <1>7

\* Queues as sets: a send adds its item, a receive moves it to the indexer's hands.
LEMMA SentItem ==
    ASSUME TypeInv, NEW i, queue' = Append(queue, i), inflight' = inflight
    PROVE  /\ Pending' = Pending \cup {i}
           /\ Queued' = Queued \cup (IF i.barrier THEN {} ELSE {i.seg})
<1>1. queue \in Seq(Items)
  BY DEF TypeInv, TypeOK, QueueType
<1>2. {queue'[k] : k \in 1..Len(queue')} = {queue[k] : k \in 1..Len(queue)} \cup {i}
  BY <1>1
<1>3. Pending' = Pending \cup {i}
  BY <1>2 DEF Pending
<1> QED BY <1>3 DEF Queued

LEMMA TakenItem ==
    ASSUME TypeInv, inflight = <<>>, queue # <<>>,
           inflight' = <<Head(queue)>>, queue' = Tail(queue)
    PROVE  Pending' = Pending /\ Queued' = Queued
<1>1. queue \in Seq(Items) /\ Len(queue) \in Nat /\ Len(queue) >= 1
  BY DEF TypeInv, TypeOK, QueueType
<1>2. {queue[k] : k \in 1..Len(queue)}
        = {Head(queue)} \cup {Tail(queue)[k] : k \in 1..Len(Tail(queue))}
  <2>1. Head(queue) = queue[1] /\ Len(Tail(queue)) = Len(queue) - 1
    BY <1>1
  <2>2. \A k \in 1..(Len(queue) - 1) : Tail(queue)[k] = queue[k + 1]
    BY <1>1
  <2>3. ASSUME NEW k \in 1..Len(queue)
        PROVE  queue[k] \in {Head(queue)} \cup {Tail(queue)[j] : j \in 1..Len(Tail(queue))}
    <3>1. CASE k = 1
      BY <2>1, <3>1
    <3>2. CASE k # 1
      <4>1. k - 1 \in 1..(Len(queue) - 1) /\ (k - 1) + 1 = k
        BY <1>1, <3>2
      <4> QED BY <2>1, <2>2, <4>1
    <3> QED BY <3>1, <3>2
  <2>4. ASSUME NEW j \in 1..Len(Tail(queue))
        PROVE  Tail(queue)[j] \in {queue[k] : k \in 1..Len(queue)}
    <3>1. j \in 1..(Len(queue) - 1) /\ j + 1 \in 1..Len(queue)
      BY <1>1, <2>1
    <3>2. Tail(queue)[j] = queue[j + 1]
      BY <2>2, <3>1
    <3> QED BY <3>1, <3>2
  <2>5. Head(queue) \in {queue[k] : k \in 1..Len(queue)}
    <3>1. 1 \in 1..Len(queue)
      BY <1>1
    <3> QED BY <2>1, <3>1
  <2> DEFINE A == {queue[k] : k \in 1..Len(queue)}
             B == {Tail(queue)[j] : j \in 1..Len(Tail(queue))}
  <2>6. \A x \in A : x \in {Head(queue)} \cup B
    BY <2>3
  <2>7. \A x \in B : x \in A
    BY <2>4
  <2>8. Head(queue) \in A
    BY <2>5
  <2> HIDE DEF A, B
  <2>9. A = {Head(queue)} \cup B
    BY <2>6, <2>7, <2>8
  <2> QED BY <2>9 DEF A, B
<1>3. {inflight'[k] : k \in 1..Len(inflight')} = {Head(queue)}
      /\ {inflight[k] : k \in 1..Len(inflight)} = {}
  OBVIOUS
<1>4. Pending' = Pending
  BY <1>2, <1>3 DEF Pending
<1> QED BY <1>4 DEF Queued

LEMMA DoneItem ==
    ASSUME TypeInv, inflight # <<>>, inflight' = <<>>, queue' = queue
    PROVE  /\ inflight[1] \in Pending /\ Pending' \subseteq Pending
           /\ Len(inflight) = 1 => Pending \subseteq Pending' \cup {inflight[1]}
<1>1. inflight \in Seq(Items) /\ Len(inflight) \in Nat /\ Len(inflight) >= 1
  BY DEF TypeInv, TypeOK, QueueType
<1>2. inflight[1] \in Pending
  BY <1>1 DEF Pending
<1>3. Pending' = {queue[k] : k \in 1..Len(queue)}
  BY DEF Pending
<1>4. Len(inflight) = 1 => {inflight[k] : k \in 1..Len(inflight)} = {inflight[1]}
  OBVIOUS
<1> QED BY <1>2, <1>3, <1>4 DEF Pending

\* Who acts while a process is up: a recorder with a segment, the indexer with an
\* item, a Reindex or a pass.
LEMMA OnlyWhileUp ==
    ASSUME TypeInv, DownInv,
           (\E c \in Cameras : cur[c] # Absent) \/ inflight # <<>> \/ scans # {} \/ purges # {}
    PROVE  phase # "down"
<1> SUFFICES ASSUME phase = "down" PROVE FALSE
  OBVIOUS
<1>1. Open = {} /\ Pending = {} /\ scans = {} /\ purges = {}
  BY DEF DownInv
<1>2. PICK c \in Cameras : cur[c] # Absent \/ inflight # <<>>
  <2>1. CASE inflight # <<>>
    <3>1. inflight \in Seq(Items) /\ Len(inflight) \in Nat /\ Len(inflight) >= 1
      BY <2>1 DEF TypeInv, TypeOK, QueueType
    <3>2. inflight[1] \in Pending
      BY <3>1 DEF Pending
    <3> QED BY <1>1, <3>2
  <2> QED BY <1>1, <2>1
<1>3. CASE cur[c] # Absent
  <2>1. <<c, cur[c]>> \in Segs
    BY <1>3, SegmentParts DEF TypeInv, TypeOK, RecorderType
  <2>2. <<c, cur[c]>> \in Open
    BY <2>1 DEF Open, Cam, Start
  <2> QED BY <1>1, <2>2
<1>4. CASE inflight # <<>>
  <2>1. inflight \in Seq(Items) /\ Len(inflight) \in Nat /\ Len(inflight) >= 1
    BY <1>4 DEF TypeInv, TypeOK, QueueType
  <2>2. inflight[1] \in Pending
    BY <2>1 DEF Pending
  <2> QED BY <1>1, <2>2
<1> QED BY <1>2, <1>3, <1>4

\* A step of anything but a recorder: no file appears, nothing unknown is learned,
\* and what is playable stays accounted for.
Harmless ==
    /\ now <= now' /\ cur' = cur /\ opened' = opened
    /\ inflight' \in {inflight, <<>>} \/ Len(inflight') = 1
    /\ phase' = "down" => UNCHANGED <<phase, memory>>
    /\ Stored' \subseteq Stored /\ Playable' \subseteq Playable
    /\ Indexed' \cup Queued' \cup ProbedSegs' \cup HeldSegs' \subseteq Known
    /\ \A t \in purges' : \A s \in t.gone : s \in Stored' => \E u \in purges : s \in u.gone
    /\ \A s \in Playable' \cap (Indexed \cup Queued \cup dropped) :
          s \in Indexed' \cup Queued' \cup dropped'
    /\ crashes' = crashes /\ losses' = losses

LEMMA HarmlessKeeps == ASSUME TypeInv, TypeInv', StoreInv, Harmless PROVE StoreInv'
<1>1. Open' = Open /\ Fresh' = Fresh
  BY SameSets DEF Harmless
<1>2. KnownInv /\ GoneInv /\ CoverInv
  BY DEF StoreInv
<1>3. LearnsNothing
  BY <1>1 DEF Harmless, LearnsNothing
<1>4. KnownInv' /\ GoneInv'
  BY <1>2, <1>3, LearningKeeps
<1>5. DownInv'
  <2>1. CASE phase' # "down"
    BY <2>1 DEF DownInv
  <2>2. CASE phase' = "down"
    <3>1. UNCHANGED <<phase, cur, queue, inflight, scans, purges>>
      BY <2>2 DEF Harmless, memory
    <3> QED BY <3>1, <2>2, SameSets DEF StoreInv, DownInv
  <2> QED BY <2>1, <2>2
<1>6. CoverInv'
  <2> SUFFICES ASSUME crashes' = 0, losses' = 0 PROVE Playable' \subseteq Covered'
    BY DEF CoverInv
  <2>1. Playable' \subseteq Covered
    BY <1>2 DEF CoverInv, Harmless
  <2> QED BY <1>1, <2>1 DEF Covered, Harmless
<1>7. HandInv'
  BY DEF StoreInv, HandInv, Harmless
<1> QED BY <1>4, <1>5, <1>6, <1>7 DEF StoreInv

\* Steps of a pass that neither unlink nor delete rows.
LEMMA PassesOnly ==
    ASSUME file' = file, row' = row, cur' = cur, opened' = opened, scans' = scans,
           crashes' = crashes, losses' = losses, dropped' = dropped,
           now <= now', phase' # "down", inflight' = inflight \/ inflight' = <<>>,
           Queued' = Queued, HeldSegs' \subseteq Known,
           \A t \in purges' : \A s \in t.gone : s \in Stored' => \E u \in purges : s \in u.gone
    PROVE  Harmless
<1>1. /\ Stored' = Stored /\ Playable' = Playable
      /\ Indexed' = Indexed /\ ProbedSegs' = ProbedSegs
  BY SameSets
<1> QED BY <1>1 DEF Harmless, Known

\* What a pass holds after it has become another.
LEMMA HeldStep ==
    ASSUME NEW t \in purges, NEW u, StepPass(t, u), Held(u) \subseteq Known,
           \A s \in u.gone : s \in Stored' => s \in t.gone
    PROVE  /\ HeldSegs' \subseteq Known
           /\ \A v \in purges' : \A s \in v.gone :
                 s \in Stored' => \E w \in purges : s \in w.gone
<1>1. \A v \in purges' : v \in purges \/ v = u
  BY DEF StepPass
<1>2. \A v \in purges' : Held(v) \subseteq Known
  BY <1>1 DEF HeldSegs, Known
<1> QED BY <1>1, <1>2 DEF HeldSegs, Held

LEMMA HeldEnd ==
    ASSUME NEW t \in purges, EndPass(t)
    PROVE  /\ HeldSegs' \subseteq HeldSegs
           /\ \A v \in purges' : \A s \in v.gone :
                 s \in Stored' => \E w \in purges : s \in w.gone
<1>1. purges' \subseteq purges
  BY DEF EndPass
<1> QED BY <1>1 DEF HeldSegs, Held

\* What a pass holds is known; so is what it chooses from.
LEMMA HeldKnown ==
    /\ \A t \in purges : Held(t) \subseteq Known
    /\ Stored \cup Indexed \subseteq Known
BY DEF Known, HeldSegs

-----------------------------------------------------------------------------
(* One lemma per action: what it leaves of the footage and its rows.        *)

LEMMA TickHarmless == ASSUME TypeInv, Tick PROVE Harmless
<1>1. /\ UNCHANGED <<phase, memory, file, row, crashes, losses, dropped>> /\ now <= now'
  BY ClockNumber DEF Tick, budgets, history
<1>2. UNCHANGED <<cur, opened, queue, inflight, scans, purges>>
  BY <1>1 DEF memory
<1>3. /\ Stored' = Stored /\ Playable' = Playable /\ Indexed' = Indexed
      /\ Queued' = Queued /\ ProbedSegs' = ProbedSegs /\ HeldSegs' = HeldSegs
  BY <1>1, <1>2, SameSets
<1> QED BY <1>1, <1>2, <1>3 DEF Harmless, Known

LEMMA IndexerTakeHarmless == ASSUME TypeInv, StoreInv, IndexerTake PROVE Harmless
<1>1. /\ UNCHANGED <<now, phase, file, row, cur, opened, scans, purges, crashes, losses, dropped>>
      /\ phase # "down" /\ now <= now
  BY ClockNumber DEF IndexerTake, budgets, history, Running
<1>2. Queued' = Queued
  BY TakenItem DEF IndexerTake
<1>3. /\ Stored' = Stored /\ Playable' = Playable /\ Indexed' = Indexed
      /\ ProbedSegs' = ProbedSegs /\ HeldSegs' = HeldSegs
  BY <1>1, SameSets
<1>4. Len(inflight') = 1
  BY DEF IndexerTake
<1> QED BY <1>1, <1>2, <1>3, <1>4 DEF Harmless, Known

\* The item leaves the indexer's hands, and its segment is indexed or given up.
LEMMA ItemLeaves ==
    ASSUME TypeInv, HandInv, inflight # <<>>, ~inflight[1].barrier, inflight' = <<>>, queue' = queue
    PROVE  /\ inflight[1].seg \in Queued /\ Queued' \subseteq Queued
           /\ Queued \subseteq Queued' \cup {inflight[1].seg}
<1>1. /\ inflight[1] \in Pending /\ Pending' \subseteq Pending
      /\ Len(inflight) = 1 => Pending \subseteq Pending' \cup {inflight[1]}
  BY DoneItem
<1>2. Len(inflight) = 1
  BY DEF HandInv
<1> QED BY <1>1, <1>2 DEF Queued

LEMMA RowGained ==
    ASSUME TypeInv, NEW s \in Segs, NEW d \in Durations, row' = [row EXCEPT ![s] = d]
    PROVE  Indexed' = Indexed \cup {s}
<1>1. row \in [Segs -> Durations \cup {Absent}] /\ d # Absent
  BY InstantFacts DEF TypeInv, TypeOK, DiskType
<1> QED BY <1>1 DEF Indexed

LEMMA IndexerInsertHarmless == ASSUME TypeInv, StoreInv, IndexerInsert PROVE Harmless
<1>1. /\ UNCHANGED <<now, phase, file, cur, opened, scans, purges, crashes, losses, dropped>>
      /\ now <= now /\ inflight' = <<>>
  BY ClockNumber DEF IndexerInsert, budgets, history
<1>2. phase # "down"
  BY OnlyWhileUp DEF IndexerInsert, StoreInv
<1>3. /\ inflight[1].seg \in Queued /\ Queued' \subseteq Queued
      /\ Queued \subseteq Queued' \cup {inflight[1].seg}
  BY ItemLeaves DEF IndexerInsert, StoreInv
<1>4. Indexed' = Indexed \cup {inflight[1].seg}
  <2>1. inflight \in Seq(Items) /\ Len(inflight) \in Nat /\ Len(inflight) >= 1
    BY DEF TypeInv, TypeOK, QueueType, IndexerInsert
  <2>2. inflight[1] \in Items
    BY <2>1
  <2>3. inflight[1].seg \in Segs /\ inflight[1].len \in Durations
    BY <2>2 DEF Items
  <2> QED BY <2>3, RowGained DEF IndexerInsert
<1>5. /\ Stored' = Stored /\ Playable' = Playable
      /\ ProbedSegs' = ProbedSegs /\ HeldSegs' = HeldSegs
  BY <1>1, SameSets
<1> QED BY <1>1, <1>2, <1>3, <1>4, <1>5 DEF Harmless, Known

LEMMA IndexerGiveUpHarmless == ASSUME TypeInv, StoreInv, IndexerGiveUp PROVE Harmless
<1>1. /\ UNCHANGED <<now, phase, file, row, cur, opened, scans, purges, crashes, losses>>
      /\ now <= now /\ inflight' = <<>> /\ dropped' = dropped \cup {inflight[1].seg}
  BY ClockNumber DEF IndexerGiveUp
<1>2. phase # "down"
  BY OnlyWhileUp DEF IndexerGiveUp, StoreInv
<1>3. /\ Queued' \subseteq Queued /\ Queued \subseteq Queued' \cup {inflight[1].seg}
  BY ItemLeaves DEF IndexerGiveUp, StoreInv
<1>4. /\ Stored' = Stored /\ Playable' = Playable /\ Indexed' = Indexed
      /\ ProbedSegs' = ProbedSegs /\ HeldSegs' = HeldSegs
  BY <1>1, SameSets
<1> QED BY <1>1, <1>2, <1>3, <1>4 DEF Harmless, Known

\* A barrier is no row: the queued segments stay, and the pass it releases holds
\* what it held.
LEMMA IndexerBarrierHarmless == ASSUME TypeInv, StoreInv, IndexerBarrier PROVE Harmless
<1>1. /\ UNCHANGED <<now, phase, file, row, cur, opened, scans, queue, crashes, losses, dropped>>
      /\ now <= now /\ inflight' = <<>>
  BY ClockNumber DEF IndexerBarrier, budgets, history
<1>2. phase # "down"
  BY OnlyWhileUp DEF IndexerBarrier, StoreInv
<1>3. Queued' = Queued
  <2>2. Len(inflight) = 1
    BY DEF StoreInv, HandInv, IndexerBarrier
  <2>3. Pending' \subseteq Pending /\ Pending \subseteq Pending' \cup {inflight[1]}
    BY <1>1, <2>2, DoneItem DEF IndexerBarrier
  <2> QED BY <2>3 DEF Queued, IndexerBarrier
<1>4. \A v \in purges' : \E u \in purges : Held(v) = Held(u) /\ v.gone = u.gone
  <2>1. ASSUME NEW u \in purges
        PROVE  LET v == [u EXCEPT !.pc = "query"] IN Held(v) = Held(u) /\ v.gone = u.gone
    BY PassFacts DEF Held, Passes
  <2> QED BY <2>1 DEF IndexerBarrier
<1>5. HeldSegs' \subseteq Known
  BY <1>4, HeldKnown DEF HeldSegs, Held
<1>6. \A t \in purges' : \A s \in t.gone : s \in Stored' => \E u \in purges : s \in u.gone
  BY <1>4
<1> QED BY <1>1, <1>2, <1>3, <1>5, <1>6, PassesOnly

\* What recovery finds is playable; engaging a camera only adds rows of such files.
LEMMA EngageAdds ==
    ASSUME TypeInv, NEW c \in Cameras, Engage(c)
    PROVE  /\ Indexed \subseteq Indexed' /\ Indexed' \subseteq Indexed \cup Playable
           /\ \A s \in Indexed' \ Indexed : row'[s] = file[s]
<1>1. Recovered(c) \subseteq Playable
  BY DEF Recovered
<1>2. CASE Indexed \cap Of(c) # {}
  <2>1. row' = [s \in Segs |-> IF s \in Recovered(c) THEN file[s] ELSE row[s]]
    BY <1>2 DEF Engage
  <2>2. \A s \in Segs : s \in Recovered(c) => row'[s] = file[s] /\ file[s] # Absent
    BY <1>1, <2>1 DEF Playable
  <2>3. \A s \in Segs : s \notin Recovered(c) => row'[s] = row[s]
    BY <2>1
  <2>4. \A s \in Segs : s \in Recovered(c) => s \in Indexed' /\ s \in Playable
    BY <1>1, <2>2 DEF Indexed
  <2>5. \A s \in Segs : s \notin Recovered(c) => (s \in Indexed' <=> s \in Indexed)
    BY <2>3 DEF Indexed
  <2>6. Indexed \subseteq Segs /\ Indexed' \subseteq Segs
    BY DEF Indexed
  <2> QED BY <2>2, <2>4, <2>5, <2>6
<1>3. CASE Indexed \cap Of(c) = {}
  <2>1. row' = row
    BY <1>3 DEF Engage
  <2> QED BY <2>1, SameSets
<1> QED BY <1>2, <1>3

\* A new Reindex has probed nothing.
LEMMA EngageProbes ==
    ASSUME NEW c \in Cameras, Engage(c)
    PROVE  ProbedSegs' \subseteq ProbedSegs
<1>1. \A t \in scans' : t \in scans \/ t = Scan(c)
  BY DEF Engage
<1>2. Scan(c).pc # "insert"
  BY DEF Scan
<1> QED BY <1>1, <1>2 DEF ProbedSegs

LEMMA EngageHarmless ==
    ASSUME TypeInv, NEW c \in Cameras, Engage(c), phase' # "down"
    PROVE  Harmless
<1>1. /\ UNCHANGED <<now, file, cur, opened, queue, inflight, purges, crashes, losses, dropped>>
      /\ now <= now
  BY ClockNumber DEF Engage, budgets, history
<1>2. /\ Indexed \subseteq Indexed' /\ Indexed' \subseteq Indexed \cup Playable
      /\ ProbedSegs' \subseteq ProbedSegs
  BY EngageAdds, EngageProbes
<1>3. Playable \subseteq Stored
  BY DEF Playable, Stored
<1>4. /\ Stored' = Stored /\ Playable' = Playable /\ Queued' = Queued /\ HeldSegs' = HeldSegs
  BY <1>1, SameSets
<1> QED BY <1>1, <1>2, <1>3, <1>4 DEF Harmless, Known

LEMMA BootCameraHarmless ==
    ASSUME TypeInv, NEW c \in Cameras, BootCamera(c) PROVE Harmless
BY EngageHarmless DEF BootCamera

LEMMA EnableCameraHarmless ==
    ASSUME TypeInv, NEW c \in Cameras, EnableCamera(c) PROVE Harmless
BY EngageHarmless DEF EnableCamera

\* Steps of the process that leave memory and disk alone.
LEMMA QuietHarmless ==
    ASSUME now' = now, file' = file, row' = row, UNCHANGED memory,
           dropped' = dropped, crashes' = crashes, losses' = losses,
           phase' # "down", TypeInv
    PROVE  Harmless
<1>1. UNCHANGED <<cur, opened, queue, inflight, scans, purges>> /\ now <= now
  BY ClockNumber DEF memory
<1>2. /\ Stored' = Stored /\ Playable' = Playable /\ Indexed' = Indexed
      /\ Queued' = Queued /\ ProbedSegs' = ProbedSegs /\ HeldSegs' = HeldSegs
  BY <1>1, SameSets
<1> QED BY <1>1, <1>2 DEF Harmless, Known

LEMMA BootDoneHarmless == ASSUME TypeInv, BootDone PROVE Harmless
BY QuietHarmless DEF BootDone, budgets, history

LEMMA BeginCloseHarmless == ASSUME TypeInv, BeginClose PROVE Harmless
BY QuietHarmless DEF BeginClose, history

LEMMA RestartHarmless == ASSUME TypeInv, Restart PROVE Harmless
<1>1. /\ UNCHANGED <<now, file, memory, dropped, crashes, losses>> /\ phase' # "down"
  BY DEF Restart, budgets, history
<1>2. CASE row' = row
  BY <1>1, <1>2, QuietHarmless
<1>3. CASE row' = [s \in Segs |-> IF s \in Playable \ Indexed THEN file[s] ELSE row[s]]
  <2>1. UNCHANGED <<cur, opened, queue, inflight, scans, purges>> /\ now <= now
    BY <1>1, ClockNumber DEF memory
  <2>2. /\ Stored' = Stored /\ Playable' = Playable
        /\ Queued' = Queued /\ ProbedSegs' = ProbedSegs /\ HeldSegs' = HeldSegs
    BY <1>1, <2>1, SameSets
  <2>3. \A s \in Segs : row'[s] = row[s] \/ s \in Playable
    BY <1>3
  <2>4. \A s \in Playable \ Indexed : row'[s] # Absent
    BY <1>3 DEF Playable
  <2>5. \A s \in Indexed : row'[s] = row[s] /\ row[s] # Absent
    BY <1>3 DEF Indexed
  <2>6. Indexed \subseteq Indexed' /\ Indexed' \subseteq Indexed \cup Playable
    BY <2>3, <2>5 DEF Indexed
  <2>7. Playable \subseteq Stored
    BY DEF Playable, Stored
  <2> QED BY <1>1, <2>1, <2>2, <2>6, <2>7 DEF Harmless, Known
<1> QED BY <1>2, <1>3 DEF Restart

\* What a scan has probed after it has become another.
LEMMA ProbedStep ==
    ASSUME NEW t \in scans, NEW u, StepScan(t, u),
           u.pc = "insert" => u.seg \in Stored
    PROVE  ProbedSegs' \subseteq ProbedSegs \cup Stored
<1>1. \A v \in scans' : v \in scans \/ v = u
  BY DEF StepScan
<1> QED BY <1>1 DEF ProbedSegs

\* Steps of a Reindex that insert no row.
LEMMA ScansOnly ==
    ASSUME file' = file, row' = row, cur' = cur, opened' = opened, purges' = purges,
           queue' = queue, inflight' = inflight, crashes' = crashes, losses' = losses,
           dropped \subseteq dropped', now' = now, phase' # "down", TypeInv,
           ProbedSegs' \subseteq ProbedSegs \cup Stored
    PROVE  Harmless
<1>1. /\ Stored' = Stored /\ Playable' = Playable /\ Indexed' = Indexed
      /\ Queued' = Queued /\ HeldSegs' = HeldSegs
  BY SameSets
<1>2. now <= now
  BY ClockNumber
<1> QED BY <1>1, <1>2 DEF Harmless, Known

LEMMA ReindexRangeHarmless ==
    ASSUME TypeInv, StoreInv, NEW t \in scans, ReindexRange(t) PROVE Harmless
<1> DEFINE u == [t EXCEPT !.pc = "walk", !.known = Indexed \cap Of(t.cam), !.since = now]
<1>1. phase # "down"
  BY OnlyWhileUp DEF StoreInv
<1>2. u.pc = "walk" /\ StepScan(t, u)
  BY ScanFacts DEF Scans, ReindexRange
<1>3. ProbedSegs' \subseteq ProbedSegs \cup Stored
  BY <1>2, ProbedStep
<1> QED BY <1>1, <1>3, ScansOnly DEF ReindexRange, history, budgets

LEMMA ReindexProbeHarmless ==
    ASSUME TypeInv, StoreInv, NEW t \in scans, ReindexProbe(t) PROVE Harmless
<1>1. PICK s \in Ahead(t) :
        StepScan(t, [t EXCEPT !.pc = "insert", !.next = Start(s) + 1, !.seg = s, !.len = file[s]])
  BY DEF ReindexProbe
<1> DEFINE u == [t EXCEPT !.pc = "insert", !.next = Start(s) + 1, !.seg = s, !.len = file[s]]
<1>2. phase # "down"
  BY OnlyWhileUp DEF StoreInv
<1>3. u.seg = s
  BY ScanFacts DEF Scans
<1>4. s \in Stored
  BY DEF Ahead, Playable, Stored
<1>5. ProbedSegs' \subseteq ProbedSegs \cup Stored
  BY <1>1, <1>3, <1>4, ProbedStep
<1> QED BY <1>2, <1>5, ScansOnly DEF ReindexProbe, history, budgets

LEMMA ReindexInsertHarmless ==
    ASSUME TypeInv, StoreInv, NEW t \in scans, ReindexInsert(t) PROVE Harmless
<1> DEFINE u == [t EXCEPT !.pc = "walk", !.seg = <<t.cam, 0>>, !.len = 0]
<1>1. /\ UNCHANGED <<now, phase, file, cur, opened, queue, inflight, purges, crashes, losses>>
      /\ dropped \subseteq dropped' /\ now <= now
  BY ClockNumber DEF ReindexInsert
<1>2. phase # "down"
  BY OnlyWhileUp DEF StoreInv
<1>3. u.pc = "walk" /\ StepScan(t, u)
  BY ScanFacts DEF Scans, ReindexInsert
<1>4. ProbedSegs' \subseteq ProbedSegs \cup Stored
  BY <1>3, ProbedStep
<1>5. Indexed \subseteq Indexed' /\ Indexed' \subseteq Indexed \cup ProbedSegs
  <2>1. CASE row' = row
    BY <2>1, SameSets
  <2>2. CASE row' = [row EXCEPT ![t.seg] = t.len]
    <3>1. t.seg \in Segs /\ t.len \in Durations
      BY ScanFacts
    <3>2. t.seg \in ProbedSegs
      BY DEF ProbedSegs, ReindexInsert
    <3>3. Indexed' = Indexed \cup {t.seg}
      BY <2>2, <3>1, RowGained
    <3> QED BY <3>2, <3>3
  <2> QED BY <2>1, <2>2 DEF ReindexInsert
<1>6. /\ Stored' = Stored /\ Playable' = Playable
      /\ Queued' = Queued /\ HeldSegs' = HeldSegs
  BY <1>1, SameSets
<1> HIDE DEF u
<1> QED BY <1>1, <1>2, <1>4, <1>5, <1>6 DEF Harmless, Known

LEMMA ReindexDoneHarmless ==
    ASSUME TypeInv, StoreInv, NEW t \in scans, ReindexDone(t) PROVE Harmless
<1>1. phase # "down" /\ dropped \subseteq dropped'
  BY OnlyWhileUp DEF StoreInv, ReindexDone
<1>2. ProbedSegs' \subseteq ProbedSegs
  BY DEF ProbedSegs, ReindexDone
<1> QED BY <1>1, <1>2, ScansOnly DEF ReindexDone, budgets

\* A new pass holds what it was given.
LEMMA HeldNew ==
    ASSUME NEW u, purges' = purges \cup {u}, Held(u) \subseteq Known, u.gone = {}
    PROVE  /\ HeldSegs' \subseteq Known
           /\ \A v \in purges' : \A s \in v.gone :
                 s \in Stored' => \E w \in purges : s \in w.gone
<1>1. \A v \in purges' : v \in purges \/ v = u
  OBVIOUS
<1>2. \A v \in purges' : Held(v) \subseteq Known
  BY <1>1, HeldKnown
<1> QED BY <1>1, <1>2 DEF HeldSegs, Held

LEMMA StartRetentionHarmless ==
    ASSUME TypeInv, NEW k \in {"clean", "sweep"}, StartRetention(k) PROVE Harmless
<1> DEFINE l == IF k = "sweep" THEN Stale(now - Retain) ELSE {}
           u == Pass(k, NoCamera, now - Retain, "next", l)
<1>1. Held(u) \subseteq Known /\ u.gone = {} /\ purges' = purges \cup {u}
  <2>1. l \subseteq Stored
    BY DEF Stale
  <2>2. Held(u) = l /\ u.gone = {}
    BY DEF Held, Pass
  <2> QED BY <2>1, <2>2, HeldKnown DEF StartRetention
<1>2. /\ HeldSegs' \subseteq Known
      /\ \A v \in purges' : \A s \in v.gone : s \in Stored' => \E w \in purges : s \in w.gone
  <2> HIDE DEF u
  <2> QED BY <1>1, HeldNew
<1>3. Queued' = Queued /\ now <= now /\ phase # "down"
  BY SameSets, ClockNumber DEF StartRetention
<1> QED BY <1>2, <1>3, PassesOnly DEF StartRetention, history, budgets

LEMMA StartFreeHarmless == ASSUME TypeInv, StartFree PROVE Harmless
<1> DEFINE u == Pass("free", NoCamera, 0, "next", {})
<1>1. Held(u) \subseteq Known /\ u.gone = {} /\ purges' = purges \cup {u}
  BY DEF Held, Pass, StartFree
<1>2. /\ HeldSegs' \subseteq Known
      /\ \A v \in purges' : \A s \in v.gone : s \in Stored' => \E w \in purges : s \in w.gone
  <2> HIDE DEF u
  <2> QED BY <1>1, HeldNew
<1>3. Queued' = Queued /\ now <= now /\ phase # "down"
  BY SameSets, ClockNumber DEF StartFree
<1> QED BY <1>2, <1>3, PassesOnly DEF StartFree, history, budgets

\* Steps of a pass that change only what it holds and, for its barrier, the queue.
LEMMA PassHarmless ==
    ASSUME TypeInv, StoreInv, NEW t \in purges, NEW u, StepPass(t, u),
           Held(u) \subseteq Known, u.gone \subseteq t.gone,
           UNCHANGED <<phase, file, row, cur, opened, inflight, scans, crashes, losses, dropped>>,
           now <= now', Queued' = Queued
    PROVE  Harmless
<1>1. phase' # "down"
  BY OnlyWhileUp DEF StoreInv
<1>2. /\ HeldSegs' \subseteq Known
      /\ \A v \in purges' : \A s \in v.gone : s \in Stored' => \E w \in purges : s \in w.gone
  BY HeldStep
<1> QED BY <1>1, <1>2, PassesOnly

LEMMA PassEndHarmless ==
    ASSUME TypeInv, StoreInv, NEW t \in purges, EndPass(t),
           UNCHANGED <<phase, file, row, cur, opened, inflight, scans, crashes, losses, dropped>>,
           now <= now', Queued' = Queued
    PROVE  Harmless
<1>1. phase' # "down"
  BY OnlyWhileUp DEF StoreInv
<1>2. /\ HeldSegs' \subseteq Known
      /\ \A v \in purges' : \A s \in v.gone : s \in Stored' => \E w \in purges : s \in w.gone
  BY HeldEnd, HeldKnown DEF Known
<1> QED BY <1>1, <1>2, PassesOnly

LEMMA StartCameraPurgeHarmless ==
    ASSUME TypeInv, StoreInv, NEW t \in purges, StartCameraPurge(t) PROVE Harmless
<1> DEFINE u == [t EXCEPT !.cutoff = now + 1, !.pc = "flush"]
<1>1. /\ Held(u) = Held(t) /\ u.gone = t.gone /\ StepPass(t, u)
      /\ UNCHANGED <<phase, file, row, cur, opened, queue, inflight, scans, crashes, losses, dropped>>
      /\ now <= now'
  BY PassFacts, ClockNumber DEF Held, Passes, StartCameraPurge, history, budgets
<1> HIDE DEF u
<1> QED BY <1>1, HeldKnown, SameSets, PassHarmless

LEMMA FlushIndexHarmless ==
    ASSUME TypeInv, StoreInv, NEW t \in purges, FlushIndex(t) PROVE Harmless
<1>1. PICK x \in {"barrier", "query"} :
        /\ StepPass(t, [t EXCEPT !.pc = x])
        /\ queue' = queue \/ queue' = Append(queue, Barrier(t))
  BY DEF FlushIndex
<1> DEFINE u == [t EXCEPT !.pc = x]
<1>2. /\ Held(u) = Held(t) /\ u.gone = t.gone /\ StepPass(t, u)
      /\ UNCHANGED <<phase, file, row, cur, opened, inflight, scans, crashes, losses, dropped>>
      /\ now <= now'
  BY <1>1, PassFacts, ClockNumber DEF Held, Passes, FlushIndex, history, budgets
<1>3. Queued' = Queued
  <2>1. CASE queue' = queue
    BY <1>2, <2>1, SameSets
  <2>2. CASE queue' = Append(queue, Barrier(t))
    <3>1. Barrier(t).barrier
      BY DEF Barrier
    <3> QED BY <1>2, <2>2, <3>1, SentItem
  <2> QED BY <1>1, <2>1, <2>2
<1> HIDE DEF u
<1> QED BY <1>2, <1>3, HeldKnown, PassHarmless

LEMMA QueryCameraHarmless ==
    ASSUME TypeInv, StoreInv, NEW t \in purges, QueryCamera(t) PROVE Harmless
<1> DEFINE u == [t EXCEPT !.pc = "next", !.list = CameraRows(t)]
<1>1. /\ Held(u) \subseteq Held(t) \cup Indexed /\ u.gone = t.gone /\ StepPass(t, u)
      /\ UNCHANGED <<now, phase, file, row, cur, opened, queue, inflight, scans, crashes, losses, dropped>>
      /\ now <= now
  BY PassFacts, ClockNumber DEF Held, Passes, QueryCamera, CameraRows, history, budgets
<1> HIDE DEF u
<1> QED BY <1>1, HeldKnown, SameSets, PassHarmless

LEMMA NextBatchHarmless ==
    ASSUME TypeInv, StoreInv, NEW t \in purges, NextBatch(t) PROVE Harmless
<1>1. /\ UNCHANGED <<now, phase, file, row, cur, opened, queue, inflight, scans, crashes, losses, dropped>>
      /\ now <= now /\ Queued' = Queued
  BY SameSets, ClockNumber DEF NextBatch, history, budgets
<1>2. CASE EndPass(t)
  BY <1>1, <1>2, PassEndHarmless
<1>3. CASE StepPass(t, [t EXCEPT !.pc = "orphans", !.list = Stale(t.cutoff) \cap Of(t.cam)])
  <2> DEFINE u == [t EXCEPT !.pc = "orphans", !.list = Stale(t.cutoff) \cap Of(t.cam)]
  <2>1. Held(u) \subseteq Held(t) \cup Stored /\ u.gone = t.gone
    BY PassFacts DEF Held, Passes, Stale
  <2> HIDE DEF u
  <2> QED BY <1>1, <1>3, <2>1, HeldKnown, PassHarmless DEF u
<1>4. ASSUME NEW B \in Batches(Candidates(t)),
             StepPass(t, [t EXCEPT !.pc = "unlink", !.todo = B, !.list = @ \ B])
      PROVE  Harmless
  <2> DEFINE u == [t EXCEPT !.pc = "unlink", !.todo = B, !.list = @ \ B]
  <2>1. Candidates(t) \subseteq Held(t) \cup Indexed
    BY DEF Candidates, Expired, Held
  <2>2. B \subseteq Candidates(t)
    BY BatchOfCandidates
  <2>3. Held(u) \subseteq Held(t) \cup B /\ u.gone = t.gone
    BY PassFacts DEF Held, Passes
  <2>4. Held(u) \subseteq Known
    BY <2>1, <2>2, <2>3, HeldKnown
  <2> QED BY <1>1, <1>4, <2>3, <2>4, PassHarmless
<1> QED BY <1>2, <1>3, <1>4 DEF NextBatch

LEMMA EndCameraPurgeHarmless ==
    ASSUME TypeInv, StoreInv, NEW t \in purges, EndCameraPurge(t) PROVE Harmless
<1>1. /\ UNCHANGED <<now, phase, file, row, cur, opened, queue, inflight, scans, crashes, losses, dropped>>
      /\ now <= now /\ Queued' = Queued
  BY SameSets, ClockNumber DEF EndCameraPurge, budgets
<1> QED BY <1>1, PassEndHarmless DEF EndCameraPurge

\* An unlink takes the file away, unless it fails.
LEMMA Unlinked ==
    ASSUME TypeInv, NEW s \in Segs, file' = [file EXCEPT ![s] = Absent]
    PROVE  Stored' = Stored \ {s} /\ Playable' = Playable \ {s}
<1>1. file \in [Segs -> Durations \cup {Absent}]
  BY DEF TypeInv, TypeOK, DiskType
<1> QED BY <1>1 DEF Stored, Playable

LEMMA UnlinkHarmless ==
    ASSUME TypeInv, StoreInv, NEW t \in purges, NEW s \in Segs, NEW u, StepPass(t, u),
           Held(u) \subseteq Held(t), u.gone \subseteq t.gone \cup {s},
           \/ file' = [file EXCEPT ![s] = Absent]
           \/ file' = file /\ u.gone = t.gone,
           UNCHANGED <<now, phase, row, cur, opened, queue, inflight, scans, crashes, losses, dropped>>
    PROVE  Harmless
<1>1. phase' # "down" /\ now <= now
  BY OnlyWhileUp, ClockNumber DEF StoreInv
<1>2. Stored' \subseteq Stored /\ Playable' \subseteq Playable
      /\ \A x \in u.gone : x \in Stored' => x \in t.gone
  <2>1. CASE file' = [file EXCEPT ![s] = Absent]
    BY <2>1, Unlinked
  <2>2. CASE file' = file /\ u.gone = t.gone
    BY <2>2, SameSets
  <2> QED BY <2>1, <2>2
<1>3. /\ HeldSegs' \subseteq Known
      /\ \A v \in purges' : \A x \in v.gone : x \in Stored' => \E w \in purges : x \in w.gone
  BY <1>2, HeldKnown, HeldStep
<1>4. Indexed' = Indexed /\ Queued' = Queued /\ ProbedSegs' = ProbedSegs
  BY SameSets
<1> QED BY <1>1, <1>2, <1>3, <1>4 DEF Harmless, Known

LEMMA UnlinkOneHarmless ==
    ASSUME TypeInv, StoreInv, NEW t \in purges, Unlink(t) PROVE Harmless
<1>1. PICK s \in t.todo :
        \/ /\ file' = [file EXCEPT ![s] = Absent]
           /\ StepPass(t, [t EXCEPT !.todo = @ \ {s}, !.gone = @ \cup {s}])
        \/ /\ UNCHANGED file
           /\ StepPass(t, [t EXCEPT !.todo = @ \ {s}, !.failed = TRUE])
  BY DEF Unlink
<1>2. s \in Segs /\ t \in Passes
  BY PassFacts
<1>3. UNCHANGED <<now, phase, row, cur, opened, queue, inflight, scans, crashes, losses, dropped>>
  BY DEF Unlink, history
<1>4. CASE /\ file' = [file EXCEPT ![s] = Absent]
           /\ StepPass(t, [t EXCEPT !.todo = @ \ {s}, !.gone = @ \cup {s}])
  <2> DEFINE u == [t EXCEPT !.todo = @ \ {s}, !.gone = @ \cup {s}]
  <2>1. u.todo = t.todo \ {s} /\ u.gone = t.gone \cup {s} /\ u.list = t.list
    BY <1>2 DEF Passes
  <2>2. Held(u) \subseteq Held(t)
    BY <2>1 DEF Held
  <2> HIDE DEF u
  <2>3. StepPass(t, u)
    BY <1>4 DEF u
  <2> QED BY <1>2, <1>3, <1>4, <2>1, <2>2, <2>3, UnlinkHarmless
<1>5. CASE /\ UNCHANGED file
           /\ StepPass(t, [t EXCEPT !.todo = @ \ {s}, !.failed = TRUE])
  <2> DEFINE u == [t EXCEPT !.todo = @ \ {s}, !.failed = TRUE]
  <2>1. u.todo = t.todo \ {s} /\ u.gone = t.gone /\ u.list = t.list
    BY <1>2 DEF Passes
  <2>2. Held(u) \subseteq Held(t)
    BY <2>1 DEF Held
  <2> HIDE DEF u
  <2>3. StepPass(t, u)
    BY <1>5 DEF u
  <2> QED BY <1>2, <1>3, <1>5, <2>1, <2>2, <2>3, UnlinkHarmless
<1> QED BY <1>1, <1>4, <1>5

LEMMA UnlinkOrphanHarmless ==
    ASSUME TypeInv, StoreInv, NEW t \in purges, UnlinkOrphan(t) PROVE Harmless
<1>1. PICK s \in t.list, f \in {t.failed, TRUE} :
        /\ file' = [file EXCEPT ![s] = Absent] \/ file' = file
        /\ StepPass(t, [t EXCEPT !.list = @ \ {s}, !.failed = f])
  <2>1. \A s \in t.list : [t EXCEPT !.list = @ \ {s}] = [t EXCEPT !.list = @ \ {s}, !.failed = t.failed]
    BY PassFacts DEF Passes
  <2> QED BY <2>1 DEF UnlinkOrphan
<1>2. s \in Segs /\ t \in Passes
  BY PassFacts
<1>3. UNCHANGED <<now, phase, row, cur, opened, queue, inflight, scans, crashes, losses, dropped>>
  BY DEF UnlinkOrphan, history
<1> DEFINE u == [t EXCEPT !.list = @ \ {s}, !.failed = f]
<1>4. u.list = t.list \ {s} /\ u.gone = t.gone /\ u.todo = t.todo
  BY <1>2 DEF Passes
<1>5. Held(u) \subseteq Held(t)
  BY <1>4 DEF Held
<1> HIDE DEF u
<1>6. StepPass(t, u)
  BY <1>1 DEF u
<1> QED BY <1>1, <1>2, <1>3, <1>4, <1>5, <1>6, UnlinkHarmless

\* A transaction takes rows whose files are gone.
LEMMA DeleteRowsHarmless ==
    ASSUME TypeInv, StoreInv, NEW t \in purges, DeleteRows(t) PROVE Harmless
<1>1. /\ UNCHANGED <<now, phase, file, cur, opened, queue, inflight, scans, crashes, losses, dropped>>
      /\ phase' # "down" /\ now <= now
  BY OnlyWhileUp, ClockNumber DEF DeleteRows, StoreInv, history
<1>2. /\ Stored' = Stored /\ Playable' = Playable /\ ProbedSegs' = ProbedSegs /\ Queued' = Queued
  BY <1>1, SameSets
<1>3. /\ Indexed' \subseteq Indexed
      /\ \A s \in Indexed \cap Playable : s \in Indexed'
  <2>1. CASE row' = row
    BY <2>1, SameSets
  <2>2. CASE row' = [s \in Segs |-> IF s \in t.gone THEN Absent ELSE row[s]]
    <3>1. \A s \in Segs : s \in t.gone => s \notin Playable
      BY DEF StoreInv, GoneInv, Stored, Playable
    <3>2. \A s \in Segs : row'[s] = Absent \/ row'[s] = row[s]
      BY <2>2
    <3>3. \A s \in Segs : s \notin t.gone => row'[s] = row[s]
      BY <2>2
    <3> QED BY <3>1, <3>2, <3>3 DEF Indexed
  <2> QED BY <2>1, <2>2 DEF DeleteRows
<1>4. /\ HeldSegs' \subseteq Known
      /\ \A v \in purges' : \A x \in v.gone : x \in Stored' => \E w \in purges : x \in w.gone
  <2>1. CASE EndPass(t)
    BY <2>1, HeldEnd, HeldKnown DEF Known
  <2>2. CASE StepPass(t, [t EXCEPT !.pc = "next", !.gone = {}])
    <3> DEFINE u == [t EXCEPT !.pc = "next", !.gone = {}]
    <3>1. Held(u) \subseteq Held(t) /\ u.gone = {}
      BY PassFacts DEF Passes, Held
    <3> HIDE DEF u
    <3> QED BY <2>2, <3>1, HeldKnown, HeldStep DEF u
  <2> QED BY <2>1, <2>2 DEF DeleteRows
<1> QED BY <1>1, <1>2, <1>3, <1>4 DEF Harmless, Known

-----------------------------------------------------------------------------
(* The recorder, and the ends of the process.                               *)

\* The segment of a camera, and its place among the open ones.
LEMMA CurrentSegment ==
    ASSUME TypeInv, NEW c \in Cameras, cur[c] # Absent
    PROVE  /\ <<c, cur[c]>> \in Segs /\ <<c, cur[c]>> \in Open
           /\ ~opened[c] => <<c, cur[c]>> \in Fresh
           /\ \A s \in Open : Cam(s) = c => s = <<c, cur[c]>>
<1>1. <<c, cur[c]>> \in Segs
  BY SegmentParts DEF TypeInv, TypeOK, RecorderType
<1>2. Cam(<<c, cur[c]>>) = c /\ Start(<<c, cur[c]>>) = cur[c]
  BY DEF Cam, Start
<1>3. \A s \in Segs : s = <<Cam(s), Start(s)>>
  BY DEF Segs, Cam, Start
<1> QED BY <1>1, <1>2, <1>3 DEF Open, Fresh

LEMMA OpenSegmentStore ==
    ASSUME TypeInv, StoreInv, NEW c \in Cameras, OpenSegment(c) PROVE StoreInv'
<1>1. /\ cur' = [cur EXCEPT ![c] = now] /\ opened' = [opened EXCEPT ![c] = FALSE]
      /\ now' = now + 1 /\ cur[c] = Absent /\ phase' = phase /\ phase # "down"
      /\ UNCHANGED <<file, row, queue, inflight, scans, purges, crashes, losses, dropped>>
  BY DEF OpenSegment, history, budgets
<1>2. /\ Stored' = Stored /\ Playable' = Playable /\ Indexed' = Indexed /\ Queued' = Queued
      /\ ProbedSegs' = ProbedSegs /\ HeldSegs' = HeldSegs
  BY <1>1, SameSets
<1>3. Known' = Known
  BY <1>2 DEF Known
<1>4. now \in Int /\ cur \in [Cameras -> Instants \cup {Absent}] /\ opened \in [Cameras -> BOOLEAN]
  BY InstantFacts DEF TypeInv, TypeOK, ClockType, RecorderType
<1>5. \A s \in Fresh' : s \in Fresh \/ Start(s) = now
  <2> SUFFICES ASSUME NEW s \in Fresh' PROVE s \in Fresh \/ Start(s) = now
    OBVIOUS
  <2>1. s \in Segs /\ Cam(s) \in Cameras /\ cur'[Cam(s)] = Start(s) /\ ~opened'[Cam(s)]
    BY SegmentParts DEF Fresh, Open
  <2>2. CASE Cam(s) = c
    BY <1>1, <1>4, <2>1, <2>2
  <2>3. CASE Cam(s) # c
    BY <1>1, <1>4, <2>1, <2>3 DEF Fresh, Open
  <2> QED BY <2>2, <2>3
<1>6. Open \subseteq Open'
  <2> SUFFICES ASSUME NEW s \in Open PROVE s \in Open'
    OBVIOUS
  <2>1. s \in Segs /\ Cam(s) \in Cameras /\ cur[Cam(s)] = Start(s) /\ Start(s) # Absent
    BY SegmentParts, InstantFacts DEF Open
  <2>2. cur'[Cam(s)] = cur[Cam(s)]
    BY <1>1, <1>4, <2>1
  <2> QED BY <2>1, <2>2 DEF Open
<1>7. KnownInv'
  <2>1. \A s \in Known : Start(s) < now /\ s \notin Fresh /\ Start(s) \in Int
    <3>1. Known \subseteq Segs
      BY KnownSegs
    <3> QED BY <3>1, SegmentParts, InstantFacts DEF StoreInv, KnownInv
  <2>2. \A s \in Known : Start(s) < now'
    BY <1>1, <1>4, <2>1
  <2>3. \A s \in Known : s \notin Fresh'
    BY <1>4, <1>5, <2>1
  <2> QED BY <1>3, <2>2, <2>3 DEF KnownInv
<1>8. GoneInv' /\ DownInv' /\ HandInv'
  BY <1>1, <1>2 DEF StoreInv, GoneInv, DownInv, HandInv
<1>9. CoverInv'
  BY <1>1, <1>2, <1>6 DEF StoreInv, CoverInv, Covered
<1> QED BY <1>7, <1>8, <1>9 DEF StoreInv

LEMMA WritePartStore ==
    ASSUME TypeInv, TypeInv', StoreInv, NEW c \in Cameras, WritePart(c) PROVE StoreInv'
<1> DEFINE s == <<c, cur[c]>>
<1>1. /\ opened' = [opened EXCEPT ![c] = TRUE] /\ cur[c] # Absent
      /\ UNCHANGED <<now, phase, row, cur, queue, inflight, scans, purges, crashes, losses, dropped>>
      /\ now <= now
  BY ClockNumber DEF WritePart, history, budgets
<1>2. /\ s \in Segs /\ s \in Open /\ (~opened[c] => s \in Fresh)
      /\ \A x \in Open : Cam(x) = c => x = s
  BY <1>1, CurrentSegment
<1>3. /\ file \in [Segs -> Durations \cup {Absent}] /\ opened \in [Cameras -> BOOLEAN]
  BY DEF TypeInv, TypeOK, DiskType, RecorderType
<1>4. /\ \A x \in Segs : x # s => file'[x] = file[x]
      /\ opened[c] /\ file[s] = Absent => file' = file
  BY <1>2, <1>3 DEF WritePart
<1>5. phase' # "down"
  BY <1>1, OnlyWhileUp DEF StoreInv
<1>6. Fresh' = Fresh \ {s}
  <2>1. Open' = Open
    BY <1>1, SameSets
  <2>2. \A x \in Open : x # s => Cam(x) # c /\ Cam(x) \in Cameras
    BY <1>2, SegmentParts DEF Open
  <2>3. \A x \in Open : x # s => opened'[Cam(x)] = opened[Cam(x)]
    BY <1>1, <1>3, <2>2
  <2>4. Cam(s) = c /\ opened'[c] = TRUE
    BY <1>1, <1>3 DEF Cam
  <2> QED BY <2>1, <2>3, <2>4 DEF Fresh
<1>7. Stored' \subseteq Stored \cup (Fresh \ Fresh')
  <2>1. \A x \in Stored' : x \in Segs /\ (x # s => x \in Stored)
    BY <1>4 DEF Stored
  <2>2. s \in Stored' => s \in Stored \/ s \in Fresh
    BY <1>2, <1>4 DEF Stored
  <2> QED BY <1>6, <2>1, <2>2
<1>8. /\ Indexed' = Indexed /\ Queued' = Queued /\ ProbedSegs' = ProbedSegs
      /\ HeldSegs' = HeldSegs /\ Open' = Open
  BY <1>1, SameSets
<1> HIDE DEF s
<1>9. LearnsNothing
  BY <1>1, <1>6, <1>7, <1>8 DEF LearnsNothing, Known
<1>10. KnownInv' /\ GoneInv'
  BY <1>9, LearningKeeps DEF StoreInv
<1>11. CoverInv'
  <2>1. Playable' \subseteq Playable \cup {s}
    BY <1>4 DEF Playable
  <2> QED BY <1>1, <1>2, <1>8, <2>1 DEF StoreInv, CoverInv, Covered
<1> QED BY <1>1, <1>5, <1>10, <1>11 DEF StoreInv, DownInv, HandInv

\* The ways a closed segment's row can go: the queue, the synchronous insert, given
\* up, or no row because the segment has no file.
LEMMA RowWays ==
    ASSUME TypeInv, NEW c \in Cameras, cur[c] # Absent, NEW e \in Closings(c), Finalize(c, e)
    PROVE  LET s == <<c, cur[c]>> IN
           \/ /\ e.dur # Absent /\ row' = row /\ dropped' = dropped
              /\ queue' = Append(queue, Item(s, e.dur))
           \/ /\ e.dur # Absent /\ queue' = queue /\ dropped' = dropped
              /\ row' = [row EXCEPT ![s] = e.dur]
           \/ queue' = queue /\ row' = row /\ dropped' = dropped \cup {s}
           \/ /\ ~opened[c] /\ e.len = Absent
              /\ queue' = queue /\ row' = row /\ dropped' = dropped
<1> DEFINE s == <<c, cur[c]>>
<1>1. CASE e.failed
  <2>1. CASE e.dur = Absent
    BY <1>1, <2>1 DEF Finalize
  <2>2. CASE e.dur # Absent
    BY <1>1, <2>2 DEF Finalize
  <2> QED BY <2>1, <2>2
<1>2. CASE ~e.failed
  <2>1. CASE e.dur # Absent
    BY <1>2, <2>1 DEF Finalize, Enqueue
  <2>2. CASE e.dur = Absent
    <3>1. ~opened[c] /\ e.len = Absent
      <4>1. CASE opened[c]
        <5>1. now - cur[c] # Absent /\ mtime[s] - cur[c] # Absent
          <6>1. /\ cur[c] \in Instants /\ cur[c] < now /\ now \in Instants
                /\ mtime[s] \in Instants /\ cur[c] <= mtime[s]
            BY <4>1, ClosingIsTyped DEF TypeInv, TypeOK, ClockType, DiskType, ClockInv
          <6>2. cur[c] \in Int /\ now \in Int /\ mtime[s] \in Int
            BY <6>1, InstantFacts
          <6> QED BY <6>1, <6>2 DEF Absent
        <5>2. e.dur \in {now - cur[c], mtime[s] - cur[c]}
          BY <1>2, <4>1 DEF Closings
        <5> QED BY <2>2, <5>1, <5>2
      <4>2. CASE ~opened[c]
        <5>1. now - cur[c] # Absent
          <6>1. cur[c] \in Instants /\ cur[c] < now /\ now \in Instants
            BY ClosingIsTyped DEF TypeInv, TypeOK, ClockType
          <6>2. cur[c] \in Int /\ now \in Int
            BY <6>1, InstantFacts
          <6> QED BY <6>1, <6>2 DEF Absent
        <5>2. e.dur = now - cur[c] \/ e.len = Absent
          BY <1>2, <4>2 DEF Closings
        <5> QED BY <2>2, <4>2, <5>1, <5>2
      <4> QED BY <4>1, <4>2
    <3> QED BY <1>2, <2>2, <3>1 DEF Finalize
  <2> QED BY <2>1, <2>2
<1> QED BY <1>1, <1>2

\* What the end of a segment does to the sets: it is no longer open, and if it can
\* be played it is indexed, queued or given up.
LEMMA FinalizeEffect ==
    ASSUME TypeInv, NEW c \in Cameras, cur[c] # Absent, NEW e \in Closings(c), Finalize(c, e),
           inflight' = inflight
    PROVE  LET s == <<c, cur[c]>> IN
           /\ s \in Open /\ Open' = Open \ {s} /\ Fresh' = Fresh \ {s}
           /\ Stored' \subseteq Stored \cup ({s} \cap Fresh) /\ Playable' \subseteq Playable \cup {s}
           /\ Indexed \subseteq Indexed' /\ Queued \subseteq Queued' /\ dropped \subseteq dropped'
           /\ Indexed' \cup Queued' \subseteq Indexed \cup Queued \cup {s}
           /\ s \in Playable' => s \in Indexed' \cup Queued' \cup dropped'
<1> DEFINE s == <<c, cur[c]>>
<1>1. /\ s \in Segs /\ s \in Open /\ (~opened[c] => s \in Fresh)
      /\ \A x \in Open : Cam(x) = c => x = s
  BY CurrentSegment
<1>2. /\ file \in [Segs -> Durations \cup {Absent}] /\ opened \in [Cameras -> BOOLEAN]
      /\ cur \in [Cameras -> Instants \cup {Absent}]
  BY DEF TypeInv, TypeOK, DiskType, RecorderType
<1>3. Cam(s) = c
  BY DEF Cam
<1>4. Open' = Open \ {s} /\ Fresh' = Fresh \ {s}
  <2>1. /\ cur' = [cur EXCEPT ![c] = Absent] /\ opened' = [opened EXCEPT ![c] = FALSE]
    BY DEF Finalize
  <2>2. \A x \in Segs : Cam(x) # c => /\ Cam(x) \in Cameras /\ cur'[Cam(x)] = cur[Cam(x)]
                                      /\ opened'[Cam(x)] = opened[Cam(x)]
    BY <1>2, <2>1, SegmentParts
  <2>3. \A x \in Segs : Cam(x) = c => cur'[Cam(x)] # Start(x)
    BY <1>2, <2>1, SegmentParts, InstantFacts
  <2> HIDE DEF s
  <2>4. Open' = Open \ {s}
    BY <1>1, <1>3, <2>2, <2>3 DEF Open
  <2> QED BY <1>1, <1>3, <2>2, <2>4 DEF Fresh, Open
<1>5. /\ \A x \in Segs : x # s => file'[x] = file[x]
      /\ file[s] = Absent /\ opened[c] => file' = file
      /\ ~(file[s] = Absent /\ opened[c]) => file'[s] = e.len
  BY <1>1, <1>2 DEF Finalize
<1>6. Stored' \subseteq Stored \cup ({s} \cap Fresh) /\ Playable' \subseteq Playable \cup {s}
  <2>1. \A x \in Stored' : x # s => x \in Stored
    BY <1>5 DEF Stored
  <2>2. s \in Stored' => s \in Stored \/ s \in Fresh
    BY <1>1, <1>5 DEF Stored
  <2>3. \A x \in Playable' : x # s => x \in Playable
    BY <1>5 DEF Playable
  <2> QED BY <2>1, <2>2, <2>3
<1>7. \/ /\ e.dur # Absent /\ row' = row /\ dropped' = dropped
         /\ queue' = Append(queue, Item(s, e.dur))
      \/ /\ e.dur # Absent /\ queue' = queue /\ dropped' = dropped
         /\ row' = [row EXCEPT ![s] = e.dur]
      \/ queue' = queue /\ row' = row /\ dropped' = dropped \cup {s}
      \/ /\ ~opened[c] /\ e.len = Absent
         /\ queue' = queue /\ row' = row /\ dropped' = dropped
  BY RowWays
<1>8. e.dur # Absent => e.dur \in Durations
  BY ClosingIsTyped
<1>9. /\ Indexed \subseteq Indexed' /\ Queued \subseteq Queued' /\ dropped \subseteq dropped'
      /\ Indexed' \cup Queued' \subseteq Indexed \cup Queued \cup {s}
      /\ s \in Playable' => s \in Indexed' \cup Queued' \cup dropped'
  <2>1. CASE /\ e.dur # Absent /\ row' = row /\ dropped' = dropped
             /\ queue' = Append(queue, Item(s, e.dur))
    <3>1. Item(s, e.dur).seg = s /\ ~Item(s, e.dur).barrier
      BY DEF Item
    <3>2. Queued' = Queued \cup {s}
      BY <2>1, <3>1, SentItem
    <3> QED BY <2>1, <3>2, SameSets
  <2>2. CASE /\ e.dur # Absent /\ queue' = queue /\ dropped' = dropped
             /\ row' = [row EXCEPT ![s] = e.dur]
    <3>1. Indexed' = Indexed \cup {s}
      BY <1>1, <1>8, <2>2, RowGained
    <3> QED BY <2>2, <3>1, SameSets
  <2>3. CASE queue' = queue /\ row' = row /\ dropped' = dropped \cup {s}
    BY <2>3, SameSets
  <2>4. CASE /\ ~opened[c] /\ e.len = Absent
             /\ queue' = queue /\ row' = row /\ dropped' = dropped
    <3>1. s \notin Playable'
      BY <1>5, <2>4 DEF Playable
    <3> QED BY <2>4, <3>1, SameSets
  <2> QED BY <1>7, <2>1, <2>2, <2>3, <2>4
<1> QED BY <1>1, <1>4, <1>6, <1>9

\* The end of a segment, and a pass that may start with it, holding nothing.
LEMMA FinalizeStore ==
    ASSUME TypeInv, TypeInv', StoreInv, NEW c \in Cameras, cur[c] # Absent,
           NEW e \in Closings(c), Finalize(c, e),
           UNCHANGED <<now, phase, inflight, scans, crashes, losses>>,
           HeldSegs' \subseteq HeldSegs,
           \A t \in purges' : \A x \in t.gone : \E u \in purges : x \in u.gone
    PROVE  StoreInv'
<1> DEFINE s == <<c, cur[c]>>
<1>1. /\ s \in Open /\ Open' = Open \ {s} /\ Fresh' = Fresh \ {s}
      /\ Stored' \subseteq Stored \cup ({s} \cap Fresh) /\ Playable' \subseteq Playable \cup {s}
      /\ Indexed \subseteq Indexed' /\ Queued \subseteq Queued' /\ dropped \subseteq dropped'
      /\ Indexed' \cup Queued' \subseteq Indexed \cup Queued \cup {s}
      /\ s \in Playable' => s \in Indexed' \cup Queued' \cup dropped'
  BY FinalizeEffect
<1>2. ProbedSegs' = ProbedSegs /\ phase' # "down" /\ now <= now'
  BY SameSets, OnlyWhileUp, ClockNumber DEF StoreInv
<1> HIDE DEF s
<1>3. LearnsNothing
  BY <1>1, <1>2 DEF LearnsNothing, Known
<1>4. KnownInv' /\ GoneInv'
  BY <1>3, LearningKeeps DEF StoreInv
<1>5. CoverInv'
  BY <1>1 DEF StoreInv, CoverInv, Covered
<1>6. DownInv' /\ HandInv'
  BY <1>2 DEF StoreInv, DownInv, HandInv
<1> QED BY <1>4, <1>5, <1>6 DEF StoreInv

LEMMA CloseSegmentStore ==
    ASSUME TypeInv, TypeInv', StoreInv, NEW c \in Cameras, CloseSegment(c) PROVE StoreInv'
<1>1. PICK e \in Closings(c) : Finalize(c, e)
  BY DEF CloseSegment
<1>2. /\ cur[c] # Absent
      /\ UNCHANGED <<now, phase, inflight, scans, purges, crashes, losses>>
  BY DEF CloseSegment
<1>3. HeldSegs' \subseteq HeldSegs
  BY <1>2, SameSets
<1> QED BY <1>1, <1>2, <1>3, FinalizeStore

\* Detaching a camera ends its open segment.
LEMMA DetachStore ==
    ASSUME TypeInv, TypeInv', StoreInv, NEW c \in Cameras, Detach(c),
           HeldSegs' \subseteq HeldSegs,
           \A t \in purges' : \A x \in t.gone : \E u \in purges : x \in u.gone
    PROVE  StoreInv'
<1>1. /\ UNCHANGED <<now, phase, inflight, scans, crashes, losses>> /\ phase # "down"
      /\ now <= now
  BY ClockNumber DEF Detach
<1>2. CASE cur[c] # Absent
  <2>1. PICK e \in Closings(c) : Finalize(c, e)
    BY <1>2 DEF Detach
  <2> QED BY <1>1, <1>2, <2>1, FinalizeStore
<1>3. CASE cur[c] = Absent
  <2>1. UNCHANGED <<cur, opened, file, queue, row, dropped>>
    BY <1>3 DEF Detach
  <2>2. /\ Stored' = Stored /\ Playable' = Playable /\ Indexed' = Indexed
        /\ Queued' = Queued /\ ProbedSegs' = ProbedSegs
    BY <1>1, <2>1, SameSets
  <2>3. Harmless
    BY <1>1, <2>1, <2>2 DEF Harmless, Known
  <2> QED BY <2>3, HarmlessKeeps
<1> QED BY <1>2, <1>3

LEMMA DisableCameraStore ==
    ASSUME TypeInv, TypeInv', StoreInv, NEW c \in Cameras, DisableCamera(c) PROVE StoreInv'
<1>1. Detach(c) /\ purges' = purges
  BY DEF DisableCamera
<1>2. HeldSegs' \subseteq HeldSegs
  BY <1>1, SameSets
<1> QED BY <1>1, <1>2, DetachStore

LEMMA DeleteCameraStore ==
    ASSUME TypeInv, TypeInv', StoreInv, NEW c \in Cameras, DeleteCamera(c) PROVE StoreInv'
<1> DEFINE u == Pass("camera", c, 0, "removed", {})
<1>1. Detach(c) /\ purges' = purges \cup {u}
  BY DEF DeleteCamera
<1>2. Held(u) = {} /\ u.gone = {}
  BY DEF Held, Pass
<1> HIDE DEF u
<1>3. \A t \in purges' : t \in purges \/ t = u
  BY <1>1
<1>4. HeldSegs' \subseteq HeldSegs
  BY <1>2, <1>3 DEF HeldSegs, Held
<1> QED BY <1>1, <1>2, <1>3, <1>4, DetachStore

\* Close leaves nothing in memory.
LEMMA FinishCloseStore == ASSUME TypeInv, StoreInv, FinishClose PROVE StoreInv'
<1>1. /\ UNCHANGED <<now, file, row, cur, opened, scans, purges, crashes, losses, dropped>>
      /\ phase' = "down" /\ queue = <<>> /\ inflight = <<>> /\ queue' = <<>> /\ inflight' = <<>>
      /\ scans = {} /\ purges = {} /\ \A c \in Cameras : cur[c] = Absent
  BY DEF FinishClose, Drained, history, budgets
<1>2. Pending = {} /\ Pending' = {}
  BY <1>1 DEF Pending
<1>3. Open = {} /\ Open' = {}
  BY <1>1, SegmentParts, InstantFacts DEF Open
<1>4. /\ Stored' = Stored /\ Playable' = Playable /\ Indexed' = Indexed /\ Queued' = Queued
      /\ ProbedSegs' = ProbedSegs /\ HeldSegs' = HeldSegs /\ Fresh' = Fresh
  BY <1>1, SameSets
<1>5. KnownInv'
  BY <1>1, <1>4 DEF StoreInv, KnownInv, Known
<1>6. GoneInv'
  BY <1>1 DEF GoneInv
<1>7. DownInv' /\ HandInv'
  BY <1>1, <1>2, <1>3 DEF DownInv, HandInv
<1>8. CoverInv'
  BY <1>1, <1>3, <1>4 DEF StoreInv, CoverInv, Covered
<1> QED BY <1>5, <1>6, <1>7, <1>8 DEF StoreInv

\* A crash loses memory; what was only being recorded may have a file now.
LEMMA CrashStore == ASSUME TypeInv, TypeInv', StoreInv, Crash PROVE StoreInv'
<1>1. PICK P \in SUBSET {s \in Open : ~opened[Cam(s)]} :
        file' = [s \in Segs |-> IF s \in P THEN 0 ELSE file[s]]
  BY DEF Crash
<1>2. /\ UNCHANGED <<now, row, losses>> /\ now <= now /\ phase' = "down"
      /\ crashes' = crashes + 1 /\ crashes \in Nat
      /\ scans' = {} /\ purges' = {} /\ queue' = <<>> /\ inflight' = <<>>
      /\ \A c \in Cameras : cur'[c] = Absent
  BY ClockNumber, SizesAssumption DEF Crash, TypeInv, TypeOK, BudgetType
<1>3. Open' = {} /\ Fresh' = {}
  BY <1>2, SegmentParts, InstantFacts DEF Open, Fresh
<1>4. Pending' = {} /\ Queued' = {} /\ ProbedSegs' = {} /\ HeldSegs' = {}
  BY <1>2 DEF Pending, Queued, ProbedSegs, HeldSegs
<1>5. Indexed' = Indexed
  BY <1>2, SameSets
<1>6. Stored' \subseteq Stored \cup Fresh
  <2>1. \A s \in Segs : s \notin P => file'[s] = file[s]
    BY <1>1
  <2>2. P \subseteq Fresh
    BY DEF Fresh
  <2> QED BY <2>1, <2>2 DEF Stored
<1>7. LearnsNothing
  BY <1>2, <1>3, <1>4, <1>5, <1>6 DEF LearnsNothing, Known
<1>8. KnownInv' /\ GoneInv'
  BY <1>7, LearningKeeps DEF StoreInv
<1>9. DownInv' /\ HandInv'
  BY <1>2, <1>3, <1>4 DEF DownInv, HandInv
<1>10. CoverInv'
  BY <1>2 DEF CoverInv
<1> QED BY <1>8, <1>9, <1>10 DEF StoreInv

LEMMA LoseIndexStore == ASSUME TypeInv, TypeInv', StoreInv, LoseIndex PROVE StoreInv'
<1>1. /\ UNCHANGED <<now, phase, file, cur, opened, queue, inflight, scans, purges>> /\ now <= now
      /\ losses' = losses + 1 /\ losses \in Nat
  BY ClockNumber, SizesAssumption DEF LoseIndex, memory, TypeInv, TypeOK, BudgetType
<1>2. Indexed' = {}
  BY DEF LoseIndex, Indexed
<1>3. /\ Stored' = Stored /\ Pending' = Pending /\ Queued' = Queued /\ Open' = Open /\ Fresh' = Fresh
      /\ ProbedSegs' = ProbedSegs /\ HeldSegs' = HeldSegs
  BY <1>1, SameSets
<1>4. KnownInv'
  BY <1>1, <1>2, <1>3 DEF StoreInv, KnownInv, Known
<1>5. GoneInv' /\ DownInv' /\ HandInv'
  BY <1>1, <1>3 DEF StoreInv, GoneInv, DownInv, HandInv
<1>6. CoverInv'
  BY <1>1 DEF CoverInv
<1> QED BY <1>4, <1>5, <1>6 DEF StoreInv

LEMMA StutterStore == ASSUME StoreInv, UNCHANGED vars PROVE StoreInv'
<1>1. /\ UNCHANGED <<now, phase, file, row, crashes, losses, dropped>>
      /\ UNCHANGED <<cur, opened, queue, inflight, scans, purges>>
  BY DEF vars, memory, history, budgets
<1>2. /\ Stored' = Stored /\ Playable' = Playable /\ Indexed' = Indexed
      /\ Pending' = Pending /\ Queued' = Queued /\ Open' = Open /\ Fresh' = Fresh
      /\ ProbedSegs' = ProbedSegs /\ HeldSegs' = HeldSegs
  BY <1>1, SameSets
<1>3. KnownInv' /\ CoverInv'
  BY <1>1, <1>2 DEF StoreInv, KnownInv, CoverInv, Known, Covered
<1>4. GoneInv' /\ HandInv' /\ DownInv'
  BY <1>1, <1>2 DEF StoreInv, GoneInv, HandInv, DownInv
<1> QED BY <1>3, <1>4 DEF StoreInv

LEMMA InitStore == Init => StoreInv
<1> SUFFICES ASSUME Init PROVE StoreInv
  OBVIOUS
<1>1. Stored = {} /\ Playable = {} /\ Indexed = {}
  BY DEF Init, Stored, Playable, Indexed
<1>2. Pending = {} /\ Queued = {} /\ ProbedSegs = {} /\ HeldSegs = {}
  BY DEF Init, Pending, Queued, ProbedSegs, HeldSegs
<1>3. KnownInv /\ CoverInv
  BY <1>1, <1>2 DEF KnownInv, Known, CoverInv
<1>4. GoneInv /\ HandInv /\ DownInv
  BY DEF Init, GoneInv, HandInv, DownInv
<1> QED BY <1>3, <1>4 DEF StoreInv

\* Every step keeps what is known, what is gone and what is accounted for.
LEMMA NextStore == ASSUME TypeInv, TypeInv', StoreInv, [Next]_vars PROVE StoreInv'
<1>1. CASE Tick
  BY <1>1, TickHarmless, HarmlessKeeps
<1>2. CASE Indexer
  BY <1>2, IndexerTakeHarmless, IndexerInsertHarmless, IndexerGiveUpHarmless,
     IndexerBarrierHarmless, HarmlessKeeps DEF Indexer
<1>3. CASE Process
  <2>1. CASE BootDone \/ BeginClose \/ Restart
    BY <2>1, BootDoneHarmless, BeginCloseHarmless, RestartHarmless, HarmlessKeeps
  <2>2. CASE FinishClose \/ Crash \/ LoseIndex
    BY <2>2, FinishCloseStore, CrashStore, LoseIndexStore
  <2> QED BY <1>3, <2>1, <2>2 DEF Process
<1>4. ASSUME NEW c \in Cameras, Recorder(c) PROVE StoreInv'
  BY <1>4, OpenSegmentStore, WritePartStore, CloseSegmentStore DEF Recorder
<1>5. ASSUME NEW c \in Cameras, Operator(c) PROVE StoreInv'
  <2>1. CASE BootCamera(c) \/ EnableCamera(c)
    BY <2>1, BootCameraHarmless, EnableCameraHarmless, HarmlessKeeps
  <2>2. CASE DisableCamera(c) \/ DeleteCamera(c)
    BY <2>2, DisableCameraStore, DeleteCameraStore
  <2> QED BY <1>5, <2>1, <2>2 DEF Operator
<1>6. ASSUME NEW t \in scans, Reindex(t) PROVE StoreInv'
  BY <1>6, ReindexRangeHarmless, ReindexProbeHarmless, ReindexInsertHarmless,
     ReindexDoneHarmless, HarmlessKeeps DEF Reindex
<1>7. ASSUME NEW t \in purges, PurgeStep(t) PROVE StoreInv'
  <2>1. CASE StartCameraPurge(t) \/ FlushIndex(t) \/ QueryCamera(t) \/ NextBatch(t)
    BY <2>1, StartCameraPurgeHarmless, FlushIndexHarmless, QueryCameraHarmless,
       NextBatchHarmless, HarmlessKeeps
  <2>2. CASE Unlink(t) \/ DeleteRows(t) \/ UnlinkOrphan(t) \/ EndCameraPurge(t)
    BY <2>2, UnlinkOneHarmless, DeleteRowsHarmless, UnlinkOrphanHarmless,
       EndCameraPurgeHarmless, HarmlessKeeps
  <2> QED BY <1>7, <2>1, <2>2 DEF PurgeStep
<1>8. ASSUME NEW k \in {"clean", "sweep"}, StartRetention(k) PROVE StoreInv'
  BY <1>8, StartRetentionHarmless, HarmlessKeeps
<1>9. CASE StartFree
  BY <1>9, StartFreeHarmless, HarmlessKeeps
<1>10. CASE UNCHANGED vars
  BY <1>10, StutterStore
<1> QED BY <1>1, <1>2, <1>3, <1>4, <1>5, <1>6, <1>7, <1>8, <1>9, <1>10 DEF Next

LEMMA StoreHolds == Spec => [](TypeInv /\ StoreInv)
<1>1. Init => TypeInv /\ StoreInv
  BY InitType, InitStore
<1>2. TypeInv /\ StoreInv /\ [Next]_vars => TypeInv' /\ StoreInv'
  BY NextType, NextStore
<1> QED BY <1>1, <1>2, PTL DEF Spec

\* A graceful stop loses nothing: Close drains the queue, so every playable file
\* has its row, or the row was given up after a failure.
THEOREM StopIndexesAll == Spec => []GracefulStopIndexesAll
<1>1. TypeInv /\ StoreInv => GracefulStopIndexesAll
  <2> SUFFICES ASSUME StoreInv, phase = "down", crashes = 0, losses = 0
               PROVE  Playable \subseteq Indexed \cup dropped
    BY DEF GracefulStopIndexesAll
  <2>1. Open = {} /\ Pending = {} /\ Playable \subseteq Covered
    BY DEF StoreInv, DownInv, CoverInv
  <2>2. Queued = {}
    BY <2>1 DEF Queued
  <2> QED BY <2>1, <2>2 DEF Covered
<1> QED BY <1>1, StoreHolds, PTL

\* Nothing is forgotten as long as the process does not crash and the index file
\* stays: neither a full queue, nor a failed write, unlink or transaction, nor a
\* camera engaged again leaves footage that no row leads to.
THEOREM FootageIsAccounted ==
    Spec /\ [](crashes = 0 /\ losses = 0) => []FootageAccounted
<1>1. TypeInv /\ StoreInv /\ crashes = 0 /\ losses = 0 => FootageAccounted
  BY DEF StoreInv, CoverInv, Covered, FootageAccounted
<1> QED BY <1>1, StoreHolds, PTL

\* One step takes a row only if its file is gone already, unless the index is lost.
LEMMA RowsStay ==
    ASSUME TypeInv, StoreInv, [Next]_vars, losses' = losses
    PROVE  \A s \in Indexed : s \in Indexed' \/ s \notin Stored
<1>0. (row' = row => Indexed' = Indexed)
  BY SameSets
<1>1. CASE Tick
  BY <1>0, <1>1 DEF Tick
<1>2. CASE Indexer
  <2>1. ASSUME IndexerInsert PROVE Indexed \subseteq Indexed'
    <3>1. inflight \in Seq(Items) /\ Len(inflight) = 1
      BY <2>1 DEF TypeInv, TypeOK, QueueType, StoreInv, HandInv, IndexerInsert
    <3>2. inflight[1] \in Items
      BY <3>1
    <3>3. inflight[1].seg \in Segs /\ inflight[1].len \in Durations
      BY <3>2 DEF Items
    <3> QED BY <2>1, <3>3, RowGained DEF IndexerInsert
  <2>2. CASE IndexerTake \/ IndexerGiveUp \/ IndexerBarrier
    BY <1>0, <2>2 DEF IndexerTake, IndexerGiveUp, IndexerBarrier
  <2> QED BY <1>2, <2>1, <2>2 DEF Indexer
<1>3. CASE Process
  <2>1. CASE BootDone \/ BeginClose \/ FinishClose \/ Crash
    BY <1>0, <2>1 DEF BootDone, BeginClose, FinishClose, Crash
  <2>2. ASSUME Restart PROVE Indexed \subseteq Indexed'
    <3>1. \A s \in Indexed : row'[s] = row[s]
      BY <2>2 DEF Restart, Indexed
    <3> QED BY <3>1 DEF Indexed
  <2>3. ~LoseIndex
    BY SizesAssumption DEF LoseIndex, TypeInv, TypeOK, BudgetType
  <2> QED BY <1>3, <2>1, <2>2, <2>3 DEF Process
<1>4. ASSUME NEW c \in Cameras, Recorder(c) PROVE Indexed \subseteq Indexed'
  <2>1. CASE OpenSegment(c) \/ WritePart(c)
    BY <1>0, <2>1 DEF OpenSegment, WritePart
  <2>2. CASE CloseSegment(c)
    BY <2>2, FinalizeEffect DEF CloseSegment
  <2> QED BY <1>4, <2>1, <2>2 DEF Recorder
<1>5. ASSUME NEW c \in Cameras, Operator(c) PROVE Indexed \subseteq Indexed'
  <2>1. CASE BootCamera(c) \/ EnableCamera(c)
    BY <2>1, EngageAdds DEF BootCamera, EnableCamera
  <2>2. ASSUME Detach(c) PROVE Indexed \subseteq Indexed'
    <3>1. CASE cur[c] # Absent
      BY <2>2, <3>1, FinalizeEffect DEF Detach
    <3>2. CASE cur[c] = Absent
      BY <1>0, <2>2, <3>2 DEF Detach
    <3> QED BY <3>1, <3>2
  <2> QED BY <1>5, <2>1, <2>2 DEF Operator, DisableCamera, DeleteCamera
<1>6. ASSUME NEW t \in scans, Reindex(t) PROVE Indexed \subseteq Indexed'
  <2>1. CASE ReindexRange(t) \/ ReindexProbe(t) \/ ReindexDone(t)
    BY <1>0, <2>1 DEF ReindexRange, ReindexProbe, ReindexDone
  <2>2. CASE ReindexInsert(t)
    BY <1>0, <2>2, ScanFacts, RowGained DEF ReindexInsert
  <2> QED BY <1>6, <2>1, <2>2 DEF Reindex
<1>7. ASSUME NEW t \in purges, PurgeStep(t)
      PROVE  \A s \in Indexed : s \in Indexed' \/ s \notin Stored
  <2>1. CASE StartCameraPurge(t) \/ FlushIndex(t) \/ QueryCamera(t) \/ NextBatch(t)
    BY <1>0, <2>1 DEF StartCameraPurge, FlushIndex, QueryCamera, NextBatch
  <2>2. CASE Unlink(t) \/ UnlinkOrphan(t) \/ EndCameraPurge(t)
    BY <1>0, <2>2 DEF Unlink, UnlinkOrphan, EndCameraPurge
  <2>3. ASSUME DeleteRows(t) PROVE \A s \in Indexed : s \in Indexed' \/ s \notin Stored
    <3>1. CASE row' = row
      BY <1>0, <3>1
    <3>2. CASE row' = [s \in Segs |-> IF s \in t.gone THEN Absent ELSE row[s]]
      <4>1. \A s \in Indexed : s \in t.gone \/ row'[s] = row[s]
        BY <3>2 DEF Indexed
      <4>2. t.gone \cap Stored = {}
        BY DEF StoreInv, GoneInv
      <4> QED BY <4>1, <4>2 DEF Indexed
    <3> QED BY <2>3, <3>1, <3>2 DEF DeleteRows
  <2> QED BY <1>7, <2>1, <2>2, <2>3 DEF PurgeStep
<1>8. ASSUME NEW k \in {"clean", "sweep"}, StartRetention(k) PROVE Indexed' = Indexed
  BY <1>0, <1>8 DEF StartRetention
<1>9. CASE StartFree
  BY <1>0, <1>9 DEF StartFree
<1>10. CASE UNCHANGED vars
  BY <1>0, <1>10 DEF vars
<1> QED BY <1>1, <1>2, <1>3, <1>4, <1>5, <1>6, <1>7, <1>8, <1>9, <1>10 DEF Next

\* Playable footage never becomes unknown to the index that knew it, whatever step
\* of a purge fails: the transaction follows the unlinks.
THEOREM RowsLast == Spec /\ [](losses = 0) => RowsOutliveFiles
<1>1. TypeInv /\ StoreInv /\ losses = 0 /\ (losses = 0)' /\ [Next]_vars
        => [\A s \in Playable \cap Indexed : row'[s] = Absent => file'[s] = Absent]_vars
  <2> SUFFICES ASSUME TypeInv, StoreInv, losses = 0, losses' = 0, [Next]_vars,
                      NEW s \in Playable \cap Indexed, row'[s] = Absent
               PROVE  FALSE
    OBVIOUS
  <2>1. s \notin Indexed' /\ s \in Stored
    BY DEF Indexed, Playable, Stored
  <2> QED BY <2>1, RowsStay
<1> QED BY <1>1, StoreHolds, PTL DEF Spec, RowsOutliveFiles

-----------------------------------------------------------------------------
(* As long as no camera records while a Reindex walks its footage: the row  *)
(* of a file covers it, and retention spares what is young or open.         *)

\* The Reindex of a camera that records meanwhile is the exception (it probes a
\* file that still grows).
Calm == \A t \in scans : cur[t.cam] = Absent

\* What is indexed, on its way to the index, or held by a pass, is not open.
ClosedInv == (Indexed \cup Queued \cup HeldSegs) \cap Open = {}

\* Only an engaged camera records, and no longer than Idle without a write.
EngagedInv == \A c \in Cameras : cur[c] # Absent => c \in engaged /\ now - LastWrite(c) <= Idle

\* A file holds nothing after its last write; an open segment keeps its file.
WrittenInv ==
    /\ \A s \in Stored : Start(s) + file[s] <= mtime[s]
    /\ \A c \in Cameras : cur[c] # Absent /\ opened[c] => <<c, cur[c]>> \in Stored

\* A row, and the item or the probe it comes from, covers the file.
LengthInv ==
    /\ \A s \in Indexed : file[s] <= row[s]
    /\ \A i \in Pending : ~i.barrier => file[i.seg] <= i.len
    /\ \A t \in scans : t.seg \in Of(t.cam) /\ (t.pc = "insert" => file[t.seg] <= t.len)

\* What clean and the sweep hold is older than their cutoff, and that is older
\* than the window.
RetainInv ==
    \A t \in purges : t.kind \in {"clean", "sweep"} =>
        /\ t.cutoff + Retain <= now
        /\ \A s \in Held(t) \cap Stored : Start(s) + file[s] <= t.cutoff

QuietInv == ClosedInv /\ EngagedInv /\ WrittenInv /\ LengthInv /\ RetainInv

\* A step that is not the recorder's: what it may do to each of these.
CalmRecorder ==
    /\ cur' = cur /\ opened' = opened /\ mtime' = mtime /\ engaged \subseteq engaged'
    /\ now' = now \/ (MayAdvance /\ now' = now + 1)
CalmFiles == \A s \in Segs : file'[s] = file[s] \/ (file'[s] = Absent /\ s \in HeldSegs)
CalmRows == \A s \in Indexed' : (s \in Indexed /\ row'[s] = row[s])
                                   \/ (s \notin Open /\ file[s] <= row'[s])
CalmQueue == \A i \in Pending' : i.barrier \/ i \in Pending
CalmPass(t) ==
    /\ Held(t) \cap Open = {}
    /\ t.kind \in {"clean", "sweep"} =>
         /\ t.cutoff + Retain <= now
         /\ \A s \in Held(t) \cap Stored : Start(s) + file[s] <= t.cutoff
CalmPasses == \A t \in purges' : CalmPass(t)
CalmScan(t) == t.seg \in Of(t.cam) /\ (t.pc = "insert" => file[t.seg] <= t.len)
CalmScans == \A t \in scans' : CalmScan(t)
CalmStep == CalmRecorder /\ CalmFiles /\ CalmRows /\ CalmQueue /\ CalmPasses /\ CalmScans

\* The numbers involved.
LEMMA StoreNumbers ==
    ASSUME TypeInv
    PROVE  /\ now \in Int /\ Retain \in Int /\ Idle \in Int /\ Idle <= Retain /\ 1 <= Idle
           /\ \A s \in Segs : /\ Start(s) \in Int /\ file[s] \in Int /\ mtime[s] \in Int
                              /\ row[s] \in Int /\ Absent <= row[s] /\ Absent <= file[s]
           /\ \A c \in Cameras : cur[c] \in Int /\ (cur[c] # Absent => LastWrite(c) \in Int)
           /\ \A t \in purges : t.cutoff \in Int
           /\ \A i \in Pending : i.seg \in Segs /\ i.len \in Int /\ Absent <= i.len
<1>1. now \in Int /\ Retain \in Int /\ Idle \in Int /\ Idle <= Retain /\ 1 <= Idle
  BY InstantFacts, SizesAssumption, RetainAssumption DEF TypeInv, TypeOK, ClockType
<1>2. \A x \in Durations \cup {Absent} : x \in Int /\ Absent <= x
  BY SizesAssumption DEF Durations, Absent
<1>3. \A s \in Segs : /\ Start(s) \in Int /\ file[s] \in Int /\ mtime[s] \in Int
                      /\ row[s] \in Int /\ Absent <= row[s] /\ Absent <= file[s]
  BY <1>2, SegmentParts, InstantFacts DEF TypeInv, TypeOK, DiskType
<1>4. \A c \in Cameras : cur[c] \in Int /\ (cur[c] # Absent => LastWrite(c) \in Int)
  <2> TAKE c \in Cameras
  <2>1. cur[c] \in Instants \cup {Absent} /\ cur[c] \in Int
    BY InstantFacts DEF TypeInv, TypeOK, RecorderType
  <2>2. cur[c] # Absent => <<c, cur[c]>> \in Segs
    BY <2>1, SegmentParts
  <2>3. CASE cur[c] # Absent
    BY <1>3, <2>1, <2>2, <2>3 DEF LastWrite
  <2> QED BY <2>1, <2>3
<1>5. \A t \in purges : t.cutoff \in Int
  BY PassFacts, InstantFacts DEF Passes
<1>6. \A i \in Pending : i.seg \in Segs /\ i.len \in Int /\ Absent <= i.len
  <2>1. \A i \in Pending : i \in Items
    BY DEF Pending, TypeInv, TypeOK, QueueType
  <2> QED BY <1>2, <2>1 DEF Items
<1> QED BY <1>1, <1>3, <1>4, <1>5, <1>6

\* Such a step keeps all of it.
LEMMA CalmKeeps == ASSUME TypeInv, TypeInv', QuietInv, CalmStep PROVE QuietInv'
<1>1. Open' = Open /\ Segs = Segs'
  BY SameSets DEF CalmStep, CalmRecorder
<1>2. Stored' \subseteq Stored /\ \A s \in Stored' : file'[s] = file[s]
  BY DEF Stored, CalmStep, CalmFiles
<1>3. \A s \in Segs : file'[s] <= file[s]
  BY StoreNumbers DEF CalmStep, CalmFiles
<1>4. ClosedInv'
  <2>1. Indexed' \cap Open = {}
    BY DEF QuietInv, ClosedInv, CalmStep, CalmRows
  <2>2. Queued' \subseteq Queued
    BY DEF Queued, CalmStep, CalmQueue
  <2>3. HeldSegs' \cap Open = {}
    BY DEF HeldSegs, Held, CalmStep, CalmPasses, CalmPass
  <2> QED BY <1>1, <2>1, <2>2, <2>3 DEF QuietInv, ClosedInv
<1>5. EngagedInv'
  <2> SUFFICES ASSUME NEW c \in Cameras, cur'[c] # Absent
               PROVE  c \in engaged' /\ now' - LastWrite(c)' <= Idle
    BY DEF EngagedInv
  <2>1. /\ cur' = cur /\ opened' = opened /\ mtime' = mtime /\ c \in engaged'
        /\ now - LastWrite(c) <= Idle
        /\ now' = now \/ (now' = now + 1 /\ now - LastWrite(c) < Idle)
    BY DEF QuietInv, EngagedInv, CalmStep, CalmRecorder, MayAdvance
  <2>2. LastWrite(c)' = LastWrite(c)
    BY <2>1 DEF LastWrite
  <2> QED BY <2>1, <2>2, StoreNumbers
<1>6. WrittenInv'
  <2>1. \A s \in Stored' : Start(s) + file'[s] <= mtime'[s]
    BY <1>2 DEF QuietInv, WrittenInv, CalmStep, CalmRecorder
  <2>2. ASSUME NEW c \in Cameras, cur'[c] # Absent, opened'[c] PROVE <<c, cur'[c]>> \in Stored'
    <3>1. cur' = cur /\ opened' = opened
      BY DEF CalmStep, CalmRecorder
    <3>2. /\ <<c, cur[c]>> \in Segs /\ <<c, cur[c]>> \in Open /\ <<c, cur[c]>> \in Stored
      BY <2>2, <3>1, CurrentSegment DEF QuietInv, WrittenInv
    <3>3. <<c, cur[c]>> \notin HeldSegs
      BY <3>2 DEF QuietInv, ClosedInv
    <3> QED BY <3>1, <3>2, <3>3 DEF CalmStep, CalmFiles, Stored
  <2> QED BY <2>1, <2>2 DEF WrittenInv
<1>7. LengthInv'
  <2>1. \A s \in Indexed' : file'[s] <= row'[s]
    <3> TAKE s \in Indexed'
    <3>1. s \in Segs /\ file[s] <= row'[s]
      BY DEF QuietInv, LengthInv, CalmStep, CalmRows, Indexed
    <3>2. row'[s] \in Int /\ file'[s] \in Int
      BY <3>1, InstantFacts DEF TypeInv, TypeOK, DiskType
    <3> QED BY <1>3, <3>1, <3>2, StoreNumbers
  <2>2. \A i \in Pending' : ~i.barrier => file'[i.seg] <= i.len
    <3> SUFFICES ASSUME NEW i \in Pending', ~i.barrier PROVE file'[i.seg] <= i.len
      OBVIOUS
    <3>1. i \in Pending /\ file[i.seg] <= i.len
      BY DEF QuietInv, LengthInv, CalmStep, CalmQueue
    <3>2. i.seg \in Segs /\ i.len \in Int /\ file[i.seg] \in Int /\ file'[i.seg] \in Int
      BY <3>1, StoreNumbers, InstantFacts DEF TypeInv, TypeOK, DiskType
    <3> QED BY <1>3, <3>1, <3>2
  <2>3. \A t \in scans' : t.seg \in Of(t.cam) /\ (t.pc = "insert" => file'[t.seg] <= t.len)
    <3> TAKE t \in scans'
    <3>1. t.seg \in Of(t.cam) /\ (t.pc = "insert" => file[t.seg] <= t.len)
      BY DEF CalmStep, CalmScans, CalmScan
    <3>2. t.seg \in Segs /\ t.len \in Int
      BY InstantFacts DEF TypeInv, TypeOK, ScanType, Scans
    <3>3. file[t.seg] \in Int /\ file'[t.seg] \in Int
      BY <3>2, StoreNumbers, InstantFacts DEF TypeInv, TypeOK, DiskType
    <3> QED BY <1>3, <3>1, <3>2, <3>3
  <2> QED BY <2>1, <2>2, <2>3 DEF LengthInv
<1>8. RetainInv'
  <2> SUFFICES ASSUME NEW t \in purges', t.kind \in {"clean", "sweep"}
               PROVE  /\ t.cutoff + Retain <= now'
                      /\ \A s \in Held(t) \cap Stored' : Start(s) + file'[s] <= t.cutoff
    BY DEF RetainInv, Held
  <2>1. /\ t.cutoff + Retain <= now
        /\ \A s \in Held(t) \cap Stored : Start(s) + file[s] <= t.cutoff
    BY DEF CalmStep, CalmPasses, CalmPass
  <2>2. t.cutoff \in Int
    BY InstantFacts DEF TypeInv, TypeOK, PassType, Passes
  <2> QED BY <1>2, <2>1, <2>2, StoreNumbers DEF CalmStep, CalmRecorder
<1> QED BY <1>4, <1>5, <1>6, <1>7, <1>8 DEF QuietInv

\* What does not change keeps its part of it.
LEMMA CalmSame ==
    ASSUME QuietInv
    PROVE  /\ file' = file => CalmFiles
           /\ row' = row => CalmRows
           /\ queue' = queue /\ inflight' = inflight => CalmQueue
           /\ purges' = purges => CalmPasses
           /\ scans' = scans => CalmScans
           /\ \A t \in purges : CalmPass(t)
           /\ \A t \in scans : CalmScan(t)
<1>1. file' = file => CalmFiles
  BY DEF CalmFiles
<1>2. row' = row => CalmRows
  BY DEF CalmRows, Indexed
<1>3. queue' = queue /\ inflight' = inflight => CalmQueue
  BY SameSets DEF CalmQueue
<1>4. \A t \in purges : CalmPass(t)
  BY DEF QuietInv, ClosedInv, RetainInv, CalmPass, HeldSegs
<1>5. \A t \in scans : CalmScan(t)
  BY DEF QuietInv, LengthInv, CalmScan
<1> QED BY <1>1, <1>2, <1>3, <1>4, <1>5 DEF CalmPasses, CalmScans

\* A camera without a current segment has none open.
LEMMA CurrentAbsent ==
    ASSUME NEW s \in Segs, cur[Cam(s)] = Absent PROVE s \notin Open
BY SegmentParts, InstantFacts DEF Open

LEMMA TickCalm == ASSUME QuietInv, Tick PROVE CalmStep
<1>1. /\ UNCHANGED <<file, mtime, row>> /\ MayAdvance /\ now' = now + 1
      /\ UNCHANGED <<engaged, cur, opened, queue, inflight, scans, purges>>
  BY DEF Tick, memory
<1>2. CalmRecorder
  BY <1>1 DEF CalmRecorder
<1> QED BY <1>1, <1>2, CalmSame DEF CalmStep

LEMMA IndexerTakeCalm == ASSUME TypeInv, QuietInv, IndexerTake PROVE CalmStep
<1>1. UNCHANGED <<now, engaged, file, mtime, row, cur, opened, scans, purges>>
  BY DEF IndexerTake
<1>2. CalmQueue
  BY TakenItem DEF IndexerTake, CalmQueue
<1>3. CalmRecorder
  BY <1>1 DEF CalmRecorder
<1> QED BY <1>1, <1>2, <1>3, CalmSame DEF CalmStep

\* The row that the indexer inserts covers the file of a closed segment.
LEMMA IndexerInsertCalm == ASSUME TypeInv, StoreInv, QuietInv, IndexerInsert PROVE CalmStep
<1>1. /\ UNCHANGED <<now, engaged, file, mtime, cur, opened, scans, purges>>
      /\ inflight # <<>> /\ inflight' = <<>> /\ queue' = queue /\ ~inflight[1].barrier
      /\ row' = [row EXCEPT ![inflight[1].seg] = inflight[1].len]
  BY DEF IndexerInsert
<1>2. inflight[1] \in Pending /\ Pending' \subseteq Pending
  BY <1>1, DoneItem
<1>3. inflight[1].seg \in Queued /\ inflight[1].seg \in Segs
  BY <1>1, <1>2, StoreNumbers DEF Queued
<1>4. file[inflight[1].seg] <= inflight[1].len /\ inflight[1].seg \notin Open
  BY <1>1, <1>2, <1>3 DEF QuietInv, LengthInv, ClosedInv
<1>5. CalmRows
  <2>1. row \in [Segs -> Durations \cup {Absent}]
    BY DEF TypeInv, TypeOK, DiskType
  <2>2. \A s \in Segs : s # inflight[1].seg => row'[s] = row[s]
    BY <1>1, <2>1
  <2>3. row'[inflight[1].seg] = inflight[1].len
    BY <1>1, <1>3, <2>1
  <2> QED BY <1>4, <2>2, <2>3 DEF CalmRows, Indexed
<1>6. CalmRecorder /\ CalmQueue
  BY <1>1, <1>2 DEF CalmRecorder, CalmQueue
<1> QED BY <1>1, <1>5, <1>6, CalmSame DEF CalmStep

LEMMA IndexerGiveUpCalm == ASSUME TypeInv, QuietInv, IndexerGiveUp PROVE CalmStep
<1>1. /\ UNCHANGED <<now, engaged, file, mtime, row, cur, opened, scans, purges>>
      /\ inflight # <<>> /\ inflight' = <<>> /\ queue' = queue
  BY DEF IndexerGiveUp
<1>2. Pending' \subseteq Pending
  BY <1>1, DoneItem
<1>3. CalmRecorder /\ CalmQueue
  BY <1>1, <1>2 DEF CalmRecorder, CalmQueue
<1> QED BY <1>1, <1>3, CalmSame DEF CalmStep

LEMMA IndexerBarrierCalm == ASSUME TypeInv, QuietInv, IndexerBarrier PROVE CalmStep
<1>1. /\ UNCHANGED <<now, engaged, file, mtime, row, cur, opened, scans>>
      /\ inflight # <<>> /\ inflight' = <<>> /\ queue' = queue
  BY DEF IndexerBarrier
<1>2. Pending' \subseteq Pending
  BY <1>1, DoneItem
<1>3. CalmRecorder /\ CalmQueue
  BY <1>1, <1>2 DEF CalmRecorder, CalmQueue
<1>4. CalmPasses
  <2>1. ASSUME NEW v \in purges' PROVE CalmPass(v)
    <3>1. PICK u \in purges : v \in {u, [u EXCEPT !.pc = "query"]}
      BY DEF IndexerBarrier
    <3>2. Held(v) = Held(u) /\ v.kind = u.kind /\ v.cutoff = u.cutoff
      BY <3>1, PassFacts DEF Held, Passes
    <3> QED BY <3>2, CalmSame DEF CalmPass
  <2> QED BY <2>1 DEF CalmPasses
<1> QED BY <1>1, <1>3, <1>4, CalmSame DEF CalmStep

\* Recovery measures files that nobody writes: the camera was not engaged.
LEMMA EngageCalm ==
    ASSUME TypeInv, QuietInv, NEW c \in Cameras, Engage(c), c \notin engaged PROVE CalmStep
<1>1. /\ UNCHANGED <<now, file, mtime, cur, opened, queue, inflight, purges>>
      /\ engaged' = engaged \cup {c}
  BY DEF Engage
<1>2. CalmRecorder
  BY <1>1 DEF CalmRecorder
<1>3. CalmRows
  <2>1. /\ \A s \in Segs : row'[s] = row[s] \/ (row'[s] = file[s] /\ Cam(s) = c)
    <3>1. \A s \in Recovered(c) : Cam(s) = c
      BY DEF Recovered, Of
    <3> QED BY <3>1 DEF Engage
  <2>2. \A s \in Segs : Cam(s) = c => s \notin Open
    BY CurrentAbsent DEF QuietInv, EngagedInv
  <2>3. \A s \in Segs : file[s] <= file[s]
    BY StoreNumbers
  <2> QED BY <2>1, <2>2, <2>3 DEF CalmRows, Indexed
<1>4. CalmScans
  <2>1. \A t \in scans' : t \in scans \/ t = Scan(c)
    BY DEF Engage
  <2>2. Scan(c).seg = <<c, 0>> /\ Scan(c).cam = c /\ Scan(c).pc = "range"
    BY DEF Scan
  <2>3. <<c, 0>> \in Of(c)
    BY SegmentParts, InstantFacts DEF Of, Cam
  <2> QED BY <2>1, <2>2, <2>3, CalmSame DEF CalmScans, CalmScan
<1> QED BY <1>1, <1>2, <1>3, <1>4, CalmSame DEF CalmStep

LEMMA BootCameraCalm ==
    ASSUME TypeInv, QuietInv, NEW c \in Cameras, BootCamera(c) PROVE CalmStep
BY EngageCalm DEF BootCamera, Engage

LEMMA EnableCameraCalm ==
    ASSUME TypeInv, QuietInv, NEW c \in Cameras, EnableCamera(c) PROVE CalmStep
BY EngageCalm DEF EnableCamera, Engage

LEMMA MemoryCalm ==
    ASSUME QuietInv, UNCHANGED <<now, file, mtime, row, memory>> PROVE CalmStep
<1>1. UNCHANGED <<engaged, cur, opened, queue, inflight, scans, purges>>
  BY DEF memory
<1>2. CalmRecorder
  BY <1>1 DEF CalmRecorder
<1> QED BY <1>1, <1>2, CalmSame DEF CalmStep

LEMMA BootDoneCalm == ASSUME QuietInv, BootDone PROVE CalmStep
BY MemoryCalm DEF BootDone

LEMMA BeginCloseCalm == ASSUME QuietInv, BeginClose PROVE CalmStep
BY MemoryCalm DEF BeginClose

\* The walk of --reindex measures files that nobody writes.
LEMMA RestartCalm == ASSUME TypeInv, StoreInv, QuietInv, Restart PROVE CalmStep
<1>1. UNCHANGED <<now, file, mtime, memory>> /\ Open = {}
  BY DEF Restart, StoreInv, DownInv
<1>2. UNCHANGED <<engaged, cur, opened, queue, inflight, scans, purges>>
  BY <1>1 DEF memory
<1>3. CalmRows
  <2>1. \A s \in Segs : row'[s] = row[s] \/ row'[s] = file[s]
    BY DEF Restart
  <2>2. \A s \in Segs : file[s] <= file[s]
    BY StoreNumbers
  <2> QED BY <1>1, <2>1, <2>2 DEF CalmRows, Indexed
<1>4. CalmRecorder
  BY <1>1, <1>2 DEF CalmRecorder
<1> QED BY <1>1, <1>2, <1>3, <1>4, CalmSame DEF CalmStep

\* A Reindex step that touches its own record and at most one row.
LEMMA ScanCalm ==
    ASSUME TypeInv, QuietInv, NEW t \in scans,
           UNCHANGED <<now, engaged, file, mtime, cur, opened, queue, inflight, purges>>,
           CalmRows, \A v \in scans' : v \in scans \/ CalmScan(v)
    PROVE  CalmStep
<1>1. CalmRecorder
  BY DEF CalmRecorder
<1>2. CalmScans
  BY CalmSame DEF CalmScans
<1> QED BY <1>1, <1>2, CalmSame DEF CalmStep

LEMMA ReindexRangeCalm ==
    ASSUME TypeInv, QuietInv, NEW t \in scans, ReindexRange(t) PROVE CalmStep
<1> DEFINE u == [t EXCEPT !.pc = "walk", !.known = Indexed \cap Of(t.cam), !.since = now]
<1>1. u.seg = t.seg /\ u.cam = t.cam /\ u.pc = "walk" /\ StepScan(t, u)
  BY ScanFacts DEF Scans, ReindexRange
<1> HIDE DEF u
<1>2. CalmScan(u) /\ CalmRows
  BY <1>1, CalmSame DEF CalmScan, ReindexRange
<1> QED BY <1>1, <1>2, ScanCalm DEF StepScan, ReindexRange

LEMMA ReindexProbeCalm ==
    ASSUME TypeInv, QuietInv, NEW t \in scans, ReindexProbe(t) PROVE CalmStep
<1>1. PICK s \in Ahead(t) :
        StepScan(t, [t EXCEPT !.pc = "insert", !.next = Start(s) + 1, !.seg = s, !.len = file[s]])
  BY DEF ReindexProbe
<1> DEFINE u == [t EXCEPT !.pc = "insert", !.next = Start(s) + 1, !.seg = s, !.len = file[s]]
<1>2. u.seg = s /\ u.cam = t.cam /\ u.len = file[s] /\ StepScan(t, u)
  BY <1>1, ScanFacts DEF Scans
<1>3. s \in Of(t.cam) /\ s \in Segs /\ file[s] <= file[s]
  BY StoreNumbers DEF Ahead, Of
<1> HIDE DEF u
<1>4. CalmScan(u) /\ CalmRows
  BY <1>2, <1>3, CalmSame DEF CalmScan, ReindexProbe
<1> QED BY <1>2, <1>4, ScanCalm DEF StepScan, ReindexProbe

\* The file did not grow since it was probed: its camera records nothing.
LEMMA ReindexInsertCalm ==
    ASSUME TypeInv, QuietInv, Calm, NEW t \in scans, ReindexInsert(t) PROVE CalmStep
<1> DEFINE u == [t EXCEPT !.pc = "walk", !.seg = <<t.cam, 0>>, !.len = 0]
<1>1. u.seg = <<t.cam, 0>> /\ u.cam = t.cam /\ u.pc = "walk" /\ StepScan(t, u)
  BY ScanFacts DEF Scans, ReindexInsert
<1>2. t.seg \in Segs /\ t.len \in Durations /\ t.cam \in Cameras
  BY ScanFacts
<1>3. CalmScan(u)
  <2> HIDE DEF u
  <2>1. <<t.cam, 0>> \in Of(t.cam)
    BY <1>2, SegmentParts, InstantFacts DEF Of, Cam
  <2> QED BY <1>1, <2>1 DEF CalmScan
<1>4. CalmRows
  <2>1. CASE row' = row
    BY <2>1, CalmSame
  <2>2. CASE row' = [row EXCEPT ![t.seg] = t.len]
    <3>1. row \in [Segs -> Durations \cup {Absent}]
      BY DEF TypeInv, TypeOK, DiskType
    <3>2. \A s \in Segs : s # t.seg => row'[s] = row[s]
      BY <2>2, <3>1
    <3>3. row'[t.seg] = t.len /\ file[t.seg] <= t.len /\ Cam(t.seg) = t.cam
      BY <1>2, <2>2, <3>1 DEF QuietInv, LengthInv, ReindexInsert, Of
    <3>4. t.seg \notin Open
      BY <1>2, <3>3, CurrentAbsent DEF Calm
    <3> QED BY <3>2, <3>3, <3>4 DEF CalmRows, Indexed
  <2> QED BY <2>1, <2>2 DEF ReindexInsert
<1> HIDE DEF u
<1> QED BY <1>1, <1>3, <1>4, ScanCalm DEF StepScan, ReindexInsert

LEMMA ReindexDoneCalm ==
    ASSUME TypeInv, QuietInv, NEW t \in scans, ReindexDone(t) PROVE CalmStep
<1>1. CalmRows /\ \A v \in scans' : v \in scans
  BY CalmSame DEF ReindexDone
<1> QED BY <1>1, ScanCalm DEF ReindexDone

\* A step of a pass that touches at most the barrier, and one file it holds.
LEMMA PassCalm ==
    ASSUME TypeInv, QuietInv,
           UNCHANGED <<engaged, mtime, cur, opened, scans>>,
           now' = now \/ (MayAdvance /\ now' = now + 1),
           CalmFiles, CalmRows, CalmQueue,
           \A v \in purges' : v \in purges \/ CalmPass(v)
    PROVE  CalmStep
<1>1. CalmRecorder
  BY DEF CalmRecorder
<1>2. CalmPasses
  BY CalmSame DEF CalmPasses
<1> QED BY <1>1, <1>2, CalmSame DEF CalmStep

\* A pass that holds no more than it did.
LEMMA LessHeld ==
    ASSUME TypeInv, QuietInv, NEW t \in purges, NEW u, Held(u) \subseteq Held(t),
           u.kind = t.kind, u.kind = "camera" \/ u.cutoff = t.cutoff
    PROVE  CalmPass(u)
BY CalmSame DEF CalmPass

\* What is older than the window is not open: an open segment was just written,
\* or has no file yet.
LEMMA StaleIsClosed ==
    ASSUME TypeInv, StoreInv, QuietInv, NEW s \in Stored, mtime[s] < now - Retain
    PROVE  s \notin Open
<1> SUFFICES ASSUME s \in Open PROVE FALSE
  OBVIOUS
<1>1. s \in Segs /\ Cam(s) \in Cameras /\ cur[Cam(s)] = Start(s) /\ Start(s) # Absent
  BY SegmentParts, InstantFacts DEF Open
<1>2. s = <<Cam(s), Start(s)>>
  BY <1>1 DEF Segs, Cam, Start
<1>3. opened[Cam(s)]
  BY DEF StoreInv, KnownInv, Known, Fresh
<1>4. LastWrite(Cam(s)) = mtime[s]
  BY <1>1, <1>2, <1>3 DEF LastWrite
<1>5. now - mtime[s] <= Idle
  BY <1>1, <1>4 DEF QuietInv, EngagedInv
<1> QED BY <1>1, <1>5, StoreNumbers

LEMMA StartRetentionCalm ==
    ASSUME TypeInv, StoreInv, QuietInv, NEW k \in {"clean", "sweep"}, StartRetention(k)
    PROVE  CalmStep
<1> DEFINE l == IF k = "sweep" THEN Stale(now - Retain) ELSE {}
           u == Pass(k, NoCamera, now - Retain, "next", l)
<1>1. /\ purges' = purges \cup {u} /\ u.kind = k /\ u.cutoff = now - Retain /\ Held(u) = l
  BY DEF Pass, Held, StartRetention
<1>2. \A s \in l : s \in Stored /\ mtime[s] < now - Retain
  BY DEF Stale
<1>3. \A s \in l : s \notin Open
  BY <1>2, StaleIsClosed
<1>4. \A s \in l : Start(s) + file[s] <= now - Retain
  <2> TAKE s \in l
  <2>1. s \in Segs /\ Start(s) + file[s] <= mtime[s] /\ mtime[s] < now - Retain
    BY <1>2 DEF QuietInv, WrittenInv, Stored
  <2> QED BY <2>1, StoreNumbers
<1> HIDE DEF l, u
<1>5. CalmPass(u)
  BY <1>1, <1>3, <1>4, StoreNumbers DEF CalmPass
<1>6. CalmFiles /\ CalmRows /\ CalmQueue
  BY CalmSame DEF StartRetention
<1> QED BY <1>1, <1>5, <1>6, PassCalm DEF StartRetention

LEMMA StartFreeCalm == ASSUME TypeInv, QuietInv, StartFree PROVE CalmStep
<1> DEFINE u == Pass("free", NoCamera, 0, "next", {})
<1>1. purges' = purges \cup {u} /\ u.kind = "free" /\ Held(u) = {}
  BY DEF Pass, Held, StartFree
<1> HIDE DEF u
<1>2. CalmPass(u)
  BY <1>1 DEF CalmPass
<1>3. CalmFiles /\ CalmRows /\ CalmQueue
  BY CalmSame DEF StartFree
<1> QED BY <1>1, <1>2, <1>3, PassCalm DEF StartFree

LEMMA StartCameraPurgeCalm ==
    ASSUME TypeInv, QuietInv, NEW t \in purges, StartCameraPurge(t) PROVE CalmStep
<1> DEFINE u == [t EXCEPT !.cutoff = now + 1, !.pc = "flush"]
<1>1. Held(u) = Held(t) /\ u.kind = t.kind /\ u.kind = "camera" /\ StepPass(t, u)
  BY PassFacts DEF Held, Passes, StartCameraPurge
<1> HIDE DEF u
<1>2. CalmPass(u)
  BY <1>1, LessHeld
<1>3. CalmFiles /\ CalmRows /\ CalmQueue
  BY CalmSame DEF StartCameraPurge
<1> QED BY <1>1, <1>2, <1>3, PassCalm DEF StepPass, StartCameraPurge

LEMMA FlushIndexCalm ==
    ASSUME TypeInv, QuietInv, NEW t \in purges, FlushIndex(t) PROVE CalmStep
<1>1. PICK x \in {"barrier", "query"} :
        /\ StepPass(t, [t EXCEPT !.pc = x])
        /\ queue' = queue \/ queue' = Append(queue, Barrier(t))
  BY DEF FlushIndex
<1> DEFINE u == [t EXCEPT !.pc = x]
<1>2. Held(u) = Held(t) /\ u.kind = t.kind /\ u.cutoff = t.cutoff /\ StepPass(t, u)
  BY <1>1, PassFacts DEF Held, Passes
<1> HIDE DEF u
<1>3. CalmPass(u)
  BY <1>2, LessHeld
<1>4. CalmQueue
  <2>1. inflight' = inflight
    BY DEF FlushIndex
  <2>2. CASE queue' = queue
    BY <2>1, <2>2, CalmSame
  <2>3. CASE queue' = Append(queue, Barrier(t))
    <3>1. Barrier(t).barrier
      BY DEF Barrier
    <3> QED BY <2>1, <2>3, <3>1, SentItem DEF CalmQueue
  <2> QED BY <1>1, <2>2, <2>3
<1>5. CalmFiles /\ CalmRows
  BY CalmSame DEF FlushIndex
<1> QED BY <1>2, <1>3, <1>4, <1>5, PassCalm DEF StepPass, FlushIndex

LEMMA QueryCameraCalm ==
    ASSUME TypeInv, QuietInv, NEW t \in purges, QueryCamera(t) PROVE CalmStep
<1> DEFINE u == [t EXCEPT !.pc = "next", !.list = CameraRows(t)]
<1>1. Held(u) \subseteq Held(t) \cup Indexed /\ u.kind = "camera" /\ StepPass(t, u)
  BY PassFacts DEF Held, Passes, CameraRows, QueryCamera
<1> HIDE DEF u
<1>2. CalmPass(u)
  <2>1. Indexed \cap Open = {}
    BY DEF QuietInv, ClosedInv
  <2>2. Held(t) \cap Open = {}
    BY CalmSame DEF CalmPass
  <2> QED BY <1>1, <2>1, <2>2 DEF CalmPass
<1>3. CalmFiles /\ CalmRows /\ CalmQueue
  BY CalmSame DEF QueryCamera
<1> QED BY <1>1, <1>2, <1>3, PassCalm DEF StepPass, QueryCamera

\* What a batch is taken from is closed, and clean takes what its rows say ended
\* before the window.
LEMMA CandidatesCalm ==
    ASSUME TypeInv, QuietInv, NEW t \in purges
    PROVE  /\ Candidates(t) \cap Open = {} /\ Candidates(t) \subseteq Segs
           /\ t.kind \in {"clean", "sweep"} =>
                 \A s \in Candidates(t) \cap Stored : Start(s) + file[s] <= t.cutoff
<1>1. Candidates(t) \subseteq Held(t) \cup Indexed
  BY DEF Candidates, Expired, Held
<1>2. Held(t) \cap Open = {} /\ Indexed \cap Open = {} /\ Held(t) \subseteq Segs
  BY CalmSame, PassFacts DEF CalmPass, QuietInv, ClosedInv, Held
<1>3. ASSUME t.kind = "sweep", NEW s \in Candidates(t) \cap Stored
      PROVE  Start(s) + file[s] <= t.cutoff
  <2>1. s \in Held(t)
    BY <1>3 DEF Candidates, Held
  <2> QED BY <1>3, <2>1, CalmSame DEF CalmPass
<1>4. ASSUME t.kind = "clean", NEW s \in Candidates(t) \cap Stored
      PROVE  Start(s) + file[s] <= t.cutoff
  <2>1. s \in Segs /\ s \in Indexed /\ End(s) <= t.cutoff
    BY <1>4 DEF Candidates, Expired, Indexed
  <2>2. file[s] <= row[s]
    BY <2>1 DEF QuietInv, LengthInv
  <2> QED BY <2>1, <2>2, StoreNumbers DEF End
<1> QED BY <1>1, <1>2, <1>3, <1>4 DEF Indexed

\* The walk of PurgeCamera skips the file that the camera, created again, records.
LEMMA OrphansAreClosed ==
    ASSUME TypeInv, SpareInv, NEW t \in purges, t.kind = "camera", t.pc = "next",
           NEW s \in Stale(t.cutoff) \cap Of(t.cam)
    PROVE  s \notin Open
<1> SUFFICES ASSUME s \in Open PROVE FALSE
  OBVIOUS
<1>1. s \in Segs /\ Cam(s) = t.cam /\ mtime[s] < t.cutoff /\ file[s] # Absent
  BY DEF Stale, Stored, Of
<1>2. cur[t.cam] = Start(s) /\ cur[t.cam] # Absent
  BY <1>1, SegmentParts, InstantFacts DEF Open
<1>3. t.cutoff <= Start(s)
  BY <1>2 DEF SpareInv, PassSpares
<1>4. Start(s) <= mtime[s]
  BY <1>1 DEF TypeInv, ClockInv
<1> QED BY <1>1, <1>3, <1>4, StoreNumbers

LEMMA NextBatchCalm ==
    ASSUME TypeInv, SpareInv, QuietInv, NEW t \in purges, NextBatch(t) PROVE CalmStep
<1>1. /\ CalmFiles /\ CalmRows /\ CalmQueue
      /\ UNCHANGED <<now, engaged, mtime, cur, opened, scans>>
  BY CalmSame DEF NextBatch
<1>2. CASE EndPass(t)
  BY <1>1, <1>2, PassCalm DEF EndPass
<1>3. ASSUME t.kind = "camera",
             StepPass(t, [t EXCEPT !.pc = "orphans", !.list = Stale(t.cutoff) \cap Of(t.cam)])
      PROVE  CalmStep
  <2> DEFINE u == [t EXCEPT !.pc = "orphans", !.list = Stale(t.cutoff) \cap Of(t.cam)]
  <2>1. /\ Held(u) \subseteq Held(t) \cup (Stale(t.cutoff) \cap Of(t.cam))
        /\ u.kind = t.kind
    BY PassFacts DEF Held, Passes
  <2>2. (Stale(t.cutoff) \cap Of(t.cam)) \cap Open = {}
    BY <1>3, OrphansAreClosed DEF NextBatch
  <2>3. Held(t) \cap Open = {}
    BY CalmSame DEF CalmPass
  <2> HIDE DEF u
  <2>4. CalmPass(u)
    BY <1>3, <2>1, <2>2, <2>3 DEF CalmPass
  <2> QED BY <1>1, <1>3, <2>4, PassCalm DEF StepPass, u
<1>4. ASSUME NEW B \in Batches(Candidates(t)),
             StepPass(t, [t EXCEPT !.pc = "unlink", !.todo = B, !.list = @ \ B])
      PROVE  CalmStep
  <2> DEFINE u == [t EXCEPT !.pc = "unlink", !.todo = B, !.list = @ \ B]
  <2>1. B \subseteq Candidates(t)
    BY BatchOfCandidates
  <2>2. Held(u) \subseteq Held(t) \cup B /\ u.kind = t.kind /\ u.cutoff = t.cutoff
    BY PassFacts DEF Held, Passes
  <2> HIDE DEF u
  <2>3. CalmPass(u)
    BY <2>1, <2>2, CandidatesCalm, CalmSame DEF CalmPass
  <2> QED BY <1>1, <1>4, <2>3, PassCalm DEF StepPass, u
<1> QED BY <1>2, <1>3, <1>4 DEF NextBatch

LEMMA EndCameraPurgeCalm ==
    ASSUME TypeInv, QuietInv, NEW t \in purges, EndCameraPurge(t) PROVE CalmStep
<1>1. CalmFiles /\ CalmRows /\ CalmQueue
  BY CalmSame DEF EndCameraPurge
<1> QED BY <1>1, PassCalm DEF EndCameraPurge, EndPass

\* An unlink takes one file that the pass holds, or none.
LEMMA OneFileGone ==
    ASSUME TypeInv, NEW t \in purges, NEW s \in Held(t), s \in Segs,
           file' = [file EXCEPT ![s] = Absent] \/ file' = file
    PROVE  CalmFiles
<1>1. file \in [Segs -> Durations \cup {Absent}] /\ s \in HeldSegs
  BY DEF TypeInv, TypeOK, DiskType, HeldSegs
<1> QED BY <1>1 DEF CalmFiles

LEMMA UnlinkCalm ==
    ASSUME TypeInv, QuietInv, NEW t \in purges, Unlink(t) PROVE CalmStep
<1>1. PICK s \in t.todo, g \in SUBSET Segs, f \in {t.failed, TRUE} :
        /\ g \subseteq t.gone \cup {s}
        /\ file' = [file EXCEPT ![s] = Absent] \/ file' = file
        /\ StepPass(t, [t EXCEPT !.todo = @ \ {s}, !.gone = g, !.failed = f])
  <2>1. \A s \in t.todo :
          /\ [t EXCEPT !.todo = @ \ {s}, !.gone = @ \cup {s}]
                = [t EXCEPT !.todo = @ \ {s}, !.gone = t.gone \cup {s}, !.failed = t.failed]
          /\ [t EXCEPT !.todo = @ \ {s}, !.failed = TRUE]
                = [t EXCEPT !.todo = @ \ {s}, !.gone = t.gone, !.failed = TRUE]
    BY PassFacts DEF Passes
  <2>2. \A s \in t.todo : t.gone \in SUBSET Segs /\ t.gone \cup {s} \in SUBSET Segs
    BY PassFacts
  <2> QED BY <2>1, <2>2 DEF Unlink
<1>2. s \in Segs /\ s \in Held(t) /\ t \in Passes
  BY PassFacts DEF Held
<1> DEFINE u == [t EXCEPT !.todo = @ \ {s}, !.gone = g, !.failed = f]
<1>3. /\ u.todo = t.todo \ {s} /\ u.gone = g /\ u.list = t.list
      /\ u.kind = t.kind /\ u.cutoff = t.cutoff
  BY <1>2 DEF Passes
<1> HIDE DEF u
<1>4. Held(u) \subseteq Held(t) /\ StepPass(t, u)
  BY <1>1, <1>3 DEF Held, u
<1>5. CalmPass(u)
  BY <1>3, <1>4, LessHeld
<1>6. CalmFiles /\ CalmRows /\ CalmQueue
  BY <1>1, <1>2, OneFileGone, CalmSame DEF Unlink
<1> QED BY <1>4, <1>5, <1>6, PassCalm DEF StepPass, Unlink

LEMMA UnlinkOrphanCalm ==
    ASSUME TypeInv, QuietInv, NEW t \in purges, UnlinkOrphan(t) PROVE CalmStep
<1>1. PICK s \in t.list, f \in {t.failed, TRUE} :
        /\ file' = [file EXCEPT ![s] = Absent] \/ file' = file
        /\ StepPass(t, [t EXCEPT !.list = @ \ {s}, !.failed = f])
  <2>1. \A s \in t.list : [t EXCEPT !.list = @ \ {s}] = [t EXCEPT !.list = @ \ {s}, !.failed = t.failed]
    BY PassFacts DEF Passes
  <2> QED BY <2>1 DEF UnlinkOrphan
<1>2. s \in Segs /\ s \in Held(t) /\ t \in Passes
  BY PassFacts DEF Held
<1> DEFINE u == [t EXCEPT !.list = @ \ {s}, !.failed = f]
<1>3. /\ u.todo = t.todo /\ u.gone = t.gone /\ u.list = t.list \ {s}
      /\ u.kind = t.kind /\ u.cutoff = t.cutoff
  BY <1>2 DEF Passes
<1> HIDE DEF u
<1>4. Held(u) \subseteq Held(t) /\ StepPass(t, u)
  BY <1>1, <1>3 DEF Held, u
<1>5. CalmPass(u)
  BY <1>3, <1>4, LessHeld
<1>6. CalmFiles /\ CalmRows /\ CalmQueue
  BY <1>1, <1>2, OneFileGone, CalmSame DEF UnlinkOrphan
<1> QED BY <1>4, <1>5, <1>6, PassCalm DEF StepPass, UnlinkOrphan

LEMMA DeleteRowsCalm ==
    ASSUME TypeInv, QuietInv, NEW t \in purges, DeleteRows(t) PROVE CalmStep
<1>1. CalmFiles /\ CalmQueue
  BY CalmSame DEF DeleteRows
<1>2. CalmRows
  <2>1. \A s \in Segs : row'[s] = Absent \/ row'[s] = row[s]
    BY DEF DeleteRows
  <2> QED BY <2>1 DEF CalmRows, Indexed
<1>3. \A v \in purges' : v \in purges \/ CalmPass(v)
  <2>1. CASE EndPass(t)
    BY <2>1 DEF EndPass
  <2>2. CASE StepPass(t, [t EXCEPT !.pc = "next", !.gone = {}])
    <3> DEFINE u == [t EXCEPT !.pc = "next", !.gone = {}]
    <3>1. Held(u) \subseteq Held(t) /\ u.kind = t.kind /\ u.cutoff = t.cutoff
      BY PassFacts DEF Passes, Held
    <3> HIDE DEF u
    <3>2. CalmPass(u)
      BY <3>1, LessHeld
    <3> QED BY <2>2, <3>2 DEF StepPass, u
  <2> QED BY <2>1, <2>2 DEF DeleteRows
<1> QED BY <1>1, <1>2, <1>3, PassCalm DEF DeleteRows

\* The recorder begins a segment: nobody else knows of it.
LEMMA OpenSegmentQuiet ==
    ASSUME TypeInv, StoreInv, QuietInv, NEW c \in Cameras, OpenSegment(c) PROVE QuietInv'
<1>1. /\ cur' = [cur EXCEPT ![c] = now] /\ opened' = [opened EXCEPT ![c] = FALSE]
      /\ now' = now + 1 /\ cur[c] = Absent /\ c \in engaged /\ MayAdvance
      /\ UNCHANGED <<engaged, file, mtime, row, queue, inflight, scans, purges>>
  BY DEF OpenSegment
<1>2. /\ Stored' = Stored /\ Indexed' = Indexed /\ Queued' = Queued /\ Pending' = Pending
      /\ HeldSegs' = HeldSegs
  BY <1>1, SameSets
<1>3. /\ now \in Int /\ cur \in [Cameras -> Instants \cup {Absent}] /\ opened \in [Cameras -> BOOLEAN]
  BY InstantFacts DEF TypeInv, TypeOK, ClockType, RecorderType
<1>4. /\ cur'[c] = now /\ ~opened'[c]
      /\ \A d \in Cameras : d # c => cur'[d] = cur[d] /\ opened'[d] = opened[d]
  BY <1>1, <1>3
<1>5. ClosedInv'
  <2>1. \A s \in Open' : s \in Open \/ Start(s) = now
    <3> TAKE s \in Open'
    <3>1. s \in Segs /\ Cam(s) \in Cameras /\ cur'[Cam(s)] = Start(s)
      BY SegmentParts DEF Open
    <3> QED BY <1>4, <3>1 DEF Open
  <2>2. \A s \in Indexed \cup Queued \cup HeldSegs : Start(s) # now
    <3>1. \A s \in Known : Start(s) < now /\ Start(s) \in Int
      BY KnownSegs, StoreNumbers DEF StoreInv, KnownInv
    <3> QED BY <1>3, <3>1 DEF Known
  <2> QED BY <1>2, <2>1, <2>2 DEF QuietInv, ClosedInv
<1>6. EngagedInv'
  <2> SUFFICES ASSUME NEW d \in Cameras, cur'[d] # Absent
               PROVE  d \in engaged' /\ now' - LastWrite(d)' <= Idle
    BY DEF EngagedInv
  <2>1. CASE d = c
    <3>1. LastWrite(d)' = now
      BY <1>4, <2>1 DEF LastWrite
    <3> QED BY <1>1, <2>1, <3>1, StoreNumbers
  <2>2. CASE d # c
    <3>1. LastWrite(d)' = LastWrite(d) /\ cur[d] # Absent
      BY <1>1, <1>4, <2>2 DEF LastWrite
    <3>2. d \in engaged /\ now - LastWrite(d) < Idle
      BY <1>1, <3>1 DEF QuietInv, EngagedInv, MayAdvance
    <3> QED BY <1>1, <3>1, <3>2, StoreNumbers
  <2> QED BY <2>1, <2>2
<1>7. WrittenInv'
  BY <1>1, <1>2, <1>4 DEF QuietInv, WrittenInv
<1>8. LengthInv'
  BY <1>1, <1>2 DEF QuietInv, LengthInv
<1>9. RetainInv'
  <2>1. \A t \in purges : t.cutoff + Retain <= now => t.cutoff + Retain <= now'
    BY <1>1, StoreNumbers
  <2> QED BY <1>1, <1>2, <2>1 DEF QuietInv, RetainInv, Held
<1> QED BY <1>5, <1>6, <1>7, <1>8, <1>9 DEF QuietInv

\* A segment that a recorder writes or ends is in nobody else's hands.
LEMMA OpenIsAlone ==
    ASSUME TypeInv, QuietInv, Calm, NEW c \in Cameras, cur[c] # Absent
    PROVE  LET s == <<c, cur[c]>> IN
           /\ s \notin Indexed /\ s \notin HeldSegs
           /\ \A i \in Pending : ~i.barrier => i.seg # s
           /\ \A t \in scans : t.seg # s
<1>1. <<c, cur[c]>> \in Open
  BY CurrentSegment
<1>2. <<c, cur[c]>> \notin Indexed \cup Queued \cup HeldSegs
  BY <1>1 DEF QuietInv, ClosedInv
<1>3. \A t \in scans : t.seg # <<c, cur[c]>>
  <2> SUFFICES ASSUME NEW t \in scans, t.seg = <<c, cur[c]>> PROVE FALSE
    OBVIOUS
  <2>1. t.cam = c
    BY DEF QuietInv, LengthInv, Of, Cam
  <2> QED BY <2>1 DEF Calm
<1> QED BY <1>2, <1>3 DEF Queued

\* What such a segment's file becomes concerns nobody else.
LEMMA FileAlone ==
    ASSUME TypeInv, QuietInv, NEW s \in Segs, s \notin HeldSegs,
           \A i \in Pending : ~i.barrier => i.seg # s, \A t \in scans : t.seg # s,
           \A x \in Segs : x # s => file'[x] = file[x],
           UNCHANGED <<now, scans>>, \A t \in purges' : t \in purges \/ t.kind = "camera"
    PROVE  /\ \A i \in Pending : ~i.barrier => file'[i.seg] <= i.len
           /\ \A t \in scans' : t.seg \in Of(t.cam) /\ (t.pc = "insert" => file'[t.seg] <= t.len)
           /\ RetainInv'
<1>1. \A i \in Pending : ~i.barrier => file'[i.seg] <= i.len
  BY StoreNumbers DEF QuietInv, LengthInv
<1>2. \A t \in scans' : t.seg \in Of(t.cam) /\ (t.pc = "insert" => file'[t.seg] <= t.len)
  BY ScanFacts DEF QuietInv, LengthInv
<1>3. RetainInv'
  <2> SUFFICES ASSUME NEW t \in purges', t.kind \in {"clean", "sweep"}
               PROVE  /\ t.cutoff + Retain <= now'
                      /\ \A x \in Held(t) \cap Stored' : Start(x) + file'[x] <= t.cutoff
    BY DEF RetainInv, Held
  <2>1. /\ t \in purges /\ t.cutoff + Retain <= now
        /\ \A x \in Held(t) \cap Stored : Start(x) + file[x] <= t.cutoff
    BY DEF QuietInv, RetainInv
  <2>2. \A x \in Held(t) : x # s
    BY <2>1 DEF HeldSegs
  <2>3. \A x \in Held(t) \cap Stored' : x \in Stored /\ file'[x] = file[x]
    BY <2>2 DEF Stored
  <2> QED BY <2>1, <2>3
<1> QED BY <1>1, <1>2, <1>3

\* The recorder writes a part: the file holds the footage up to now.
LEMMA WritePartQuiet ==
    ASSUME TypeInv, QuietInv, Calm, NEW c \in Cameras, WritePart(c) PROVE QuietInv'
<1> DEFINE s == <<c, cur[c]>>
<1>1. /\ opened' = [opened EXCEPT ![c] = TRUE] /\ cur[c] # Absent
      /\ UNCHANGED <<now, engaged, row, cur, queue, inflight, scans, purges>>
      /\ mtime' = [mtime EXCEPT ![s] = now]
  BY DEF WritePart
<1>2. /\ s \in Segs /\ s \in Open
      /\ s \notin Indexed /\ s \notin HeldSegs
      /\ \A i \in Pending : ~i.barrier => i.seg # s
      /\ \A t \in scans : t.seg # s
  BY <1>1, CurrentSegment, OpenIsAlone
<1>3. /\ file \in [Segs -> Durations \cup {Absent}] /\ opened \in [Cameras -> BOOLEAN]
      /\ mtime \in [Segs -> Instants]
  BY DEF TypeInv, TypeOK, DiskType, RecorderType
<1>4. /\ file'[s] = now - cur[c] /\ \A x \in Segs : x # s => file'[x] = file[x]
  <2>1. ~(opened[c] /\ file[s] = Absent)
    BY <1>1 DEF QuietInv, WrittenInv, Stored
  <2>2. file' = [file EXCEPT ![s] = now - cur[c]]
    BY <2>1 DEF WritePart
  <2> QED BY <1>2, <1>3, <2>2
<1>5. /\ Open' = Open /\ Indexed' = Indexed /\ Queued' = Queued /\ Pending' = Pending
      /\ HeldSegs' = HeldSegs
  BY <1>1, SameSets
<1>6. /\ mtime'[s] = now /\ \A x \in Segs : x # s => mtime'[x] = mtime[x]
      /\ opened'[c] /\ \A d \in Cameras : d # c => opened'[d] = opened[d]
  BY <1>1, <1>2, <1>3
<1>7. Start(s) = cur[c] /\ \A d \in Cameras : d # c => <<d, cur[d]>> # s
  BY DEF Start
<1> HIDE DEF s
<1>8. s \in Stored' /\ \A x \in Segs : x # s => (x \in Stored' <=> x \in Stored)
  <2>1. now - cur[c] # Absent
    BY <1>1, StoreNumbers DEF TypeInv, ClockInv, Absent
  <2> QED BY <1>2, <1>4, <2>1 DEF Stored
<1>9. ClosedInv'
  BY <1>5 DEF QuietInv, ClosedInv
<1>10. EngagedInv'
  <2> SUFFICES ASSUME NEW d \in Cameras, cur'[d] # Absent
               PROVE  d \in engaged' /\ now' - LastWrite(d)' <= Idle
    BY DEF EngagedInv
  <2>1. d \in engaged /\ now - LastWrite(d) <= Idle /\ cur[d] # Absent /\ <<d, cur[d]>> \in Segs
    BY <1>1, CurrentSegment DEF QuietInv, EngagedInv
  <2>2. CASE d = c
    <3>1. LastWrite(d)' = now
      BY <1>1, <1>6, <2>2 DEF LastWrite, s
    <3> QED BY <1>1, <2>1, <3>1, StoreNumbers
  <2>3. CASE d # c
    <3>1. LastWrite(d)' = LastWrite(d)
      BY <1>1, <1>6, <1>7, <2>1, <2>3 DEF LastWrite
    <3> QED BY <1>1, <2>1, <3>1
  <2> QED BY <2>2, <2>3
<1>11. WrittenInv'
  <2>1. \A x \in Stored' : Start(x) + file'[x] <= mtime'[x]
    <3> TAKE x \in Stored'
    <3>1. CASE x = s
      BY <1>4, <1>6, <1>7, <3>1, StoreNumbers
    <3>2. CASE x # s
      BY <1>4, <1>6, <1>8, <3>2 DEF QuietInv, WrittenInv, Stored
    <3> QED BY <3>1, <3>2
  <2>2. \A d \in Cameras : cur'[d] # Absent /\ opened'[d] => <<d, cur'[d]>> \in Stored'
    <3> SUFFICES ASSUME NEW d \in Cameras, cur[d] # Absent, opened'[d], d # c
                 PROVE  <<d, cur[d]>> \in Stored'
      BY <1>1, <1>8 DEF s
    <3>1. <<d, cur[d]>> \in Stored /\ <<d, cur[d]>> \in Segs
      BY <1>6, CurrentSegment DEF QuietInv, WrittenInv
    <3> QED BY <1>7, <1>8, <3>1
  <2> QED BY <2>1, <2>2 DEF WrittenInv
<1>12. /\ \A i \in Pending : ~i.barrier => file'[i.seg] <= i.len
       /\ \A t \in scans' : t.seg \in Of(t.cam) /\ (t.pc = "insert" => file'[t.seg] <= t.len)
       /\ RetainInv'
  BY <1>1, <1>2, <1>4, FileAlone
<1>13. LengthInv'
  <2>1. \A x \in Indexed' : file'[x] <= row'[x]
    BY <1>1, <1>2, <1>4, <1>5 DEF QuietInv, LengthInv, Indexed
  <2> QED BY <1>5, <1>12, <2>1 DEF LengthInv
<1> QED BY <1>9, <1>10, <1>11, <1>12, <1>13 DEF QuietInv

\* However segment.close ends, the file holds nothing later than now, and the
\* duration it hands over covers the file.
LEMMA ClosingCovers ==
    ASSUME TypeInv, QuietInv, NEW c \in Cameras, cur[c] # Absent, NEW e \in Closings(c)
    PROVE  /\ e.len \in Int /\ e.dur \in Int
           /\ e.len # Absent => cur[c] + e.len <= now
           /\ e.dur # Absent => e.len <= e.dur
<1> DEFINE s == <<c, cur[c]>>
           ending(l, d, f) == [len |-> l, dur |-> d, failed |-> f]
<1>1. /\ cur[c] \in Int /\ now \in Int /\ cur[c] < now /\ s \in Segs
      /\ file[s] \in Int /\ mtime[s] \in Int /\ mtime[s] <= now /\ Absent \in Int
  BY CurrentSegment, StoreNumbers, InstantFacts DEF TypeInv, ClockInv
<1>2. CASE opened[c]
  <2>1. cur[c] + file[s] <= mtime[s]
    <3>1. s \in Stored /\ Start(s) = cur[c]
      BY <1>2 DEF QuietInv, WrittenInv, Start
    <3> QED BY <3>1 DEF QuietInv, WrittenInv
  <2>2. e \in {ending(now - cur[c], now - cur[c], FALSE),
               ending(file[s], mtime[s] - cur[c], FALSE),
               ending(file[s], now - cur[c], TRUE), ending(now - cur[c], Absent, TRUE)}
    BY <1>2 DEF Closings
  <2> HIDE DEF s
  <2> QED BY <1>1, <2>1, <2>2
<1>3. CASE ~opened[c]
  <2>1. e \in {ending(now - cur[c], now - cur[c], FALSE), ending(Absent, Absent, FALSE),
               ending(Absent, Absent, TRUE), ending(0, Absent, TRUE),
               ending(0, now - cur[c], TRUE)}
    BY <1>3 DEF Closings
  <2> HIDE DEF s
  <2> QED BY <1>1, <2>1
<1> QED BY <1>2, <1>3

\* The recorder ends a segment: its row, or the item on its way, covers its file.
LEMMA FinalizeQuiet ==
    ASSUME TypeInv, QuietInv, Calm, NEW c \in Cameras, cur[c] # Absent,
           NEW e \in Closings(c), Finalize(c, e),
           UNCHANGED <<now, inflight, scans>>, engaged \ {c} \subseteq engaged',
           \A t \in purges' : t \in purges \/ (t.kind = "camera" /\ Held(t) = {})
    PROVE  QuietInv'
<1> DEFINE s == <<c, cur[c]>>
<1>1. /\ s \in Open /\ Open' = Open \ {s}
      /\ Indexed' \cup Queued' \subseteq Indexed \cup Queued \cup {s}
  BY FinalizeEffect
<1>2. /\ s \in Segs /\ s \notin Indexed /\ s \notin HeldSegs
      /\ \A i \in Pending : ~i.barrier => i.seg # s
      /\ \A t \in scans : t.seg # s
  BY CurrentSegment, OpenIsAlone
<1>3. /\ file \in [Segs -> Durations \cup {Absent}] /\ mtime \in [Segs -> Instants]
      /\ row \in [Segs -> Durations \cup {Absent}]
      /\ cur \in [Cameras -> Instants \cup {Absent}] /\ opened \in [Cameras -> BOOLEAN]
  BY DEF TypeInv, TypeOK, DiskType, RecorderType
<1>4. /\ file'[s] = e.len /\ \A x \in Segs : x # s => file'[x] = file[x]
  <2>1. ~(opened[c] /\ file[s] = Absent)
    BY DEF QuietInv, WrittenInv, Stored
  <2>2. file' = [file EXCEPT ![s] = e.len]
    BY <2>1 DEF Finalize
  <2> QED BY <1>2, <1>3, <2>2
<1>5. /\ e.len # Absent => mtime'[s] = now
      /\ \A x \in Segs : x # s => mtime'[x] = mtime[x]
  BY <1>2, <1>3 DEF Finalize
<1>6. /\ cur'[c] = Absent
      /\ \A d \in Cameras : d # c => cur'[d] = cur[d] /\ opened'[d] = opened[d]
  BY <1>3 DEF Finalize
<1>7. Start(s) = cur[c] /\ \A d \in Cameras : d # c => <<d, cur[d]>> # s
  BY DEF Start
<1>8. /\ e.len \in Int /\ e.dur \in Int
      /\ e.len # Absent => cur[c] + e.len <= now
      /\ e.dur # Absent => e.len <= e.dur
  BY ClosingCovers
<1>9. \/ /\ e.dur # Absent /\ row' = row /\ queue' = Append(queue, Item(s, e.dur))
      \/ /\ e.dur # Absent /\ queue' = queue /\ row' = [row EXCEPT ![s] = e.dur]
      \/ queue' = queue /\ row' = row
  BY RowWays
<1>10. Item(s, e.dur).seg = s /\ Item(s, e.dur).len = e.dur
  BY DEF Item
<1> HIDE DEF s
<1>11. \A x \in Segs : x # s => (x \in Stored' <=> x \in Stored)
  BY <1>4 DEF Stored
<1>12. ClosedInv'
  <2>1. HeldSegs' \subseteq HeldSegs
    BY DEF HeldSegs, Held
  <2> QED BY <1>1, <2>1 DEF QuietInv, ClosedInv
<1>13. EngagedInv'
  <2> SUFFICES ASSUME NEW d \in Cameras, cur'[d] # Absent
               PROVE  d \in engaged' /\ now' - LastWrite(d)' <= Idle
    BY DEF EngagedInv
  <2>1. /\ d # c /\ cur'[d] = cur[d] /\ opened'[d] = opened[d]
        /\ <<d, cur[d]>> \in Segs /\ <<d, cur[d]>> # s
    BY <1>6, <1>7, CurrentSegment
  <2>2. LastWrite(d)' = LastWrite(d)
    BY <1>5, <2>1 DEF LastWrite
  <2> QED BY <2>1, <2>2 DEF QuietInv, EngagedInv
<1>14. WrittenInv'
  <2>1. \A x \in Stored' : Start(x) + file'[x] <= mtime'[x]
    <3> TAKE x \in Stored'
    <3>1. CASE x = s
      <4>1. e.len # Absent
        BY <1>4, <3>1 DEF Stored
      <4> QED BY <1>4, <1>5, <1>7, <1>8, <3>1, <4>1
    <3>2. CASE x # s
      BY <1>4, <1>5, <1>11, <3>2 DEF QuietInv, WrittenInv, Stored
    <3> QED BY <3>1, <3>2
  <2>2. \A d \in Cameras : cur'[d] # Absent /\ opened'[d] => <<d, cur'[d]>> \in Stored'
    <3> SUFFICES ASSUME NEW d \in Cameras, cur'[d] # Absent, opened'[d]
                 PROVE  <<d, cur'[d]>> \in Stored'
      OBVIOUS
    <3>1. d # c /\ cur'[d] = cur[d] /\ opened[d]
      BY <1>6
    <3>2. <<d, cur[d]>> \in Stored /\ <<d, cur[d]>> \in Segs
      BY <3>1, CurrentSegment DEF QuietInv, WrittenInv
    <3> QED BY <1>7, <1>11, <3>1, <3>2
  <2> QED BY <2>1, <2>2 DEF WrittenInv
<1>15. \A t \in purges' : t \in purges \/ t.kind = "camera"
  OBVIOUS
<1>16. /\ \A i \in Pending : ~i.barrier => file'[i.seg] <= i.len
       /\ \A t \in scans' : t.seg \in Of(t.cam) /\ (t.pc = "insert" => file'[t.seg] <= t.len)
       /\ RetainInv'
  BY <1>2, <1>4, <1>15, FileAlone
<1>17. \A x \in Indexed' : file'[x] <= row'[x]
  <2> SUFFICES ASSUME NEW x \in Segs, row'[x] # Absent PROVE file'[x] <= row'[x]
    BY DEF Indexed
  <2>1. CASE x = s
    <3>1. row[s] = Absent
      BY <1>2 DEF Indexed
    <3>2. e.dur # Absent /\ row' = [row EXCEPT ![s] = e.dur]
      BY <1>9, <2>1, <3>1
    <3>3. row'[s] = e.dur
      BY <1>2, <1>3, <3>2
    <3> QED BY <1>4, <1>8, <2>1, <3>2, <3>3
  <2>2. CASE x # s
    <3>1. row'[x] = row[x]
      BY <1>3, <1>9, <2>2
    <3>2. file[x] <= row[x]
      BY <3>1 DEF QuietInv, LengthInv, Indexed
    <3> QED BY <1>4, <2>2, <3>1, <3>2
  <2> QED BY <2>1, <2>2
<1>18. \A i \in Pending' : ~i.barrier => file'[i.seg] <= i.len
  <2>1. CASE e.dur # Absent /\ queue' = Append(queue, Item(s, e.dur))
    <3>1. Pending' = Pending \cup {Item(s, e.dur)}
      BY <2>1, SentItem
    <3>2. file'[s] <= e.dur
      BY <1>4, <1>8, <2>1
    <3>3. \A i \in Pending' : i \in Pending \/ (i.seg = s /\ i.len = e.dur)
      BY <1>10, <3>1
    <3> QED BY <1>16, <3>2, <3>3
  <2>2. CASE queue' = queue
    BY <1>16, <2>2, SameSets
  <2> QED BY <1>9, <2>1, <2>2
<1>19. LengthInv'
  BY <1>16, <1>17, <1>18 DEF LengthInv
<1> QED BY <1>12, <1>13, <1>14, <1>16, <1>19 DEF QuietInv

LEMMA CloseSegmentQuiet ==
    ASSUME TypeInv, QuietInv, Calm, NEW c \in Cameras, CloseSegment(c) PROVE QuietInv'
<1>1. PICK e \in Closings(c) : Finalize(c, e)
  BY DEF CloseSegment
<1> QED BY <1>1, FinalizeQuiet DEF CloseSegment

LEMMA DetachQuiet ==
    ASSUME TypeInv, QuietInv, Calm, NEW c \in Cameras, Detach(c),
           \A t \in purges' : t \in purges \/ (t.kind = "camera" /\ Held(t) = {})
    PROVE  QuietInv'
<1>1. CASE cur[c] # Absent
  <2>1. PICK e \in Closings(c) : Finalize(c, e)
    BY <1>1 DEF Detach
  <2> QED BY <1>1, <2>1, FinalizeQuiet DEF Detach
<1>2. CASE cur[c] = Absent
  <2>1. /\ UNCHANGED <<now, cur, opened, file, mtime, queue, inflight, row, scans>>
        /\ engaged' = engaged \ {c}
    BY <1>2 DEF Detach
  <2>2. /\ Stored' = Stored /\ Indexed' = Indexed /\ Queued' = Queued /\ Pending' = Pending
        /\ Open' = Open
    BY <2>1, SameSets
  <2>3. ClosedInv'
    <3>1. HeldSegs' \subseteq HeldSegs
      BY DEF HeldSegs, Held
    <3> QED BY <2>2, <3>1 DEF QuietInv, ClosedInv
  <2>4. EngagedInv'
    <3>1. \A d \in Cameras : LastWrite(d)' = LastWrite(d)
      BY <2>1 DEF LastWrite
    <3> QED BY <1>2, <2>1, <3>1 DEF QuietInv, EngagedInv
  <2>5. WrittenInv' /\ LengthInv'
    BY <2>1, <2>2 DEF QuietInv, WrittenInv, LengthInv
  <2>6. RetainInv'
    BY <2>1, <2>2 DEF QuietInv, RetainInv, Held
  <2> QED BY <2>3, <2>4, <2>5, <2>6 DEF QuietInv
<1> QED BY <1>1, <1>2

LEMMA DisableCameraQuiet ==
    ASSUME TypeInv, QuietInv, Calm, NEW c \in Cameras, DisableCamera(c) PROVE QuietInv'
BY DetachQuiet DEF DisableCamera

LEMMA DeleteCameraQuiet ==
    ASSUME TypeInv, QuietInv, Calm, NEW c \in Cameras, DeleteCamera(c) PROVE QuietInv'
<1> DEFINE u == Pass("camera", c, 0, "removed", {})
<1>1. u.kind = "camera" /\ Held(u) = {} /\ purges' = purges \cup {u}
  BY DEF Held, Pass, DeleteCamera
<1> HIDE DEF u
<1> QED BY <1>1, DetachQuiet DEF DeleteCamera

LEMMA FinishCloseQuiet == ASSUME TypeInv, QuietInv, FinishClose PROVE QuietInv'
<1>1. /\ UNCHANGED <<now, file, mtime, row, cur, opened, scans, purges>>
      /\ queue' = queue /\ inflight' = inflight /\ \A c \in Cameras : cur'[c] = Absent
  BY DEF FinishClose, Drained
<1>2. /\ Stored' = Stored /\ Indexed' = Indexed /\ Queued' = Queued /\ Pending' = Pending
      /\ Open' = Open /\ HeldSegs' = HeldSegs
  BY <1>1, SameSets
<1>3. ClosedInv' /\ EngagedInv' /\ WrittenInv' /\ LengthInv'
  BY <1>1, <1>2 DEF QuietInv, ClosedInv, EngagedInv, WrittenInv, LengthInv
<1>4. RetainInv'
  BY <1>1, <1>2 DEF QuietInv, RetainInv, Held
<1> QED BY <1>3, <1>4 DEF QuietInv

\* A crash leaves at most files without footage where a part was about to be written.
LEMMA CrashQuiet == ASSUME TypeInv, StoreInv, QuietInv, Crash PROVE QuietInv'
<1>1. PICK P \in SUBSET {s \in Open : ~opened[Cam(s)]} :
        /\ file' = [s \in Segs |-> IF s \in P THEN 0 ELSE file[s]]
        /\ mtime' = [s \in Segs |-> IF s \in P THEN now ELSE mtime[s]]
  BY DEF Crash
<1>2. /\ UNCHANGED <<now, row>>
      /\ scans' = {} /\ purges' = {} /\ queue' = <<>> /\ inflight' = <<>>
      /\ \A c \in Cameras : cur'[c] = Absent
  BY DEF Crash
<1>3. Open' = {} /\ Pending' = {} /\ Indexed' = Indexed
  BY <1>2, SegmentParts, InstantFacts, SameSets DEF Open, Pending
<1>4. \A s \in P : s \in Segs /\ s \notin Indexed /\ Start(s) < now
  <2>1. P \subseteq Fresh /\ P \subseteq Segs
    BY DEF Fresh, Open
  <2>2. \A s \in P : Start(s) < now
    BY <2>1, SegmentParts, InstantFacts DEF Fresh, Open, TypeInv, ClockInv
  <2> QED BY <2>1, <2>2 DEF StoreInv, KnownInv, Known
<1>5. ClosedInv' /\ EngagedInv' /\ RetainInv'
  BY <1>2, <1>3 DEF ClosedInv, EngagedInv, RetainInv
<1>6. WrittenInv'
  <2>1. ASSUME NEW s \in Stored' PROVE Start(s) + file'[s] <= mtime'[s]
    <3>1. s \in Segs /\ file'[s] # Absent
      BY <2>1 DEF Stored
    <3>2. CASE s \in P
      BY <1>1, <1>4, <3>1, <3>2, StoreNumbers
    <3>3. CASE s \notin P
      <4>1. file'[s] = file[s] /\ mtime'[s] = mtime[s]
        BY <1>1, <3>1, <3>3
      <4> QED BY <3>1, <4>1 DEF QuietInv, WrittenInv, Stored
    <3> QED BY <3>2, <3>3
  <2> QED BY <1>2, <2>1 DEF WrittenInv
<1>7. LengthInv'
  <2>1. \A s \in Indexed : s \in Segs /\ s \notin P
    BY <1>4 DEF Indexed
  <2>2. \A s \in Indexed : file'[s] = file[s]
    BY <1>1, <2>1
  <2> QED BY <1>2, <1>3, <2>2 DEF QuietInv, LengthInv
<1> QED BY <1>5, <1>6, <1>7 DEF QuietInv

LEMMA LoseIndexQuiet == ASSUME QuietInv, LoseIndex PROVE QuietInv'
<1>1. UNCHANGED <<now, file, mtime, engaged, cur, opened, queue, inflight, scans, purges>>
  BY DEF LoseIndex, memory
<1>2. Indexed' = {}
  BY DEF LoseIndex, Indexed
<1>3. /\ Stored' = Stored /\ Queued' = Queued /\ Pending' = Pending /\ Open' = Open
      /\ HeldSegs' = HeldSegs
  BY <1>1, SameSets
<1>4. \A c \in Cameras : LastWrite(c)' = LastWrite(c)
  BY <1>1 DEF LastWrite
<1>5. ClosedInv' /\ EngagedInv' /\ WrittenInv' /\ LengthInv'
  BY <1>1, <1>2, <1>3, <1>4 DEF QuietInv, ClosedInv, EngagedInv, WrittenInv, LengthInv
<1>6. RetainInv'
  BY <1>1, <1>3 DEF QuietInv, RetainInv, Held
<1> QED BY <1>5, <1>6 DEF QuietInv

LEMMA StutterQuiet == ASSUME QuietInv, UNCHANGED vars PROVE QuietInv'
<1>1. UNCHANGED <<now, file, mtime, row, memory>>
  BY DEF vars
<1>2. UNCHANGED <<engaged, cur, opened, queue, inflight, scans, purges>>
  BY <1>1 DEF memory
<1>3. /\ Stored' = Stored /\ Indexed' = Indexed /\ Queued' = Queued /\ Pending' = Pending
      /\ Open' = Open /\ HeldSegs' = HeldSegs
  BY <1>1, <1>2, SameSets
<1>4. \A c \in Cameras : LastWrite(c)' = LastWrite(c)
  BY <1>1, <1>2 DEF LastWrite
<1>5. ClosedInv' /\ EngagedInv' /\ WrittenInv' /\ LengthInv'
  BY <1>1, <1>2, <1>3, <1>4 DEF QuietInv, ClosedInv, EngagedInv, WrittenInv, LengthInv
<1>6. RetainInv'
  BY <1>1, <1>2, <1>3 DEF QuietInv, RetainInv, Held
<1> QED BY <1>5, <1>6 DEF QuietInv

\* Every step keeps it, as long as no camera records while it is reindexed.
LEMMA NextQuiet ==
    ASSUME TypeInv, TypeInv', SpareInv, StoreInv, QuietInv, Calm, [Next]_vars
    PROVE  QuietInv'
<1>1. CASE Tick
  BY <1>1, TickCalm, CalmKeeps
<1>2. CASE Indexer
  BY <1>2, IndexerTakeCalm, IndexerInsertCalm, IndexerGiveUpCalm, IndexerBarrierCalm,
     CalmKeeps DEF Indexer
<1>3. CASE Process
  <2>1. CASE BootDone \/ BeginClose \/ Restart
    BY <2>1, BootDoneCalm, BeginCloseCalm, RestartCalm, CalmKeeps
  <2>2. CASE FinishClose \/ Crash \/ LoseIndex
    BY <2>2, FinishCloseQuiet, CrashQuiet, LoseIndexQuiet
  <2> QED BY <1>3, <2>1, <2>2 DEF Process
<1>4. ASSUME NEW c \in Cameras, Recorder(c) PROVE QuietInv'
  BY <1>4, OpenSegmentQuiet, WritePartQuiet, CloseSegmentQuiet DEF Recorder
<1>5. ASSUME NEW c \in Cameras, Operator(c) PROVE QuietInv'
  <2>1. CASE BootCamera(c) \/ EnableCamera(c)
    BY <2>1, BootCameraCalm, EnableCameraCalm, CalmKeeps
  <2>2. CASE DisableCamera(c) \/ DeleteCamera(c)
    BY <2>2, DisableCameraQuiet, DeleteCameraQuiet
  <2> QED BY <1>5, <2>1, <2>2 DEF Operator
<1>6. ASSUME NEW t \in scans, Reindex(t) PROVE QuietInv'
  BY <1>6, ReindexRangeCalm, ReindexProbeCalm, ReindexInsertCalm, ReindexDoneCalm,
     CalmKeeps DEF Reindex
<1>7. ASSUME NEW t \in purges, PurgeStep(t) PROVE QuietInv'
  <2>1. CASE StartCameraPurge(t) \/ FlushIndex(t) \/ QueryCamera(t) \/ NextBatch(t)
    BY <2>1, StartCameraPurgeCalm, FlushIndexCalm, QueryCameraCalm, NextBatchCalm, CalmKeeps
  <2>2. CASE Unlink(t) \/ DeleteRows(t) \/ UnlinkOrphan(t) \/ EndCameraPurge(t)
    BY <2>2, UnlinkCalm, DeleteRowsCalm, UnlinkOrphanCalm, EndCameraPurgeCalm, CalmKeeps
  <2> QED BY <1>7, <2>1, <2>2 DEF PurgeStep
<1>8. ASSUME NEW k \in {"clean", "sweep"}, StartRetention(k) PROVE QuietInv'
  BY <1>8, StartRetentionCalm, CalmKeeps
<1>9. CASE StartFree
  BY <1>9, StartFreeCalm, CalmKeeps
<1>10. CASE UNCHANGED vars
  BY <1>10, StutterQuiet
<1> QED BY <1>1, <1>2, <1>3, <1>4, <1>5, <1>6, <1>7, <1>8, <1>9, <1>10 DEF Next

LEMMA InitQuiet == Init => QuietInv
<1> SUFFICES ASSUME Init PROVE QuietInv
  OBVIOUS
<1>1. Stored = {} /\ Indexed = {} /\ Pending = {} /\ Queued = {} /\ HeldSegs = {}
  BY DEF Init, Stored, Indexed, Pending, Queued, HeldSegs
<1>2. \A c \in Cameras : cur[c] = Absent
  BY DEF Init
<1>3. scans = {} /\ purges = {}
  BY DEF Init
<1> QED BY <1>1, <1>2, <1>3 DEF QuietInv, ClosedInv, EngagedInv, WrittenInv, LengthInv, RetainInv

LEMMA QuietHolds == Spec /\ []Calm => [](TypeInv /\ StoreInv /\ QuietInv)
<1>1. Init => TypeInv /\ SpareInv /\ StoreInv /\ QuietInv
  BY InitType, InitStore, InitQuiet DEF Init, SpareInv, IdleInv
<1>2. TypeInv /\ SpareInv /\ StoreInv /\ QuietInv /\ Calm /\ [Next]_vars
        => TypeInv' /\ SpareInv' /\ StoreInv' /\ QuietInv'
  BY NextType, NextSpares, NextStore, NextQuiet
<1> QED BY <1>1, <1>2, PTL DEF Spec

\* No pass takes the file that a recorder is writing, whatever cutoff, query or
\* walk chose its batch, unless a Reindex gave an open segment a row.
THEOREM OpenFilesStay == Spec /\ []Calm => []OpenFileKept
<1>1. QuietInv => OpenFileKept
  BY DEF QuietInv, WrittenInv, OpenFileKept
<1> QED BY <1>1, QuietHolds, PTL

\* What playback is told never falls short of the file.  The probe of a file that
\* still grows is the only way to a row that says too little.
THEOREM RowsCoverFiles == Spec /\ []Calm => []RowCoversFile
<1>1. QuietInv => RowCoversFile
  BY DEF QuietInv, LengthInv, RowCoversFile
<1> QED BY <1>1, QuietHolds, PTL

\* Both at once, through a full queue, retention and every failure of its steps.
THEOREM IndexIsComplete ==
    Spec /\ []Calm /\ [](crashes = 0 /\ losses = 0) => []IndexTellsAll
BY RowsCoverFiles, FootageIsAccounted, PTL DEF IndexTellsAll

\* Only an unlink takes a file away.
LEMMA ClosingKeepsFile ==
    ASSUME TypeInv, StoreInv, NEW c \in Cameras, cur[c] # Absent,
           NEW e \in Closings(c), Finalize(c, e), NEW s \in Stored
    PROVE  file'[s] # Absent
<1>1. /\ file \in [Segs -> Durations \cup {Absent}] /\ s \in Segs /\ file[s] # Absent
      /\ <<c, cur[c]>> \in Segs
  BY CurrentSegment DEF TypeInv, TypeOK, DiskType, Stored
<1>2. CASE s # <<c, cur[c]>>
  BY <1>1, <1>2 DEF Finalize
<1>3. CASE s = <<c, cur[c]>>
  <2>1. opened[c]
    BY <1>3, CurrentSegment DEF StoreInv, KnownInv, Known
  <2>2. e.len \in {now - cur[c], file[s]}
    BY <1>3, <2>1 DEF Closings
  <2>3. now - cur[c] # Absent
    BY StoreNumbers DEF TypeInv, ClockInv, Absent
  <2>4. file' = [file EXCEPT ![s] = e.len]
    BY <1>1, <1>3 DEF Finalize
  <2> QED BY <1>1, <2>2, <2>3, <2>4
<1> QED BY <1>2, <1>3

\* A file that goes in a step was chosen by a pass.
LEMMA FilesGo ==
    ASSUME TypeInv, StoreInv, [Next]_vars, NEW s \in Stored, file'[s] = Absent
    PROVE  \E t \in purges : s \in t.list \cup t.todo
<1>1. s \in Segs /\ file[s] # Absent /\ file' # file
  BY DEF Stored
<1>2. ~Tick
  BY <1>1 DEF Tick
<1>3. ~Indexer
  BY <1>1 DEF Indexer, IndexerTake, IndexerInsert, IndexerGiveUp, IndexerBarrier
<1>4. ~Process
  <2>1. ~Crash
    BY <1>1, InstantFacts DEF Crash, Absent
  <2> QED BY <1>1, <2>1 DEF Process, BootDone, BeginClose, FinishClose, Restart, LoseIndex
<1>5. ASSUME NEW c \in Cameras, Recorder(c) PROVE FALSE
  <2>1. CASE OpenSegment(c)
    BY <1>1, <2>1 DEF OpenSegment
  <2>2. CASE WritePart(c)
    <3>1. now - cur[c] # Absent
      BY <2>2, StoreNumbers DEF WritePart, TypeInv, ClockInv, Absent
    <3>2. file' = file \/ file' = [file EXCEPT ![<<c, cur[c]>>] = now - cur[c]]
      BY <2>2 DEF WritePart
    <3>3. file \in [Segs -> Durations \cup {Absent}]
      BY DEF TypeInv, TypeOK, DiskType
    <3> QED BY <1>1, <3>1, <3>2, <3>3
  <2>3. CASE CloseSegment(c)
    BY <2>3, ClosingKeepsFile DEF CloseSegment
  <2> QED BY <1>5, <2>1, <2>2, <2>3 DEF Recorder
<1>6. ASSUME NEW c \in Cameras, Operator(c) PROVE FALSE
  <2>1. CASE BootCamera(c) \/ EnableCamera(c)
    BY <1>1, <2>1 DEF BootCamera, EnableCamera, Engage
  <2>2. ASSUME Detach(c) PROVE FALSE
    BY <1>1, <2>2, ClosingKeepsFile DEF Detach
  <2> QED BY <1>6, <2>1, <2>2 DEF Operator, DisableCamera, DeleteCamera
<1>7. ASSUME NEW t \in scans, Reindex(t) PROVE FALSE
  BY <1>1, <1>7 DEF Reindex, ReindexRange, ReindexProbe, ReindexInsert, ReindexDone
<1>8. ASSUME NEW t \in purges, PurgeStep(t) PROVE s \in t.list \cup t.todo
  <2>1. file \in [Segs -> Durations \cup {Absent}]
    BY DEF TypeInv, TypeOK, DiskType
  <2>2. CASE Unlink(t) \/ UnlinkOrphan(t)
    <3>1. PICK x \in t.todo \cup t.list : file' = [file EXCEPT ![x] = Absent]
      BY <1>1, <2>2 DEF Unlink, UnlinkOrphan
    <3> QED BY <1>1, <2>1, <3>1
  <2>3. ~(Unlink(t) \/ UnlinkOrphan(t)) => FALSE
    BY <1>1, <1>8 DEF PurgeStep, StartCameraPurge, FlushIndex, QueryCamera, NextBatch,
       DeleteRows, EndCameraPurge
  <2> QED BY <2>2, <2>3
<1>9. ASSUME NEW k \in {"clean", "sweep"}, StartRetention(k) PROVE FALSE
  BY <1>1, <1>9 DEF StartRetention
<1>10. ~StartFree
  BY <1>1 DEF StartFree
<1>11. ~UNCHANGED vars
  BY <1>1 DEF vars
<1> QED BY <1>2, <1>3, <1>4, <1>5, <1>6, <1>7, <1>8, <1>9, <1>10, <1>11 DEF Next

\* Retention never deletes footage younger than the window: what clean takes from
\* its rows and the sweep from the files' times both end before the cutoff.
THEOREM FreshIsSpared == Spec /\ []Calm => RetentionSparesFresh
<1>1. TypeInv /\ StoreInv /\ QuietInv /\ [Next]_vars
        => [\A s \in Stored : file'[s] = Absent =>
              \/ Start(s) + file[s] <= now - Retain
              \/ \E t \in purges : t.kind \in {"free", "camera"} /\ s \in t.list \cup t.todo]_vars
  <2> SUFFICES ASSUME TypeInv, StoreInv, QuietInv, [Next]_vars,
                      NEW s \in Stored, file'[s] = Absent,
                      \A t \in purges : s \in t.list \cup t.todo => t.kind \notin {"free", "camera"}
               PROVE  Start(s) + file[s] <= now - Retain
    OBVIOUS
  <2>1. PICK t \in purges : s \in t.list \cup t.todo
    BY FilesGo
  <2>2. t.kind \in {"clean", "sweep"} /\ s \in Held(t)
    BY <2>1, PassFacts DEF Kinds, Held
  <2>3. t.cutoff + Retain <= now /\ Start(s) + file[s] <= t.cutoff
    BY <2>2 DEF QuietInv, RetainInv
  <2>4. s \in Segs
    BY DEF Stored
  <2> QED BY <2>3, <2>4, StoreNumbers
<1> QED BY <1>1, QuietHolds, PTL DEF Spec, RetentionSparesFresh

-----------------------------------------------------------------------------
(* Deleting a camera deletes its footage, as long as a camera is deleted    *)
(* when its Reindex has ended, and created again when its purge has ended.  *)

\* The purge does not wait for a Reindex of the camera, and nothing keeps an
\* operator from creating the camera again while the purge is at work.
Settled ==
    /\ \A t \in purges : t.kind = "camera" => status[t.cam] = "deleted"
    /\ \A t \in scans : status[t.cam] # "deleted"

\* Every segment that a file, a row, a queued row or a probe tells of.
Tracked == Stored \cup Indexed \cup Queued \cup ProbedSegs

\* A deleted camera records nothing.  What is left of a camera, or is recorded for
\* it, starts after its last complete purge; every barrier is of the past.
RemovedInv ==
    /\ \A c \in Cameras : status[c] = "deleted" => c \notin engaged /\ cur[c] = Absent
    /\ \A c \in Cameras : purged[c] <= now
    /\ \A s \in Tracked \cup Open : purged[Cam(s)] <= Start(s)
    /\ \A t \in scans : t.seg \in Of(t.cam)
    /\ \A i \in Pending : i.barrier => Start(i.seg) <= now

\* A deleted camera has one purge.
OnePurge == \A t, u \in purges : t.kind = "camera" /\ u.kind = "camera" /\ t.cam = u.cam => t = u

\* No row of c is queued behind the barrier i.
AfterBarrier(i, c) ==
    /\ \A j, k \in 1..Len(queue) :
         queue[j] = i /\ j < k /\ ~queue[k].barrier => Cam(queue[k].seg) # c
    /\ inflight # <<>> /\ inflight[1] = i =>
         \A k \in 1..Len(queue) : ~queue[k].barrier => Cam(queue[k].seg) # c

\* What the purge of a camera knows at each place: its barrier is sent once and
\* closes the queue for the camera; its cutoff is after everything the camera left;
\* past the barrier nothing of it is queued, so the rows it asks for are all, and
\* the files it finds then are the last.
ClearsQueue(t) ==
    /\ t.pc = "flush" => Barrier(t) \notin Pending
    /\ t.pc = "barrier" => AfterBarrier(Barrier(t), t.cam)
    /\ t.pc \in {"query", "next", "unlink"} /\ phase # "closing" => Queued \cap Of(t.cam) = {}
    /\ t.pc = "orphans" => Queued \cap Of(t.cam) = {}
ClearsOld(t) ==
    t.pc # "removed" =>
        /\ \A s \in Stored \cap Of(t.cam) : mtime[s] < t.cutoff
        /\ \A s \in (Indexed \cup Queued) \cap Of(t.cam) : Start(s) < t.cutoff
ClearsAll(t) ==
    /\ t.pc # "unlink" => t.todo = {} /\ t.gone = {}
    /\ t.pc \in {"next", "unlink"} /\ phase # "closing" /\ ~t.failed =>
         Indexed \cap Of(t.cam) \subseteq Held(t)
    /\ t.pc = "orphans" /\ ~t.failed =>
         Indexed \cap Of(t.cam) = {} /\ Stored \cap Of(t.cam) \subseteq t.list
Clears(t) == ClearsQueue(t) /\ ClearsOld(t) /\ ClearsAll(t)

ClearInv == RemovedInv /\ OnePurge /\ \A t \in purges : t.kind = "camera" => Clears(t)

\* What a step that is not the purge's may do to the footage of its camera: nothing
\* appears that was not queued.
FilesShrink(c) == \A s \in Stored' \cap Of(c) : s \in Stored /\ mtime'[s] = mtime[s]
RowsShrink(c) == Indexed' \cap Of(c) \subseteq Indexed \cup Queued
QueueShrinks(c) ==
    /\ Queued' \cap Of(c) \subseteq Queued
    /\ \A i : AfterBarrier(i, c) => AfterBarrier(i, c)'
Shrinks(c) == FilesShrink(c) /\ RowsShrink(c) /\ QueueShrinks(c)
Undisturbed(t) ==
    /\ Shrinks(t.cam)
    /\ phase' = "closing" \/ phase # "closing"
    /\ t.pc = "flush" /\ Barrier(t) \in Pending' => Barrier(t) \in Pending

RemovedStep ==
    /\ now <= now' /\ purged' = purged
    /\ Tracked' \subseteq Tracked \cup Open
    /\ \A s \in Open' : s \in Open \/ Start(s) = now
    /\ \A c \in Cameras : status'[c] = "deleted" => c \notin engaged' /\ cur'[c] = Absent
    /\ \A t \in scans' : t.seg \in Of(t.cam)
    /\ \A i \in Pending' : i.barrier => i \in Pending \/ Start(i.seg) <= now

LEMMA RemovedKeeps ==
    ASSUME TypeInv, TypeInv', RemovedInv, RemovedStep PROVE RemovedInv'
<1>1. /\ now \in Int /\ now' \in Int
      /\ \A c \in Cameras : purged[c] \in Int
      /\ \A s \in Segs : Start(s) \in Int /\ Cam(s) \in Cameras
  BY InstantFacts, SegmentParts DEF TypeInv, TypeOK, ClockType, HistoryType
<1>2. \A c \in Cameras : purged'[c] <= now'
  BY <1>1 DEF RemovedInv, RemovedStep
<1>3. \A s \in Tracked' \cup Open' : purged'[Cam(s)] <= Start(s)
  <2>1. ASSUME NEW s \in Open', Start(s) = now PROVE purged[Cam(s)] <= Start(s)
    <3>1. s \in Segs
      BY <2>1 DEF Open
    <3> QED BY <1>1, <2>1, <3>1 DEF RemovedInv
  <2>2. \A s \in Tracked' \cup Open' : s \in Tracked \cup Open \/ (s \in Open' /\ Start(s) = now)
    BY DEF RemovedStep
  <2> QED BY <2>1, <2>2 DEF RemovedInv, RemovedStep
<1>4. \A i \in Pending' : i.barrier => Start(i.seg) <= now'
  <2>1. ASSUME NEW i \in Pending', i.barrier PROVE Start(i.seg) <= now'
    <3>1. i \in Items
      BY DEF Pending, TypeInv, TypeOK, QueueType
    <3>2. Start(i.seg) \in Int
      BY <1>1, <3>1 DEF Items
    <3>3. Start(i.seg) <= now
      BY <2>1 DEF RemovedInv, RemovedStep
    <3> QED BY <1>1, <3>2, <3>3 DEF RemovedStep
  <2> QED BY <2>1
<1> QED BY <1>2, <1>3, <1>4 DEF RemovedInv, RemovedStep

LEMMA ClearsKept ==
    ASSUME NEW t \in purges, Clears(t), Undisturbed(t) PROVE Clears(t)'
<1>1. Barrier(t)' = Barrier(t) /\ Of(t.cam)' = Of(t.cam) /\ Held(t)' = Held(t)
  BY DEF Barrier, Of, Held
<1>2. ClearsQueue(t)'
  BY <1>1 DEF Clears, ClearsQueue, Undisturbed, Shrinks,
                FilesShrink, RowsShrink, QueueShrinks
<1>3. ClearsOld(t)'
  BY <1>1 DEF Clears, ClearsOld, Undisturbed, Shrinks,
                FilesShrink, RowsShrink, QueueShrinks
<1>4. ClearsAll(t)'
  <2>1. t.pc \in {"next", "unlink"} /\ phase' # "closing" => Queued \cap Of(t.cam) = {}
    BY DEF Clears, ClearsQueue, Undisturbed
  <2>2. t.pc = "orphans" => Queued \cap Of(t.cam) = {}
    BY DEF Clears, ClearsQueue
  <2> QED BY <1>1, <2>1, <2>2 DEF Clears, ClearsAll, Undisturbed, Shrinks,
                FilesShrink, RowsShrink, QueueShrinks
<1> QED BY <1>2, <1>3, <1>4 DEF Clears

\* A step that is no purge's keeps all of it.
LEMMA ClearKeeps ==
    ASSUME TypeInv, TypeInv', ClearInv, RemovedStep, purges' \subseteq purges,
           \A t \in purges' : t.kind = "camera" => Undisturbed(t)
    PROVE  ClearInv'
<1>1. RemovedInv' /\ OnePurge'
  BY RemovedKeeps DEF ClearInv, OnePurge
<1>2. ASSUME NEW t \in purges', t.kind = "camera" PROVE Clears(t)'
  BY <1>2, ClearsKept DEF ClearInv
<1> QED BY <1>1, <1>2 DEF ClearInv

\* So does a step of a purge, if it keeps its own.
LEMMA ClearPass ==
    ASSUME TypeInv, TypeInv', ClearInv, RemovedStep, NEW t \in purges, NEW u, StepPass(t, u),
           u.kind = t.kind, u.cam = t.cam, u.kind = "camera" => Clears(u)',
           \A v \in purges : v.kind = "camera" /\ v # t => Undisturbed(v)
    PROVE  ClearInv'
<1>1. \A v \in purges' : v = u \/ (v \in purges /\ v # t)
  BY DEF StepPass
<1>2. RemovedInv' /\ OnePurge'
  BY <1>1, RemovedKeeps DEF ClearInv, OnePurge
<1>3. ASSUME NEW v \in purges', v.kind = "camera" PROVE Clears(v)'
  <2>1. CASE v = u
    BY <1>3, <2>1
  <2>2. CASE v \in purges /\ v # t
    BY <1>3, <2>2, ClearsKept DEF ClearInv
  <2> QED BY <1>1, <2>1, <2>2
<1> QED BY <1>2, <1>3 DEF ClearInv

\* What does not change does not grow.
LEMMA ShrinkSame ==
    ASSUME NEW c
    PROVE  /\ file' = file /\ mtime' = mtime => FilesShrink(c)
           /\ row' = row => RowsShrink(c)
           /\ queue' = queue /\ inflight' \in {inflight, <<>>} =>
                QueueShrinks(c) /\ Pending' \subseteq Pending /\ Queued' \subseteq Queued
<1>1. file' = file /\ mtime' = mtime => FilesShrink(c)
  BY SameSets DEF FilesShrink
<1>2. row' = row => RowsShrink(c)
  BY SameSets DEF RowsShrink
<1>3. ASSUME queue' = queue, inflight' \in {inflight, <<>>}
      PROVE  QueueShrinks(c) /\ Pending' \subseteq Pending /\ Queued' \subseteq Queued
  <2>1. {inflight'[k] : k \in 1..Len(inflight')} \subseteq {inflight[k] : k \in 1..Len(inflight)}
    BY <1>3
  <2>2. Pending' \subseteq Pending
    BY <1>3, <2>1 DEF Pending
  <2>3. Queued' \subseteq Queued
    BY <2>2 DEF Queued
  <2>4. ASSUME NEW i, AfterBarrier(i, c) PROVE AfterBarrier(i, c)'
    BY <1>3, <2>4 DEF AfterBarrier
  <2> QED BY <2>2, <2>3, <2>4 DEF QueueShrinks
<1> QED BY <1>1, <1>2, <1>3

\* A barrier, or a row of another camera, at the end of the queue.
LEMMA SentShrinks ==
    ASSUME TypeInv, NEW c, NEW x, queue' = Append(queue, x), inflight' = inflight,
           ~x.barrier => Cam(x.seg) # c
    PROVE  QueueShrinks(c)
<1>1. queue \in Seq(Items) /\ Len(queue) \in Nat
  BY DEF TypeInv, TypeOK, QueueType
<1>2. /\ Len(queue') = Len(queue) + 1 /\ queue'[Len(queue')] = x
      /\ \A k \in 1..Len(queue) : queue'[k] = queue[k]
  BY <1>1
<1>3. Queued' \cap Of(c) \subseteq Queued
  <2>1. Queued' = Queued \cup (IF x.barrier THEN {} ELSE {x.seg})
    BY SentItem
  <2> QED BY <2>1 DEF Of
<1>4. ASSUME NEW i, AfterBarrier(i, c) PROVE AfterBarrier(i, c)'
  <2>1. ASSUME NEW j \in 1..Len(queue'), NEW k \in 1..Len(queue'),
               queue'[j] = i, j < k, ~queue'[k].barrier
        PROVE  Cam(queue'[k].seg) # c
    <3>1. CASE k = Len(queue')
      BY <1>2, <2>1, <3>1
    <3>2. CASE k # Len(queue')
      <4>1. j \in 1..Len(queue) /\ k \in 1..Len(queue)
        BY <1>1, <1>2, <2>1, <3>2
      <4> QED BY <1>2, <1>4, <2>1, <4>1 DEF AfterBarrier
    <3> QED BY <3>1, <3>2
  <2>2. ASSUME inflight' # <<>>, inflight'[1] = i, NEW k \in 1..Len(queue'), ~queue'[k].barrier
        PROVE  Cam(queue'[k].seg) # c
    <3>1. CASE k = Len(queue')
      BY <1>2, <2>2, <3>1
    <3>2. CASE k # Len(queue')
      <4>1. k \in 1..Len(queue)
        BY <1>1, <1>2, <2>2, <3>2
      <4> QED BY <1>2, <1>4, <2>2, <4>1 DEF AfterBarrier
    <3> QED BY <3>1, <3>2
  <2> QED BY <2>1, <2>2 DEF AfterBarrier
<1> QED BY <1>3, <1>4 DEF QueueShrinks

\* The indexer takes the head.
LEMMA TakenShrinks ==
    ASSUME TypeInv, NEW c, inflight = <<>>, queue # <<>>,
           inflight' = <<Head(queue)>>, queue' = Tail(queue)
    PROVE  QueueShrinks(c)
<1>1. queue \in Seq(Items) /\ Len(queue) \in Nat /\ Len(queue) >= 1
  BY DEF TypeInv, TypeOK, QueueType
<1>2. /\ Len(queue') = Len(queue) - 1 /\ inflight'[1] = queue[1]
      /\ \A k \in 1..Len(queue') : queue'[k] = queue[k + 1] /\ k + 1 \in 1..Len(queue)
  BY <1>1
<1>3. Queued' = Queued
  BY TakenItem
<1>4. ASSUME NEW i, AfterBarrier(i, c) PROVE AfterBarrier(i, c)'
  <2>1. ASSUME NEW j \in 1..Len(queue'), NEW k \in 1..Len(queue'),
               queue'[j] = i, j < k, ~queue'[k].barrier
        PROVE  Cam(queue'[k].seg) # c
    <3>1. /\ queue[j + 1] = i /\ queue'[k] = queue[k + 1]
          /\ j + 1 \in 1..Len(queue) /\ k + 1 \in 1..Len(queue) /\ j + 1 < k + 1
      BY <1>1, <1>2, <2>1
    <3> QED BY <1>4, <2>1, <3>1 DEF AfterBarrier
  <2>2. ASSUME inflight'[1] = i, NEW k \in 1..Len(queue'), ~queue'[k].barrier
        PROVE  Cam(queue'[k].seg) # c
    <3>1. /\ queue[1] = i /\ queue'[k] = queue[k + 1] /\ 1 \in 1..Len(queue)
          /\ k + 1 \in 1..Len(queue) /\ 1 < k + 1
      BY <1>1, <1>2, <2>2
    <3> QED BY <1>4, <2>2, <3>1 DEF AfterBarrier
  <2> QED BY <2>1, <2>2 DEF AfterBarrier
<1> QED BY <1>3, <1>4 DEF QueueShrinks

\* What leaves the cameras, the walks and the clock's past alone needs little more.
LEMMA RemovedSame ==
    ASSUME RemovedInv, UNCHANGED <<status, engaged, cur, scans, purged>>, now <= now',
           Stored' \subseteq Stored, Indexed' \subseteq Tracked, Queued' \subseteq Queued,
           \A i \in Pending' : i.barrier => i \in Pending \/ Start(i.seg) <= now
    PROVE  RemovedStep
<1>1. Open' = Open /\ ProbedSegs' = ProbedSegs
  BY SameSets
<1> QED BY <1>1 DEF RemovedInv, RemovedStep, Tracked

\* Steps of the process and the clock that leave memory and disk alone.
LEMMA MemoryClear ==
    ASSUME TypeInv, TypeInv', ClearInv, now <= now', phase' = "closing" \/ phase # "closing",
           UNCHANGED <<status, file, mtime, row, memory, purged>>
    PROVE  ClearInv'
<1>1. UNCHANGED <<engaged, cur, opened, queue, inflight, scans, purges>>
  BY DEF memory
<1>2. /\ Stored' = Stored /\ Indexed' = Indexed /\ Pending' = Pending /\ Queued' = Queued
  BY <1>1, SameSets
<1>3. RemovedStep
  BY <1>1, <1>2, RemovedSame DEF ClearInv, Tracked
<1>4. \A t \in purges' : Undisturbed(t)
  BY <1>1, <1>2, ShrinkSame DEF Undisturbed, Shrinks
<1> QED BY <1>1, <1>3, <1>4, ClearKeeps

LEMMA TickClear == ASSUME TypeInv, TypeInv', ClearInv, Tick PROVE ClearInv'
BY MemoryClear, ClockNumber DEF Tick, history

LEMMA BootDoneClear == ASSUME TypeInv, TypeInv', ClearInv, BootDone PROVE ClearInv'
BY MemoryClear, ClockNumber DEF BootDone, history

LEMMA BeginCloseClear == ASSUME TypeInv, TypeInv', ClearInv, BeginClose PROVE ClearInv'
BY MemoryClear, ClockNumber DEF BeginClose, history

LEMMA IndexerTakeClear == ASSUME TypeInv, TypeInv', ClearInv, IndexerTake PROVE ClearInv'
<1>1. /\ UNCHANGED <<now, phase, status, engaged, file, mtime, row, cur, scans, purges, purged>>
      /\ now <= now
  BY ClockNumber DEF IndexerTake, history
<1>2. Pending' = Pending /\ Queued' = Queued /\ Stored' = Stored /\ Indexed' = Indexed
  BY <1>1, TakenItem, SameSets DEF IndexerTake
<1>3. RemovedStep
  BY <1>1, <1>2, RemovedSame DEF ClearInv, Tracked
<1>4. \A t \in purges : QueueShrinks(t.cam)
  BY TakenShrinks DEF IndexerTake
<1>5. phase' = "closing" \/ phase # "closing" \/ purges' = {}
  BY <1>1
<1>6. \A t \in purges' : Undisturbed(t)
  BY <1>1, <1>2, <1>4, ShrinkSame DEF Undisturbed, Shrinks
<1> QED BY <1>1, <1>3, <1>6, ClearKeeps

LEMMA IndexerInsertClear == ASSUME TypeInv, TypeInv', StoreInv, ClearInv, IndexerInsert PROVE ClearInv'
<1>1. /\ UNCHANGED <<now, phase, status, engaged, file, mtime, cur, scans, purges, purged>>
      /\ queue' = queue /\ inflight' = <<>> /\ inflight # <<>> /\ ~inflight[1].barrier
      /\ row' = [row EXCEPT ![inflight[1].seg] = inflight[1].len] /\ now <= now
  BY ClockNumber DEF IndexerInsert, history
<1>2. inflight[1].seg \in Queued /\ Queued' \subseteq Queued /\ Stored' = Stored
  BY <1>1, ItemLeaves, SameSets DEF StoreInv
<1>3. Indexed' \subseteq Indexed \cup Queued
  <2>1. row \in [Segs -> Durations \cup {Absent}]
    BY DEF TypeInv, TypeOK, DiskType
  <2>2. \A s \in Segs : s # inflight[1].seg => row'[s] = row[s]
    BY <1>1, <2>1
  <2> QED BY <1>2, <2>2 DEF Indexed
<1>4. Pending' \subseteq Pending
  BY <1>1, ShrinkSame
<1>5. RemovedStep
  BY <1>1, <1>2, <1>3, <1>4, RemovedSame DEF ClearInv, Tracked
<1>6. \A t \in purges' : Undisturbed(t)
  BY <1>1, <1>3, <1>4, ShrinkSame DEF Undisturbed, Shrinks, RowsShrink
<1> QED BY <1>1, <1>5, <1>6, ClearKeeps

LEMMA IndexerGiveUpClear == ASSUME TypeInv, TypeInv', ClearInv, IndexerGiveUp PROVE ClearInv'
<1>1. /\ UNCHANGED <<now, phase, status, engaged, file, mtime, row, cur, scans, purges, purged>>
      /\ queue' = queue /\ inflight' = <<>> /\ now <= now
  BY ClockNumber DEF IndexerGiveUp
<1>2. Pending' \subseteq Pending /\ Queued' \subseteq Queued /\ Stored' = Stored /\ Indexed' = Indexed
  BY <1>1, ShrinkSame, SameSets
<1>3. RemovedStep
  BY <1>1, <1>2, RemovedSame DEF ClearInv, Tracked
<1>4. \A t \in purges' : Undisturbed(t)
  BY <1>1, <1>2, ShrinkSame DEF Undisturbed, Shrinks
<1> QED BY <1>1, <1>3, <1>4, ClearKeeps

\* The barrier of a pass has come: whatever was queued of its camera is indexed or
\* given up, and no more of it follows.
LEMMA ReleasedClears ==
    ASSUME TypeInv, ClearInv, UNCHANGED <<mtime, queue>>, Queued' \subseteq Queued,
           Stored' = Stored, Indexed' = Indexed, inflight # <<>>, inflight' = <<>>,
           NEW t \in purges, t.kind = "camera", t.pc = "barrier", Barrier(t) = inflight[1],
           NEW u, u = [t EXCEPT !.pc = "query"]
    PROVE  Clears(u)'
<1>1. /\ u.pc = "query" /\ u.cam = t.cam /\ u.cutoff = t.cutoff
      /\ u.todo = {} /\ u.gone = {}
  BY PassFacts DEF Passes, ClearInv, Clears, ClearsAll
<1>2. Queued' \cap Of(t.cam) = {}
  <2>1. Pending' = {queue[k] : k \in 1..Len(queue)}
    BY DEF Pending
  <2>2. \A k \in 1..Len(queue) : ~queue[k].barrier => Cam(queue[k].seg) # t.cam
    BY DEF ClearInv, Clears, ClearsQueue, AfterBarrier
  <2> QED BY <2>1, <2>2 DEF Queued, Of
<1>3. ClearsOld(t)
  BY DEF ClearInv, Clears
<1>4. Of(u.cam)' = Of(t.cam)
  BY <1>1 DEF Of
<1>5. ClearsQueue(u)' /\ ClearsAll(u)'
  BY <1>1, <1>2, <1>4 DEF ClearsQueue, ClearsAll
<1>6. ClearsOld(u)'
  BY <1>1, <1>3, <1>4 DEF ClearsOld
<1> QED BY <1>5, <1>6 DEF Clears

LEMMA IndexerBarrierClear == ASSUME TypeInv, TypeInv', ClearInv, IndexerBarrier PROVE ClearInv'
<1>1. /\ UNCHANGED <<now, phase, status, engaged, file, mtime, row, cur, scans, purged>>
      /\ queue' = queue /\ inflight' = <<>> /\ inflight # <<>> /\ now <= now
  BY ClockNumber DEF IndexerBarrier, history
<1>2. Pending' \subseteq Pending /\ Queued' \subseteq Queued /\ Stored' = Stored /\ Indexed' = Indexed
  BY <1>1, ShrinkSame, SameSets
<1>3. RemovedStep
  BY <1>1, <1>2, RemovedSame DEF ClearInv, Tracked
<1>4. \A v \in purges' : \E t \in purges :
         /\ v.kind = t.kind /\ v.cam = t.cam
         /\ t.pc = "barrier" /\ Barrier(t) = inflight[1] => v = [t EXCEPT !.pc = "query"]
         /\ ~(t.pc = "barrier" /\ Barrier(t) = inflight[1]) => v = t
  BY PassFacts DEF IndexerBarrier, Passes
<1>5. RemovedInv' /\ OnePurge'
  <2>1. OnePurge'
    <3> SUFFICES ASSUME NEW v \in purges', NEW w \in purges',
                        v.kind = "camera", w.kind = "camera", v.cam = w.cam
                 PROVE  v = w
      BY DEF OnePurge
    <3> QED BY <1>4 DEF ClearInv, OnePurge
  <2> QED BY <1>3, <2>1, RemovedKeeps DEF ClearInv
<1>6. ASSUME NEW v \in purges', v.kind = "camera" PROVE Clears(v)'
  <2>1. PICK t \in purges :
         /\ v.kind = t.kind /\ v.cam = t.cam
         /\ t.pc = "barrier" /\ Barrier(t) = inflight[1] => v = [t EXCEPT !.pc = "query"]
         /\ ~(t.pc = "barrier" /\ Barrier(t) = inflight[1]) => v = t
    BY <1>4
  <2>2. CASE t.pc = "barrier" /\ Barrier(t) = inflight[1]
    BY <1>1, <1>2, <1>6, <2>1, <2>2, ReleasedClears
  <2>3. CASE ~(t.pc = "barrier" /\ Barrier(t) = inflight[1])
    <3>1. Undisturbed(t)
      BY <1>1, <1>2, ShrinkSame DEF Undisturbed, Shrinks
    <3>2. Clears(t)'
      BY <1>6, <2>1, <3>1, ClearsKept DEF ClearInv
    <3>3. v = t
      BY <2>1, <2>3
    <3> QED BY <3>2, <3>3
  <2> QED BY <2>2, <2>3
<1> QED BY <1>5, <1>6 DEF ClearInv

\* A camera that is engaged is not deleted, so the rows that recovery adds are of no
\* camera that is being purged, and of files that are left after any purge.
LEMMA EngageClear ==
    ASSUME TypeInv, TypeInv', ClearInv, Settled', NEW c \in Cameras, Engage(c),
           status' = [status EXCEPT ![c] = "enabled"], phase' = phase
    PROVE  ClearInv'
<1>1. /\ UNCHANGED <<now, file, mtime, cur, queue, inflight, purges, purged>> /\ now <= now
      /\ engaged' = engaged \cup {c}
  BY ClockNumber DEF Engage, history
<1>2. /\ Stored' = Stored /\ Queued' = Queued /\ Pending' = Pending /\ Open' = Open
  BY <1>1, SameSets
<1>3. status \in [Cameras -> {"enabled", "disabled", "deleted"}]
  BY DEF TypeInv, TypeOK, RecorderType
<1>4. /\ status'[c] = "enabled" /\ \A d \in Cameras : d # c => status'[d] = status[d]
  BY <1>3
<1>5. RemovedStep
  <2>1. Tracked' \subseteq Tracked
    <3>1. /\ Indexed' \subseteq Indexed \cup Playable /\ ProbedSegs' \subseteq ProbedSegs
      BY EngageAdds, EngageProbes
    <3>2. Playable \subseteq Stored
      BY DEF Playable, Stored
    <3> QED BY <1>2, <3>1, <3>2 DEF Tracked
  <2>2. \A d \in Cameras : status'[d] = "deleted" => d \notin engaged' /\ cur'[d] = Absent
    BY <1>1, <1>4 DEF ClearInv, RemovedInv
  <2>3. \A t \in scans' : t.seg \in Of(t.cam)
    <3>1. \A t \in scans' : t \in scans \/ t = Scan(c)
      BY DEF Engage
    <3>2. Scan(c).seg = <<c, 0>> /\ Scan(c).cam = c
      BY DEF Scan
    <3>3. <<c, 0>> \in Of(c)
      BY SegmentParts, InstantFacts DEF Of, Cam
    <3> QED BY <3>1, <3>2, <3>3 DEF ClearInv, RemovedInv
  <2> QED BY <1>1, <1>2, <2>1, <2>2, <2>3 DEF RemovedStep
<1>6. ASSUME NEW t \in purges', t.kind = "camera" PROVE Undisturbed(t)
  <2>1. t \in purges /\ t.cam \in Cameras /\ t.cam # c
    BY <1>1, <1>4, <1>6, PassFacts DEF Settled
  <2>2. RowsShrink(t.cam)
    <3>1. \A s \in Segs : row'[s] = row[s] \/ Cam(s) = c
      <4>1. \A s \in Recovered(c) : Cam(s) = c
        BY DEF Recovered, Of
      <4> QED BY <4>1 DEF Engage
    <3> QED BY <2>1, <3>1 DEF RowsShrink, Indexed, Of
  <2> QED BY <1>1, <1>2, <2>1, <2>2, ShrinkSame DEF Undisturbed, Shrinks
<1> QED BY <1>1, <1>5, <1>6, ClearKeeps

LEMMA BootCameraClear ==
    ASSUME TypeInv, TypeInv', ClearInv, Settled', NEW c \in Cameras, BootCamera(c) PROVE ClearInv'
<1>1. status' = [status EXCEPT ![c] = "enabled"]
  <2>1. status \in [Cameras -> {"enabled", "disabled", "deleted"}]
    BY DEF TypeInv, TypeOK, RecorderType
  <2> QED BY <2>1 DEF BootCamera
<1> QED BY <1>1, EngageClear DEF BootCamera

LEMMA EnableCameraClear ==
    ASSUME TypeInv, TypeInv', ClearInv, Settled', NEW c \in Cameras, EnableCamera(c) PROVE ClearInv'
BY EngageClear DEF EnableCamera

\* Steps of a Reindex: its camera is none that is being purged.
LEMMA ScansClear ==
    ASSUME TypeInv, TypeInv', ClearInv,
           UNCHANGED <<now, phase, status, engaged, file, mtime, cur, queue, inflight, purges, purged>>,
           ProbedSegs' \subseteq ProbedSegs \cup Stored, \A u \in scans' : u.seg \in Of(u.cam),
           Indexed' \subseteq Tracked, \A t \in purges : t.kind = "camera" => RowsShrink(t.cam)
    PROVE  ClearInv'
<1>1. /\ Stored' = Stored /\ Queued' = Queued /\ Pending' = Pending /\ Open' = Open /\ now <= now
  BY SameSets, ClockNumber
<1>2. RemovedStep
  BY <1>1 DEF RemovedStep, Tracked, ClearInv, RemovedInv
<1>3. \A t \in purges' : t.kind = "camera" => Undisturbed(t)
  BY <1>1, ShrinkSame DEF Undisturbed, Shrinks
<1> QED BY <1>2, <1>3, ClearKeeps

LEMMA ScanStepClear ==
    ASSUME TypeInv, TypeInv', ClearInv, NEW t \in scans, NEW u, StepScan(t, u),
           UNCHANGED <<now, phase, status, engaged, file, mtime, cur, queue, inflight, purges, purged>>,
           u.seg \in Of(u.cam), u.pc = "insert" => u.seg \in Stored,
           Indexed' \subseteq Tracked, \A v \in purges : v.kind = "camera" => RowsShrink(v.cam)
    PROVE  ClearInv'
<1>1. ProbedSegs' \subseteq ProbedSegs \cup Stored
  BY ProbedStep
<1>2. \A v \in scans' : v \in scans \/ v = u
  BY DEF StepScan
<1>3. \A v \in scans' : v.seg \in Of(v.cam)
  BY <1>2 DEF ClearInv, RemovedInv
<1> QED BY <1>1, <1>3, ScansClear

LEMMA ReindexRangeClear ==
    ASSUME TypeInv, TypeInv', ClearInv, NEW t \in scans, ReindexRange(t) PROVE ClearInv'
<1> DEFINE u == [t EXCEPT !.pc = "walk", !.known = Indexed \cap Of(t.cam), !.since = now]
<1>1. u.pc = "walk" /\ u.seg = t.seg /\ u.cam = t.cam /\ StepScan(t, u)
  BY ScanFacts DEF Scans, ReindexRange
<1>2. t.seg \in Of(t.cam) /\ Indexed' \subseteq Tracked
  BY SameSets DEF ClearInv, RemovedInv, Tracked, ReindexRange
<1> HIDE DEF u
<1> QED BY <1>1, <1>2, ShrinkSame, ScanStepClear DEF ReindexRange, history

LEMMA ReindexProbeClear ==
    ASSUME TypeInv, TypeInv', ClearInv, NEW t \in scans, ReindexProbe(t) PROVE ClearInv'
<1>1. PICK s \in Ahead(t) :
        StepScan(t, [t EXCEPT !.pc = "insert", !.next = Start(s) + 1, !.seg = s, !.len = file[s]])
  BY DEF ReindexProbe
<1> DEFINE u == [t EXCEPT !.pc = "insert", !.next = Start(s) + 1, !.seg = s, !.len = file[s]]
<1>2. u.seg = s /\ u.cam = t.cam
  BY ScanFacts DEF Scans
<1>3. s \in Stored /\ s \in Of(t.cam) /\ Indexed' \subseteq Tracked
  BY SameSets DEF Ahead, Playable, Stored, Tracked, ReindexProbe
<1> HIDE DEF u
<1>4. StepScan(t, u)
  BY <1>1 DEF u
<1> QED BY <1>2, <1>3, <1>4, ShrinkSame, ScanStepClear DEF ReindexProbe, history

LEMMA ReindexInsertClear ==
    ASSUME TypeInv, TypeInv', ClearInv, Settled, NEW t \in scans, ReindexInsert(t) PROVE ClearInv'
<1> DEFINE u == [t EXCEPT !.pc = "walk", !.seg = <<t.cam, 0>>, !.len = 0]
<1>1. u.pc = "walk" /\ u.seg = <<t.cam, 0>> /\ u.cam = t.cam /\ StepScan(t, u)
  BY ScanFacts DEF Scans, ReindexInsert
<1>2. <<t.cam, 0>> \in Of(t.cam)
  BY ScanFacts, SegmentParts, InstantFacts DEF Of, Cam
<1>3. \A s \in Segs : row'[s] = row[s] \/ s = t.seg
  <2>1. row \in [Segs -> Durations \cup {Absent}]
    BY DEF TypeInv, TypeOK, DiskType
  <2> QED BY <2>1 DEF ReindexInsert
<1>4. t.seg \in ProbedSegs /\ Cam(t.seg) = t.cam
  BY DEF ProbedSegs, ReindexInsert, ClearInv, RemovedInv, Of
<1>5. Indexed' \subseteq Tracked
  BY <1>3, <1>4 DEF Indexed, Tracked
<1>6. \A v \in purges : v.kind = "camera" => RowsShrink(v.cam)
  <2>1. \A v \in purges : v.kind = "camera" => v.cam # t.cam
    BY DEF Settled
  <2> QED BY <1>3, <1>4, <2>1 DEF RowsShrink, Indexed, Of
<1> HIDE DEF u
<1> QED BY <1>1, <1>2, <1>5, <1>6, ScanStepClear DEF ReindexInsert

LEMMA ReindexDoneClear ==
    ASSUME TypeInv, TypeInv', ClearInv, NEW t \in scans, ReindexDone(t) PROVE ClearInv'
<1>1. scans' \subseteq scans /\ row' = row
  BY DEF ReindexDone
<1>2. ProbedSegs' \subseteq ProbedSegs /\ Indexed' \subseteq Tracked
  BY <1>1, SameSets DEF ProbedSegs, Tracked
<1>3. \A u \in scans' : u.seg \in Of(u.cam)
  BY <1>1 DEF ClearInv, RemovedInv
<1> QED BY <1>1, <1>2, <1>3, ShrinkSame, ScansClear DEF ReindexDone

\* A recorder's step, or the end of its segment: only its own camera's segments
\* change, and that camera is not being purged.
RecorderStep(c) ==
    /\ now <= now' /\ UNCHANGED <<phase, inflight, scans, purged>> /\ engaged' \subseteq engaged
    /\ \A s \in Segs : Cam(s) # c => file'[s] = file[s] /\ mtime'[s] = mtime[s] /\ row'[s] = row[s]
    /\ \A d \in Cameras : d # c => cur'[d] = cur[d] /\ status'[d] = status[d]
    /\ status'[c] = "deleted" => c \notin engaged' /\ cur'[c] = Absent
    /\ queue' = queue \/ \E x \in Items : queue' = Append(queue, x) /\ ~x.barrier /\ Cam(x.seg) = c
    /\ Tracked' \subseteq Tracked \cup Open
    /\ \A s \in Open' : s \in Open \/ Start(s) = now

LEMMA RecorderClear ==
    ASSUME TypeInv, ClearInv, Settled, NEW c \in Cameras, status[c] # "deleted", RecorderStep(c)
    PROVE  RemovedStep /\ \A t \in purges : t.kind = "camera" => Undisturbed(t)
<1>1. \A i \in Pending' : i.barrier => i \in Pending
  <2>1. CASE queue' = queue
    BY <2>1, SameSets DEF RecorderStep
  <2>2. ASSUME NEW x \in Items, queue' = Append(queue, x), ~x.barrier
        PROVE  \A i \in Pending' : i.barrier => i \in Pending
    BY <2>2, SentItem DEF RecorderStep
  <2> QED BY <2>1, <2>2 DEF RecorderStep
<1>2. RemovedStep
  <2>1. \A d \in Cameras : status'[d] = "deleted" => d \notin engaged' /\ cur'[d] = Absent
    BY DEF ClearInv, RemovedInv, RecorderStep
  <2> QED BY <1>1, <2>1 DEF RecorderStep, RemovedStep, ClearInv, RemovedInv
<1>3. ASSUME NEW t \in purges, t.kind = "camera" PROVE Undisturbed(t)
  <2>1. t.cam # c
    BY <1>3 DEF Settled
  <2>2. FilesShrink(t.cam) /\ RowsShrink(t.cam)
    <3>1. \A s \in Of(t.cam) : s \in Segs /\ Cam(s) # c
      BY <2>1 DEF Of
    <3> QED BY <3>1 DEF RecorderStep, FilesShrink, RowsShrink, Stored, Indexed
  <2>3. QueueShrinks(t.cam)
    <3>1. CASE queue' = queue
      BY <3>1, ShrinkSame DEF RecorderStep
    <3>2. ASSUME NEW x \in Items, queue' = Append(queue, x), ~x.barrier, Cam(x.seg) = c
          PROVE  QueueShrinks(t.cam)
      BY <2>1, <3>2, SentShrinks DEF RecorderStep
    <3> QED BY <3>1, <3>2 DEF RecorderStep
  <2>4. Barrier(t) \in Pending' => Barrier(t) \in Pending
    BY <1>1 DEF Barrier
  <2> QED BY <2>2, <2>3, <2>4 DEF Undisturbed, Shrinks, RecorderStep
<1> QED BY <1>2, <1>3

\* A camera that records is not deleted.
LEMMA RecordingStays ==
    ASSUME ClearInv, NEW c \in Cameras, c \in engaged \/ cur[c] # Absent
    PROVE  status[c] # "deleted"
BY DEF ClearInv, RemovedInv

LEMMA OpenSegmentClear ==
    ASSUME TypeInv, TypeInv', ClearInv, Settled, NEW c \in Cameras, OpenSegment(c) PROVE ClearInv'
<1>1. /\ UNCHANGED <<phase, status, engaged, file, mtime, row, queue, inflight, scans, purges, purged>>
      /\ now' = now + 1 /\ now <= now' /\ c \in engaged /\ cur' = [cur EXCEPT ![c] = now]
  BY ClockNumber DEF OpenSegment, history
<1>2. /\ Stored' = Stored /\ Indexed' = Indexed /\ Queued' = Queued /\ ProbedSegs' = ProbedSegs
  BY <1>1, SameSets
<1>3. cur \in [Cameras -> Instants \cup {Absent}] /\ status[c] # "deleted"
  BY <1>1, RecordingStays DEF TypeInv, TypeOK, RecorderType
<1>4. \A s \in Open' : s \in Open \/ Start(s) = now
  <2> SUFFICES ASSUME NEW s \in Open' PROVE s \in Open \/ Start(s) = now
    OBVIOUS
  <2>1. s \in Segs /\ Cam(s) \in Cameras /\ cur'[Cam(s)] = Start(s)
    BY SegmentParts DEF Open
  <2>2. CASE Cam(s) = c
    BY <1>1, <1>3, <2>1, <2>2
  <2>3. CASE Cam(s) # c
    BY <1>1, <1>3, <2>1, <2>3 DEF Open
  <2> QED BY <2>2, <2>3
<1>5. RecorderStep(c)
  BY <1>1, <1>2, <1>3, <1>4 DEF RecorderStep, Tracked
<1>6. RemovedStep /\ \A t \in purges : t.kind = "camera" => Undisturbed(t)
  BY <1>3, <1>5, RecorderClear
<1> QED BY <1>1, <1>6, ClearKeeps

LEMMA WritePartClear ==
    ASSUME TypeInv, TypeInv', ClearInv, Settled, NEW c \in Cameras, WritePart(c) PROVE ClearInv'
<1> DEFINE s == <<c, cur[c]>>
<1>1. /\ UNCHANGED <<now, phase, status, engaged, row, cur, queue, inflight, scans, purges, purged>>
      /\ now <= now /\ cur[c] # Absent
      /\ file' = file \/ file' = [file EXCEPT ![s] = now - cur[c]]
      /\ mtime' = [mtime EXCEPT ![s] = now]
  BY ClockNumber DEF WritePart, history
<1>2. /\ Open' = Open /\ Indexed' = Indexed /\ Queued' = Queued /\ ProbedSegs' = ProbedSegs
  BY <1>1, SameSets
<1>3. /\ file \in [Segs -> Durations \cup {Absent}] /\ mtime \in [Segs -> Instants]
      /\ status[c] # "deleted"
  BY <1>1, RecordingStays DEF TypeInv, TypeOK, DiskType
<1>4. s \in Segs /\ s \in Open /\ Cam(s) = c
  BY <1>1, CurrentSegment DEF Cam
<1> HIDE DEF s
<1>5. /\ \A x \in Segs : x # s => file'[x] = file[x] /\ mtime'[x] = mtime[x]
      /\ Stored' \subseteq Stored \cup {s}
  BY <1>1, <1>3 DEF Stored
<1>6. RecorderStep(c)
  BY <1>1, <1>2, <1>3, <1>4, <1>5 DEF RecorderStep, Tracked
<1>7. RemovedStep /\ \A t \in purges : t.kind = "camera" => Undisturbed(t)
  BY <1>3, <1>6, RecorderClear
<1> QED BY <1>1, <1>7, ClearKeeps

\* The end of a segment as a recorder's step.
LEMMA FinalizeSteps ==
    ASSUME TypeInv, ClearInv, NEW c \in Cameras, cur[c] # Absent, NEW e \in Closings(c), Finalize(c, e),
           UNCHANGED <<now, phase, inflight, scans, purged>>, engaged' \subseteq engaged,
           \A d \in Cameras : d # c => status'[d] = status[d],
           status'[c] = "deleted" => c \notin engaged'
    PROVE  RecorderStep(c)
<1> DEFINE s == <<c, cur[c]>>
<1>1. /\ s \in Open /\ Open' = Open \ {s} /\ Stored' \subseteq Stored \cup ({s} \cap Fresh)
      /\ Indexed' \cup Queued' \subseteq Indexed \cup Queued \cup {s}
  BY FinalizeEffect
<1>2. s \in Segs /\ Cam(s) = c
  BY CurrentSegment DEF Cam
<1>3. /\ file \in [Segs -> Durations \cup {Absent}] /\ mtime \in [Segs -> Instants]
      /\ row \in [Segs -> Durations \cup {Absent}] /\ cur \in [Cameras -> Instants \cup {Absent}]
  BY DEF TypeInv, TypeOK, DiskType, RecorderType
<1>4. /\ cur' = [cur EXCEPT ![c] = Absent]
      /\ file' = file \/ file' = [file EXCEPT ![s] = e.len]
      /\ mtime' = mtime \/ mtime' = [mtime EXCEPT ![s] = now]
  BY DEF Finalize
<1>5. /\ row' = row \/ row' = [row EXCEPT ![s] = e.dur]
      /\ queue' = queue \/ (e.dur # Absent /\ queue' = Append(queue, Item(s, e.dur)))
  BY RowWays
<1> HIDE DEF s
<1>6. \A x \in Segs : x # s => file'[x] = file[x] /\ mtime'[x] = mtime[x] /\ row'[x] = row[x]
  BY <1>3, <1>4, <1>5
<1>7. cur'[c] = Absent /\ \A d \in Cameras : d # c => cur'[d] = cur[d]
  BY <1>3, <1>4
<1>8. queue' = queue \/ \E x \in Items : queue' = Append(queue, x) /\ ~x.barrier /\ Cam(x.seg) = c
  <2>1. e.dur # Absent => e.dur \in Durations
    BY ClosingIsTyped
  <2>2. e.dur # Absent => /\ Item(s, e.dur) \in Items /\ ~Item(s, e.dur).barrier
                          /\ Item(s, e.dur).seg = s
    BY <1>2, <2>1, ItemIsTyped DEF Item
  <2> QED BY <1>2, <1>5, <2>2
<1>9. ProbedSegs' = ProbedSegs /\ now <= now
  BY SameSets, ClockNumber
<1> QED BY <1>1, <1>2, <1>6, <1>7, <1>8, <1>9 DEF RecorderStep, Tracked

LEMMA CloseSegmentClear ==
    ASSUME TypeInv, TypeInv', ClearInv, Settled, NEW c \in Cameras, CloseSegment(c) PROVE ClearInv'
<1>1. PICK e \in Closings(c) : Finalize(c, e)
  BY DEF CloseSegment
<1>2. status[c] # "deleted"
  BY RecordingStays DEF CloseSegment
<1>3. status' = status /\ engaged' = engaged /\ purges' = purges
  BY DEF CloseSegment
<1>4. RecorderStep(c)
  BY <1>1, <1>2, <1>3, FinalizeSteps DEF CloseSegment
<1>5. RemovedStep /\ \A t \in purges : t.kind = "camera" => Undisturbed(t)
  BY <1>2, <1>4, RecorderClear
<1> QED BY <1>3, <1>5, ClearKeeps

\* Detaching a camera ends its segment, if it has one.
LEMMA DetachSteps ==
    ASSUME TypeInv, ClearInv, NEW c \in Cameras, Detach(c),
           \A d \in Cameras : d # c => status'[d] = status[d]
    PROVE  RecorderStep(c)
<1>1. /\ UNCHANGED <<now, phase, inflight, scans, purged>> /\ engaged' = engaged \ {c}
      /\ now <= now
  BY ClockNumber DEF Detach
<1>2. CASE cur[c] # Absent
  <2>1. PICK e \in Closings(c) : Finalize(c, e)
    BY <1>2 DEF Detach
  <2> QED BY <1>1, <1>2, <2>1, FinalizeSteps
<1>3. CASE cur[c] = Absent
  <2>1. UNCHANGED <<cur, opened, file, mtime, queue, row>>
    BY <1>3 DEF Detach
  <2>2. /\ Stored' = Stored /\ Indexed' = Indexed /\ Queued' = Queued /\ ProbedSegs' = ProbedSegs
        /\ Open' = Open
    BY <1>1, <2>1, SameSets
  <2> QED BY <1>1, <1>3, <2>1, <2>2 DEF RecorderStep, Tracked
<1> QED BY <1>2, <1>3

LEMMA DisableCameraClear ==
    ASSUME TypeInv, TypeInv', ClearInv, Settled, NEW c \in Cameras, DisableCamera(c) PROVE ClearInv'
<1>1. status[c] # "deleted" /\ purges' = purges /\ Detach(c)
      /\ \A d \in Cameras : d # c => status'[d] = status[d]
  BY DEF DisableCamera, TypeInv, TypeOK, RecorderType
<1>2. RemovedStep /\ \A t \in purges : t.kind = "camera" => Undisturbed(t)
  BY <1>1, DetachSteps, RecorderClear
<1> QED BY <1>1, <1>2, ClearKeeps

\* The purge that a deletion starts is the only one of its camera: it was not deleted.
LEMMA DeleteCameraClear ==
    ASSUME TypeInv, TypeInv', ClearInv, Settled, NEW c \in Cameras, DeleteCamera(c) PROVE ClearInv'
<1> DEFINE p == Pass("camera", c, 0, "removed", {})
<1>1. status[c] # "deleted" /\ purges' = purges \cup {p} /\ Detach(c)
      /\ \A d \in Cameras : d # c => status'[d] = status[d]
  BY DEF DeleteCamera, TypeInv, TypeOK, RecorderType
<1>2. RemovedStep /\ \A t \in purges : t.kind = "camera" => Undisturbed(t)
  BY <1>1, DetachSteps, RecorderClear
<1>3. p.pc = "removed" /\ p.cam = c /\ p.todo = {} /\ p.gone = {}
  BY DEF Pass
<1>4. \A t \in purges : t.kind = "camera" => t.cam # c
  BY <1>1 DEF Settled
<1> HIDE DEF p
<1>5. OnePurge'
  BY <1>1, <1>3, <1>4 DEF OnePurge, ClearInv
<1>6. RemovedInv'
  BY <1>2, RemovedKeeps DEF ClearInv
<1>7. Clears(p)'
  BY <1>3 DEF Clears, ClearsQueue, ClearsOld, ClearsAll
<1>8. \A t \in purges' : t.kind = "camera" => Clears(t)'
  <2>1. ASSUME NEW t \in purges, t.kind = "camera" PROVE Clears(t)'
    BY <1>2, <2>1, ClearsKept DEF ClearInv
  <2> QED BY <1>1, <1>7, <2>1
<1> QED BY <1>5, <1>6, <1>8 DEF ClearInv

\* The ends of the process: no pass is left.
LEMMA FinishCloseClear == ASSUME TypeInv, TypeInv', ClearInv, FinishClose PROVE ClearInv'
<1>1. /\ UNCHANGED <<now, status, file, row, cur, scans, purges, purged>> /\ now <= now
      /\ engaged' = {} /\ purges = {} /\ queue' = <<>> /\ inflight' = <<>>
  BY ClockNumber DEF FinishClose, history
<1>2. /\ Stored' = Stored /\ Indexed' = Indexed /\ Open' = Open /\ ProbedSegs' = ProbedSegs
  BY <1>1, SameSets
<1>3. Pending' = {} /\ Queued' = {}
  BY <1>1 DEF Pending, Queued
<1>4. RemovedStep
  BY <1>1, <1>2, <1>3 DEF RemovedStep, Tracked, ClearInv, RemovedInv
<1> QED BY <1>1, <1>4, ClearKeeps

LEMMA CrashClear == ASSUME TypeInv, TypeInv', ClearInv, Crash PROVE ClearInv'
<1>1. PICK P \in SUBSET {s \in Open : ~opened[Cam(s)]} :
        file' = [s \in Segs |-> IF s \in P THEN 0 ELSE file[s]]
  BY DEF Crash
<1>2. /\ UNCHANGED <<now, status, row, purged>> /\ now <= now
      /\ engaged' = {} /\ scans' = {} /\ purges' = {} /\ queue' = <<>> /\ inflight' = <<>>
      /\ \A c \in Cameras : cur'[c] = Absent
  BY ClockNumber DEF Crash
<1>3. /\ Pending' = {} /\ Queued' = {} /\ ProbedSegs' = {} /\ Indexed' = Indexed
  BY <1>2, SameSets DEF Pending, Queued, ProbedSegs
<1>4. Open' = {}
  BY <1>2, SegmentParts, InstantFacts DEF Open
<1>5. Stored' \subseteq Stored \cup Open
  <2>1. \A s \in Segs : s \notin P => file'[s] = file[s]
    BY <1>1
  <2> QED BY <2>1 DEF Stored
<1>6. RemovedStep
  BY <1>2, <1>3, <1>4, <1>5 DEF RemovedStep, Tracked
<1> QED BY <1>2, <1>6, ClearKeeps

\* ReindexAll inserts rows of files that are left.
LEMMA RestartClear == ASSUME TypeInv, TypeInv', StoreInv, ClearInv, Restart PROVE ClearInv'
<1>1. /\ UNCHANGED <<now, status, file, engaged, cur, queue, inflight, scans, purges, purged>>
      /\ now <= now
  BY ClockNumber DEF Restart, memory, history
<1>2. purges = {}
  BY DEF StoreInv, DownInv, Restart
<1>3. /\ Stored' = Stored /\ Queued' = Queued /\ Pending' = Pending
  BY <1>1, SameSets
<1>4. Indexed' \subseteq Tracked
  <2>1. \A s \in Segs : row'[s] = row[s] \/ s \in Playable
    BY DEF Restart
  <2> QED BY <2>1 DEF Indexed, Playable, Stored, Tracked
<1>5. RemovedStep
  BY <1>1, <1>3, <1>4, RemovedSame DEF ClearInv
<1> QED BY <1>1, <1>2, <1>5, ClearKeeps

LEMMA LoseIndexClear == ASSUME TypeInv, TypeInv', StoreInv, ClearInv, LoseIndex PROVE ClearInv'
<1>1. /\ UNCHANGED <<now, status, file, engaged, cur, queue, inflight, scans, purges, purged>>
      /\ now <= now
  BY ClockNumber DEF LoseIndex, memory, history
<1>2. purges = {}
  BY DEF StoreInv, DownInv, LoseIndex
<1>3. /\ Stored' = Stored /\ Queued' = Queued /\ Pending' = Pending
  BY <1>1, SameSets
<1>4. Indexed' = {}
  BY DEF LoseIndex, Indexed
<1>5. RemovedStep
  BY <1>1, <1>3, <1>4, RemovedSame DEF ClearInv
<1> QED BY <1>1, <1>2, <1>5, ClearKeeps

\* What any pass does to the footage: files and rows go, nothing comes.
LEMMA PassTakes ==
    ASSUME TypeInv, ClearInv, now <= now', Stored' \subseteq Stored, Indexed' \subseteq Indexed,
           UNCHANGED <<phase, status, engaged, mtime, cur, queue, inflight, scans, purged>>
    PROVE  /\ RemovedStep /\ \A t \in purges : Undisturbed(t)
           /\ Pending' = Pending /\ Queued' = Queued
<1>1. Pending' = Pending /\ Queued' = Queued
  BY SameSets
<1>2. RemovedStep
  BY <1>1, RemovedSame DEF ClearInv, Tracked
<1>3. \A t \in purges : Undisturbed(t)
  BY <1>1, ShrinkSame DEF Undisturbed, Shrinks, FilesShrink, RowsShrink
<1> QED BY <1>1, <1>2, <1>3

\* A new pass that is no camera's.
LEMMA NewPassClear ==
    ASSUME TypeInv, TypeInv', ClearInv, NEW p, purges' = purges \cup {p}, p.kind # "camera",
           UNCHANGED <<now, phase, status, engaged, file, mtime, row, cur, queue, inflight, scans, purged>>
    PROVE  ClearInv'
<1>1. Stored' = Stored /\ Indexed' = Indexed /\ now <= now
  BY SameSets, ClockNumber
<1>2. RemovedStep /\ \A t \in purges : Undisturbed(t)
  BY <1>1, PassTakes
<1>3. RemovedInv' /\ OnePurge'
  BY <1>2, RemovedKeeps DEF ClearInv, OnePurge
<1>4. ASSUME NEW t \in purges', t.kind = "camera" PROVE Clears(t)'
  BY <1>2, <1>4, ClearsKept DEF ClearInv
<1> QED BY <1>3, <1>4 DEF ClearInv

LEMMA StartRetentionClear ==
    ASSUME TypeInv, TypeInv', ClearInv, NEW k \in {"clean", "sweep"}, StartRetention(k) PROVE ClearInv'
<1> DEFINE p == Pass(k, NoCamera, now - Retain, "next", IF k = "sweep" THEN Stale(now - Retain) ELSE {})
<1>1. p.kind # "camera" /\ purges' = purges \cup {p}
  BY DEF Pass, StartRetention
<1> HIDE DEF p
<1> QED BY <1>1, NewPassClear DEF StartRetention, history

LEMMA StartFreeClear == ASSUME TypeInv, TypeInv', ClearInv, StartFree PROVE ClearInv'
<1> DEFINE p == Pass("free", NoCamera, 0, "next", {})
<1>1. p.kind # "camera" /\ purges' = purges \cup {p}
  BY DEF Pass, StartFree
<1> HIDE DEF p
<1> QED BY <1>1, NewPassClear DEF StartFree, history

\* A pass that ends, or steps.
LEMMA PassEnds ==
    ASSUME TypeInv, TypeInv', ClearInv, NEW t \in purges, EndPass(t),
           now <= now', Stored' \subseteq Stored, Indexed' \subseteq Indexed,
           UNCHANGED <<phase, status, engaged, mtime, cur, queue, inflight, scans, purged>>
    PROVE  ClearInv'
<1>1. RemovedStep /\ \A v \in purges : Undisturbed(v)
  BY PassTakes
<1> QED BY <1>1, ClearKeeps DEF EndPass

LEMMA PassSteps ==
    ASSUME TypeInv, TypeInv', ClearInv, NEW t \in purges, NEW u, StepPass(t, u),
           u.kind = t.kind, u.cam = t.cam, u.kind = "camera" => Clears(u)',
           now <= now', Stored' \subseteq Stored, Indexed' \subseteq Indexed,
           UNCHANGED <<phase, status, engaged, mtime, cur, queue, inflight, scans, purged>>
    PROVE  ClearInv'
<1>1. RemovedStep /\ \A v \in purges : Undisturbed(v)
  BY PassTakes
<1> QED BY <1>1, ClearPass

\* The cutoff is after everything the camera left, and no barrier has it.
LEMMA StartCameraPurgeClear ==
    ASSUME TypeInv, TypeInv', StoreInv, ClearInv, NEW t \in purges, StartCameraPurge(t) PROVE ClearInv'
<1>0. PICK u : u = [t EXCEPT !.cutoff = now + 1, !.pc = "flush"]
  OBVIOUS
<1>1. /\ UNCHANGED <<phase, status, engaged, file, mtime, row, cur, queue, inflight, scans, purged>>
      /\ now <= now' /\ StepPass(t, u) /\ t.pc = "removed"
  BY <1>0, ClockNumber DEF StartCameraPurge, history
<1>2. /\ u.kind = t.kind /\ u.cam = t.cam /\ u.cutoff = now + 1 /\ u.pc = "flush"
      /\ u.todo = t.todo /\ u.gone = t.gone
  BY <1>0, PassFacts DEF Passes
<1>3. /\ Stored' = Stored /\ Indexed' = Indexed /\ Pending' = Pending /\ Queued' = Queued
      /\ now \in Int
  BY <1>1, SameSets, ClockNumber
<1>4. ASSUME u.kind = "camera" PROVE Clears(u)'
  <2>1. ClearsQueue(u)'
    <3>1. Barrier(u).barrier /\ Start(Barrier(u).seg) = now + 1
      BY <1>2 DEF Barrier, Start
    <3>2. Barrier(u) \notin Pending
      BY <1>3, <3>1 DEF ClearInv, RemovedInv
    <3>3. Barrier(u)' = Barrier(u)
      BY DEF Barrier
    <3> QED BY <1>2, <1>3, <3>2, <3>3 DEF ClearsQueue
  <2>2. ClearsOld(u)'
    <3>1. \A s \in Stored : mtime[s] < now + 1
      <4>1. \A s \in Stored : mtime[s] \in Int /\ mtime[s] <= now
        BY InstantFacts DEF Stored, TypeInv, TypeOK, DiskType, ClockInv
      <4> QED BY <1>3, <4>1
    <3>2. \A s \in Indexed \cup Queued : Start(s) < now + 1
      <4>1. \A s \in Indexed \cup Queued : s \in Segs /\ Start(s) < now
        BY KnownSegs DEF Known, StoreInv, KnownInv
      <4>2. \A s \in Indexed \cup Queued : Start(s) \in Int
        BY <4>1, SegmentParts, InstantFacts
      <4> QED BY <1>3, <4>1, <4>2
    <3> QED BY <1>1, <1>2, <1>3, <3>1, <3>2 DEF ClearsOld, Of
  <2>3. ClearsAll(u)'
    <3>1. t.kind = "camera" /\ t.todo = {} /\ t.gone = {}
      BY <1>1, <1>2, <1>4 DEF ClearInv, Clears, ClearsAll
    <3> QED BY <1>2, <3>1 DEF ClearsAll
  <2> QED BY <2>1, <2>2, <2>3 DEF Clears
<1> QED BY <1>1, <1>2, <1>3, <1>4, PassSteps

\* The barrier is sent behind everything queued of the camera.
LEMMA BarrierSent ==
    ASSUME TypeInv, ClearInv, NEW t \in purges, t.kind = "camera", t.pc = "flush",
           queue' = Append(queue, Barrier(t)), inflight' = inflight
    PROVE  AfterBarrier(Barrier(t), t.cam)'
<1>1. queue \in Seq(Items) /\ inflight \in Seq(Items) /\ Len(queue) \in Nat /\ Len(inflight) \in Nat
  BY DEF TypeInv, TypeOK, QueueType
<1>2. Barrier(t) \notin Pending
  BY DEF ClearInv, Clears, ClearsQueue
<1>3. \A k \in 1..Len(queue) : queue[k] # Barrier(t)
  BY <1>2 DEF Pending
<1>4. inflight # <<>> => inflight[1] # Barrier(t)
  <2>1. inflight # <<>> => 1 \in 1..Len(inflight)
    BY <1>1
  <2> QED BY <1>2, <2>1 DEF Pending
<1>5. /\ Len(queue') = Len(queue) + 1
      /\ \A k \in 1..Len(queue) : queue'[k] = queue[k]
  BY <1>1
<1>6. ASSUME NEW j \in 1..Len(queue'), NEW k \in 1..Len(queue'), queue'[j] = Barrier(t), j < k
      PROVE  FALSE
  <2>1. j \in 1..Len(queue)
    BY <1>1, <1>5, <1>6
  <2> QED BY <1>3, <1>5, <1>6, <2>1
<1>7. Barrier(t)' = Barrier(t)
  BY DEF Barrier
<1> QED BY <1>4, <1>6, <1>7 DEF AfterBarrier

LEMMA FlushIndexClear ==
    ASSUME TypeInv, TypeInv', SpareInv, ClearInv, NEW t \in purges, FlushIndex(t) PROVE ClearInv'
<1>1. /\ UNCHANGED <<now, phase, status, engaged, file, mtime, row, cur, inflight, scans, purged>>
      /\ now <= now /\ t.pc \in {"flush", "barrier"}
  BY ClockNumber DEF FlushIndex, history
<1>2. t.kind = "camera" /\ t.cam \in Cameras /\ Clears(t)
  BY <1>1, PassFacts DEF ClearInv
<1>3. Stored' = Stored /\ Indexed' = Indexed
  BY <1>1, SameSets
<1>4. CASE /\ t.pc = "flush" /\ queue' = Append(queue, Barrier(t))
           /\ StepPass(t, [t EXCEPT !.pc = "barrier"])
  <2> DEFINE u == [t EXCEPT !.pc = "barrier"]
  <2>1. /\ u.kind = t.kind /\ u.cam = t.cam /\ u.cutoff = t.cutoff /\ u.pc = "barrier"
        /\ u.todo = t.todo /\ u.gone = t.gone
    BY PassFacts DEF Passes
  <2> HIDE DEF u
  <2>2. StepPass(t, u)
    BY <1>4 DEF u
  <2>3. Barrier(t).barrier /\ Start(Barrier(t).seg) = t.cutoff
    BY DEF Barrier, Start
  <2>4. Pending' = Pending \cup {Barrier(t)} /\ Queued' = Queued
    BY <1>1, <1>4, <2>3, SentItem
  <2>5. t.cutoff <= now
    BY <1>2, <1>4 DEF SpareInv, PassSpares
  <2>6. RemovedStep
    BY <1>1, <1>3, <2>3, <2>4, <2>5, RemovedSame DEF ClearInv, Tracked
  <2>7. ASSUME NEW v \in purges, v.kind = "camera", v # t PROVE Undisturbed(v)
    <3>1. v.cam # t.cam
      BY <1>2, <2>7 DEF ClearInv, OnePurge
    <3>2. Barrier(v) # Barrier(t)
      <4>1. Cam(Barrier(v).seg) = v.cam /\ Cam(Barrier(t).seg) = t.cam
        BY DEF Barrier, Cam
      <4> QED BY <3>1, <4>1
    <3>3. QueueShrinks(v.cam)
      BY <1>1, <1>4, <2>3, SentShrinks
    <3> QED BY <1>1, <2>4, <3>2, <3>3, ShrinkSame DEF Undisturbed, Shrinks
  <2>8. Clears(u)'
    <3>1. AfterBarrier(Barrier(t), t.cam)'
      BY <1>1, <1>2, <1>4, BarrierSent
    <3>2. ClearsQueue(u)'
      <4>1. Barrier(u)' = Barrier(t)'
        BY <2>1 DEF Barrier
      <4> QED BY <2>1, <3>1, <4>1 DEF ClearsQueue
    <3>3. ClearsOld(u)' /\ ClearsAll(u)'
      BY <1>1, <1>2, <1>3, <1>4, <2>1, <2>4 DEF Clears, ClearsOld, ClearsAll, Of
    <3> QED BY <3>2, <3>3 DEF Clears
  <2> QED BY <2>1, <2>2, <2>6, <2>7, <2>8, ClearPass
<1>5. CASE /\ phase = "closing" /\ queue' = queue
           /\ StepPass(t, [t EXCEPT !.pc = "query"])
  <2> DEFINE u == [t EXCEPT !.pc = "query"]
  <2>1. /\ u.kind = t.kind /\ u.cam = t.cam /\ u.cutoff = t.cutoff /\ u.pc = "query"
        /\ u.todo = t.todo /\ u.gone = t.gone
    BY PassFacts DEF Passes
  <2> HIDE DEF u
  <2>2. StepPass(t, u)
    BY <1>5 DEF u
  <2>3. Queued' = Queued
    BY <1>1, <1>5, SameSets
  <2>4. Clears(u)'
    <3>1. ClearsQueue(u)'
      BY <1>1, <1>5, <2>1 DEF ClearsQueue
    <3>2. ClearsOld(u)' /\ ClearsAll(u)'
      BY <1>1, <1>2, <1>3, <2>1, <2>3 DEF Clears, ClearsOld, ClearsAll, Of
    <3> QED BY <3>1, <3>2 DEF Clears
  <2> QED BY <1>1, <1>3, <1>5, <2>1, <2>2, <2>4, PassSteps
<1> QED BY <1>4, <1>5 DEF FlushIndex

\* Past the barrier, the rows that the purge asks for are all there are.
LEMMA QueryCameraClear ==
    ASSUME TypeInv, TypeInv', ClearInv, NEW t \in purges, QueryCamera(t) PROVE ClearInv'
<1>0. PICK u : u = [t EXCEPT !.pc = "next", !.list = CameraRows(t)]
  OBVIOUS
<1>1. /\ UNCHANGED <<now, phase, status, engaged, file, mtime, row, cur, queue, inflight, scans, purged>>
      /\ now <= now /\ t.pc = "query" /\ StepPass(t, u)
  BY <1>0, ClockNumber DEF QueryCamera, history
<1>2. t.kind = "camera" /\ Clears(t)
  BY <1>1, PassFacts DEF ClearInv
<1>3. /\ u.kind = t.kind /\ u.cam = t.cam /\ u.cutoff = t.cutoff /\ u.pc = "next"
      /\ u.todo = t.todo /\ u.gone = t.gone /\ u.list = CameraRows(t)
  BY <1>0, PassFacts DEF Passes
<1>4. Stored' = Stored /\ Indexed' = Indexed /\ Queued' = Queued
  BY <1>1, SameSets
<1>5. ClearsQueue(u)' /\ ClearsOld(u)'
  BY <1>1, <1>2, <1>3, <1>4 DEF Clears, ClearsQueue, ClearsOld, Of
<1>6. ClearsAll(u)'
  <2>1. Indexed \cap Of(t.cam) \subseteq CameraRows(t)
    BY <1>1, <1>2 DEF Clears, ClearsOld, CameraRows
  <2>2. u.todo = {} /\ u.gone = {}
    BY <1>1, <1>2, <1>3 DEF Clears, ClearsAll
  <2> QED BY <1>3, <1>4, <2>1, <2>2 DEF ClearsAll, Held, Of
<1>7. Clears(u)'
  BY <1>5, <1>6 DEF Clears
<1> QED BY <1>1, <1>3, <1>4, <1>7, PassSteps

\* A batch moves from the list to the files to unlink; when the list is empty, what
\* the orphan walk finds is all that is left.
LEMMA NextBatchClear ==
    ASSUME TypeInv, TypeInv', ClearInv, NEW t \in purges, NextBatch(t) PROVE ClearInv'
<1>1. /\ UNCHANGED <<now, phase, status, engaged, file, mtime, row, cur, queue, inflight, scans, purged>>
      /\ now <= now /\ t.pc = "next"
  BY ClockNumber DEF NextBatch, history
<1>2. Stored' = Stored /\ Indexed' = Indexed /\ Queued' = Queued
  BY <1>1, SameSets
<1>3. t.kind = "camera" => Clears(t) /\ Candidates(t) = t.list /\ t.todo = {} /\ t.gone = {}
  BY <1>1 DEF ClearInv, Clears, ClearsAll, Candidates
<1>4. CASE EndPass(t)
  BY <1>1, <1>2, <1>4, PassEnds
<1>5. ASSUME t.kind = "camera", phase # "closing", Candidates(t) = {},
             StepPass(t, [t EXCEPT !.pc = "orphans", !.list = Stale(t.cutoff) \cap Of(t.cam)])
      PROVE  ClearInv'
  <2>1. PICK u : u = [t EXCEPT !.pc = "orphans", !.list = Stale(t.cutoff) \cap Of(t.cam)]
    OBVIOUS
  <2>2. /\ u.kind = t.kind /\ u.cam = t.cam /\ u.cutoff = t.cutoff /\ u.pc = "orphans"
        /\ u.todo = t.todo /\ u.gone = t.gone /\ u.list = Stale(t.cutoff) \cap Of(t.cam)
        /\ u.failed = t.failed
    BY <2>1, PassFacts DEF Passes
  <2>3. Queued \cap Of(t.cam) = {} /\ Stored \cap Of(t.cam) \subseteq Stale(t.cutoff)
    BY <1>1, <1>3, <1>5 DEF Clears, ClearsQueue, ClearsOld, Stale
  <2>4. ~t.failed => Indexed \cap Of(t.cam) = {}
    BY <1>1, <1>3, <1>5 DEF Clears, ClearsAll, Held
  <2>5. ClearsQueue(u)' /\ ClearsOld(u)'
    BY <1>1, <1>2, <1>3, <1>5, <2>2, <2>3 DEF Clears, ClearsQueue, ClearsOld, Of
  <2>6. ClearsAll(u)'
    BY <1>2, <1>3, <1>5, <2>2, <2>3, <2>4 DEF ClearsAll, Of
  <2>7. Clears(u)'
    BY <2>5, <2>6 DEF Clears
  <2> QED BY <1>1, <1>2, <1>5, <2>1, <2>2, <2>7, PassSteps
<1>6. ASSUME NEW B \in Batches(Candidates(t)),
             StepPass(t, [t EXCEPT !.pc = "unlink", !.todo = B, !.list = @ \ B])
      PROVE  ClearInv'
  <2>1. PICK u : u = [t EXCEPT !.pc = "unlink", !.todo = B, !.list = @ \ B]
    OBVIOUS
  <2>2. /\ u.kind = t.kind /\ u.cam = t.cam /\ u.cutoff = t.cutoff /\ u.pc = "unlink"
        /\ u.todo = B /\ u.gone = t.gone /\ u.list = t.list \ B /\ u.failed = t.failed
    BY <2>1, PassFacts DEF Passes
  <2>3. ASSUME t.kind = "camera" PROVE Clears(u)'
    <3>1. Held(t) \subseteq Held(u)
      BY <1>3, <2>2, <2>3 DEF Held
    <3>2. Held(u)' = Held(u)
      BY DEF Held
    <3>3. ClearsQueue(u)' /\ ClearsOld(u)'
      BY <1>1, <1>2, <1>3, <2>2, <2>3 DEF Clears, ClearsQueue, ClearsOld, Of
    <3>4. ClearsAll(u)'
      BY <1>1, <1>2, <1>3, <2>2, <2>3, <3>1, <3>2 DEF Clears, ClearsAll, Of
    <3> QED BY <3>3, <3>4 DEF Clears
  <2> QED BY <1>1, <1>2, <1>6, <2>1, <2>2, <2>3, PassSteps
<1> QED BY <1>4, <1>5, <1>6 DEF NextBatch

\* What a camera's purge has unlinked it still holds, or it has failed.
LEMMA UnlinkClear ==
    ASSUME TypeInv, TypeInv', ClearInv, NEW t \in purges, Unlink(t) PROVE ClearInv'
<1>1. /\ UNCHANGED <<now, phase, status, engaged, mtime, row, cur, queue, inflight, scans, purged>>
      /\ now <= now /\ t.pc = "unlink"
  BY ClockNumber DEF Unlink, history
<1>2. PICK s \in t.todo :
        \/ /\ file' = [file EXCEPT ![s] = Absent]
           /\ StepPass(t, [t EXCEPT !.todo = @ \ {s}, !.gone = @ \cup {s}])
        \/ /\ UNCHANGED file
           /\ StepPass(t, [t EXCEPT !.todo = @ \ {s}, !.failed = TRUE])
  BY DEF Unlink
<1>3. PICK u : /\ u \in {[t EXCEPT !.todo = @ \ {s}, !.gone = @ \cup {s}],
                         [t EXCEPT !.todo = @ \ {s}, !.failed = TRUE]}
               /\ StepPass(t, u)
  BY <1>2
<1>4. /\ u.kind = t.kind /\ u.cam = t.cam /\ u.cutoff = t.cutoff /\ u.pc = "unlink"
      /\ u.failed \/ (u.failed = t.failed /\ Held(t) \subseteq Held(u))
  BY <1>1, <1>3, PassFacts DEF Passes, Held
<1>5. Stored' \subseteq Stored /\ Indexed' = Indexed /\ Queued' = Queued
  <2>1. s \in Segs
    BY PassFacts
  <2> QED BY <1>1, <1>2, <2>1, Unlinked, SameSets
<1>6. ASSUME t.kind = "camera" PROVE Clears(u)'
  <2>1. Clears(t)
    BY <1>6 DEF ClearInv
  <2>2. ClearsQueue(u)' /\ ClearsOld(u)'
    BY <1>1, <1>4, <1>5, <2>1 DEF Clears, ClearsQueue, ClearsOld, Of
  <2>3. Held(u)' = Held(u)
    BY DEF Held
  <2>4. ClearsAll(u)'
    BY <1>1, <1>4, <1>5, <2>1, <2>3 DEF Clears, ClearsAll, Of
  <2> QED BY <2>2, <2>4 DEF Clears
<1> QED BY <1>1, <1>3, <1>4, <1>5, <1>6, PassSteps

\* The rows that go are of the batch; the rest is still listed.
LEMMA DeleteRowsClear ==
    ASSUME TypeInv, TypeInv', ClearInv, NEW t \in purges, DeleteRows(t) PROVE ClearInv'
<1>1. /\ UNCHANGED <<now, phase, status, engaged, file, mtime, cur, queue, inflight, scans, purged>>
      /\ now <= now /\ t.pc = "unlink" /\ t.todo = {}
      /\ row' = row \/ row' = [s \in Segs |-> IF s \in t.gone THEN Absent ELSE row[s]]
  BY ClockNumber DEF DeleteRows, history
<1>2. /\ Stored' = Stored /\ Queued' = Queued /\ Indexed' \subseteq Indexed
  <2>1. \A s \in Segs : row'[s] = row[s] \/ row'[s] = Absent
    BY <1>1
  <2> QED BY <1>1, <2>1, SameSets DEF Indexed
<1>3. CASE EndPass(t)
  BY <1>1, <1>2, <1>3, PassEnds
<1>4. ASSUME StepPass(t, [t EXCEPT !.pc = "next", !.gone = {}]),
             row' = [s \in Segs |-> IF s \in t.gone THEN Absent ELSE row[s]]
      PROVE  ClearInv'
  <2>1. PICK u : u = [t EXCEPT !.pc = "next", !.gone = {}]
    OBVIOUS
  <2>2. /\ u.kind = t.kind /\ u.cam = t.cam /\ u.cutoff = t.cutoff /\ u.pc = "next"
        /\ u.todo = {} /\ u.gone = {} /\ u.list = t.list /\ u.failed = t.failed
    BY <1>1, <2>1, PassFacts DEF Passes
  <2>3. Indexed' \cap t.gone = {}
    BY <1>4 DEF Indexed
  <2>4. ASSUME t.kind = "camera" PROVE Clears(u)'
    <3>1. Clears(t)
      BY <2>4 DEF ClearInv
    <3>2. ClearsQueue(u)' /\ ClearsOld(u)'
      BY <1>1, <1>2, <2>2, <3>1 DEF Clears, ClearsQueue, ClearsOld, Of
    <3>3. Held(t) \ t.gone \subseteq t.list /\ Held(u)' = t.list
      BY <1>1, <2>2 DEF Held
    <3>4. ClearsAll(u)'
      BY <1>1, <1>2, <2>2, <2>3, <3>1, <3>3 DEF Clears, ClearsAll, Of
    <3> QED BY <3>2, <3>4 DEF Clears
  <2> QED BY <1>1, <1>2, <1>4, <2>1, <2>2, <2>4, PassSteps
<1> QED BY <1>3, <1>4 DEF DeleteRows

LEMMA UnlinkOrphanClear ==
    ASSUME TypeInv, TypeInv', ClearInv, NEW t \in purges, UnlinkOrphan(t) PROVE ClearInv'
<1>1. /\ UNCHANGED <<now, phase, status, engaged, mtime, row, cur, queue, inflight, scans, purged>>
      /\ now <= now /\ t.pc = "orphans"
  BY ClockNumber DEF UnlinkOrphan, history
<1>2. PICK s \in t.list :
        \/ /\ file' = [file EXCEPT ![s] = Absent]
           /\ StepPass(t, [t EXCEPT !.list = @ \ {s}])
        \/ /\ UNCHANGED file
           /\ StepPass(t, [t EXCEPT !.list = @ \ {s}, !.failed = TRUE])
  BY DEF UnlinkOrphan
<1>3. s \in Segs
  BY PassFacts
<1>4. PICK u : /\ StepPass(t, u)
               /\ \/ file' = [file EXCEPT ![s] = Absent] /\ u = [t EXCEPT !.list = @ \ {s}]
                  \/ file' = file /\ u = [t EXCEPT !.list = @ \ {s}, !.failed = TRUE]
  BY <1>2
<1>5. /\ u.kind = t.kind /\ u.cam = t.cam /\ u.cutoff = t.cutoff /\ u.pc = "orphans"
      /\ u.todo = t.todo /\ u.gone = t.gone /\ u.list = t.list \ {s}
  BY <1>1, <1>4, PassFacts DEF Passes
<1>6. Stored' \subseteq Stored /\ Indexed' = Indexed /\ Queued' = Queued
  BY <1>1, <1>3, <1>4, Unlinked, SameSets
<1>7. u.failed \/ (u.failed = t.failed /\ Stored' = Stored \ {s})
  BY <1>3, <1>4, Unlinked, PassFacts DEF Passes
<1>8. ASSUME t.kind = "camera" PROVE Clears(u)'
  <2>1. Clears(t)
    BY <1>8 DEF ClearInv
  <2>2. ClearsQueue(u)' /\ ClearsOld(u)'
    BY <1>1, <1>5, <1>6, <2>1 DEF Clears, ClearsQueue, ClearsOld, Of
  <2>3. ClearsAll(u)'
    BY <1>1, <1>5, <1>6, <1>7, <2>1 DEF Clears, ClearsAll, Of
  <2> QED BY <2>2, <2>3 DEF Clears
<1> QED BY <1>1, <1>4, <1>5, <1>6, <1>8, PassSteps

\* A complete purge has left nothing, and its camera has no walk and no recorder.
LEMMA EndCameraPurgeClear ==
    ASSUME TypeInv, TypeInv', SpareInv, ClearInv, Settled, NEW t \in purges, EndCameraPurge(t)
    PROVE  ClearInv'
<1>1. /\ UNCHANGED <<now, phase, status, engaged, file, mtime, row, cur, queue, inflight, scans>>
      /\ now <= now /\ t.pc = "orphans" /\ EndPass(t)
  BY ClockNumber DEF EndCameraPurge
<1>2. t.kind = "camera" /\ t.cam \in Cameras /\ Clears(t)
  BY <1>1, PassFacts DEF ClearInv
<1>3. /\ Stored' = Stored /\ Indexed' = Indexed /\ Pending' = Pending /\ Queued' = Queued
      /\ ProbedSegs' = ProbedSegs /\ Open' = Open
  BY <1>1, SameSets
<1>4. purges' \subseteq purges
  BY <1>1 DEF EndPass
<1>5. RemovedInv'
  <2>1. CASE purged' = purged
    <3>1. RemovedStep
      BY <1>1, <1>3, <2>1, RemovedSame DEF ClearInv, Tracked
    <3> QED BY <3>1, RemovedKeeps DEF ClearInv
  <2>2. ASSUME t.list = {}, ~t.failed, purged' = [purged EXCEPT ![t.cam] = t.cutoff]
        PROVE  RemovedInv'
    <3>1. purged \in [Cameras -> Instants]
      BY DEF TypeInv, TypeOK, HistoryType
    <3>2. /\ purged'[t.cam] = t.cutoff /\ t.cutoff <= now
          /\ \A c \in Cameras : c # t.cam => purged'[c] = purged[c]
      BY <1>1, <1>2, <2>2, <3>1 DEF SpareInv, PassSpares
    <3>3. (Stored \cup Indexed \cup Queued) \cap Of(t.cam) = {}
      BY <1>1, <1>2, <2>2 DEF Clears, ClearsQueue, ClearsAll
    <3>4. ProbedSegs \cap Of(t.cam) = {}
      <4>1. \A u \in scans : u.cam # t.cam /\ Cam(u.seg) = u.cam
        BY <1>2 DEF Settled, ClearInv, RemovedInv, Of
      <4> QED BY <4>1 DEF ProbedSegs, Of
    <3>5. Open \cap Of(t.cam) = {}
      <4>1. cur[t.cam] = Absent
        BY <1>2 DEF Settled, ClearInv, RemovedInv
      <4> QED BY <4>1, SegmentParts, InstantFacts DEF Open, Of
    <3>6. \A s \in Tracked \cup Open : s \in Segs /\ Cam(s) # t.cam
      <4>1. Tracked \subseteq Segs
        BY KnownSegs DEF Known, Tracked
      <4> QED BY <3>3, <3>4, <3>5, <4>1 DEF Tracked, Of, Open
    <3>7. \A s \in Tracked' \cup Open' : purged'[Cam(s)] <= Start(s)
      <4>1. Tracked' = Tracked
        BY <1>3 DEF Tracked
      <4>2. \A s \in Tracked \cup Open : purged'[Cam(s)] = purged[Cam(s)]
        BY <3>2, <3>6, SegmentParts
      <4> QED BY <1>3, <4>1, <4>2 DEF ClearInv, RemovedInv
    <3>8. \A c \in Cameras : purged'[c] <= now'
      BY <1>1, <3>2 DEF ClearInv, RemovedInv
    <3> QED BY <1>1, <1>3, <3>7, <3>8 DEF ClearInv, RemovedInv
  <2> QED BY <2>1, <2>2 DEF EndCameraPurge
<1>6. ASSUME NEW v \in purges', v.kind = "camera" PROVE Clears(v)'
  <2>1. Undisturbed(v)
    BY <1>1, <1>3, ShrinkSame DEF Undisturbed, Shrinks
  <2> QED BY <1>4, <1>6, <2>1, ClearsKept DEF ClearInv
<1> QED BY <1>4, <1>5, <1>6 DEF ClearInv, OnePurge

\* Together.
LEMMA StutterClear == ASSUME TypeInv, TypeInv', ClearInv, UNCHANGED vars PROVE ClearInv'
<1>1. UNCHANGED <<now, phase, status, file, mtime, row, memory, purged>>
  BY DEF vars, history
<1>2. now <= now'
  BY <1>1, ClockNumber
<1>3. phase' = "closing" \/ phase # "closing"
  BY <1>1
<1> QED BY <1>1, <1>2, <1>3, MemoryClear

LEMMA NextClear ==
    ASSUME TypeInv, TypeInv', SpareInv, StoreInv, ClearInv, Settled, Settled', [Next]_vars
    PROVE  ClearInv'
<1>1. CASE Tick
  BY <1>1, TickClear
<1>2. CASE Indexer
  BY <1>2, IndexerTakeClear, IndexerInsertClear, IndexerGiveUpClear, IndexerBarrierClear DEF Indexer
<1>3. CASE Process
  <2>1. CASE BootDone \/ BeginClose \/ FinishClose
    BY <2>1, BootDoneClear, BeginCloseClear, FinishCloseClear
  <2>2. CASE Crash \/ Restart \/ LoseIndex
    BY <2>2, CrashClear, RestartClear, LoseIndexClear
  <2> QED BY <1>3, <2>1, <2>2 DEF Process
<1>4. ASSUME NEW c \in Cameras, Recorder(c) PROVE ClearInv'
  BY <1>4, OpenSegmentClear, WritePartClear, CloseSegmentClear DEF Recorder
<1>5. ASSUME NEW c \in Cameras, Operator(c) PROVE ClearInv'
  <2>1. CASE BootCamera(c) \/ EnableCamera(c)
    BY <2>1, BootCameraClear, EnableCameraClear
  <2>2. CASE DisableCamera(c) \/ DeleteCamera(c)
    BY <2>2, DisableCameraClear, DeleteCameraClear
  <2> QED BY <1>5, <2>1, <2>2 DEF Operator
<1>6. ASSUME NEW t \in scans, Reindex(t) PROVE ClearInv'
  BY <1>6, ReindexRangeClear, ReindexProbeClear, ReindexInsertClear, ReindexDoneClear DEF Reindex
<1>7. ASSUME NEW t \in purges, PurgeStep(t) PROVE ClearInv'
  <2>1. CASE StartCameraPurge(t) \/ FlushIndex(t) \/ QueryCamera(t) \/ NextBatch(t)
    BY <2>1, StartCameraPurgeClear, FlushIndexClear, QueryCameraClear, NextBatchClear
  <2>2. CASE Unlink(t) \/ DeleteRows(t) \/ UnlinkOrphan(t) \/ EndCameraPurge(t)
    BY <2>2, UnlinkClear, DeleteRowsClear, UnlinkOrphanClear, EndCameraPurgeClear
  <2> QED BY <1>7, <2>1, <2>2 DEF PurgeStep
<1>8. ASSUME NEW k \in {"clean", "sweep"}, StartRetention(k) PROVE ClearInv'
  BY <1>8, StartRetentionClear
<1>9. CASE StartFree
  BY <1>9, StartFreeClear
<1>10. CASE UNCHANGED vars
  BY <1>10, StutterClear
<1> QED BY <1>1, <1>2, <1>3, <1>4, <1>5, <1>6, <1>7, <1>8, <1>9, <1>10 DEF Next

LEMMA InitClear == Init => ClearInv
<1> SUFFICES ASSUME Init PROVE ClearInv
  OBVIOUS
<1>1. Tracked = {} /\ Pending = {} /\ Open = {}
  <2>1. Stored = {} /\ Indexed = {} /\ Pending = {} /\ Queued = {}
    BY DEF Init, Stored, Indexed, Pending, Queued
  <2>2. ProbedSegs = {}
    BY DEF Init, ProbedSegs
  <2>3. Open = {}
    <3>1. \A d \in Cameras : cur[d] = Absent
      BY DEF Init
    <3>2. \A s \in Segs : Start(s) # Absent /\ Cam(s) \in Cameras
      BY SegmentParts, InstantFacts DEF Absent
    <3> QED BY <3>1, <3>2 DEF Open
  <2> QED BY <2>1, <2>2, <2>3 DEF Tracked
<1>2. \A c \in Cameras : status[c] # "deleted" /\ purged[c] <= now
  BY DEF Init
<1>3. scans = {} /\ purges = {}
  BY DEF Init
<1> QED BY <1>1, <1>2, <1>3 DEF ClearInv, RemovedInv, OnePurge

LEMMA ClearHolds == Spec /\ []Settled => [](TypeInv /\ ClearInv)
<1>1. Init => TypeInv /\ SpareInv /\ StoreInv /\ ClearInv
  BY InitType, InitStore, InitClear DEF Init, SpareInv, IdleInv
<1>2. /\ TypeInv /\ SpareInv /\ StoreInv /\ ClearInv /\ Settled /\ Settled' /\ [Next]_vars
      => TypeInv' /\ SpareInv' /\ StoreInv' /\ ClearInv'
  BY NextType, NextSpares, NextStore, NextClear
<1> QED BY <1>1, <1>2, PTL DEF Spec

\* Footage of a deleted camera stays deleted: once the purge has ended without a
\* failed step, no file, row or queued row tells of what was recorded before it,
\* whatever the queue held, whatever the camera's last recorder still closed, and
\* whatever is recorded for a camera created again with the id.  Settled is the
\* limit: a Reindex of the camera writes rows after the purge looked, and so does
\* the recovery of a camera created again before its purge has removed the files.
THEOREM DeletionIsFinal == Spec /\ []Settled => []DeletedStaysDeleted
<1>1. TypeInv /\ ClearInv => DeletedStaysDeleted
  <2> SUFFICES ASSUME TypeInv, ClearInv, NEW c \in Cameras, NEW s \in Of(c),
                      s \in Stored \cup Indexed \cup Queued
               PROVE  ~(Start(s) < purged[c])
    BY DEF DeletedStaysDeleted
  <2>1. Cam(s) = c /\ s \in Segs
    BY DEF Of
  <2>2. purged[c] <= Start(s)
    BY <2>1 DEF ClearInv, RemovedInv, Tracked
  <2>3. purged[c] \in Int /\ Start(s) \in Int
    BY <2>1, InstantFacts, SegmentParts DEF TypeInv, TypeOK, HistoryType
  <2> QED BY <2>2, <2>3
<1> QED BY <1>1, ClearHolds, PTL
=============================================================================
