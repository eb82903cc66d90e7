---------------------------- MODULE SegmentStore ----------------------------
(***************************************************************************)
(* The life of a recording segment in the media engine: the recorder       *)
(* writes its file part by part and closes it, the asynchronous indexer    *)
(* turns the closed segment into an index row, and recovery, reindex,      *)
(* retention, the emergency purge and the purge of a deleted camera read   *)
(* and remove files and rows while the rest keeps running.                 *)
(*                                                                         *)
(* A segment is <<camera, start>>: the file name encodes both.  A file is  *)
(* abstracted to the duration of its complete fragments and its mtime, a   *)
(* row to the duration it stores.  Instants that a segment start or a      *)
(* purge cutoff records are distinct: both advance the clock.              *)
(*                                                                         *)
(* Operators named Faulty... are seeded faults, each a plausible bug in    *)
(* the definition after it.  No action uses them; they show that the       *)
(* properties can fail.                                                    *)
(***************************************************************************)
EXTENDS Integers, Sequences, FiniteSets

CONSTANTS
    Cameras,        \* camera ids
    NoCamera,       \* the camera of a pass over all cameras
    MaxTime,        \* bound: last instant of the clock
    LastFootage,    \* bound: no footage arrives and no camera changes after it
    QueueCap,       \* capacity of idxCh (256 in the code)
    Batch,          \* purgeBatchSize (500 in the code)
    Retain,         \* retention window
    Back,           \* how far before the watermark Recover scans
    Forward,        \* maxForwardScan
    DirSpan,        \* instants that share one directory (the %H component)
    DryDirs,        \* Recover stops after this many directories without orphan
    Idle,           \* read timeout: an open segment is written or closed by then
    Purges,         \* passes that run: subset of {"clean", "sweep", "free"}
    Reindexing,     \* FALSE: the walk of a subtree without footage ends at once
    Changes,        \* what happens to cameras: subset of {"disable", "delete", "enable"}
    MaxCrashes,     \* bound: crashes
    MaxStops,       \* bound: graceful stops
    MaxLosses,      \* bound: times the index file is lost while the server is down
    MaxFailures     \* bound: failed writes, unlinks and index statements

ASSUME SizesAssumption ==
    /\ LastFootage \in Nat /\ MaxTime \in Nat /\ LastFootage + 2 <= MaxTime
    /\ QueueCap \in Nat \ {0} /\ Batch \in Nat \ {0}
    /\ DirSpan \in Nat \ {0} /\ DryDirs \in Nat \ {0} /\ Idle \in Nat \ {0}
    /\ Retain \in Nat /\ Back \in Nat /\ Forward \in Nat
    /\ MaxCrashes \in Nat /\ MaxStops \in Nat /\ MaxLosses \in Nat /\ MaxFailures \in Nat

ASSUME FeaturesAssumption ==
    /\ Purges \subseteq {"clean", "sweep", "free"}
    /\ Changes \subseteq {"disable", "delete", "enable"}
    /\ NoCamera \notin Cameras
    /\ Reindexing \in BOOLEAN

\* The retention window is not shorter than the read timeout (10 s).
ASSUME RetainAssumption == Idle <= Retain

VARIABLES
    now,        \* wall clock
    phase,      \* "booting", "up", "closing" (Close has cancelled ctx) or "down"
    status,     \* camera -> "enabled", "disabled" or "deleted" in the database
    engaged,    \* cameras with an entry in Engine.ctrls
    file,       \* segment -> duration of its complete fragments, or Absent
    mtime,      \* segment -> instant of the last write to its file
    row,        \* segment -> duration of its index row, or Absent
    cur,        \* camera -> start of Recorder.currentSegment, or Absent
    opened,     \* camera -> segment.fi # nil
    queue,      \* Engine.idxCh
    inflight,   \* the item runIndexer holds: <<>> or <<item>>
    scans,      \* running Reindex goroutines
    purges,     \* running purge passes
    crashes, stops, losses, failures,
    dropped,    \* history: segments whose row a failure or a cut Reindex gave up
    purged      \* history: camera -> cutoff of its last complete purge

memory == <<engaged, cur, opened, queue, inflight, scans, purges>>
history == <<dropped, purged>>
budgets == <<crashes, stops, losses, failures>>
vars == <<now, phase, status, file, mtime, row, memory, history, budgets>>

Absent == -1
Instants == 0..MaxTime
Durations == 0..MaxTime
Segs == Cameras \X Instants
Cam(s) == s[1]
Start(s) == s[2]
Of(c) == {s \in Segs : Cam(s) = c}

Stored == {s \in Segs : file[s] # Absent}
Playable == {s \in Segs : file[s] # Absent /\ file[s] > 0}
Indexed == {s \in Segs : row[s] # Absent}
End(s) == Start(s) + row[s]
Open == {s \in Segs : cur[Cam(s)] = Start(s)}


Item(s, d) == [barrier |-> FALSE, seg |-> s, len |-> d]
Barrier(t) == [barrier |-> TRUE, seg |-> <<t.cam, t.cutoff>>, len |-> 0]
Items == [barrier : BOOLEAN, seg : Segs, len : Durations]
Pending == {queue[k] : k \in 1..Len(queue)} \cup {inflight[k] : k \in 1..Len(inflight)}
Queued == {i.seg : i \in {j \in Pending : ~j.barrier}}

\* One Reindex goroutine: the rows it found at start, the walk's position, and
\* the file it has probed but not inserted yet (pc = "insert").
Scans == [cam : Cameras, pc : {"range", "walk", "insert"}, known : SUBSET Segs,
          next : 0..(MaxTime + 1), since : Instants, seg : Segs, len : Durations]

\* One purge: what is left of its snapshot, the current batch, the files of the
\* batch it has unlinked, and (history) whether a step of it failed.
Kinds == {"clean", "sweep", "free", "camera"}
PurgeStates == {"removed", "flush", "barrier", "query", "next", "unlink", "orphans"}
Passes == [kind : Kinds, cam : Cameras \cup {NoCamera}, cutoff : Instants, pc : PurgeStates,
           list : SUBSET Segs, todo : SUBSET Segs, gone : SUBSET Segs, failed : BOOLEAN]

Scan(c) == [cam |-> c, pc |-> "range", known |-> {}, next |-> 0, since |-> 0,
            seg |-> <<c, 0>>, len |-> 0]
Pass(k, c, t, pc, l) == [kind |-> k, cam |-> c, cutoff |-> t, pc |-> pc, list |-> l,
                         todo |-> {}, gone |-> {}, failed |-> FALSE]

Running == phase \in {"booting", "up", "closing"}
\* camMutateMu is held from the removal of a camera to the end of its handler.
MutateFree == \A t \in purges : t.pc # "removed"
MayFail == failures < MaxFailures
Fail == failures' = failures + 1

Init ==
    /\ now = 0 /\ phase = "booting"
    /\ status = [c \in Cameras |-> "enabled"] /\ engaged = {}
    /\ file = [s \in Segs |-> Absent] /\ mtime = [s \in Segs |-> 0]
    /\ row = [s \in Segs |-> Absent]
    /\ cur = [c \in Cameras |-> Absent] /\ opened = [c \in Cameras |-> FALSE]
    /\ queue = <<>> /\ inflight = <<>> /\ scans = {} /\ purges = {}
    /\ crashes = 0 /\ stops = 0 /\ losses = 0 /\ failures = 0
    /\ dropped = {} /\ purged = [c \in Cameras |-> 0]

-----------------------------------------------------------------------------
(* The clock.  gortsplib's read timeout ends a session that stopped sending, *)
(* so an open segment is never left unwritten for longer than Idle.          *)

LastWrite(c) == IF opened[c] THEN mtime[<<c, cur[c]>>] ELSE cur[c]
MayAdvance == /\ now < MaxTime
              /\ \A c \in Cameras : cur[c] # Absent => now - LastWrite(c) < Idle

\* A deletion's handler takes no time between its steps.
Tick ==
    /\ MayAdvance /\ MutateFree
    /\ now' = now + 1
    /\ UNCHANGED <<phase, status, file, mtime, row, memory, history, budgets>>

-----------------------------------------------------------------------------
(* The recorder of one camera.                                              *)

\* newSegment: a segment exists in memory; its file is created by its first part.
OpenSegment(c) ==
    /\ phase \in {"booting", "up"} /\ c \in engaged /\ cur[c] = Absent
    /\ now <= LastFootage /\ MayAdvance
    /\ cur' = [cur EXCEPT ![c] = now]
    /\ opened' = [opened EXCEPT ![c] = FALSE]
    /\ now' = now + 1
    /\ UNCHANGED <<phase, status, engaged, file, mtime, row, queue, inflight, scans,
                   purges, history, budgets>>

\* segment.closeCurPart: a part holding the footage up to now reaches the file.
\* A file unlinked while it is open keeps no name: the write changes nothing.
WritePart(c) ==
    LET s == <<c, cur[c]>> IN
    /\ cur[c] # Absent /\ LastWrite(c) < now /\ now <= LastFootage + 1
    /\ opened' = [opened EXCEPT ![c] = TRUE]
    /\ file' = IF opened[c] /\ file[s] = Absent THEN file ELSE [file EXCEPT ![s] = now - cur[c]]
    /\ mtime' = [mtime EXCEPT ![s] = now]
    /\ UNCHANGED <<now, phase, status, engaged, row, cur, queue, inflight, scans, purges,
                   history, budgets>>

FaultySign(c) == {[len |-> now - cur[c], dur |-> cur[c] - now, failed |-> FALSE]}
FaultyLastPart(c) ==
    {[len |-> now - cur[c], dur |-> LastWrite(c) - cur[c], failed |-> FALSE]}

\* How segment.close can end: the file's content, the duration handed to
\* OnSegment (Absent: not called), and whether a write or the close failed.
\* The duration counts every sample accepted, also those of a lost part, be it the
\* first one, of which only the header is on disk.
Closings(c) ==
    LET s == <<c, cur[c]>>
        whole == now - cur[c]
        ending(l, d, f) == [len |-> l, dur |-> d, failed |-> f]
    IN IF opened[c]
       THEN {ending(whole, whole, FALSE), ending(file[s], mtime[s] - cur[c], FALSE),
             ending(file[s], whole, TRUE), ending(whole, Absent, TRUE)}
       ELSE {ending(whole, whole, FALSE), ending(Absent, Absent, FALSE),
             ending(Absent, Absent, TRUE), ending(0, Absent, TRUE), ending(0, whole, TRUE)}

FaultyDropWhenFull(s, d) ==
    /\ queue' = IF Len(queue) < QueueCap THEN Append(queue, Item(s, d)) ELSE queue
    /\ UNCHANGED <<row, dropped, failures>>

\* enqueueIndex: the queue when it has room, otherwise a synchronous insert
\* without retry.
Enqueue(s, d) ==
    IF Len(queue) < QueueCap
    THEN queue' = Append(queue, Item(s, d)) /\ UNCHANGED <<row, dropped, failures>>
    ELSE /\ UNCHANGED queue
         /\ \/ row' = [row EXCEPT ![s] = d] /\ UNCHANGED <<dropped, failures>>
            \/ MayFail /\ Fail /\ dropped' = dropped \cup {s} /\ UNCHANGED row

\* segment.close on the current segment, with one of its endings.
Finalize(c, e) ==
    LET s == <<c, cur[c]>> IN
    /\ cur' = [cur EXCEPT ![c] = Absent]
    /\ opened' = [opened EXCEPT ![c] = FALSE]
    /\ file' = IF opened[c] /\ file[s] = Absent THEN file ELSE [file EXCEPT ![s] = e.len]
    /\ mtime' = IF opened[c] \/ e.len # Absent THEN [mtime EXCEPT ![s] = now] ELSE mtime
    /\ IF e.failed
       THEN /\ MayFail /\ Fail
            /\ dropped' = IF e.dur = Absent THEN dropped \cup {s} ELSE dropped
            /\ IF e.dur # Absent /\ Len(queue) < QueueCap
               THEN queue' = Append(queue, Item(s, e.dur)) /\ UNCHANGED row
               ELSE /\ UNCHANGED queue
                    /\ row' = IF e.dur # Absent THEN [row EXCEPT ![s] = e.dur] ELSE row
       ELSE IF e.dur # Absent THEN Enqueue(s, e.dur)
            ELSE UNCHANGED <<queue, row, dropped, failures>>

\* Rotation, source loss, stall, drift, write error, privacy: the segment ends.
CloseSegment(c) ==
    /\ cur[c] # Absent
    /\ \E e \in Closings(c) : Finalize(c, e)
    /\ UNCHANGED <<now, phase, status, engaged, inflight, scans, purges, purged, crashes, stops, losses>>

-----------------------------------------------------------------------------
(* runIndexer.                                                              *)

IndexerTake ==
    /\ Running /\ inflight = <<>> /\ queue # <<>>
    /\ inflight' = <<Head(queue)>> /\ queue' = Tail(queue)
    /\ UNCHANGED <<now, phase, status, engaged, file, mtime, row, cur, opened, scans, purges,
                   history, budgets>>

IndexerInsert ==
    /\ inflight # <<>> /\ ~inflight[1].barrier
    /\ row' = [row EXCEPT ![inflight[1].seg] = inflight[1].len]
    /\ inflight' = <<>>
    /\ UNCHANGED <<now, phase, status, engaged, file, mtime, cur, opened, queue, scans, purges,
                   history, budgets>>

\* insertWithRetry: every attempt failed, the row is given up.
IndexerGiveUp ==
    /\ inflight # <<>> /\ ~inflight[1].barrier /\ MayFail
    /\ dropped' = dropped \cup {inflight[1].seg}
    /\ inflight' = <<>> /\ Fail
    /\ UNCHANGED <<now, phase, status, engaged, file, mtime, row, cur, opened, queue, scans, purges,
                   purged, crashes, stops, losses>>

\* A barrier releases the purge that waits for it.
IndexerBarrier ==
    /\ inflight # <<>> /\ inflight[1].barrier
    /\ inflight' = <<>>
    /\ purges' = {IF t.pc = "barrier" /\ Barrier(t) = inflight[1]
                  THEN [t EXCEPT !.pc = "query"] ELSE t : t \in purges}
    /\ UNCHANGED <<now, phase, status, engaged, file, mtime, row, cur, opened, queue, scans,
                   history, budgets>>

-----------------------------------------------------------------------------
(* Engaging a camera: recovery first, then the recorder.                    *)

Dir(t) == t \div DirSpan
Watermark(c) == LET ends == {End(s) : s \in Indexed \cap Of(c)}
                IN CHOOSE t \in ends : \A u \in ends : u <= t

\* The window, and the existing directories it maps to.
From(c) == Watermark(c) - Back
Until(c) == From(c) + Back + Forward
FaultyScanDirs(c) ==
    {Dir(Start(s)) : s \in {u \in Stored \cap Of(c) : Dir(Watermark(c)) < Dir(Start(u))}}
ScanDirs(c) ==
    {Dir(Start(s)) : s \in {u \in Stored \cap Of(c) :
                              Dir(From(c)) <= Dir(Start(u)) /\ Dir(Start(u)) <= Dir(Until(c))}}

\* recovery.Recover, one step: the files of those directories without a row that
\* overlaps the window, up to DryDirs directories in a row without such a file.
Recovered(c) ==
    LET known == {s \in Indexed \cap Of(c) : Start(s) < Until(c) /\ End(s) > From(c)}
        new(d) == {s \in (Playable \cap Of(c)) \ known : Dir(Start(s)) = d}
        between(d, e) == {x \in ScanDirs(c) : d <= x /\ x <= e}
        reached(d) == \A a, b \in ScanDirs(c) :
                         (b < d /\ Cardinality(between(a, b)) = DryDirs)
                            => \E x \in between(a, b) : new(x) # {}
    IN UNION {new(d) : d \in {x \in ScanDirs(c) : reached(x)}}

\* AddCamera: Recover when the camera has rows, a Reindex goroutine otherwise.
Engage(c) ==
    /\ c \notin engaged
    /\ engaged' = engaged \cup {c}
    /\ IF Indexed \cap Of(c) # {}
       THEN /\ row' = [s \in Segs |-> IF s \in Recovered(c) THEN file[s] ELSE row[s]]
            /\ UNCHANGED scans
       ELSE /\ UNCHANGED row
            /\ scans' = IF Reindexing \/ Playable \cap Of(c) # {}
                        THEN scans \cup {Scan(c)} ELSE scans
    /\ UNCHANGED <<now, file, mtime, cur, opened, queue, inflight, purges, history, budgets>>

BootCamera(c) ==
    /\ phase = "booting" /\ status[c] = "enabled"
    /\ Engage(c)
    /\ UNCHANGED <<phase, status>>

\* The end of Start: the background passes may run from here on.
BootDone ==
    /\ phase = "booting" /\ \A c \in Cameras : status[c] = "enabled" => c \in engaged
    /\ phase' = "up"
    /\ UNCHANGED <<now, status, file, mtime, row, memory, history, budgets>>

\* Creating a camera, or enabling a disabled one.
EnableCamera(c) ==
    /\ "enable" \in Changes /\ status[c] # "enabled"
    /\ phase = "up" /\ now <= LastFootage /\ MutateFree
    /\ status' = [status EXCEPT ![c] = "enabled"]
    /\ Engage(c)
    /\ UNCHANGED phase

\* RemoveCamera: the loop ends and recorder.Close finalizes the open segment.
Detach(c) ==
    /\ phase = "up" /\ now <= LastFootage /\ MutateFree
    /\ engaged' = engaged \ {c}
    /\ IF cur[c] # Absent THEN \E e \in Closings(c) : Finalize(c, e)
       ELSE UNCHANGED <<cur, opened, file, mtime, queue, row, dropped, failures>>
    /\ UNCHANGED <<now, phase, inflight, scans, purged, crashes, stops, losses>>

\* Disabling keeps the footage.
DisableCamera(c) ==
    /\ "disable" \in Changes /\ status[c] = "enabled"
    /\ status' = [status EXCEPT ![c] = "disabled"]
    /\ Detach(c)
    /\ UNCHANGED purges

\* handleDeleteCamera up to RemoveCamera; PurgeCameraRecordings follows.
DeleteCamera(c) ==
    /\ "delete" \in Changes /\ status[c] # "deleted"
    /\ status' = [status EXCEPT ![c] = "deleted"]
    /\ Detach(c)
    /\ purges' = purges \cup {Pass("camera", c, 0, "removed", {})}

-----------------------------------------------------------------------------
(* recovery.Reindex.  The walk visits files in start order; a file created   *)
(* after the walk began may or may not be listed.                            *)

StepScan(t, u) == scans' = (scans \ {t}) \cup {u}
Ahead(t) == {s \in (Playable \cap Of(t.cam)) \ t.known : Start(s) >= t.next}

ReindexRange(t) ==
    /\ t.pc = "range" /\ phase # "closing"
    /\ StepScan(t, [t EXCEPT !.pc = "walk", !.known = Indexed \cap Of(t.cam), !.since = now])
    /\ UNCHANGED <<now, phase, status, engaged, file, mtime, row, cur, opened, queue, inflight,
                   purges, history, budgets>>

\* probe: the file's complete fragments, at this moment.
ReindexProbe(t) ==
    /\ t.pc = "walk" /\ phase # "closing"
    /\ \E s \in Ahead(t) :
         /\ \A u \in Ahead(t) : Start(s) <= Start(u)
         /\ StepScan(t, [t EXCEPT !.pc = "insert", !.next = Start(s) + 1,
                                  !.seg = s, !.len = file[s]])
    /\ UNCHANGED <<now, phase, status, engaged, file, mtime, row, cur, opened, queue, inflight,
                   purges, history, budgets>>

ReindexInsert(t) ==
    /\ t.pc = "insert"
    /\ \/ row' = [row EXCEPT ![t.seg] = t.len] /\ UNCHANGED <<failures, dropped>>
       \/ MayFail /\ Fail /\ dropped' = dropped \cup {t.seg} /\ UNCHANGED row
    /\ StepScan(t, [t EXCEPT !.pc = "walk", !.seg = <<t.cam, 0>>, !.len = 0])
    /\ UNCHANGED <<now, phase, status, engaged, file, mtime, cur, opened, queue, inflight, purges,
                   purged, crashes, stops, losses>>

\* Cut short by ctx, the walk leaves the rest of the subtree unindexed.
ReindexDone(t) ==
    /\ \/ /\ t.pc = "walk" /\ \A s \in Ahead(t) : Start(s) >= t.since
          /\ UNCHANGED dropped
       \/ /\ t.pc \in {"range", "walk"} /\ phase = "closing"
          /\ dropped' = dropped \cup (Ahead(t) \ Indexed)
    /\ scans' = scans \ {t}
    /\ UNCHANGED <<now, phase, status, engaged, file, mtime, row, cur, opened, queue, inflight,
                   purges, purged, budgets>>

-----------------------------------------------------------------------------
(* The purges of the retention package.  Each is a sequence of batches:     *)
(* choose, unlink file by file, delete the rows of what was unlinked.       *)

StepPass(t, u) == purges' = (purges \ {t}) \cup {u}
EndPass(t) == purges' = purges \ {t}

\* The batches a query ORDER BY start_ns LIMIT Batch, or a slice, can return.
Batches(S) == {B \in SUBSET S :
                 /\ Cardinality(B) = IF Cardinality(S) < Batch THEN Cardinality(S) ELSE Batch
                 /\ \A s \in B, u \in S \ B : Start(s) <= Start(u)}

FaultyExpired(t) == {s \in Indexed : Start(s) <= t}
Expired(t) == {s \in Indexed : End(s) <= t}
FaultyStaleByStart(t) == {s \in Stored : Start(s) < t}
FaultyStaleIndexed(t) == {s \in Stored \cap Indexed : mtime[s] < t}
Stale(t) == {s \in Stored : mtime[s] < t}

\* Cleaner.Run is one goroutine: one clean or sweep at a time.
StartRetention(k) ==
    /\ phase = "up" /\ k \in Purges \cap {"clean", "sweep"} /\ Retain <= now
    /\ \A t \in purges : t.kind \notin {"clean", "sweep"}
    /\ purges' = purges \cup {Pass(k, NoCamera, now - Retain, "next",
                                   IF k = "sweep" THEN Stale(now - Retain) ELSE {})}
    /\ UNCHANGED <<now, phase, status, engaged, file, mtime, row, cur, opened, queue, inflight,
                   scans, history, budgets>>

\* startEmergencyPurge: purgeRunning admits one at a time.
StartFree ==
    /\ phase = "up" /\ "free" \in Purges
    /\ \A t \in purges : t.kind # "free"
    /\ purges' = purges \cup {Pass("free", NoCamera, 0, "next", {})}
    /\ UNCHANGED <<now, phase, status, engaged, file, mtime, row, cur, opened, queue, inflight,
                   scans, history, budgets>>

\* PurgeCameraRecordings: the cutoff is read after the camera is detached.
StartCameraPurge(t) ==
    /\ t.pc = "removed" /\ MayAdvance
    /\ now' = now + 1
    /\ StepPass(t, [t EXCEPT !.cutoff = now + 1, !.pc = "flush"])
    /\ UNCHANGED <<phase, status, engaged, file, mtime, row, cur, opened, queue, inflight, scans,
                   history, budgets>>

FaultyFlushIndex(t) ==
    /\ t.pc = "flush"
    /\ StepPass(t, [t EXCEPT !.pc = "query"])
    /\ UNCHANGED <<now, phase, status, engaged, file, mtime, row, cur, opened, queue, inflight,
                   scans, history, budgets>>

\* flushIndex: the send blocks while the queue is full; ctx ends both waits.
FlushIndex(t) ==
    /\ \/ /\ t.pc = "flush" /\ Len(queue) < QueueCap
          /\ queue' = Append(queue, Barrier(t))
          /\ StepPass(t, [t EXCEPT !.pc = "barrier"])
       \/ /\ t.pc \in {"flush", "barrier"} /\ phase = "closing"
          /\ StepPass(t, [t EXCEPT !.pc = "query"]) /\ UNCHANGED queue
    /\ UNCHANGED <<now, phase, status, engaged, file, mtime, row, cur, opened, inflight, scans,
                   history, budgets>>

FaultyCameraRows(t) == Indexed \cap Of(t.cam)
CameraRows(t) == {s \in Indexed \cap Of(t.cam) : Start(s) < t.cutoff}

\* PurgeCamera's Range, and its filter on the start.
QueryCamera(t) ==
    /\ t.pc = "query"
    /\ StepPass(t, [t EXCEPT !.pc = "next", !.list = CameraRows(t)])
    /\ UNCHANGED <<now, phase, status, engaged, file, mtime, row, cur, opened, queue, inflight,
                   scans, history, budgets>>

\* What the next batch is taken from: a fresh query, or the rest of the snapshot.
Candidates(t) == CASE t.kind = "clean" -> Expired(t.cutoff)
                   [] t.kind = "free" -> Indexed
                   [] OTHER -> t.list

\* The free purge also stops as soon as statfs reports enough space.
NextBatch(t) ==
    /\ t.pc = "next"
    /\ \/ /\ phase # "closing" /\ Candidates(t) # {}
          /\ \E B \in Batches(Candidates(t)) :
               StepPass(t, [t EXCEPT !.pc = "unlink", !.todo = B, !.list = @ \ B])
       \/ /\ phase = "closing" \/ Candidates(t) = {} \/ t.kind = "free"
          /\ IF t.kind = "camera" /\ phase # "closing"
             THEN StepPass(t, [t EXCEPT !.pc = "orphans",
                                        !.list = Stale(t.cutoff) \cap Of(t.cam)])
             ELSE EndPass(t)
    /\ UNCHANGED <<now, phase, status, engaged, file, mtime, row, cur, opened, queue, inflight,
                   scans, history, budgets>>

FaultyUnlink(t) ==
    /\ t.pc = "unlink"
    /\ \E s \in t.todo :
         /\ \/ file' = [file EXCEPT ![s] = Absent] /\ UNCHANGED failures
            \/ MayFail /\ Fail /\ UNCHANGED file
         /\ StepPass(t, [t EXCEPT !.todo = @ \ {s}, !.gone = @ \cup {s}])
    /\ UNCHANGED <<now, phase, status, engaged, mtime, row, cur, opened, queue, inflight, scans,
                   history, crashes, stops, losses>>

\* deleteFilesParallel: a file that is already gone counts as removed.
Unlink(t) ==
    /\ t.pc = "unlink"
    /\ \E s \in t.todo :
         \/ /\ file' = [file EXCEPT ![s] = Absent] /\ UNCHANGED failures
            /\ StepPass(t, [t EXCEPT !.todo = @ \ {s}, !.gone = @ \cup {s}])
         \/ /\ MayFail /\ Fail /\ file[s] # Absent /\ UNCHANGED file
            /\ StepPass(t, [t EXCEPT !.todo = @ \ {s}, !.failed = TRUE])
    /\ UNCHANGED <<now, phase, status, engaged, mtime, row, cur, opened, queue, inflight, scans,
                   history, crashes, stops, losses>>

\* DeleteBatch: one transaction.  clean and the free purge stop when nothing
\* of the batch could be unlinked; every pass stops when the transaction fails.
DeleteRows(t) ==
    /\ t.pc = "unlink" /\ t.todo = {}
    /\ \/ /\ row' = [s \in Segs |-> IF s \in t.gone THEN Absent ELSE row[s]]
          /\ UNCHANGED failures
          /\ IF t.gone = {} /\ t.kind \in {"clean", "free"} THEN EndPass(t)
             ELSE StepPass(t, [t EXCEPT !.pc = "next", !.gone = {}])
       \/ t.gone # {} /\ MayFail /\ Fail /\ EndPass(t) /\ UNCHANGED row
    /\ UNCHANGED <<now, phase, status, engaged, file, mtime, cur, opened, queue, inflight, scans,
                   history, crashes, stops, losses>>

\* PurgeCamera's second pass: the camera's remaining files, no row deleted.
UnlinkOrphan(t) ==
    /\ t.pc = "orphans" /\ phase # "closing"
    /\ \E s \in t.list :
         \/ /\ file' = [file EXCEPT ![s] = Absent] /\ UNCHANGED failures
            /\ StepPass(t, [t EXCEPT !.list = @ \ {s}])
         \/ /\ MayFail /\ Fail /\ file[s] # Absent /\ UNCHANGED file
            /\ StepPass(t, [t EXCEPT !.list = @ \ {s}, !.failed = TRUE])
    /\ UNCHANGED <<now, phase, status, engaged, mtime, row, cur, opened, queue, inflight, scans,
                   history, crashes, stops, losses>>

EndCameraPurge(t) ==
    /\ t.pc = "orphans" /\ (t.list = {} \/ phase = "closing")
    /\ EndPass(t)
    /\ purged' = IF t.list = {} /\ ~t.failed /\ purged[t.cam] < t.cutoff
                 THEN [purged EXCEPT ![t.cam] = t.cutoff] ELSE purged
    /\ UNCHANGED <<now, phase, status, engaged, file, mtime, row, cur, opened, queue, inflight,
                   scans, dropped, budgets>>

-----------------------------------------------------------------------------
(* Stopping and crashing.                                                   *)

\* Engine.Close cancels ctx; the recorders close their segments (CloseSegment),
\* the passes end, then the index queue is drained and the index closed.
BeginClose ==
    /\ phase = "up" /\ MutateFree /\ stops < MaxStops
    /\ phase' = "closing" /\ stops' = stops + 1
    /\ UNCHANGED <<now, status, file, mtime, row, memory, history, crashes, losses, failures>>

FaultyDrained == queue = <<>>
Drained == queue = <<>> /\ inflight = <<>>

FinishClose ==
    /\ phase = "closing"
    /\ \A c \in Cameras : cur[c] = Absent
    /\ scans = {} /\ purges = {} /\ Drained
    /\ phase' = "down" /\ engaged' = {}
    /\ queue' = <<>> /\ inflight' = <<>>
    /\ UNCHANGED <<now, status, file, mtime, row, cur, opened, scans, purges, history, budgets>>

\* SIGKILL, panic: memory is lost.  A segment without a part yet may have left
\* a file that holds only its init.
Crash ==
    /\ Running /\ crashes < MaxCrashes
    /\ \E P \in SUBSET {s \in Open : ~opened[Cam(s)]} :
         /\ file' = [s \in Segs |-> IF s \in P THEN 0 ELSE file[s]]
         /\ mtime' = [s \in Segs |-> IF s \in P THEN now ELSE mtime[s]]
    /\ phase' = "down" /\ crashes' = crashes + 1
    /\ engaged' = {} /\ scans' = {} /\ purges' = {} /\ queue' = <<>> /\ inflight' = <<>>
    /\ cur' = [c \in Cameras |-> Absent] /\ opened' = [c \in Cameras |-> FALSE]
    /\ dropped' = dropped \cup {s \in Playable \ Indexed : \E t \in scans : t.cam = Cam(s)}
    /\ UNCHANGED <<now, status, row, purged, stops, losses, failures>>

\* Started with --reindex, the server first runs ReindexAll to its end.
Restart ==
    /\ phase = "down"
    /\ phase' = "booting"
    /\ row' \in {row, [s \in Segs |-> IF s \in Playable \ Indexed THEN file[s] ELSE row[s]]}
    /\ UNCHANGED <<now, status, file, mtime, memory, history, budgets>>

\* index.Open creates a new database when the file is gone.
LoseIndex ==
    /\ phase = "down" /\ losses < MaxLosses
    /\ losses' = losses + 1
    /\ row' = [s \in Segs |-> Absent]
    /\ UNCHANGED <<now, phase, status, file, mtime, memory, history, crashes, stops, failures>>

-----------------------------------------------------------------------------
Recorder(c) == OpenSegment(c) \/ WritePart(c) \/ CloseSegment(c)
Indexer == IndexerTake \/ IndexerInsert \/ IndexerGiveUp \/ IndexerBarrier
Reindex(t) == ReindexRange(t) \/ ReindexProbe(t) \/ ReindexInsert(t) \/ ReindexDone(t)
PurgeStep(t) ==
    \/ StartCameraPurge(t) \/ FlushIndex(t) \/ QueryCamera(t) \/ NextBatch(t)
    \/ Unlink(t) \/ DeleteRows(t) \/ UnlinkOrphan(t) \/ EndCameraPurge(t)
Operator(c) == BootCamera(c) \/ EnableCamera(c) \/ DisableCamera(c) \/ DeleteCamera(c)
Process == BootDone \/ BeginClose \/ FinishClose \/ Crash \/ Restart \/ LoseIndex

Next ==
    \/ Tick \/ Indexer \/ Process
    \/ \E c \in Cameras : Recorder(c) \/ Operator(c)
    \/ \E t \in scans : Reindex(t)
    \/ \E t \in purges : PurgeStep(t)
    \/ \E k \in {"clean", "sweep"} : StartRetention(k)
    \/ StartFree

Spec == Init /\ [][Next]_vars

-----------------------------------------------------------------------------
(* Properties.                                                              *)

DiskType ==
    /\ file \in [Segs -> Durations \cup {Absent}]
    /\ mtime \in [Segs -> Instants]
    /\ row \in [Segs -> Durations \cup {Absent}]
RecorderType ==
    /\ status \in [Cameras -> {"enabled", "disabled", "deleted"}]
    /\ engaged \subseteq Cameras
    /\ cur \in [Cameras -> Instants \cup {Absent}]
    /\ opened \in [Cameras -> BOOLEAN]
QueueType == queue \in Seq(Items) /\ inflight \in Seq(Items)
ScanType == scans \subseteq Scans
PassType == purges \subseteq Passes
BudgetType ==
    /\ crashes \in 0..MaxCrashes /\ stops \in 0..MaxStops
    /\ losses \in 0..MaxLosses /\ failures \in 0..MaxFailures
HistoryType == dropped \subseteq Segs /\ purged \in [Cameras -> Instants]
ClockType == now \in Instants /\ phase \in {"booting", "up", "closing", "down"}

TypeOK ==
    /\ ClockType /\ DiskType /\ RecorderType /\ QueueType /\ ScanType /\ PassType
    /\ BudgetType /\ HistoryType

\* Footage on disk is never forgotten (engine.go:513-517, recovery.go:1-11): while
\* its camera is engaged and no Reindex of it runs, a playable file is indexed,
\* being written, on its way to the index, or its row was given up after a
\* failed insert or a Reindex cut short.  A crash, a partly failed purge or a failed transaction must not
\* leave a file that neither playback nor retention knows.
FootageAccounted ==
    \A c \in engaged :
        (\A t \in scans : t.cam # c)
            => Playable \cap Of(c) \subseteq Indexed \cup Open \cup Queued \cup dropped

\* What playback is told never falls short of what the file holds: the row of a
\* closed segment that is not on its way to the index covers every complete
\* fragment (segment.close hands over the final duration; Recover measures it).
RowCoversFile ==
    \A s \in (Indexed \cap Stored) \ (Open \cup Queued) : file[s] <= row[s]

\* Retention and a full queue change neither of the two: the row of a segment
\* that found no room in idxCh takes another way in (engine.go:513-533), and no
\* purge leaves a file without its row, or under a row that says too little.
IndexTellsAll == FootageAccounted /\ RowCoversFile

\* A graceful stop loses nothing (engine.go:1132-1133 "no pending insert is
\* lost"): without failures, every playable file has its row once Close returns
\* (after a crash or the loss of the index, Recover does the rest).
GracefulStopIndexesAll ==
    phase = "down" /\ crashes = 0 /\ losses = 0 => Playable \subseteq Indexed \cup dropped

\* A purge never takes the file a recorder is writing, whatever cutoff, query or
\* walk chose it (retention.go:132-134 and 267-269).
OpenFileKept == \A c \in Cameras : cur[c] # Absent /\ opened[c] => <<c, cur[c]>> \in Stored

\* The purge of a deleted camera spares the camera re-created with the same id
\* (retention.go:267-269): nothing it holds or will unlink starts at or after its
\* cutoff, and so none of it is the segment that camera is recording.
PurgeSparesRecreated ==
    \A t \in purges : t.kind = "camera" =>
        \A s \in t.list \cup t.todo \cup t.gone : Start(s) < t.cutoff /\ s \notin Open

\* Deleting a camera deletes its footage (retention.go:255-259): once a purge has
\* completed without failure, no file, row or queued row of the old camera is left,
\* and none comes back.
DeletedStaysDeleted ==
    \A c \in Cameras : \A s \in Of(c) :
        Start(s) < purged[c] => s \notin Stored \cup Indexed \cup Queued

\* Retention never deletes footage younger than the window (retention.go:132-134):
\* a file that goes, and that neither the emergency purge nor the purge of a deleted
\* camera had chosen, holds nothing recorded after now - Retain.
RetentionSparesFresh ==
    [][\A s \in Stored : file'[s] = Absent =>
         \/ Start(s) + file[s] <= now - Retain
         \/ \E t \in purges : t.kind \in {"free", "camera"} /\ s \in t.list \cup t.todo]_vars

\* A row disappears only after its file: whatever step of a purge fails, playable
\* footage never becomes unknown to the index that knew it.
RowsOutliveFiles ==
    [][\A s \in Playable \cap Indexed : row'[s] = Absent => file'[s] = Absent]_vars

-----------------------------------------------------------------------------
(* Liveness: the indexer and the retention goroutine keep running, passes end, *)
(* time passes, and a session that stopped sending is closed.               *)

Fairness ==
    /\ WF_vars(Tick)
    /\ WF_vars(BootDone)
    /\ \A c \in Cameras : WF_vars(BootCamera(c)) /\ WF_vars(CloseSegment(c))
    /\ WF_vars(IndexerTake) /\ WF_vars(IndexerInsert)
    /\ SF_vars(StartRetention("clean")) /\ SF_vars(StartRetention("sweep"))
    /\ WF_vars(\E t \in purges : PurgeStep(t))

LiveSpec == Spec /\ Fairness

\* Everything recorded by a camera that was not deleted is reclaimed in the end:
\* a file that no row leads to is swept, a row whose file is gone is dropped,
\* and a failed unlink is retried.
ReclaimsAll == <>[](\A s \in Stored \cup Indexed : status[Cam(s)] = "deleted")
=============================================================================
