# A verification of eneverre-server

`eneverre` is a network video recorder in Go: it pulls RTSP streams from cameras,
records them as fragmented MP4 segments, indexes the segments in SQLite, serves them
back, relays them live, and removes them when they are old or the disk is full. This
directory holds TLA+ models of the program, the TLC configurations that check them on
small instances, and proofs checked by TLAPS. Source paths below are relative to
`src/go/`; media paths to `src/go/internal/media/`.

## 1. Inventory

| part | state it keeps | operations | talks to | what is hard |
|---|---|---|---|---|
| recorder (`recorder/`) | RTSP client, tracks, current segment and part | Start, packet callbacks, segment rotation, Close | indexer (callback under its mutex), broadcaster, relay | close races the reconnect loop; a failed write leaves footage without a row; stalls and clock drift cut a segment |
| indexer (`engine.go`) | channel of 256 items | enqueue, insert with retry, flush barrier | index | a full queue reorders inserts; the drain at Close |
| index (`index/`) | SQLite rows: path, start, duration, video extent | Insert (replace by path), Expired, Oldest, Range, DeleteBatch | every purge, recovery, playback | rows and files change in two steps |
| recovery (`recovery/`) | none | Recover (bounded scan), Reindex (full walk, goroutine), probe | index, disk | what a bounded scan may miss; the walk beside the live recorder |
| retention (`retention/`) | none between passes | clean, sweepOrphans, PurgeToFree, PurgeCamera | index, disk | snapshots used long after they were read; partial failures; open files |
| camera lifecycle (`engine.go`, `handlers_cameras.go`) | ctrls, recorders, broadcasters, relay sources | AddCamera, RemoveCamera, SetPrivacy, Close | everything above | delete and re-create with the same id; pause during a connect |
| disk monitor (`diskmonitor/`) | paused flag, last free space | Tick, callbacks | engine, retention | hysteresis; one purge at a time |
| live broadcaster, relay (`live/`, `liverelay/`) | subscribers, fragment ring, init segment; RTSP server streams | SetTracks, Submit, Subscribe, Stop | recorder, HTTP handlers | slow subscribers; a restart under a subscriber |
| playback (`playback/`) | none | list, get, HLS; concatenation, gap filling | index, files | rounding at segment joins; boundaries |
| privacy, heartbeats (`server/server.go`) | manual privacy, off-hours, generations | handlePrivacy, scheduler tick, seeding | engine, store | a handler using a camera deleted or re-created meanwhile |
| schedules (`schedule/`) | rows, evaluated each tick | CRUD, evaluation | privacy | windows across midnight; edits while in force |
| accounts: users, sessions, service tokens, ACLs, pairing (`handlers_auth.go`, `handlers_users.go`, `acl.go`) | five tables | login, rotate, revoke, password, role, delete, claim | every handler | handlers are statements without a transaction: double use of a refresh token or a code; the last administrator; rows that outlive a deletion |
| throttle of password checks (`ratelimit.go`) | strikes and attempts in flight per address and name | begin, finish, windows end | login, password change | a burst that is checked while it is counted |
| updates (`updates/store.go`, `handlers_updates.go`) | manifest, sidecar, pending and published files, cached release | publish, append, finalize, serve | HTTP clients | files and manifest in several steps; crash; readers without a lock |
| talk (`handlers_talk.go`, `backchannel/`) | one slot per camera, RTSP session, audio channel | reserve, dial, feed, close, shutdown | camera | two owners of a session; the shutdown during a dial |
| records of a camera (`handlers_cameras.go`, `camera/store.go`, `events/`, `acl.go`) | camera rows, the cameras in memory, talk codecs, event rows, grants | create, update, delete; webhook, listing, deletion, retention of events | schedules, engine, privacy | one handler writes five places, and requests that do not take its lock read them in between; read, merge and write of an event |
| media tokens | signed tokens | sign, verify | handlers | – |
| camera vendor API, migrations, logging, static files, web UI | none or I/O | – | – | not modelled |

What makes each part correct, in one line: *footage on disk is never forgotten and
never removed early; a deleted camera leaves nothing behind and its successor inherits
and loses nothing; a graceful stop loses nothing; everything old is reclaimed; a paused
camera neither records nor transmits; the disk never fills while something may still
be removed; every sample is in the segment and at the time it was taken; a clip shows what
was recorded where it was recorded; a viewer is fed an unbroken stream or let go; one client
talks; a token works once; the last administrator stays; a manifest names only files that are
there; a camera is armed in the minutes its program asks for, and no motion that was acknowledged is
lost.*

## 2. Plan

| order | module | status | composes with |
|---|---|---|---|
| 1 | `SegmentStore`: recorder, indexer, recovery, retention, deletion, crash | written and checked | – |
| 2 | `SegmentStoreProofs` | all its safety properties proved, some under hypotheses (section 15) | 1 |
| 3 | `CameraPipeline`, `CameraPipelineProofs`: pause flag, retry loop, connect, Close, handlers | written, checked, all its safety properties proved | implements `CameraContract` (proved) |
| 4 | `CameraContract`: a camera streams only while armed | written | the engine that `PrivacyControl` assumes |
| 5 | `PrivacyControl`, proofs in `ControlProofs`: manual privacy, off-hours, seeds, requests, handlers | written, checked, both safety properties proved | uses the engine through its contract |
| 6 | `DiskPressure`, `DiskPressureProofs`: watcher and emergency purge | written, checked, all its safety properties proved | which segments a purge takes is in 1 |
| 7 | `SamplePath`, proofs in `ViewingProofs`: decode times, drift, stalls, rotation | written, checked, `PathFaithful` proved | what 1 calls a segment, 10 reads |
| 8 | `LiveStream`, proofs in `ViewingProofs`: broadcaster, marshaler, viewers | written, checked, `LiveFeedWhole` proved | fed by the samples of 7 |
| 9 | `TalkSession`, proofs in `ViewingProofs`: slot, backchannel session, shutdown | written, checked, `TalkSafe` proved | – |
| 10 | `Playback`, `PlaybackProofs`: a clip from segments, gaps filled | written, checked, `PlayFaithful` and `PlayFilled` proved | the segments 7 can write |
| 11 | `Accounts`, `AccountsProofs` | written, checked, all its safety properties proved | – |
| 12 | `AuthThrottle`, proofs in `AccountsProofs` | written, checked, `ChecksAreBounded` proved | guards the logins of 11 |
| 13 | `ReleaseStore`, `ReleaseStoreProofs`: publication and a client that updates itself | written, checked, both safety properties proved | – |
| 14 | `ScheduleWindows`, proofs in `ControlProofs` | written, checked, proved | what 5 takes as given |
| 15 | `CameraRecords`, proofs in `ControlProofs` | written, checked, `RegAgrees` and `RegKept` proved | the programs of 14; the handlers of 3 and 5 |
| 16 | HLS endpoints, media tokens, the import of INI files | planned | 10, 11, 15 |

Abstract specifications still worth stating: the life of one segment (absent, open, closed,
indexed, reclaimed), which `SegmentStore` should refine per segment; a clip as a function of
what was recorded, which `Playback` should refine.

### Modules, instances and runs

Modules of different parts are independent: they share no state in the program, or only
through a promise that one keeps and the other assumes (`CameraContract` between 3 and 5;
between 7 and 10, what a segment may look like). The modules written last prefix every name
(`Acct`, `Thr`, `Play`, `Live`, `Talk`, `Path`, `Rel`, `Sched`, `Reg`) so that one instance can hold several
parts. Such an instance (`MCMedia`, `MCServer`, `MCServerLive`, `MCViewing`) is a disjoint
union, not a product: a behavior belongs to one part and the others stay off or as they
start, so a run of it explores each part by itself.

| run | instance | parts | distinct states |
|---|---|---|---|
| `StoreRetention` | `MCSegmentStore` | retention and deletion, with liveness | 176 000 |
| `StoreChange` | `MCSegmentStore` | changes of the camera, stop, crash, lost index | 3 731 000 |
| `Media` | `MCMedia` | pipelines and their contract; releases, with liveness | 2 287 000 |
| `PipeLive` | `MCCameraPipeline` | liveness of the pipelines | 28 000 |
| `Server` | `MCServer` | privacy, accounts, downloads, records of a camera, schedules | 1 270 000 |
| `PrivacyLive` | `MCServerLive` | liveness of privacy; throttle | 31 000 |
| `DiskPressure` | `MCDiskPressure` | watcher and purges, with liveness | 108 000 |
| `Viewing` | `MCViewing` | sample path, live stream, talk, with liveness | 639 000 |
| `StoreRace`, `PipeClose`, `PrivacyGhost`, `PlayReconnect` | | disagreements of code and documentation (section 14) | stop at the violation |

Every property of a passing run has at least one seeded fault in its module, an operator
`Faulty...` before the definition it would replace; with it in place TLC finds the property
violated under the run's own configuration. (A few more `Faulty...` operators describe bugs of the
same kind that other instances show.) No action uses these operators.

## 3. SegmentStore

### State

A segment is `<<camera, start>>`, which is what its file name encodes. A file is the
duration of its complete fragments (`file`) and its mtime; a row is the duration stored
(`row`). `cur` and `opened` are the recorder's current segment and whether its file
exists; `queue` and `inflight` the index channel and the item `runIndexer` holds;
`scans` the running Reindex goroutines; `purges` the running passes of the retention
package with their snapshot (`list`), current batch (`todo`) and what of it was unlinked
(`gone`). `status` is the camera in the database, `engaged` its presence in
`Engine.ctrls`. `dropped` and `purged` are history: segments whose row was given up after
a logged failure or a Reindex cut short, and the cutoff of a camera's last complete
purge.

### Actions and code

| actions | code |
|---|---|
| `OpenSegment`, `WritePart`, `CloseSegment` (`Closings`, `Finalize`) | `recorder/track.go` `write`/`newSegment`, `recorder/segment.go` `closeCurPart`/`close` |
| `Enqueue`, `IndexerTake/Insert/GiveUp/Barrier` | `engine.go` `enqueueIndex`, `runIndexer`, `insertWithRetry`, `flushIndex` |
| `BootCamera`, `EnableCamera` (`Engage`, `Recovered`) | `Start`, `AddCamera`, `recoverCamera`, `recovery.Recover` |
| `ReindexRange/Probe/Insert/Done` | `recovery.Reindex`, `probe`, `measure` |
| `DisableCamera`, `DeleteCamera` (`Detach`) | `handlers_cameras.go`, `RemoveCamera` |
| `StartRetention`, `StartFree`, `StartCameraPurge`, `FlushIndex`, `QueryCamera`, `NextBatch`, `Unlink`, `DeleteRows`, `UnlinkOrphan`, `EndCameraPurge` | `retention.go` and `PurgeCameraRecordings` |
| `BeginClose`, `FinishClose`, `Crash`, `Restart`, `LoseIndex` | `Engine.Close`, the process dying, `ReindexAll`, `index.Open` on a missing file |

How a segment can end is a set, `Closings`: the last part written, or no sample since the
last part, or a failed write or close with and without the `OnSegment` call, with the first part
written or lost. The four
purges share their batch steps and differ in where a batch comes from (`Candidates`), which
is how the code is built: each goes through `purgeBatch`.

### Abstractions

* Time is discrete. Opening a segment and reading a purge's cutoff advance the clock, so
  no two such instants coincide (the code's are nanoseconds apart). A deletion's handler
  takes no time between its steps.
* A stalled session ends within `Idle`, the read timeout and the media watchdog
  (`recorder.go:489-558`); hence an open file's mtime is recent. `RetainAssumption` says that
  the retention window is not shorter.
* Every session finalizes its segment. A PLAY that fails after its packets opened one does not
  (section 14): that segment, which the next session forgets on disk, is in `CameraPipeline` only.
* A row and its file carry the same name; codecs, video extents and sizes are left out.
* An unlinked open file keeps no name: further parts change nothing on disk.
* Recover is one step. It runs before the camera's recorder exists, under `camMutateMu`
  or at boot; the passes it could overlap with when a camera is enabled at run time only
  remove files and rows.
* `Reindexing = FALSE` skips a walk that finds no footage (`doc/MEDIA.md:222`, "a fresh
  install with no footage is an instant no-op"); runs about other hazards use it.
* The batch choice is nondeterministic between rows with the same start.
* Directories are not state; pruning empty ones is left out.
* A failure is transient: the next pass may succeed. A file that can never be unlinked, which
  would hold up `clean` for ever, is not modelled.

### Properties

* `FootageAccounted`: every playable file of an engaged camera is indexed, open, on its way
  to the index, or its row was given up after a logged failure.
* `RowCoversFile`: the row of a closed segment never falls short of the file.
* `IndexTellsAll`: both of the former, beside retention and with a queue that overflows.
* `GracefulStopIndexesAll`: Close returns with every playable file indexed.
* `OpenFileKept`: no purge takes the file a recorder is writing.
* `PurgeSparesRecreated`, `DeletedStaysDeleted`: the purge of a deleted camera takes all of
  the old camera and nothing of its successor.
* `RetentionSparesFresh`, `RowsOutliveFiles` (action properties): nothing younger than the
  window is removed, except what the emergency purge or the purge of a deleted camera chose;
  a row goes only after its file.
* `ReclaimsAll` (liveness): everything recorded is reclaimed in the end.

### Runs

One camera is enough for every question asked here: cameras share only the queue, the
index and the passes, and a pass treats each segment on its own; a second camera would
repeat the first. (`Cameras` is a set; the theorems hold for every one.)

| run | what it shows | bounds |
|---|---|---|
| `StoreRetention` | recorder, indexer, clean, sweep and the deletion of the camera, with one failure; then, under `LiveSpec`, that all is reclaimed | footage until 2, clock 0..6, queue of 2, batch of 1 |
| `StoreChange` | disable, enable, delete and re-create the id beside an emergency purge, a stop, a crash and a lost index, then recovery | footage until 1, clock 0..3, queue of 3; one directory per instant, the scan stops after two dry ones |
| `StoreRace` | a disagreement of code and documentation (section 14) | smallest that shows it |

Two or three segments per camera with a batch of one make every interleaving of "a batch of
several batches", "the queue is full" and "a segment closes during a pass" happen. The queue
overflows in `StoreRetention` and is lost by a crash in `StoreChange`, not both (section 14).
`CHECK_DEADLOCK FALSE` because the clock is bounded: at its end, with nothing left to purge,
the system stops.

### Fairness

`LiveSpec` is used by `StoreRetention` only. Weak fairness of the clock, the boot loop, the
indexer goroutine and the steps of a running pass: each is a goroutine that never blocks on
anything but what its guard says. `CloseSegment` is fair because the read timeout and the
watchdog end a session that stops sending. `StartRetention` is strongly fair for each kind:
`Cleaner.Run` is one goroutine that runs clean on its ticker and the sweep on its own, and a
running pass disables both starts only for a while. Failures are not fair and are bounded.

## 4. CameraPipeline and CameraContract

### State

A pipeline is what one `AddCamera` makes: a `camCtrl` (`paused`, `woken`, `cancelled`), a
`Recorder` (`client`, `session`, `segment`, `relayed`) and the goroutine of its retry loop,
whose place in `startCamera` and `rec.Start` is `loop`. `ctrl` is `Engine.ctrls[id]`.
`abandoned` is history: the open segment is one that a failed PLAY left.
`client` is the field that `Close` reads, `session` the local variable of the `Start` in
progress: they differ between a Start's end and the next one's beginning. `relay` is the
session that the RTSP relay serves. Two callers act: a privacy toggle and a camera handler
(`camMutateMu` admits one at a time); `call` holds their program points and locals, `op`
the camera's privacy op lock.

| actions | code |
|---|---|
| `Park`, `Unpark`, `Leave`, `EndStart`, `Backoff` | `engine.go` `waitWhilePaused`, `startCamera` |
| `PublishClient`, `Dial`, `Describe`, `PublishSource`, `Setup`, `Check`, `Play`, `Answered`, `WaitReturns`, `Finalize`, `SourceLost`, `Release` | `recorder.go` `Start`, in its order, with its deferred calls |
| `Packet`, `SourceEnds` | a callback opens a segment, from the sending of PLAY on; the camera or the watchdog ends the session |
| `Grab`, `CloseClient`, `ClosePanics`, `CloseSegment` | `Recorder.Close` |
| `RequestToggle`, `LockToggle`, `Lookup`, `SetPaused` | `handlePrivacy`, `SetPrivacy`, `setPaused` |
| `BeginHandler`, `Cancel`, `Wait`, `ClearSource`, `AddCamera` | the camera handlers, `RemoveCamera`, `AddCamera` |

### Abstractions

* Pipelines and clients are numbers that are used again once nothing points to them, so the
  number of reconnects, updates and re-creations is unbounded in a finite model. Two
  pipelines are enough because `RemoveCamera` waits for the loop of the old one; four
  sessions because then a new one can always be made (TLC checked that none is ever lacking).
* PLAY is sent in one step and answered in another. The callbacks are registered before it
  (`recorder.go:446-459`, `760`), so packets may open a segment while the answer is under way, and
  PLAY may still fail.
* `RemoveCamera` gives up its wait after ten seconds. The model does not take that exit; the
  run `PipeLive` shows that it is not needed as long as each step of a connect returns.
* Every request to the camera may fail, and every connect may be refused by the relay.
* `Close` of a client that is published but not started panics. `Panics` names the callers
  for which this may happen: a toggle in the passing runs, no one where the question is
  whether it can happen at all (`PipeClose`). A handler that panics half way leaves its camera
  without an entry in `ctrls`, its op lock held and its old loop running: `OneSessionServed`
  needs `RemoveCamera` to come to its end, the other properties do not (section 15).

### Properties

* `PausedIsSilent`: when `SetPrivacy(id, true)` has returned nothing plays and no segment is
  open. It is hard because `Close` may find no client, or the last one, while a connect is
  under way; only the check before PLAY catches that one.
* `ResetForgetsNothing`: the reset at the top of `Start` drops no open segment but one that
  packets opened under a PLAY that failed (`abandoned`, section 14), whatever closes raced the
  session before; and a `Close` in between finalizes even that one.
* `OneSessionServed`: the camera never serves two sessions, also across an update
  (`OneSession`); a late `ClearSource` takes no newer stream down, and the relay serves no session
  that has gone (`RelayFollowsSession`); after `RemoveCamera` no loop, session or segment is left
  (`RemovedIsGone`).
* `Implements`: the pipelines refine `CameraContract`, in which a camera streams only while
  it is armed. The mapping takes a pause to be in force when its `Close` has returned, and a
  camera to be absent when `RemoveCamera` has.
* `CallsReturn`, `Recovers` (liveness): removals and toggles return; a camera that
  answers goes live again.

`Media` checks the safety properties and the refinement with every operation;
`PipeLive` the liveness, without re-creations of a deleted camera. Fairness: each goroutine runs (weak); the op lock is strongly
fair to a waiting toggle, because Go's mutex hands itself over to a waiter that has
starved for a millisecond. Requests are not fair. `Recovers` alone assumes `Reachable`: a
request to the camera that is repeated for ever succeeds some time.

## 5. PrivacyControl

### State

`manual` and `off` are `privacy[id]` and `schedOff[id]`; `camera` the in-memory camera and
what matters of its configuration; `pipe` the engine's view, reduced to the contract that
`CameraPipeline` implements: absent, armed or paused. `lens` is the privacy mode of the
camera's own firmware. `mutate` and `op` name the holders of `camMutateMu` and of the op
lock. Each goroutine's program point and locals are in `proc`: any number of requests and
heartbeat seeds, the scheduler, one camera handler, and the attachment of the engine at
boot. `asked` is history: the last request that succeeded asked for privacy, and nothing
has ended it.

| actions | code |
|---|---|
| `Request`, `LockRequest`, `Firmware`, `Record`, `ApplyRequest` | `handlePrivacy`, `setManualPrivacyLocked` |
| `StartSeed`, `ReadConfiguration`, `ReadGeneration`, `Answer`, `FetchFails`, `CheckEdited`, `LockSeed`, `WriteSeed`, `ApplySeed` | `heartbeatLoop`, `seedHeartbeatFor` |
| `Attach`, `ReadMap`, `ApplyMap` | `SetMediaEngine` |
| `Tick`, `Evaluate`, `LockApply`, `ApplyPause` | `startScheduler`, `evaluateCamera`, `applyPause` |
| `BeginMutation`, `LockUpdate`, `RemovePipe`, `AddPipe`, `Publish`, `Bump`, `Drop`, `Restore`, `PauseRestored`, `UnlockUpdate` | the camera handlers, `dropCameraState` |
| `WindowChanges`, `LensSwitched` | the clock or an edited schedule; the button on the camera |

### Abstractions

* A generation counter is reduced to whether it has moved since the seed read it (`edited`,
  `toggled`), which is all that is asked of it.
* The list of cameras, the configuration generation and the privacy generation are read in
  three steps, as in the code. A firmware call that fails may or may not have been obeyed.
* The cached heartbeat that `/api/status` shows is left out.

### Properties

* `EngineMatchesMap`: whenever nobody is in the middle of a change, the engine is paused
  exactly when manual privacy or off-hours say so.
* `PrivacyHolds`: a privacy request that succeeded is never undone by a stale reading, an
  update or the schedule.
* `ScheduleSettles`, `FollowsFirmware` (liveness): when the schedule settles the camera
  obeys it; manual privacy ends up equal to what the firmware says.

`Server` takes two requests, one heartbeat, one handler and one schedule change, each at any step
of the others, from every state of the firmware; the requests are symmetric. `PrivacyLive` takes one
request, one change and one press of the button on the camera. That the invariants hold when all of
these meet is proved (section 15). Its fairness: goroutines run and loops tick (weak);
a mutex that is released again and again is acquired, and a camera that is asked again and
again answers (strong).

## 6. DiskPressure

Space is counted in segments: `footage`, `other` (what everything else occupies) and `gone`,
index rows whose file was removed but whose deletion from the index failed. The watcher
(`paused`, `poll`, `sample`) reads the free space and decides on it in a later step, so a
sample can be stale. Its callbacks start a purge goroutine if the flag `purgeRunning` is
free (`StartEmergencyPurge`); `Purges` has more names than may ever run at once. A purge
checks for shutdown and for enough space, queries a batch, unlinks it and deletes its rows
(`Check`, `Query`, `Delete` and the failures), and clears its flag in a step of its own
(`ReturnPurge`). The recorder writes, other programs free space, the engine closes, at any
time.

* `OnePurge`: purges never run side by side.
* `DeletesUnderPressure`: a batch is deleted only below the high-water mark, not counting
  what others freed since the check.
* `ShutdownIsPrompt`: at most one batch is deleted after the shutdown.
* `LowIsAnswered` (liveness): the volume does not stay low while there is footage to delete,
  whatever purge failed.

The run `DiskPressure` starts from every state of a volume of five segments with a low mark
of two and batches of two, so that batches straddle the mark and the end of the footage.
Fairness: the goroutines run; what is tried again and again (a query, the unlink of a
batch) succeeds some time. `CHECK_DEADLOCK FALSE` because a closed engine stops.

## 7. SamplePath

What becomes of the samples of one RTSP session, from the callback of the RTSP client to the
segment. `pathCamera` is the camera (its clock, which may jump once, the pictures it has
sent); `path` is the `Recorder` with its two `recTrack`s: the lookahead of one sample
(`next`), the drift anchor, the current segment, `resync` (no segment before the next
keyframe). At every tick at most one sample arrives.

| actions and operators | code |
|---|---|
| `PathVideoArrives`, `PathPicture`, `PathFromPTS`, `PathFromExtractor` | `videoDecodeTime` with and without B-frames, the extractor that fails and starts again |
| `PathAudioArrives`, `PathAudioOnly` | `wireAudio`, `audioOnly` |
| `PathWrite`, `PathDrifted`, `PathResync`, `PathSpan` | `recTrack.write`, its drift detector, the cap of a sample's duration |
| `PathTarget`, `PathStart`, `PathOpens`, `PathStalled`, `PathRotates`, `PathStore` | `newSegment`, `segmentStart`, the stall cut, the rotation, a write that fails |

`PathFaithful` has two parts:

* `PathDecodable`: each picture of a segment is a keyframe or follows the picture the camera
  took just before, whatever was cut, dropped, reordered or failed.
* `PathTimesTrue`: the place of a sample in its segment tells when it arrived, to within twice
  the tolerance. A camera with audio is excepted once its clock has jumped (section 14).

Run `Viewing`: six ticks, a gap of two, segments of two, a jump of five either way, one failure.
These let a segment be rotated, cut by a stall, cut by a jump and opened again. The
session does not end: what the end of a session does to a segment is in `SegmentStore`.
Composition offsets and encodings are left out.

## 8. LiveStream

`source` is the session of the camera as the recorder sees it, `submitCh` the bounded queue to
the marshaler, `bc` the `Broadcaster` (init segment, GOP buffer, current part, `dtsShift`),
`subs` its subscribers, `viewer` each `HandleStream` with its channel.

| actions | code |
|---|---|
| `LiveConnect`, `LiveLost`, `LiveRemove` | `SetTracks`, the end of a session, `RemoveCamera` |
| `LiveSubmit` | `recTrack.write` and `Submit`, which drops a sample rather than wait |
| `LiveResync` | the clock of the camera jumps: `recTrack.write`, `videoDecodeTime` |
| `LiveWriteSample` (`LiveAdd`, `LiveFlush`, `LiveKeep`, `LiveFanOut`) | `writeSample`, `flushPart`, the cap of the GOP, the fan-out, which drops a slow viewer |
| `LiveOpen`, `LiveWritePrelude`, `LiveReceive`, `LiveLeave`, `LiveUnregister` | `HandleStream` |

The decode times are those the recorder hands over, not a count of frames. A frame that would
come before its predecessor gets that one's time, and its predecessor no duration
(`track.go:103-106`): the clock stands still, and the broadcaster skips such a frame unless it is a
keyframe (`LiveShort`). When the camera's clock jumps, the samples that drift are dropped and the
next is on the new clock, ahead or back; the broadcaster is not told (`LiveResync`).
`source.timely` and `source.whole` are history: whether the clock went back, and whether the marshaler
got every sample.

* `LiveFeedWhole`: a registered viewer has an open channel and no one else has one; what it was
  fed and what is on its way has no gap; it is of one session, of the init segment it was
  given; it starts on a keyframe, and no part overlaps the next (`LiveTimesGrow`): each begins where
  the video of the one before ends, or later. The last three hold for a session of
  which no sample was lost on the way to the marshaler (`LiveIntact`); the keyframe not for viewers that
  joined after an overlong GOP was dropped; and the times as long as the clock did not go back
  and no audio overtook the first keyframe of a camera that starts below zero: there the code lets
  parts overlap (section 14). Stalled frames and jumps ahead are covered.
* `LiveReleased` (liveness): a viewer whose init segment is no longer the current one is let go,
  so that the browser reconnects.

Run `Viewing`: one viewer, queues of one, two sessions with three samples between them, parts of one
tick, a jump of two ticks in each session. Three samples are a keyframe and what
follows it, with a stall or jump between any two, or audio before them, or a reconnect among them.
Viewers share only the fan-out, which treats each alone. Weak fairness of the marshaler and of
the handlers: each is a goroutine.

## 9. TalkSession

`talkSlot` is `a.talk[id]` (free, the nil placeholder, or a session); `talker` each client's
handler with its socket, its ping goroutine, its `backchannel.Session`, the session's audio
channel and its close-once; `talkEnd` the shutdown with the sessions that `CloseAllTalk` took.
The places of the handler are the steps of `handleTalk`: reserve, upgrade, handshake, dial,
register, ready, then frames until an error, close, release. The client, the camera and the
shutdown act at any step, `TalkShed` and `TalkFeedAgain` are the two halves of a `Feed` on a
full channel, between which the send loop may run.

* `TalkSafe`: two RTSP sessions to a camera never play at once; a slot is held by a handler that
  is there; a session registered before the shutdown is torn down when `CloseAllTalk` returns;
  a codec that is passed through never loses the freshest frame.
* `TalkReleased` (liveness): the handler returns when its client is gone, or the camera has dropped
  a G.711 session; neither leaves the slot taken.

Run `Viewing`: two clients, a channel of one frame, two frames each. Weak fairness of handler,
ping and send loop until the process is down. The bound of ten seconds on the drain of HTTP
requests is not modelled.

## 10. Playback

A clip, `GET /get`. `play` is `seekAndMux` (phase, placeholders available, the segment it is in),
`playK` the muxer with its two tracks and the `videoFill` of the segment. A fragment has one
sample. The recorded segments are not given beforehand: each step chooses the next sample, the
next segment or the end among those that `SamplePath` can write (first picture a keyframe,
samples of a track back to back, one track up to `PlayLate` ahead of the other), so the run
covers every clip of such segments.

| actions and operators | code |
|---|---|
| `PlayVideo`, `PlayAudio`, `PlayTrun` | `muxParts` |
| `PlayPicture`, `PlaySound`, `PlayCatchUp`, `PlayFinish`, `PlayFillTo` | `videoFill` (`fill.go`) |
| `PlayClose`, `PlayConcat`, `PlayGap`, `PlayDiffers`, `PlayFails`, `PlayTail` | `seekAndMux`, `processSegment` |
| `PlaySample`, `PlayFlush`, `PlayFlushAll`, `PlayFinal` | `muxerFMP4` (`PlayTimes`: base time and durations of a part) |
| `PlayBlack`, `PlayBlackLoop` | `writeBlackGap`, turn after turn; `PlayFillLoop` is the loop of `fillTo` |

* `PlayFaithful`: each picture can be decoded after the one before it in the clip; a
  sample is where it was recorded; samples do not overlap, and a placeholder is not shown
  before a picture that precedes it.
* `PlayFilled`: no picture of footage whose video keeps up is held back for a fill, and, when
  placeholders can be made, video spans the window with no hole longer than `PlayHole`: a span
  below the threshold in each segment, the stalls between them, and what the last picture or
  placeholder may stand for.

Run `Server`: a window of five ticks of about a second, two segments, thresholds of one tick. A
first segment may start two ticks early, which is as early as the code handles well, and a later
session restarts no stream time: beyond both bounds the code differs from its documentation
(section 14; `PlayReconnect` shows the second). Left out: drift of stream time against
the wall clock inside a session, recordings without an mtxi box, H.265, the rendering of a
placeholder, a client that hangs up, and the HLS endpoints.

## 11. Accounts and AuthThrottle

`Accounts` holds the tables (users, sessions, service tokens, camera ACLs, the pairing code) and
the requests in progress. A statement of SQLite is atomic, a handler is a sequence of statements
without a transaction (but for the ACL), and requests interleave between any two. `AcctLogin`,
`AcctRefresh`, `AcctLogout`, `AcctChangeMine`, `AcctReset`, `AcctUpdateRole`, `AcctCreate`,
`AcctDelete`, `AcctGrant`, `AcctVerify`, `AcctPoll` are the lookups and gates with which the
handlers begin; the actions of `AcctStep` are their statements, with the failures that matter.
`AcctTime` is expiry and the cleanup ticker. `acctLife`, `acctProof` and the flags `late` are
history.

* `AcctAdminRemains`: an administrator remains, whatever demotions and deletions race.
* `AcctSpentOnce`: a refresh token buys one pair and an approved pairing code one session.
* `AcctNothingOutlives`: a password change or deletion leaves no session, service token or ACL
  row granted on what is gone, but for rows that a revoking handler has still to come to, and
  for rows written by a request that had read the account before (`late`, section 14).

Run `Server`: two names, of which one is logged in, two roles, and either three requests or two
and one tick (`AcctBound`). Two requests race; the third spends what they left. A user who fails a check changes no table, so
failed checks are in `AuthThrottle` only: strikes and reservations per address and per name,
`ThrBegin`, `ThrFinish`, `ThrWindowEnds`.

* `ThrChecksBounded`: checks running plus failures never exceed the cap of an address; on one
  name at most the cap run and one more for each other address; every reservation is released
  exactly by its check.

Run `PrivacyLive`: three attempts from two addresses on two names, caps of two and one.

## 12. ReleaseStore

One track of the update registry: `dir` and `pending` are build files, `manifest` and
`sidecar` the two JSON files, `active` the cached release in progress, `lock` the store's
mutex, `req` the publish requests, `app` a client. A publish is `EnsureActive`, an
`AppendBuild` per build and perhaps `CommitActive`, each under the mutex, which is free
between them; every file operation is a step that may fail, and the process may crash at any.

* `ServedWhole`: each file the manifest names is there, and has the advertised bytes except while
  a commit moves a file of the same name in; a release holds only builds uploaded for its version
  (`NoMixedRelease`).
* `NothingLeaks`: with the mutex free the cache is what the disk says; and without faults there is
  no file that no release names.
* `ClientUpdated` (liveness): a client that asks again and again ends up with the current build,
  if nothing failed.

Run `Media`: two publish requests of one or two builds, two versions, one failure and one crash; CI
names a variant's file alike in every release. Weak fairness of the handlers and of the client,
which polls. `CHECK_DEADLOCK FALSE` here and in `Viewing`, `Server` and `PrivacyLive` because a
part ends: requests are finite. `PipeLive` checks for deadlock.

## 13. ScheduleWindows and CameraRecords

`ScheduleWindows` is one recording program: `schedRules` its stored windows by weekday, `schedNow`
the weekday and minute, `schedAsked` (history) the last accepted request. `SchedValid` and
`SchedNormalize` are `Validate` and `Normalize`, `SchedActive` is `Active` on compiled rules: a window
of today, or one of yesterday that wraps. Against it stands what a program means: the week is a
circle of minutes, and a window arms as many of them from its start on as it lasts
(`SchedMeans`).

* `SchedAsAsked`: armed exactly when the last accepted request says so, at every minute of the
  week, across midnight and across the end of the week, and whatever the case of a day's key.

Run `Server`: days of three minutes, in which a window can be inside a day, wrap, end with the day or
fill it; windows on Sunday, on Saturday and on a day that does not exist; every pair of entries.
Windows do not depend on each other, so pairs are enough; section 15 proves it for all.

`CameraRecords` is what the server keeps about a camera besides footage: `regRow` is the table of
cameras, `regMem` the cameras in memory, `regSched` the programs, `regCodecs` the cache of talk
codecs with its generations `regGen` and probes in flight, `regEvents` the motion events, `regAcl` one
restricted user's grants. `regWork` is the handler that holds `camMutateMu`; its field `at` names its
next statement.

| action | code |
|---|---|
| `RegLocks`, `RegChecksSchedule`, `RegCreatesRow`, `RegUpdatesRow`, `RegChangesMemory`, `RegSeeds` | `handleCreateCamera`, `handleUpdateCamera` |
| `RegDeletesRow`, `RegDeletesEvents`, `RegDeletesLists` | `handleDeleteCamera` |
| `RegBumps`, `RegDropsCodecs` | `dropCameraState` |
| `RegProbeChecks`, `RegProbeWrites` | the goroutine of `seedTalkCodecsFor` |
| `RegCreatesSchedule`, `RegChecksUsage`, `RegDeletesSchedule` | `handleCreateSchedule`, `handleDeleteSchedule` |
| `RegHookFinds`, `RegHookSelects`, `RegHookExtends`, `RegHookInserts` | `handleWebhookEvent`, `RecordMotion` under `recordMu` |
| `RegLists`, `RegErases`, `RegPrunes` | `handleListEvents`, `handleDeleteEvent`, `pruneOldEvents` |
| `RegGrantFinds`, `RegGrantWrites` | `handlePutUserCameras` |

* `RegAgrees`: no camera refers to a missing program (`RegNoStranded`); with the lock free the
  memory is the table (`RegMirrors`); cached codecs are those of the configuration in force
  unless a handler has yet to drop them (`RegCodecsCurrent`). The probes of the boot have read their
  generations in the initial state; section 14 says what happens otherwise.
* `RegKept`: a motion that was acknowledged stays inside an event until an administrator deletes the
  event he listed, or retention or the camera's deletion do (`RegMotionKept`); a camera's deletion
  leaves no event and no grant to a successor with the same id, but for rows written by a request
  that had found the camera before (`RegNothingInherited`, flag `late`).

Run `Server`: one id, one program, two webhook requests at once, three handlers or motions in
all, motions in two instants, and those only where there is no program (`RegBound`). Three are what it takes to overwrite a merge (an event and
two requests) and to create, change and delete; two ids share nothing but the programs. A statement
does not fail: each handler returns at the first that does, before it changes anything else, but for
the clean-up of a deletion (section 14).

## 14. Where code and documentation differ

1. `StoreRace`: Reindex probes an open file, and its insert lands after the indexer's. The row
   stays shorter than the file until the camera's index is rebuilt (`recovery.go:245`; the
   comment at 193 calls it safe beside the live recorder). An emergency purge, which takes the
   oldest rows, may unlink that open file for the same reason.
2. `PipeClose`: `Recorder.Close` may meet a client that `Start` has published but not yet
   started, and closing that panics (`recorder.go:298`), although the comment of `Close`
   allows it during a connect. `net/http` recovers a toggle's panic and its lock is released
   by `defer`; `handleUpdateCamera` unlocks without `defer` (`handlers_cameras.go:412`), so a
   panic there leaves the op lock of the camera held.
3. `PrivacyGhost`: a privacy request looks its camera up before it waits for the op lock, and
   a deletion does not take that lock. A request that waited out the deletion writes the map
   for a camera that is gone; one created with the same id then records while the map says
   private.
4. `PlayReconnect`: a second segment of a session other than the clip's first is placed by the
   difference of its stream time and that of the clip's first segment
   (`playback/server.go:157-159`). `firstMtxi` (line 88) is not updated after a filled gap, and each
   session restarts its stream time, so the two clocks are not comparable;
   `doc/MEDIA.md:448-452` says that filled gaps keep footage at its wall-clock place.

More were met while modelling; no run is devoted to them. Those of recording and privacy, whose
lines the hazards of `PROJECT.json` name:

* With the index queue full a newer segment's row is inserted before older queued ones
  (`engine.go:523`), so the orphans of a crash are not always the newest segments
  (`recovery.go:17-19`), and Recover, which scans back two segments or two minutes, may miss
  the older ones. `StoreChange` therefore has a queue that a crash can lose but recording does
  not overflow.
* A Reindex goroutine of a deleted camera may insert one row after the purge, which waits for
  the queue only (`engine.go:1012`).
* An update of a private camera starts the new pipeline unpaused; a connect that is quick
  enough plays until the handler's `SetPrivacy` closes it (`handlers_cameras.go:393-409`).
* The configuration generation is read after the camera was copied (`server.go:583`), so a
  probe of the old configuration can pass for one of the new.
* A crash between the deletion of a camera's row and the end of its purge leaves footage of a
  camera nobody knows (`engine.go:1006`).
* After a jump of the camera's clock, audio and video are resynchronised on their own, so one
  segment can hold both time bases (`track.go:78-105`).

Playback:

* `catchUp` before the first sample of a segment that starts more than ten seconds before the clip
  sees an `otherEnd` of zero: it fills from the segment's start, and what follows up to the next
  keyframe is dropped. With keyframes further apart than five seconds, footage at the start of
  the clip is replaced, against `fill.go:12-15`. (`PlayBefore = {3}` shows it.)
* A picture whose composition offset exceeds its duration is shown after the start of the next
  segment. If that one begins with audio alone, its filler starts at its first decode time
  (`fill.go:94-101`), and its first placeholder is shown before that picture, although
  `fill.go:163-165` says that placeholders come after the real frames in presentation order.
  (`PlayOffsets = {0, 2}` shows it; `PlayShort` excludes it.)
* A stall between two segments of one session is a frozen picture, not a black one. Several
  short spans without video, each below the threshold, add up to a hole that is not filled.

Recording:

* A PLAY that fails (a refusal, a timeout) after the camera has sent its first packets ends `Start`
  without finalizing the segment they opened (`recorder.go:484-486`), and the next `Start` sets
  `currentSegment` to nil (line 244): the file, if a part was written, gets no duration, is not closed
  and stays out of the index until a Recover or Reindex finds it. The comment at 558-561 wants a segment finalized
  "instead of being abandoned". `ResetForgetsNothing` excepts it.

Live streams and talk:

* After a clock jump back (`track.go:84-100`, `recorder.go:833-850`) the broadcaster is not reset, and
  `live.go` has no guard on decode times: the new parts overlap what viewers already got, or, when
  the time falls below zero and there is no shift, wrap. `LiveTimesGrow` excepts such a session.
* When audio is finalized before the first keyframe, `dtsShift` is that of the audio, and the first
  video decode time may wrap (`live.go:309-322`; the comment is at 86-89).
* Viewers that join after an overlong GOP was dropped start on a part without a keyframe
  (`live.go:77-79`), and samples of an ended session that are still queued are muxed into
  the next.
* A dial in flight when `CloseAllTalk` runs registers afterwards and is not torn down
  (`handlers_talk.go:97`).

Accounts:

* A login, claim, ACL or service-token request that read the account before its deletion or reset
  writes a row that outlives it; `AcctNothingOutlives` marks these rows `late`.
* The clamp of a TV's session is out of step when a change of role races its claim
  (`handlers_users.go:357`). A logout that races a refresh leaves the session, and a change of
  one's own password that races a refresh logs the caller out. A code approved before a reset can
  be claimed after it. Only the last generation of a refresh token is recognised as reused.

Releases:

* A request that finalizes commits whatever release is active, maybe not the one it
  appended to (`store.go:29-31`). Nothing keeps two variants of a release from having one filename:
  `AppendBuild` compares variants (`store.go:423-446`), so that the second upload overwrites the
  first's file while the list keeps both with their own sha256; and a repeated upload of one removes the
  file of both, so that the commit stops there. The runs and the theorems about bytes
  take the filenames of variants to differ. After failures a stale file in place is taken for one already moved
  (`store.go:505-509`), and a crash may leave files in `pending/` that nothing removes.

Records of a camera:

* A webhook or a change of grants that found the camera before its deletion writes its row after the
  clean-up (`handlers_cameras.go:457-464` cleans up before the camera leaves the memory): a camera
  created with the same id inherits it, against the comment at 461. A failed clean-up, which
  is only logged, or a crash in between leaves all of them.
* The probes of the boot copy the cameras before they read their generations (`server.go:499-503`): an
  update in between is not noticed. A probe of a motor position is not guarded at all.

## 15. Proofs

`SegmentStoreProofs`, for every set of cameras and every value of the constants allowed by
`SizesAssumption`, `FeaturesAssumption` and `RetainAssumption`:

* `TypeCorrect`: `Spec => []TypeOK`. `TypeOK` is not inductive: that `now - cur[c]` is a
  duration needs the clock to be ahead of what it stamped (`ClockInv`), and that a
  `Barrier` is an item needs its pass to be a camera's (`PassInv`). `TypeInv` is the
  conjunction, and each action has a lemma `<Action>Type`.
* `SparesRecreated`: `Spec => []PurgeSparesRecreated`. What a pass holds starts before its
  cutoff; that this excludes the new camera's open segment needs that a camera whose purge
  read its cutoff records only from there on (`PassSpares`), and that nothing is recorded
  or chosen between the removal and the reading of the cutoff. The orphan walk decides on
  the mtime, so the proof needs `ClockInv` once more: a file is never older than its start.
  Each action has a lemma `<Action>Spares`; most are `QuietStep`, `PassStep` or both.

* `StopIndexesAll`: `Spec => []GracefulStopIndexesAll`. While nothing crashed, a file without a row
  is open, queued, in the hands of an insert, or given up (`KnownInv`); `HandInv` says what
  runIndexer may hold, `DownInv` that Close leaves neither a queue nor an open segment.
* `FootageIsAccounted` and `RowsLast`: `FootageAccounted` without crash and loss of the index, and
  `RowsOutliveFiles` without its loss. `GoneInv`: what a batch has unlinked stays unlinked until
  its rows are deleted. A file cannot come back under the name of a row, because its recorder
  writes under the instant of its start, which has passed. Without the hypotheses both are for
  Recover to restore, and that it does is what `StoreChange` checks.
* `RowsCoverFiles`, `OpenFilesStay`, `IndexIsComplete`, `FreshIsSpared`: the same strength for
  `RowCoversFile`, `OpenFileKept`, `IndexTellsAll` and `RetentionSparesFresh`, for executions in which
  no camera records while a Reindex walks its footage (`Calm`). That is the boundary of what is true:
  `StoreRace` shows the row of an open segment that a Reindex inserted. The hypothesis is not that no Reindex runs, only that
  it meets no open segment of its camera. `QuietInv` is inductive under it: an open segment has no row, is in nobody's batch and is
  written within `Idle` (`ClosedInv`, `WrittenInv`), a row in the queue is as long as the file it
  describes (`LengthInv`), and what a clean or sweep holds ended before the window
  (`RetainInv`). Each action has a lemma `<Action>Calm`: what it does is one `CalmStep`, and `CalmStep`
  keeps each part.
* `DeletionIsFinal`: `DeletedStaysDeleted`, for executions in which a camera is deleted when its Reindex
  has ended and created again when its purge has ended (`Settled`). Both limits are real: the purge
  waits for the index queue and for no Reindex, and the recovery of a camera created again
  gives rows to the files its purge has yet to take. `ClearInv` follows the purge. Its barrier is
  queued behind every row of the camera (`ClearsQueue`), so once the barrier is answered no row of the camera
  is on its way; its cutoff is after everything the camera left (`ClearsOld`); then the rows it
  asked for are all there are, and the files its walk finds are the last (`ClearsAll`). `RemovedInv` is what stays: a
  deleted camera records nothing, and what is left of a camera starts after its last complete purge.
  Each action has a lemma `<Action>Clear`; a step that is not the purge's only takes away
  (`Shrinks`).

`CameraPipelineProofs`, for any number of pipelines and sessions and any `Panics`:

* `PausedIsSilentHolds`, `ResetForgetsNothingHolds`: the two invariants, from `SessionInv`. A
  pointer to a client outlives its `Start`, so the invariant says what a caller may still hold
  (`ClientsOwned`: a client that is closed, or of the pipeline it was grabbed from) and where a
  Start can be while a pause is on its way (`PausesReach`: the pause either still has to grab the
  client, or the check before PLAY will see the flag). Packets come from the sending of PLAY on: a
  segment that is open between two Starts is one that a failed PLAY left.
* `ContractImplemented`: `Spec => Implements`. `CurrentInv` adds what holds of a pipeline that no
  longer stands for the camera: it has ended or is cancelled, and a cancelled one does not
  go live (`CancelsReach`, `OneCurrent`). This also holds where a handler's Close panics, because
  `RemoveCamera` cancels before it closes. `ContractStep` maps each step to a step of the
  contract or a stutter.
* `OneSessionServedHolds`: assumes that no handler's Close panics (`"handler" \notin Panics`, as
  in `Media`). Without it TLC finds the property violated at once: the loop that
  `RemoveCamera` should have waited for runs on. `ServedInv` adds that only the Start in progress
  is the relay's source.

`DiskPressureProofs`, for every volume, mark, batch and set of purge goroutines allowed by
`DiskAssumption`:

* `VolumeTypes`, `AtMostOnePurge`, `PromptShutdown`: the three invariants. `IInv` adds to
  `TypeOK` and `OnePurge` that a purge about to delete has passed its check before the
  shutdown, so nothing has been deleted after the shutdown yet (`Prompt`); with a second
  purge in flight this would fail, which is why `OnePurge` is part of the invariant.
* `PurgesOnlyUnderPressure`: the action property, from `IInv` and `Pressed`: what a purge
  found at its check still holds when it deletes, but for what others freed.

`AccountsProofs` about `AuthThrottle`, for every finite set of addresses and attempts and every cap:

* `ChecksAreBounded`: `ThrSpec => []ThrChecksBounded`. The statement is not inductive: that an
  address stays within its cap needs that each running check holds one address and one name
  (`ThrPairs`) and is reserved in both (`ThrReserved`); that a name stays within cap plus
  addresses needs that an attempt beyond the cap came from an address with no other check
  (`ThrSpread`).

`AccountsProofs` about `Accounts`, for every finite set of names and any number of requests:

* `AdminRemains`: `AcctSpec => []AcctAdminRemains`. The guard inside the statement counts the
  administrators at the instant of the statement; lemma `AnotherAdmin` turns the count into a
  second administrator, who stays. `AcctIInv` adds the types of users and of requests: no request
  writes a role of its own making.
* `SpentOnce`, and `TypesHold` with it, from `AcctSpendInv`: what a request holds between its
  statements has a shape that depends on its place (`AcctShapes`); an id known to a request is
  never used for another session (`AcctIdsBorn`); what was spent is unique, and its session's
  generation has passed it, so the conditional UPDATE does not match again (`AcctGenerations`); one
  poll at a time stands between the claim and the session or the return of the code
  (`AcctOneClaim`).
* `NothingOutlives`, from `AcctFreshInv`. The property is not inductive for sessions: a change of
  the own password spares the session it came from, which another change of the same user may
  have left on an older password meanwhile. `AcctSparedFresh` says that such a session is on the
  current password or that the other request has still to come and does not spare it.
  `AcctGrantsFresh` has the order in which a deletion clears the tables.

`ReleaseStoreProofs`, for any set of publish requests, any uploads and any number of faults:

* `ReleasesStand`: `RelSpec => [](ServedExists /\ NoMixedRelease /\ CacheMatchesDisk)`, whatever fails. The
  part of the invariant that holds with faults (`RelSafe`) says what a request knows at its place
  (`Place`: a commit past the i-th build has moved those before it, and `manifest` is the active release
  before the sidecar goes), that a moved build is next to the manifest (`RelExists`), that a build's
  request has arrived (`RelOwn`) and where cache and disk may differ (`RelCached`).
* `ReleasesServed` and `ReleasesTidy`: `RelSpec => []ServedWhole` and `[]NothingLeaks` where the filename
  tells the variant (`NameTells`: two parts of one name are of one variant, as a CI does that names its
  artifacts by variant; without it both are false, see section 14). `RelWhole` says which builds wait in
  `pending/` at each place of the request that has the mutex (`RelPending`) and which files are next to the
  manifest (`RelServed`). That a list has one build of a variant (`RelUnique`) rests on `OtherVariants`,
  the filter of `AppendBuild`: a recursive function, about which `OtherVariantsFacts` is proved by the
  least number for which it would fail (`LeastNatural`, `UpTo`).

`ControlProofs`. The schedules and the privacy state, for days of any length and any set of requests:

* `ActiveMeansAsked`: for every valid request, `Active` on what `Normalize` stores is what the request
  means. `SchedDistance` is the heart: the distance from the start of a window's day to the present
  is that of today, of yesterday, or more than two days, also around the end of the week;
  `SchedOneWindow` turns it into the two rules of `Active`.
* `ArmedAsAsked`: `SchedSpec => []SchedAsAsked`, as the stored rules are always the normal form of the
  last accepted request (`SchedInvariant`).
* `EngineTold` and `PrivacyKept`: `Spec /\ []Buried => []EngineMatchesMap`, and the same for
  `PrivacyHolds`, for any number of requests and seeds and every bound. `PrivInv` says who holds
  each of the two locks at which point (`LocksInv`), what a handler has yet to write of the camera
  and its pipeline (`HandlerInv`, `PipeInv`), and that before the engine has been told at boot only
  one seed is under way, whose privacy the engine has, or somebody is about to tell it (`BootInv`). The
  heart is `CarryInv` and `MatchInv`: what a goroutine carries to the engine is what the map says, unless the
  schedule has changed it meanwhile and comes after; and with nothing on its way the engine agrees
  with the map. `AskedInv` says that privacy that was obeyed is in the map, or that the update
  which dropped it knows and restores it, and that every reading of the firmware still to be written
  was taken after it or will be refused. Each action has a lemma. The hypothesis `Buried`,
  that no request or seed is between its lock and its end for a camera that is gone, is the boundary of
  what is true: `PrivacyGhost` shows the request that records its privacy after the deletion.
* `PrivateWithoutDeletion`: where no camera is deleted (`"delete" \notin Operations`) both hold of every
  behavior. `EmptyInv` says that only the handler that creates a camera has to do with one that is not there,
  which gives `Buried`.

And the records of a camera, for any cameras, programs, webhook requests and bounds:

* `RecordsAgree`: `RegSpec => []RegAgrees`. The inductive part, `RegCamerasInv`, says what the handler
  that holds `camMutateMu` has established before its next statement (`RegEstablished`), where the
  memory may lag behind the table (`RegMirrored`), and that a probe whose generation is still current
  knows the configuration in force unless the drop is yet to come (`RegKnows`): the generation is
  raised before the cache is cleared, and a probe that has passed its check keeps the clearing waiting.
* `MotionsKept`: `RegSpec => []RegKept`, from `RegTablesInv`: ids of events grow and are never reused,
  so the row that an administrator listed is the row he deletes; and the request that holds
  `recordMu` knows its row as it is in the table, or as deleted (`RegHookKnows`).

`ViewingProofs`:

* `OneTalkerHeard`: `TalkSpec => []TalkSafe`, for any set of talk handlers, any capacity of the audio
  channel and any length of a session. `TalkInv` ties each session's record to the place of its
  handler: when its RTSP client may be open and its close-once done (`TalkOpenWhere`,
  `TalkOnceWhere`), and where the freshest frame is between the two halves of a `Feed` on a full
  channel (`TalkQueueWhere`). `TalkSlotWhere` is the argument for one talker: until the sweep of
  the shutdown the only busy handler is the one that holds the slot. `TalkSweptWhere` is the argument for the
  shutdown: what the sweep found is closed by it or by its own handler.
* `LiveFedWhole`: `LiveSpec => []LiveFeedWhole`, for any set of viewers, any capacity of the queues, any
  length of parts and GOP and any number and length of sessions. What a viewer has and what is on its way
  says nothing of the next part, so `LiveInv` looks ahead: a registered viewer's feed, and the GOP
  buffer that the next one will be given, are continued by the part in the making (`LiveFollows`),
  and every frame still to come, in that part, in the queue or from the camera, begins where they end, or
  later (`LiveBefore`, `LiveAhead`), as long as the clock has not gone back; a stall or a jump ahead
  keeps it so (`LiveGoesOn`, `LiveResyncKeeps`). For a session of which nothing was lost the invariant also says where its first
  keyframe is (`LiveKeyInv`: in the queue, then in the part in the making, then at the head of the GOP) and that
  the shift is chosen from its first sample and suits all others (`LiveShiftInv`), so that no decode time
  is negative and wraps; `LiveTimely` names the sessions of which this is true. The steps that move only one viewer go through `LiveViewersOnly`, the write
  of a sample through the lemmas on what it adds, flushes and fans out (`LiveAddFacts`, `LiveFlushFacts`,
  `LiveFanned`).
* `SegmentsFaithful`: `PathSpec => []PathFaithful`, for any `SegmentDuration`, any positive tolerance, any
  jumps and any number of failures. `PathSound` says that the pending picture can follow what is in the
  segment, and `PathLatest` that it is the camera's last one unless only a keyframe is taken next: after
  a picture that was dropped, in either mode of `videoDecodeTime`, nothing but a keyframe comes
  through (`PathTaken`). For the times there are two arguments. Until the camera's clock jumps, decode time and
  arrival differ by little for everything pending and for the start of the segment (`PathTimely`), audio or not. After a
  jump, without audio, the segment starts at the pending picture or within the tolerance of the
  video's anchor (`PathAlone`); the drift detector keeps the sample within the tolerance of the
  same anchor, hence the factor of two. `PathWrites` tells the three things `write` can do.

`PlaybackProofs`, for any window, threshold, second, sample durations, offsets, gaps, stalls and any
number of segments allowed by `PlayAssumption`. All of it assumes `PlayOneClock`: a segment of another
session does not restart the stream time, as `PlayReconnect` shows what happens when it does. The run
`Server` satisfies all three hypotheses.

* `PlayDecodableHolds`: each picture of a clip can be decoded, and what was recorded in the window is where it
  was recorded. `PlayFaithfulHolds` adds the order of what is shown, for footage whose composition offsets do
  not exceed the durations of its samples (`PlayShort`); without it this part is false (section 14).
* `PlayCoversHolds`: with both placeholders there is video from the start of the window to its end, for footage of
  any kind. `PlayFilledHolds` adds that a fill holds no picture back while the video keeps up, for normal
  footage (`PlayNormal`): no sample longer than the threshold, video and audio of a file no further apart than the
  margin of `catchUp`, no first segment earlier than that. Without it `catchUp` takes late video for missing video.
* The invariant has three layers. `PlayMuxOk` is about the muxer alone: in each track the durations of the
  queued samples lead from the base time to the last decode time (`PlayTimed`), each sample fits the one before it
  (`PlayLinked`), and the first fits what was last written (`PlayFollows`), so that every flush writes what is
  right. `PlayView` is what the muxer leaves the next operation to see, the last decode time and the last
  sample of a track; the lemmas about `writeSample`, `writeFinalDTS`, `writeBlackGap` and `fillTo` say how each
  changes it. The two loops are recursive functions; what their turns keep is proved by the least number for
  which it would fail (`PlayLeast`, `PlayUpTo`). `PlayFillerOk` relates the filler, the view of the video and the
  segment: what is covered ends at the last picture's end or a second after the last placeholder
  (`PlayShows`, `PlayWaits`), the audio is what `other` has seen (`PlayHeard`), and a fill has begun only where
  the video is behind by the margin (`PlayBacked`). `PlayKept` counts what is missing: `PlaySlack` is what the
  segments before this one may have left open, and a closed segment adds at most a threshold and a stall to
  it, which is where `PlayHole` comes from. `PlayNextOk` is what remains of this between two segments.
* Each step has its lemma; a sample is a picture that the filler shows, drops or shows after a fill, a picture
  without filler, audio, or a sample past the window, and the end of a segment is filled or too short to be.

TLC checked the invariants of these modules before they were proved. Every safety property that a passing
run checks is stated by a theorem. Liveness and whatever needs `ENABLED`
(`ReclaimsAll`, `TalkReleased` and the other temporal properties) is outside the prover's reach.

## 16. Not modelled

`PROJECT.json` lists every component. Next in the plan: HLS endpoints, media tokens, the import
of INI files. Out of scope, because they keep no state or do
nothing but I/O: recording paths, byte formats and codec arithmetic, SDP, the mtxi box, the
parsing of the configuration, migrations (run once, sequentially, before anything else), the
vendor API client, HTTP routing and metrics, logging, static files, the web UI.

Of the modelled parts these stay outside: the pruning of empty directories, the ten second bound of
`RemoveCamera` and of the drain of talks, the authorisation of the RTSP relay, general
request limits, `ProbeCodecs`, errors of statements that the code ignores (`handlers_users.go:178`, `404`,
`461-463`) or of reading the schedules (`handlers_schedules.go:72`), an access unit that `FillH264`
refuses (`recorder.go:953`), and `Publish`, `StartActive` and `DiscardActive` of the update store,
which no handler calls.
