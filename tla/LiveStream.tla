----------------------------- MODULE LiveStream -----------------------------
(***************************************************************************)
(* The live stream of one camera for browsers: live/live.go, its wiring in *)
(* engine.go (startCamera, RemoveCamera) and the feed of finalized samples *)
(* that the recorder gives it.                                             *)
(*                                                                         *)
(* The recorder submits samples without ever waiting, a marshaler goroutine*)
(* makes parts of them, and every viewer is an HTTP handler with a queue   *)
(* of parts.  b.mu makes each of SetTracks, Stop, writeSample, and the two *)
(* ends of HandleStream one step.                                          *)
(*                                                                         *)
(* Every name here starts with Live (or is a variable), so that a module   *)
(* can extend this one beside others.  All tracks share one clock, a video *)
(* frame lasts one tick or none, and a part is as many bytes as it has     *)
(* samples.                                                                *)
(* Audio that browsers cannot play never reaches a part and is left out.   *)
(***************************************************************************)
EXTENDS Integers, Sequences, FiniteSets

CONSTANTS
    LiveViewers,    \* browsers
    LiveQueue,      \* submitBuffer
    LiveBehind,     \* subChanBuffer
    LivePartLength, \* partDuration, in ticks
    LiveMaxGOP,     \* maxGOPBytes, in samples
    LiveWrap,       \* 2^64, where a negative decode time wraps
    LiveSessions,   \* RTSP sessions of the camera
    LiveSamples,    \* samples of all the sessions
    LiveJump        \* how far the camera's clock jumps, once in a session

ASSUME LiveAssumption ==
    /\ {LiveQueue, LiveBehind, LivePartLength, LiveMaxGOP} \subseteq Nat \ {0}
    /\ {LiveSessions, LiveSamples, LiveJump, LiveWrap} \subseteq Nat
    /\ LiveWrap > LiveSamples + LiveJump

VARIABLES
    source,     \* the camera's session, as the recorder sees it
    submitCh,   \* finalized samples on their way to the marshaler
    bc,         \* the Broadcaster
    subs,       \* Broadcaster.subs
    viewer      \* the HandleStream of each browser and its channel

liveVars == <<source, submitCh, bc, subs, viewer>>

LiveKinds == {"key", "delta", "audio"}
LiveVideo(s) == s.kind # "audio"

\* A video frame of (nearly) no duration that is not a keyframe.
LiveShort(s) == s.kind = "delta" /\ s.span = 0

\* What resetPart leaves, and a stopped broadcaster.
LiveNoPart == [of |-> {}, size |-> 0, base |-> 0, span |-> 0, key |-> FALSE, frames |-> 0]
LiveStopped == [running |-> FALSE, init |-> 0, gop |-> <<>>, bytes |-> 0, dropped |-> FALSE,
                seq |-> 0, part |-> LiveNoPart, shift |-> 0, haveShift |-> FALSE,
                closed |-> FALSE]
LiveNoViewer == [pc |-> "idle", init |-> 0, dry |-> FALSE, last |-> <<>>, todo |-> <<>>,
                 ch |-> <<>>, open |-> FALSE]
\* Two history fields of the session, which no guard reads.  whole: none of its
\* samples was lost before the marshaler, and none of an earlier one was still queued
\* when it began.  timely: its clock has not gone back, and no audio overtook the
\* keyframe that starts it, unless that one's time is not below zero.
LiveNoSource == [n |-> 0, up |-> FALSE, sent |-> 0, started |-> FALSE, clock |-> 0, lead |-> 0,
                 jumped |-> FALSE, whole |-> TRUE, timely |-> TRUE]

LiveInit ==
    /\ source = LiveNoSource /\ submitCh = <<>> /\ bc = LiveStopped /\ subs = {}
    /\ viewer = [v \in LiveViewers |-> LiveNoViewer]

\* A camera without MSE: nothing ever moves.
LiveOff ==
    /\ source = LiveNoSource /\ submitCh = <<>> /\ subs = {}
    /\ bc = [LiveStopped EXCEPT !.closed = TRUE]
    /\ viewer = [v \in LiveViewers |-> LiveNoViewer]

-----------------------------------------------------------------------------
(* The source: recTrack.write.  clock is the presentation time of the      *)
(* video frame that is held for lookahead; a camera with B-frames decodes  *)
(* lead ticks before that, and so starts below zero.                       *)

\* The channels of those still registered are closed.  (The faulty form forgets
\* to.)
FaultyLiveCutOff(vs) == viewer
LiveCutOff(vs) == [v \in LiveViewers |-> IF v \in vs THEN [viewer[v] EXCEPT !.open = FALSE]
                                          ELSE viewer[v]]

\* SetTracks resets the time shift, then either fails (no video track it can
\* broadcast), leaving the rest alone, or starts over.  (The faulty form forgets to
\* reset it.)
FaultyLiveShiftKept == [LiveStopped EXCEPT !.haveShift = bc.haveShift]
LiveFresh == LiveStopped

LiveConnect ==
    /\ ~source.up /\ ~bc.closed /\ source.n < LiveSessions
    /\ \E lead \in {0, 1} :
        source' = [LiveNoSource EXCEPT !.n = source.n + 1, !.up = TRUE, !.lead = lead,
                                       !.sent = source.sent, !.whole = (submitCh = <<>>)]
    /\ \/ /\ bc' = [LiveFresh EXCEPT !.running = TRUE, !.init = source.n + 1]
          /\ viewer' = LiveCutOff(subs) /\ subs' = {}
       \/ /\ bc' = [bc EXCEPT !.shift = 0, !.haveShift = FALSE]
          /\ UNCHANGED <<viewer, subs>>
    /\ UNCHANGED submitCh

\* recTrack.write hands a finalized sample over when the video has started; the
\* keyframe that starts it may still be held for lookahead while audio passes.
\* A video frame lasts until the next one, and that one is never before it: the
\* decode time of a frame that would be is set to its predecessor's, which then
\* has no duration, be it a keyframe.
\* Submit drops the sample when the queue is full.
LiveFits == Len(submitCh) < LiveQueue

LiveSubmit ==
    /\ source.up /\ source.sent < LiveSamples
    /\ \E kind \in LiveKinds, span \in {0, 1} :
        /\ ~source.started => kind \in {"key", "audio"}
        /\ kind = "audio" => span = 0
        /\ LET dts == IF kind = "audio" THEN source.clock ELSE source.clock - source.lead
               sample == [of |-> source.n, kind |-> kind, dts |-> dts, span |-> span]
           IN /\ submitCh' = IF LiveFits THEN Append(submitCh, sample) ELSE submitCh
              /\ source' = [source EXCEPT
                    !.sent = @ + 1, !.whole = @ /\ LiveFits, !.clock = @ + span,
                    !.started = @ \/ kind # "audio",
                    !.timely = @ /\ (source.started \/ source.lead = 0 \/ kind # "audio")]
    /\ UNCHANGED <<bc, subs, viewer>>

\* The camera's clock jumps, or stood still in a stall: the samples that drift from
\* the wall clock are dropped, as is the one held when the clock went back, and the
\* next one handed over has its time on the new clock.  Nothing tells the
\* broadcaster.  (A jump that no sample follows changes nothing.)
LiveResync ==
    /\ source.up /\ source.started /\ ~source.jumped /\ source.sent < LiveSamples
    /\ \E clock \in {source.clock - LiveJump, source.clock + LiveJump} :
        source' = [source EXCEPT !.clock = clock, !.jumped = TRUE,
                                 !.timely = @ /\ clock >= source.clock]
    /\ UNCHANGED <<submitCh, bc, subs, viewer>>

\* Start returns: OnSourceLost stops the stream and drops its viewers.
LiveDark == [bc EXCEPT !.running = FALSE, !.init = 0, !.gop = <<>>, !.bytes = 0, !.dropped = FALSE]

LiveLost ==
    /\ source.up
    /\ source' = [source EXCEPT !.up = FALSE, !.started = FALSE, !.clock = 0, !.lead = 0,
                                !.jumped = FALSE]
    /\ bc' = LiveDark
    /\ viewer' = LiveCutOff(subs) /\ subs' = {}
    /\ UNCHANGED submitCh

\* RemoveCamera, once the retry loop has ended.
LiveRemove ==
    /\ ~source.up /\ ~bc.closed
    /\ bc' = [LiveDark EXCEPT !.closed = TRUE]
    /\ viewer' = LiveCutOff(subs) /\ subs' = {}
    /\ UNCHANGED <<source, submitCh>>

-----------------------------------------------------------------------------
(* The marshaler: writeSample and flushPartLocked.                         *)

\* The shift is chosen from the first sample after SetTracks; a later one that
\* would still be negative is clamped, but only when there is a shift.
LiveShift(b, dts) == IF b.haveShift THEN b.shift ELSE IF dts < 0 THEN -dts ELSE 0
LiveShifted(shift, dts) == IF shift > 0 /\ dts + shift < 0 THEN 0 ELSE dts + shift

\* Appends a sample to the part in the making, whose base is that of its video.
LiveAdd(b, s) ==
    LET shift == LiveShift(b, s.dts)
        p == b.part
        starts == LiveVideo(s) /\ p.frames = 0
    IN [b EXCEPT !.shift = shift, !.haveShift = TRUE,
                 !.part = [of |-> p.of \cup {s.of},
                           size |-> p.size + 1,
                           base |-> IF starts THEN LiveShifted(shift, s.dts) ELSE p.base,
                           span |-> p.span + s.span,
                           key |-> p.key \/ (starts /\ s.kind = "key"),
                           frames |-> p.frames + IF LiveVideo(s) THEN 1 ELSE 0]]

\* The part on the wire; tfdt is unsigned.
LivePartOf(b) == [seq |-> b.seq, key |-> b.part.key, of |-> b.part.of,
                  base |-> b.part.base % LiveWrap, span |-> b.part.span]

\* The GOP buffer a new viewer starts from: reset on a keyframe part, and empty
\* from the part that outgrows it until the next keyframe.
LiveKeep(b, p, size) ==
    IF p.key THEN [b EXCEPT !.gop = <<p>>, !.bytes = size, !.dropped = FALSE]
    ELSE IF b.dropped THEN b
    ELSE IF b.bytes + size > LiveMaxGOP
         THEN [b EXCEPT !.gop = <<>>, !.bytes = 0, !.dropped = TRUE]
    ELSE [b EXCEPT !.gop = Append(@, p), !.bytes = @ + size]

LiveFlush(b) ==
    [LiveKeep(b, LivePartOf(b), b.part.size) EXCEPT !.seq = @ + 1, !.part = LiveNoPart]

\* Fan-out: a viewer whose channel is full is cut off, not skipped.
FaultyLiveStays(slow) == subs
LiveStays(slow) == subs \ slow

LiveFanOut(parts) ==
    LET room(v) == LiveBehind - Len(viewer[v].ch)
        slow == {v \in subs : Len(parts) > room(v)}
        cut == LiveCutOff(subs \ LiveStays(slow))
    IN /\ subs' = LiveStays(slow)
       /\ viewer' = [v \in LiveViewers |->
            IF v \in slow THEN [cut[v] EXCEPT !.ch = @ \o SubSeq(parts, 1, room(v))]
            ELSE IF v \in subs THEN [viewer[v] EXCEPT !.ch = @ \o parts]
            ELSE viewer[v]]

\* Samples of a stopped stream and short frames are skipped (a keyframe is none;
\* the faulty form does not exempt it).  A keyframe first flushes what comes before
\* it, and a part that is long enough is flushed.
FaultyLiveSkips(s) == ~bc.running \/ s.kind = "key" \/ LiveShort(s)
LiveSkips(s) == ~bc.running \/ LiveShort(s)
LiveBoundary(s) == s.kind = "key" /\ bc.part.frames > 0

LiveWriteSample ==
    /\ ~bc.closed /\ submitCh # <<>>
    /\ submitCh' = Tail(submitCh)
    /\ LET s == Head(submitCh)
           before == IF LiveBoundary(s) THEN LiveFlush(bc) ELSE bc
           with == LiveAdd(before, s)
           full == LiveVideo(s) /\ with.part.span >= LivePartLength
       IN IF LiveSkips(s) THEN UNCHANGED <<bc, subs, viewer>>
          ELSE /\ bc' = IF full THEN LiveFlush(with) ELSE with
               /\ LiveFanOut((IF LiveBoundary(s) THEN <<LivePartOf(bc)>> ELSE <<>>)
                             \o (IF full THEN <<LivePartOf(with)>> ELSE <<>>))
    /\ UNCHANGED source

-----------------------------------------------------------------------------
(* HandleStream: registers and takes the init and the GOP under one lock,  *)
(* then writes at the browser's pace.                                      *)

LiveOpen(v) ==
    /\ viewer[v].pc = "idle" /\ bc.running /\ bc.init # 0
    /\ subs' = subs \cup {v}
    /\ viewer' = [viewer EXCEPT ![v] = [pc |-> "prelude", init |-> bc.init, dry |-> bc.dropped,
                                        last |-> <<>>, todo |-> bc.gop, ch |-> <<>>, open |-> TRUE]]
    /\ UNCHANGED <<source, submitCh, bc>>

\* The init and the GOP are written first, then what arrives on the channel.
LiveWritePrelude(v) ==
    /\ viewer[v].pc = "prelude"
    /\ viewer' = IF viewer[v].todo = <<>> THEN [viewer EXCEPT ![v].pc = "stream"]
                 ELSE [viewer EXCEPT ![v].last = <<Head(viewer[v].todo)>>, ![v].todo = Tail(@)]
    /\ UNCHANGED <<source, submitCh, bc, subs>>

LiveReceive(v) ==
    /\ viewer[v].pc = "stream" /\ viewer[v].ch # <<>>
    /\ viewer' = [viewer EXCEPT ![v].last = <<Head(viewer[v].ch)>>, ![v].ch = Tail(@)]
    /\ UNCHANGED <<source, submitCh, bc, subs>>

\* The browser is gone, or did not take a write in time.
LiveLeave(v) ==
    /\ viewer[v].pc \in {"prelude", "stream"}
    /\ viewer' = [viewer EXCEPT ![v].pc = "leaving"]
    /\ UNCHANGED <<source, submitCh, bc, subs>>

\* The deferred end: its channel is closed only if it is still registered.
LiveUnregister(v) ==
    /\ viewer[v].pc = "leaving"
    /\ subs' = subs \ {v}
    /\ viewer' = [viewer EXCEPT ![v] = LiveNoViewer]
    /\ UNCHANGED <<source, submitCh, bc>>

\* What a handler does by itself: it ends when its channel is closed and drained,
\* and the write deadline ends a write that the browser does not take.
LiveEnds(v) ==
    /\ viewer[v].pc = "stream" /\ viewer[v].ch = <<>> /\ ~viewer[v].open
    /\ LiveLeave(v)
LiveHandler(v) == LiveWritePrelude(v) \/ LiveReceive(v) \/ LiveEnds(v) \/ LiveUnregister(v)

LiveNext ==
    \/ LiveConnect \/ LiveSubmit \/ LiveResync \/ LiveLost \/ LiveRemove \/ LiveWriteSample
    \/ \E v \in LiveViewers : LiveOpen(v) \/ LiveLeave(v) \/ LiveHandler(v)

LiveSpec == LiveInit /\ [][LiveNext]_liveVars

\* The marshaler and the handlers are goroutines that never wait on each other.
LiveFairness ==
    /\ WF_liveVars(LiveWriteSample)
    /\ \A v \in LiveViewers : WF_liveVars(LiveHandler(v))

LiveFairSpec == LiveSpec /\ LiveFairness

-----------------------------------------------------------------------------
\* What a browser was last given and what is on its way to it.
LiveFeed(v) == viewer[v].last \o viewer[v].todo \o viewer[v].ch

\* The broadcaster's queue never exceeds its buffer, although the recorder never
\* waits; and what it holds has the shape the code gives it.
LiveTypeOK ==
    /\ Len(submitCh) <= LiveQueue
    /\ bc.running \in BOOLEAN /\ bc.init \in 0..source.n
    /\ bc.part.span \in 0..(LivePartLength - 1)
    /\ bc.bytes <= LiveMaxGOP \/ Len(bc.gop) = 1
    /\ subs \subseteq LiveViewers
    /\ \A v \in LiveViewers :
        /\ viewer[v].pc \in {"idle", "prelude", "stream", "leaving"}
        /\ Len(viewer[v].ch) <= LiveBehind

\* A registered viewer has an open channel, so that the marshaler never sends on
\* a closed one nor closes it twice, and one that is no longer registered finds
\* its channel closed: nobody waits for parts that cannot come.
LiveRegistered ==
    \A v \in LiveViewers : v \in subs <=> viewer[v].open

\* A viewer never misses a part between two that it gets, and gets none twice:
\* the GOP it starts from and its channel join without a seam, and a slow viewer
\* is cut off rather than skipped.
LiveNoGap ==
    \A v \in LiveViewers : \A i \in 1..Len(LiveFeed(v)) - 1 :
        LiveFeed(v)[i + 1].seq = LiveFeed(v)[i].seq + 1

\* As long as no sample of the session was lost before the marshaler, and none of
\* an earlier one was still queued when it began: every part a viewer gets
\* belongs to the session of the init it was given...
LiveIntact(v) == viewer[v].init = source.n /\ source.whole
LiveOneSession ==
    \A v \in LiveViewers : viewer[v].pc # "idle" /\ LiveIntact(v) =>
        \A i \in DOMAIN LiveFeed(v) : LiveFeed(v)[i].of = {viewer[v].init}

\* ... its first part starts with a keyframe, unless it came while the GOP buffer
\* had been dropped for its size...
LiveStartsOnKey ==
    \A v \in LiveViewers :
        /\ viewer[v].pc = "prelude" /\ LiveIntact(v) /\ ~viewer[v].dry
        /\ viewer[v].last = <<>> /\ LiveFeed(v) # <<>>
        => LiveFeed(v)[1].key

\* ... and no part overlaps the next, whatever stood still, was skipped or jumped
\* ahead, also for a camera whose times start below zero: a part begins where the
\* video of the one before ends, or later.  Excepted are a session whose clock went
\* back, which nothing corrects, and audio that overtook the keyframe that starts
\* the session, which leaves times below zero.
LiveTimesGrow ==
    \A v \in LiveViewers :
        LiveIntact(v) /\ source.timely =>
            \A i \in 1..Len(LiveFeed(v)) - 1 :
                LiveFeed(v)[i].base + LiveFeed(v)[i].span <= LiveFeed(v)[i + 1].base

\* All that a viewer is promised of what it gets, on a channel that is open as long as
\* it is registered.
LiveFeedWhole == LiveRegistered /\ LiveNoGap /\ LiveOneSession /\ LiveStartsOnKey /\ LiveTimesGrow

\* A viewer whose init is not the current one is let go, to reconnect.
LiveReleased ==
    \A v \in LiveViewers :
        (viewer[v].pc # "idle" /\ viewer[v].init # bc.init) ~> (viewer[v].pc = "idle")
=============================================================================
