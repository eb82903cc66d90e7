----------------------------- MODULE SamplePath -----------------------------
(***************************************************************************)
(* How the samples of one RTSP session become segments: videoDecodeTime,   *)
(* wireAudio and audioOnly (recorder/recorder.go), recTrack.write and its  *)
(* helpers (recorder/track.go).                                            *)
(*                                                                         *)
(* SegmentStore takes the life of a segment as given; this module is about *)
(* what is in it: a segment must be decodable from its first picture, and  *)
(* the place of a picture in it must tell when the picture was taken.      *)
(*                                                                         *)
(* Every name here starts with Path or path.  At each tick of the clock at *)
(* most one sample arrives.  A camera stamps its samples with a clock of   *)
(* its own that may jump; composition offsets are left out.                *)
(***************************************************************************)
EXTENDS Integers, FiniteSets

CONSTANTS
    PathNone,    \* no sample, no segment, no anchor
    PathGap,     \* maxSampleGap and ntpDriftTolerance, which are equal
    PathBack,    \* maxReorderBack and maxBasetime, which are equal
    PathLength,  \* SegmentDuration
    PathJumps,   \* how far the camera's clock may jump, once, either way
    PathEnd,     \* bound of the clock
    PathFaults   \* bound on failed writes and extractions

ASSUME PathAssumption ==
    /\ PathGap \in Nat \ {0} /\ PathBack \in Nat /\ PathLength \in Nat /\ PathEnd \in Nat
    /\ PathJumps \subseteq Nat /\ PathFaults \in Nat
    /\ PathNone \notin [dts : Int, ntp : Int, key : BOOLEAN, n : Nat]
    /\ PathNone \notin [start : Int, ntp : Int, video : BOOLEAN, end : Int, last : Nat]

VARIABLES
    pathNow,    \* the wall clock, since PLAY
    pathCamera, \* the camera: its clock, the pictures it has sent, whether it has audio
    path,       \* the Recorder and its tracks
    pathWrote   \* history: the last sample written

pathVars == <<pathNow, pathCamera, path, pathWrote>>

PathTracks == {"video", "audio"}

\* next, anchor and lastDuration are per track; stamp is lastPTS while there is one;
\* extractor says whether there is one; pictured is lastVideoNano.
PathFresh(reordering) ==
    [next |-> [t \in PathTracks |-> PathNone], anchor |-> [t \in PathTracks |-> PathNone],
     lastDuration |-> [t \in PathTracks |-> 0], seg |-> PathNone, resync |-> FALSE,
     hasVideo |-> FALSE, started |-> FALSE, reordering |-> reordering, extractor |-> FALSE,
     stamp |-> PathNone, pictured |-> 0]

PathInit ==
    /\ pathNow = 0
    /\ pathCamera = [off |-> 0, jumped |-> FALSE, sent |-> 0, heard |-> FALSE, faults |-> 0]
    /\ \E reordering \in BOOLEAN : path = PathFresh(reordering)
    /\ pathWrote = PathNone

\* No session: nothing ever moves.
PathOff ==
    /\ pathNow = PathEnd
    /\ pathCamera = [off |-> 0, jumped |-> TRUE, sent |-> 0, heard |-> FALSE, faults |-> PathFaults]
    /\ path = PathFresh(FALSE)
    /\ pathWrote = PathNone

-----------------------------------------------------------------------------
(* Segments.                                                               *)

PathIsVideo(t) == t = "video"
PathOther(t) == IF PathIsVideo(t) THEN "audio" ELSE "video"

\* A segment: where it starts in stream time and on the wall clock, which is its
\* name, and the video in it; last is the number of its last picture.
PathSegment(start) == [start |-> start.dts, ntp |-> start.ntp, video |-> FALSE, end |-> start.dts,
                       last |-> 0]

\* segmentStart: the other track's pending sample, if it is a little older.
PathStart(p, t, s) ==
    LET o == p.next[PathOther(t)]
    IN IF o # PathNone /\ o.dts < s.dts /\ s.dts - o.dts <= PathBack THEN o ELSE s

\* nextSegmentStartingPos: the oldest pending sample that is not much older than
\* the newest one.
PathOldest(p) ==
    LET pending == {p.next[t] : t \in PathTracks} \ {PathNone}
        near == {s \in pending : \A o \in pending : o.dts - s.dts <= PathBack}
    IN CHOOSE s \in near : \A o \in near : s.dts <= o.dts

\* Closing a segment that has to be followed by a keyframe.
PathCut(p) == [p EXCEPT !.seg = PathNone, !.resync = TRUE]

\* videoStalled
PathStalled(seg, dts) == dts - (IF seg.video THEN seg.end ELSE seg.start) > PathGap

\* audioOnly
PathAudioOnly(p) == pathNow - (IF p.started THEN p.pictured ELSE 0) > PathGap

-----------------------------------------------------------------------------
(* recTrack.write, once a sample has left the lookahead.                   *)

PathDrifted(anchor, s) ==
    LET drift == (s.ntp - anchor.ntp) - (s.dts - anchor.dts)
    IN drift > PathGap \/ -drift > PathGap

\* May the sample open a segment?  After a cut only a keyframe may, or audio while
\* the video is down.  (The faulty form forgets the cut.)
FaultyPathOpens(p, t, s) == TRUE
PathOpens(p, t, s) ==
    \/ ~p.resync \/ ~p.hasVideo
    \/ IF PathIsVideo(t) THEN s.key ELSE PathAudioOnly(p)

\* The segment that the sample goes to, none when it is dropped: it comes too
\* late, or it is the first picture of the segment and not a keyframe.  Video that
\* comes back after a stall gets a segment of its own.
PathTarget(p, t, s) ==
    IF p.seg = PathNone
    THEN IF PathOpens(p, t, s) THEN PathSegment(PathStart(p, t, s)) ELSE PathNone
    ELSE IF s.dts < p.seg.start THEN PathNone
    ELSE IF PathIsVideo(t) /\ ~p.seg.video
         THEN IF ~s.key THEN PathNone
              ELSE IF s.dts - p.seg.start > PathGap THEN PathSegment(PathStart(p, t, s))
              ELSE p.seg
    ELSE p.seg

PathMax(a, b) == IF a > b THEN a ELSE b
PathAdd(seg, t, s, duration) ==
    IF PathIsVideo(t)
    THEN [seg EXCEPT !.video = TRUE, !.last = s.n, !.end = PathMax(@, s.dts + duration)]
    ELSE seg

\* Rotation, on the next video keyframe, or on audio while the video is down.
PathRotates(p, t, s) ==
    /\ ~p.hasVideo \/ PathIsVideo(t) \/ PathStalled(p.seg, s.dts)
    /\ p.next[t].key
    /\ p.next[t].dts - p.seg.start >= PathLength

\* What follows a sample that was written.
PathAfter(p, t, s, gap) ==
    IF gap /\ (~p.hasVideo \/ PathIsVideo(t)) THEN PathCut(p)
    ELSE IF PathRotates(p, t, s) THEN [p EXCEPT !.seg = PathSegment(PathOldest(p))]
    ELSE p

\* What is remembered of a sample that was written to a segment.
PathNote(seg, t, s) == [video |-> PathIsVideo(t), key |-> s.key, n |-> s.n, after |-> seg.last,
                        drift |-> (seg.ntp + (s.dts - seg.start)) - s.ntp]

\* A sample with its duration; fails says that the write fails, which cuts.
PathStore(p, t, s, duration, gap, fails) ==
    LET seg == PathTarget(p, t, s)
        opened == [p EXCEPT !.resync = @ /\ ~(p.seg = PathNone /\ p.hasVideo),
                            !.seg = PathAdd(seg, t, s, duration)]
    IN IF seg = PathNone THEN path' = p /\ UNCHANGED pathWrote
       ELSE /\ path' = IF fails THEN PathCut(p) ELSE PathAfter(opened, t, s, gap)
            /\ pathWrote' = IF fails THEN pathWrote ELSE PathNote(seg, t, s)

\* The duration of a sample is the time to the next one, but 0 when that one has
\* drifted, and the usual one when a stall follows.
PathUsual(p, t) == IF p.lastDuration[t] > 0 THEN p.lastDuration[t] ELSE 1
PathSpan(p, t, s, next) ==
    IF PathDrifted(p.anchor[t], next) THEN 0 ELSE next.dts - s.dts

\* write: the new sample waits for its successor, and its predecessor is stored,
\* unless it has drifted from the wall clock.  (A faulty form anchors the clock
\* anew without a cut.)
FaultyPathResync(p) == p
PathResync(p) == PathCut(p)

PathWrite(q, t, new, fails) ==
    LET s == q.next[t]
        waiting == [q EXCEPT !.next[t] = new, !.hasVideo = @ \/ PathIsVideo(t)]
        anchored == IF waiting.anchor[t] = PathNone THEN [waiting EXCEPT !.anchor[t] = s] ELSE waiting
        next == IF new.dts < s.dts THEN [new EXCEPT !.dts = s.dts] ELSE new
        span == PathSpan(anchored, t, s, next)
        gap == span > PathGap
        duration == IF gap THEN PathUsual(anchored, t) ELSE span
    IN IF s = PathNone THEN path' = waiting /\ UNCHANGED pathWrote
       ELSE IF PathDrifted(anchored.anchor[t], s)
       THEN path' = [PathResync(anchored) EXCEPT !.anchor[t] = s] /\ UNCHANGED pathWrote
       ELSE PathStore([anchored EXCEPT !.next[t] = next, !.lastDuration[t] = duration],
                      t, s, duration, gap, fails)

-----------------------------------------------------------------------------
(* What arrives.                                                           *)

PathClock == pathNow < PathEnd /\ pathNow' = pathNow + 1
PathAt == pathNow + pathCamera.off
PathFaulty(fault) == [pathCamera EXCEPT !.faults = IF fault THEN @ + 1 ELSE @]

\* A coded picture: videoDecodeTime gives the Recorder it leaves, and whether the
\* picture has a decode time or is dropped.
PathKept(p) == [kept |-> TRUE, p |-> p]
PathDropped(p) == [kept |-> FALSE, p |-> p]

\* Decode time from presentation time, until the stream shows reordering.  Further
\* back is a clock that was set back: the sample held for lookahead goes.
PathSetBack(p) == [PathCut(p) EXCEPT !.next["video"] = PathNone, !.anchor["video"] = PathNone]

PathFromPTS(p, pts, key) ==
    LET back == IF p.stamp = PathNone THEN 0 ELSE p.stamp - pts
        on(q) == PathKept([q EXCEPT !.stamp = pts, !.started = TRUE])
    IN IF ~p.started /\ ~key THEN PathDropped(p)
       ELSE IF back > PathBack
       THEN IF key THEN on(PathSetBack(p))
            ELSE PathDropped([PathSetBack(p) EXCEPT !.stamp = PathNone, !.started = FALSE])
       ELSE IF back > 0
       THEN PathDropped([p EXCEPT !.reordering = TRUE, !.extractor = FALSE, !.started = TRUE])
       ELSE on(p)

\* Decode time from the extractor, which starts on a keyframe.  (The faulty form
\* keeps an extractor that failed.)
FaultyPathLost(p) == p
PathLost(p) == [p EXCEPT !.extractor = FALSE]

PathFromExtractor(p, key, fails) ==
    IF ~p.extractor /\ ~key THEN PathDropped(p)
    ELSE LET q == [p EXCEPT !.extractor = TRUE, !.started = TRUE]
         IN IF fails THEN PathDropped(PathLost(q)) ELSE PathKept(q)

\* early: a picture that is shown before the one decoded before it.
PathPicture(key, early, extracts, fails) ==
    LET seen == [path EXCEPT !.pictured = pathNow]
        n == pathCamera.sent + 1
        sample == [dts |-> PathAt, ntp |-> pathNow, key |-> key, n |-> n]
        r == IF path.reordering THEN PathFromExtractor(seen, key, ~extracts)
             ELSE PathFromPTS(seen, PathAt - early, key)
        dts == IF path.reordering THEN PathAt ELSE PathAt - early
    IN /\ pathCamera' = [PathFaulty(fails \/ ~extracts) EXCEPT !.sent = n]
       /\ IF r.kept THEN PathWrite(r.p, "video", [sample EXCEPT !.dts = dts], fails)
          ELSE path' = r.p /\ UNCHANGED pathWrote

PathVideoArrives ==
    /\ PathClock
    /\ \E key, extracts, fails \in BOOLEAN, early \in {0, 2} :
        /\ (fails \/ ~extracts) => pathCamera.faults < PathFaults
        /\ ~extracts => path.reordering /\ ~fails
        /\ early > 0 => ~key /\ ~path.reordering
        /\ PathPicture(key, early, extracts, fails)

\* Audio waits for the video to start, or for the video to be missing for long;
\* every audio sample is one to start with.
PathAudioArrives ==
    /\ PathClock
    /\ \E fails \in BOOLEAN :
        /\ fails => pathCamera.faults < PathFaults
        /\ pathCamera' = [PathFaulty(fails) EXCEPT !.heard = TRUE]
        /\ IF path.started \/ PathAudioOnly(path)
           THEN PathWrite(path, "audio", [dts |-> PathAt, ntp |-> pathNow, key |-> TRUE, n |-> 0],
                          fails)
           ELSE UNCHANGED <<path, pathWrote>>

\* Nothing arrives.
PathSilence ==
    /\ PathClock
    /\ UNCHANGED <<pathCamera, path, pathWrote>>

\* The camera's clock jumps: it is set by NTP, or packets were lost.
PathJump ==
    /\ ~pathCamera.jumped
    /\ \E d \in PathJumps \cup {-d : d \in PathJumps} :
        pathCamera' = [pathCamera EXCEPT !.off = @ + d, !.jumped = TRUE]
    /\ UNCHANGED <<pathNow, path, pathWrote>>

PathNext == PathVideoArrives \/ PathAudioArrives \/ PathSilence \/ PathJump

PathSpec == PathInit /\ [][PathNext]_pathVars

-----------------------------------------------------------------------------
\* A segment can be decoded from its start to its end: each picture in it is a
\* keyframe or comes right after the previous picture of the camera, whatever was
\* cut, dropped or failed.
PathDecodable ==
    pathWrote # PathNone /\ pathWrote.video =>
        pathWrote.key \/ pathWrote.after = pathWrote.n - 1

\* The place of a sample in its segment tells when it arrived, to within twice the
\* tolerance of the drift detector, whatever the camera's clock does.  A camera with
\* audio is excepted once its clock has jumped: each track is watched on its own,
\* and one segment may then hold samples of both time bases.
PathTimesTrue ==
    pathWrote # PathNone /\ ~(pathCamera.heard /\ pathCamera.jumped) =>
        pathWrote.drift <= 2 * PathGap /\ -pathWrote.drift <= 2 * PathGap

\* What is on disk plays from the start of each segment, each sample at its time.
PathFaithful == PathDecodable /\ PathTimesTrue
=============================================================================
