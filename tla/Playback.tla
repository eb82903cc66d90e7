------------------------------ MODULE Playback ------------------------------
(***************************************************************************)
(* A clip download, GET /get: the segments that overlap a window are       *)
(* stitched into one fragmented MP4, and what is missing between and in    *)
(* them becomes a placeholder picture.  seekAndMux (playback/server.go),   *)
(* muxParts (segment.go), videoFill (fill.go) and muxerFMP4                *)
(* (muxer_fmp4.go).                                                        *)
(*                                                                         *)
(* Every name here starts with Play or play.  Times are ticks from the     *)
(* start of the window.  The segments are those that SamplePath lets the   *)
(* recorder write: one track of H264 and one of audio, the first picture   *)
(* of a segment a keyframe, the samples of a track back to back.           *)
(***************************************************************************)
EXTENDS Integers, Sequences

CONSTANTS
    PlayNone,       \* no frame, no sample, no filler
    PlayWindow,     \* the duration asked for
    PlayThreshold,  \* videoFillThreshold
    PlaySecond,     \* partDuration, and the time between two placeholders
    PlayLengths,    \* durations of a sample
    PlayOffsets,    \* composition offsets of a picture
    PlayLate,       \* how far a picture may come after the sound of its time in the file
    PlayStalls,     \* how long nothing is recorded between two segments of one session
    PlayGaps,       \* how long nothing is recorded between two segments
    PlayBefore,     \* how long before the window the first segment may start,
    PlayAfter,      \* and how long after its start
    PlayRestarts,   \* how much less the stream time of a later session is than that of the first
    PlaySegments    \* bound on the segments of a clip

ASSUME PlayAssumption ==
    /\ PlayWindow \in Nat /\ PlayThreshold \in Nat /\ PlaySecond \in Nat \ {0}
    /\ PlayLengths \subseteq Nat \ {0} /\ PlayOffsets \subseteq Nat /\ PlayGaps \subseteq Nat
    /\ PlayLate \in Nat /\ PlayStalls \subseteq Nat
    /\ PlayBefore \subseteq Nat /\ PlayAfter \subseteq 0..PlayWindow - 1
    /\ PlayRestarts \subseteq Nat /\ PlaySegments \in Nat \ {0}
    /\ \A set \in {PlayLengths, PlayOffsets, PlayStalls} :
        \E most \in set : \A i \in set : i <= most
    /\ PlayNone \notin Int
    /\ PlayNone \notin [is : {"real", "gap", "hole"}, key : BOOLEAN, offset : Nat, taken : Int,
                       len : Nat, dur : Nat, at : Int]
    /\ PlayNone \notin [end : Int, started : BOOLEAN, last : Int, needKey : BOOLEAN, other : Int]

VARIABLES
    play,   \* seekAndMux: what it does, its fillers, the segment it is in, the end of the last one
    playK   \* the muxer m, with what it has just written, and the videoFill f of the segment

playVars == <<play, playK>>

PlayTracks == {"video", "audio"}

PlayMax(a, b) == IF a > b THEN a ELSE b
PlayMin(a, b) == IF a < b THEN a ELSE b
PlayLast(q) == q[Len(q)]

-----------------------------------------------------------------------------
(* muxerFMP4.  A sample keeps when it was taken and for how long, none for a *)
(* placeholder; dur and at are what the muxer makes of it.                   *)

PlayReal(key, offset, taken, len) ==
    [is |-> "real", key |-> key, offset |-> offset, taken |-> taken, len |-> len, dur |-> 0, at |-> 0]
PlayPlaceholder(is) ==
    [is |-> is, key |-> TRUE, offset |-> 0, taken |-> 0, len |-> 0, dur |-> 0, at |-> 0]

PlayTrack == [first |-> -1, last |-> 0, queue |-> <<>>]

\* The sample before one at dts lasts until it; samples that go back last nothing.
PlayLasting(tr, dts) ==
    IF tr.queue = <<>> THEN <<>>
    ELSE [tr.queue EXCEPT ![Len(tr.queue)].dur = PlayMax(dts - tr.last, 0)]

\* A sample of a part is where the one before it ends, the first at the base time.
PlayTimes(first, q) ==
    LET at[i \in 1..Len(q)] == IF i = 1 THEN first ELSE at[i - 1] + q[i - 1].dur IN at
PlayPlaced(tr, q) == [i \in 1..Len(q) |-> [q[i] EXCEPT !.at = PlayTimes(tr.first, q)[i]]]

\* innerFlush: all but the last sample of each track, whose duration is not known
\* yet.  (The faulty form does not move the base time.)
FaultyPlayKeeps(tr) ==
    IF tr.first < 0 \/ Len(tr.queue) < 2 THEN tr
    ELSE [tr EXCEPT !.queue = <<PlayLast(tr.queue)>>]
PlayKeeps(tr) ==
    IF tr.first < 0 \/ Len(tr.queue) < 2 THEN tr
    ELSE [tr EXCEPT !.queue = <<PlayLast(tr.queue)>>, !.first = tr.last]

PlayFlush(m) ==
    LET goes(tr) == IF tr.first < 0 THEN <<>> ELSE SubSeq(tr.queue, 1, Len(tr.queue) - 1)
    IN [tracks |-> [t \in PlayTracks |-> PlayKeeps(m.tracks[t])],
        wrote |-> [t \in PlayTracks |-> m.wrote[t] \o PlayPlaced(m.tracks[t], goes(m.tracks[t]))]]

\* innerFlush at the end: all of them.
PlayFlushAll(m) ==
    LET goes(tr) == IF tr.first < 0 THEN <<>> ELSE tr.queue
    IN [tracks |-> m.tracks,
        wrote |-> [t \in PlayTracks |-> m.wrote[t] \o PlayPlaced(m.tracks[t], goes(m.tracks[t]))]]

\* writeSample.  What lies before the window is kept from the last keyframe on, so
\* that the first picture in it can be decoded.  (The faulty form drops it.)
FaultyPlayQueue(tr, dts, s) ==
    IF dts < 0 \/ tr.first < 0 THEN <<>> ELSE PlayLasting(tr, dts)
PlayQueue(tr, dts, s) ==
    IF dts < 0 \/ tr.first < 0
    THEN IF s.key THEN <<>> ELSE tr.queue
    ELSE PlayLasting(tr, dts)

PlaySample(m, t, dts, s) ==
    LET tr == m.tracks[t]
        queue == Append(PlayQueue(tr, dts, s), s)
        first == IF tr.first < 0 THEN dts ELSE tr.first
        put(new) == [m EXCEPT !.tracks[t] = new]
    IN IF dts < 0 THEN put([tr EXCEPT !.queue = queue])
       ELSE IF dts - first >= PlaySecond
       THEN PlayFlush(put([first |-> first, last |-> dts, queue |-> queue]))
       ELSE put([first |-> first, last |-> dts, queue |-> queue])

\* writeFinalDTS
PlayFinal(m, t, dts) ==
    IF m.tracks[t].first < 0 THEN m
    ELSE [m EXCEPT !.tracks[t].queue = PlayLasting(m.tracks[t], dts)]

\* How often a loop from one time to another runs, a second at a time.
PlayTicks(from, to) == (PlayMax(to - from, 0) + PlaySecond - 1) \div PlaySecond

\* writeBlackGap, its loop turn after turn.
PlayBlackLoop(m, from, ticks) ==
    LET turn[i \in 0..ticks] ==
            IF i = 0 THEN m
            ELSE PlaySample(turn[i - 1], "video", from + (i - 1) * PlaySecond, PlayPlaceholder("gap"))
    IN turn

PlayBlack(m, from, to) ==
    LET ticks == PlayTicks(from, to)
    IN IF to <= from THEN m ELSE PlayFinal(PlayBlackLoop(m, from, ticks)[ticks], "video", to)

-----------------------------------------------------------------------------
(* videoFill.  Its operations take and return k, the muxer and the filler. *)

PlayFiller(start) == [end |-> start, started |-> FALSE, last |-> 0, needKey |-> FALSE, other |-> 0]

\* fillTo, its loop turn after turn.
PlayPut(k, dts) ==
    IF k.f.started /\ dts <= k.f.last THEN k
    ELSE [m |-> PlaySample(k.m, "video", dts, PlayPlaceholder("hole")),
          f |-> [k.f EXCEPT !.started = TRUE, !.last = dts, !.needKey = TRUE]]

PlayFillLoop(k, ticks) ==
    LET turn[i \in 0..ticks] ==
            IF i = 0 THEN k ELSE PlayPut(turn[i - 1], k.f.end + (i - 1) * PlaySecond)
    IN turn

PlayFillTo(k, target) ==
    LET ticks == PlayTicks(k.f.end, target)
    IN [PlayFillLoop(k, ticks)[ticks] EXCEPT !.f.end = PlayMax(@, k.f.end + ticks * PlaySecond)]

\* video: the picture is dropped when a fill covers its place, or when it would be
\* decoded against a placeholder.
PlayShown(f, dts, s) ==
    PlayMax(f.end, dts + s.offset + IF s.len > PlayThreshold THEN 0 ELSE s.len)

PlayPicture(k, dts, s) ==
    LET filled == IF dts - k.f.end > PlayThreshold THEN PlayFillTo(k, dts) ELSE k
    IN IF k.f = PlayNone THEN [k EXCEPT !.m = PlaySample(@, "video", dts, s)]
       ELSE IF k.f.started /\ dts <= k.f.last THEN k
       ELSE IF filled.f.needKey /\ ~s.key THEN filled
       ELSE [m |-> PlaySample(filled.m, "video", dts, s),
             f |-> [filled.f EXCEPT !.end = PlayShown(filled.f, dts, s), !.started = TRUE,
                                    !.last = dts, !.needKey = FALSE]]

\* other
PlaySound(k, dts, s) ==
    [m |-> PlaySample(k.m, "audio", dts, s),
     f |-> IF k.f = PlayNone THEN k.f ELSE [k.f EXCEPT !.other = PlayMax(@, dts + s.len)]]

\* catchUp, before every fragment
PlayCatchUp(k) ==
    IF k.f # PlayNone /\ k.f.other - k.f.end > 2 * PlayThreshold
    THEN PlayFillTo(k, k.f.other - PlayThreshold)
    ELSE k

\* finish, after the last one.  (The faulty form leaves the end of the segment bare.)
FaultyPlayFinish(k) == k
PlayFinish(k) ==
    LET target == PlayMin(k.f.other, PlayWindow)
        filled == PlayFillTo(k, target)
    IN IF k.f # PlayNone /\ target - k.f.end > PlayThreshold
       THEN [filled EXCEPT !.m = PlayFinal(@, "video", target)]
       ELSE k

-----------------------------------------------------------------------------
(* seekAndMux.                                                             *)

\* wrote is what the last step has written, after the sample written before it.
PlayFresh(k) == [k EXCEPT !.m.wrote = [t \in PlayTracks |-> <<PlayLast(@[t])>>]]

\* A segment: its start on the wall clock, the start of its samples in the clip,
\* whether its session is the one of the first segment, and how far its tracks
\* are; broke is breakAtNextMdat.
PlaySegment(start, dts, first) ==
    [start |-> start, dts |-> dts, first |-> first, video |-> PlayNone, audio |-> PlayNone, broke |-> FALSE]

PlayAt(f, start) == IF f THEN PlayFiller(start) ELSE PlayNone

\* The first segment starts before the window or in it, and a hole before it is
\* filled.  Whether there is a picture for the gaps, and one for the spans without
\* video, is resolved first.
PlayInit ==
    \E start \in {-b : b \in PlayBefore} \cup PlayAfter, gaps, holes \in BOOLEAN :
        LET m == [tracks |-> [t \in PlayTracks |-> PlayTrack],
                  wrote |-> [t \in PlayTracks |-> <<PlayNone>>]]
        IN /\ start < PlayWindow
           /\ play = [phase |-> "segment", gaps |-> gaps, holes |-> holes, first |-> start,
                      seg |-> PlaySegment(start, start, TRUE), end |-> start, count |-> 1]
           /\ playK = [m |-> IF gaps THEN PlayBlack(m, 0, PlayMin(start, PlayWindow)) ELSE m,
                       f |-> PlayAt(holes, start)]

\* No download.
PlayOff ==
    /\ play = [phase |-> "done", gaps |-> FALSE, holes |-> FALSE, first |-> 0,
               seg |-> PlaySegment(0, 0, TRUE), end |-> 0, count |-> 0]
    /\ playK = [m |-> [tracks |-> [t \in PlayTracks |-> PlayTrack],
                       wrote |-> [t \in PlayTracks |-> <<PlayNone>>]],
                f |-> PlayNone]

\* How far a track of the segment is, and the segment.
PlayReach(seg, t) == IF seg[t] = PlayNone THEN 0 ELSE seg[t]
PlayElapsed(seg) == PlayMax(PlayReach(seg, "video"), PlayReach(seg, "audio"))

\* muxParts, one fragment of one sample: it comes where the last one of its track
\* ended, a track that starts late where the other one is.  Past the window it is not
\* written, and ends the segment.
PlayStarts(seg, t) == IF seg[t] = PlayNone THEN {0, PlayElapsed(seg)} ELSE {seg[t]}

PlayTrun(k, t, dts, s) ==
    LET caught == PlayCatchUp(k)
        put == IF t = "video" THEN PlayPicture(caught, dts, s) ELSE PlaySound(caught, dts, s)
    IN IF dts < PlayWindow THEN [put EXCEPT !.m = PlayFinal(@, t, dts + s.len)]
       ELSE [caught EXCEPT !.m = PlayFinal(@, t, dts)]

PlayFragment(t) ==
    LET seg == play.seg
    IN /\ play.phase = "segment" /\ ~seg.broke
       /\ \E at \in PlayStarts(seg, t), len \in PlayLengths, key \in BOOLEAN, offset \in PlayOffsets :
           LET past == seg.dts + at >= PlayWindow
           IN /\ t = "video" /\ seg.video = PlayNone => key
              /\ PlayElapsed(seg) - at <= PlayLate
              /\ t = "audio" => key /\ offset = 0
              /\ playK' = PlayTrun(PlayFresh(playK), t, seg.dts + at,
                                   PlayReal(key, offset, seg.start + at, len))
              /\ play' = [play EXCEPT !.seg[t] = IF past THEN at ELSE at + len, !.seg.broke = past]

PlayVideo == PlayFragment("video")
PlayAudio == PlayFragment("audio")

\* The end of a segment's file, or of the window.  Range only takes segments that
\* overlap the window.
PlayEnds(seg) == seg.start + PlayElapsed(seg)

PlayClose ==
    /\ play.phase = "segment"
    /\ PlayElapsed(play.seg) > 0
    /\ PlayEnds(play.seg) > 0
    /\ play' = [play EXCEPT !.phase = "next", !.end = PlayEnds(play.seg)]
    /\ playK' = PlayFinish(PlayFresh(playK))

\* processSegment: the next one is of the same session and follows the last one, or
\* there is a hole before it, which is filled or ends the clip.
PlayJoins(start, shift) ==
    [play EXCEPT !.phase = "segment", !.count = @ + 1,
                 !.seg = PlaySegment(start, start + shift, @.first)]

PlayConcat ==
    /\ play.phase = "next" /\ play.count < PlaySegments
    /\ \E stall \in PlayStalls, back \in IF play.seg.first THEN {0} ELSE PlayRestarts :
        LET start == play.end + stall
            k == PlayFresh(playK)
        IN /\ start < PlayWindow
           /\ play' = PlayJoins(start, -back)
           /\ playK' = [m |-> k.m, f |-> PlayAt(play.holes, start - back)]

PlayGap ==
    /\ play.phase = "next" /\ play.count < PlaySegments
    /\ \E gap \in PlayGaps, same \in BOOLEAN :
        LET start == play.end + gap
            k == PlayFresh(playK)
        IN /\ start < PlayWindow
           /\ IF play.gaps
              THEN /\ play' = [PlayJoins(start, 0) EXCEPT !.seg.first = @ /\ same]
                   /\ playK' = [m |-> PlayBlack(k.m, play.end, start),
                                f |-> PlayAt(play.holes, start)]
              ELSE play' = [play EXCEPT !.phase = "stop"] /\ playK' = k

\* The tracks of the next segment are others.
PlayDiffers ==
    /\ play.phase = "next" /\ play.count < PlaySegments /\ play.end < PlayWindow
    /\ play' = [play EXCEPT !.phase = "stop"]
    /\ playK' = PlayFresh(playK)

\* The file of the next segment is gone.
PlayFails ==
    /\ play.phase = "next" /\ play.count < PlaySegments /\ play.end < PlayWindow
    /\ play' = [play EXCEPT !.phase = "failed"]
    /\ playK' = PlayFresh(playK)

\* What follows the last segment is filled, and what the muxer holds is written.
PlayTail ==
    /\ play.phase \in {"next", "stop"}
    /\ play' = [play EXCEPT !.phase = "done"]
    /\ LET k == PlayFresh(playK)
           m == IF play.gaps THEN PlayBlack(k.m, play.end, PlayWindow) ELSE k.m
       IN playK' = [m |-> PlayFlushAll(m), f |-> k.f]

PlayNext == PlayVideo \/ PlayAudio \/ PlayClose \/ PlayConcat \/ PlayGap \/ PlayDiffers \/ PlayFails \/ PlayTail

PlaySpec == PlayInit /\ [][PlayNext]_playVars
-----------------------------------------------------------------------------

(* What was written, sample after sample.                                  *)

PlayWrote(t) == playK.m.wrote[t]
PlayPairs(t) == {<<PlayWrote(t)[i - 1], PlayWrote(t)[i]>> : i \in 2..Len(PlayWrote(t))}
PlayTaken(s) == s # PlayNone /\ s.is = "real"

\* Every picture of the clip can be decoded: it is a keyframe, or the picture before
\* it in the clip is the one the camera took before it.
PlayDecodable ==
    \A pair \in PlayPairs("video") :
        PlayTaken(pair[2]) /\ ~pair[2].key =>
            PlayTaken(pair[1]) /\ pair[1].taken + pair[1].len = pair[2].taken

\* What was recorded in the window is where it was recorded.
PlayTimesTrue ==
    \A t \in PlayTracks : \A pair \in PlayPairs(t) :
        PlayTaken(pair[2]) /\ pair[2].taken >= 0 => pair[2].at = pair[2].taken

\* The samples of a track follow one another, and a placeholder for missing video
\* is not shown before a picture that comes before it in the file.
PlayInOrder ==
    /\ \A t \in PlayTracks : \A pair \in PlayPairs(t) :
        pair[1] # PlayNone => pair[1].at + pair[1].dur <= pair[2].at
    /\ \A pair \in PlayPairs("video") :
        PlayTaken(pair[1]) /\ pair[2].is = "hole" => pair[1].at + pair[1].offset <= pair[2].at

\* A clip is faithful: whatever is missing in the recordings and between them, what
\* it holds can be decoded, at the times it was recorded and in order.
PlayFaithful == PlayDecodable /\ PlayTimesTrue /\ PlayInOrder

\* "a fill only ever lands at a segment's leading or trailing audio-only span, never
\* inside a GOP of normal footage": in the window no picture is held back for a keyframe
\* while the video of the segment keeps up with its audio.
PlayFillsHoles ==
    /\ play.phase = "segment" /\ ~play.seg.broke
    /\ play.seg.video # PlayNone /\ play.seg.dts + play.seg.video > 0
    =>
        \/ playK.f = PlayNone \/ ~playK.f.needKey
        \/ PlayReach(play.seg, "audio") - play.seg.video > PlayThreshold

\* The longest hole that may be left: a span of each segment that is not worth a
\* placeholder, the stalls between them, a composition offset or what a placeholder
\* stands for, a sample cut off by the window.
PlayMost(set) == CHOOSE n \in set : \A i \in set : i <= n
PlayHole ==
    PlaySegments * PlayThreshold + (PlaySegments - 1) * PlayMost(PlayStalls)
        + PlayMax(PlayMost(PlayOffsets), PlaySecond) + PlayMost(PlayLengths) - 1

\* "the clip always spans the full requested window and it is obvious there was no
\* recording": there is video from its start to its end, and no picture stands still
\* for longer than such a hole.
PlayCovers ==
    play.gaps /\ play.holes =>
        /\ \A pair \in PlayPairs("video") :
            /\ pair[1] = PlayNone => pair[2].at <= PlayHole
            /\ pair[2].dur <= PlayHole + PlayMost(PlayLengths)
        /\ play.phase = "done" =>
            LET last == PlayLast(PlayWrote("video"))
            IN (IF last = PlayNone THEN 0 ELSE last.at + last.dur) >= PlayWindow - PlayHole

\* Placeholders are where there is no video, and only there.
PlayFilled == PlayFillsHoles /\ PlayCovers
=============================================================================
