--------------------------- MODULE PlaybackProofs ---------------------------
(***************************************************************************)
(* Proofs about Playback: whatever is missing in the recordings and        *)
(* between them, for any window, threshold, second, sample durations and   *)
(* offsets, gaps and number of segments, what a clip holds can be decoded, *)
(* at the times it was recorded and in order, and there is video from its  *)
(* start to its end.                                                       *)
(*                                                                         *)
(* A muxer is right (PlayMuxOk) when what it wrote and what it holds fit   *)
(* together.  What an operation needs to know of it is the view of its     *)
(* last samples (PlayView); PlayFillerOk relates that to the filler and to *)
(* the segment, PlayNextOk to the end of the segment before the next one.  *)
(***************************************************************************)
EXTENDS Playback, WellFoundedInduction, TLAPS

-----------------------------------------------------------------------------
(* Types.                                                                  *)

PlaySamples ==
    [is : {"real", "gap", "hole"}, key : BOOLEAN, offset : Nat, taken : Int, len : Nat, dur : Nat, at : Int]
PlayTrackSet == [first : Int, last : Nat, queue : Seq(PlaySamples)]
PlayWritten == Seq(PlaySamples \cup {PlayNone})
PlayMuxers == [tracks : [PlayTracks -> PlayTrackSet], wrote : [PlayTracks -> PlayWritten]]
PlayFillers == [end : Int, started : BOOLEAN, last : Int, needKey : BOOLEAN, other : Int]

-----------------------------------------------------------------------------
(* What is constant in a run.  The sessions of the segments share one      *)
(* clock; no picture is shown later than it lasts; footage is normal when  *)
(* no sample lasts longer than videoFillThreshold and no picture comes     *)
(* later in the file than the margin of catchUp.                           *)

PlayOneClock == PlayRestarts \subseteq {0}
PlayShort == \A o \in PlayOffsets, l \in PlayLengths : o <= l
PlayNormal ==
    /\ PlayLengths \subseteq 1..PlayThreshold
    /\ PlayLate <= 2 * PlayThreshold /\ PlayBefore \subseteq 0..2 * PlayThreshold

PlayMostLength == PlayMost(PlayLengths)
PlayMostOffset == PlayMost(PlayOffsets)
PlayMostStall == PlayMost(PlayStalls)

\* The longest that a picture stands still.
PlayLong == PlayHole + PlayMostLength

-----------------------------------------------------------------------------
(* The muxer.  Of two samples written one after the other, of two in the   *)
(* queue, of a track whose last written sample is w, and of all tracks; c  *)
(* says whether what is missing is filled.                                 *)

PlayPairOk(t, c, a, b) ==
    /\ a # PlayNone => a.at + a.dur <= b.at
    /\ b.is = "real" /\ b.taken >= 0 => b.at = b.taken
    /\ t = "video" =>
        /\ b.is = "real" /\ ~b.key => PlayTaken(a) /\ a.taken + a.len = b.taken
        /\ PlayShort => (PlayTaken(a) /\ b.is = "hole" => a.at + a.offset <= b.at)
        /\ c => (a = PlayNone => b.at <= PlayHole) /\ b.dur <= PlayLong

PlayLinkOk(t, a, b) ==
    t = "video" =>
        /\ b.is = "real" /\ ~b.key => PlayTaken(a) /\ a.taken + a.len = b.taken
        /\ PlayShort => (PlayTaken(a) /\ b.is = "hole" => a.offset <= a.dur)

PlayWroteOk(t, c, wr) ==
    /\ Len(wr) > 0
    /\ \A i \in 2..Len(wr) : wr[i] # PlayNone /\ PlayPairOk(t, c, wr[i - 1], wr[i])

PlayTimed(tr) ==
    /\ tr.first >= 0 =>
        tr.queue # <<>> /\ PlayTimes(tr.first, tr.queue)[Len(tr.queue)] = tr.last
    /\ \A i \in 1..Len(tr.queue) :
        tr.queue[i].is = "real" /\ tr.queue[i].taken >= 0 =>
            tr.first >= 0 /\ PlayTimes(tr.first, tr.queue)[i] = tr.queue[i].taken
    /\ tr.first >= 0 /\ PlayLast(tr.queue).is = "real" => PlayLast(tr.queue).taken = tr.last
    /\ tr.first < 0 => \A i \in 1..Len(tr.queue) : tr.queue[i].dur = 0

PlayLinked(t, tr, w) ==
    /\ tr.queue # <<>> => PlayLinkOk(t, w, tr.queue[1])
    /\ \A i \in 2..Len(tr.queue) : PlayLinkOk(t, tr.queue[i - 1], tr.queue[i])

PlayFollows(tr, w) ==
    /\ tr.first < 0 => w = PlayNone
    /\ w # PlayNone => w.at + w.dur = tr.first

PlayCovered(t, c, tr, w) ==
    t = "video" /\ c =>
        /\ \A i \in 1..Len(tr.queue) - 1 : tr.queue[i].dur <= PlayLong
        /\ tr.first >= 0 /\ w = PlayNone => tr.first <= PlayHole

PlayTrackOk(t, c, tr, w) ==
    PlayTimed(tr) /\ PlayLinked(t, tr, w) /\ PlayFollows(tr, w) /\ PlayCovered(t, c, tr, w)

PlayMuxOk(c, m) ==
    \A t \in PlayTracks :
        PlayWroteOk(t, c, m.wrote[t]) /\ PlayTrackOk(t, c, m.tracks[t], PlayLast(m.wrote[t]))

\* What an operation leaves of a track for the next one to see.
PlayView(tr) ==
    [in |-> tr.first >= 0, last |-> tr.last,
     tail |-> IF tr.queue = <<>> THEN PlayNone ELSE PlayLast(tr.queue)]
-----------------------------------------------------------------------------
(* Induction.  A set of natural numbers has a least element, so that what  *)
(* fails for some number fails for a first one.                            *)

\* A set of natural numbers has a least element.
LEMMA PlayLeast ==
    ASSUME NEW T \in SUBSET Nat, T # {} PROVE \E n \in T : \A m \in T : n <= m
<1> DEFINE Less == {p \in Nat \X Nat : p[1] < p[2]}
<1>1. IsWellFoundedOn(Less, Nat)
  BY NatLessThanWellFounded DEF OpToRel
<1>2. PICK n \in T : \A m \in T : <<m, n>> \notin Less
  BY <1>1, WFMin
<1>3. \A m \in T : m \in Nat /\ n \in Nat /\ ~(m < n)
  BY <1>2
<1> QED BY <1>3

\* A property is given by the set of the numbers up to m that have it.
LEMMA PlayUpTo ==
    ASSUME NEW m \in Nat, NEW T, 0 \in T, \A n \in 1..m : n - 1 \in T => n \in T
    PROVE  m \in T
<1> SUFFICES ASSUME m \notin T PROVE FALSE
  OBVIOUS
<1>1. PICK B : B = {n \in 0..m : n \notin T}
  OBVIOUS
<1>2. B \in SUBSET Nat /\ B # {}
  BY <1>1
<1>3. PICK n \in B : \A k \in B : n <= k
  BY <1>2, PlayLeast
<1>4. n \in 1..m /\ n - 1 \in 0..m /\ ~(n <= n - 1)
  BY <1>1, <1>3
<1> QED BY <1>1, <1>3, <1>4
-----------------------------------------------------------------------------
(* The times of the samples of a part: the recursive definition has a      *)
(* value, which is the sum of the durations before each.                   *)

TimesNext(first, q, g, i) == IF i = 1 THEN first ELSE g[i - 1] + q[i - 1].dur
TimesTo(first, q, g, n) == g = [i \in 1..n |-> TimesNext(first, q, g, i)]

\* The recursive function PlayTimes exists.
LEMMA TimesExist ==
    ASSUME NEW first, NEW q, NEW m \in Nat PROVE \E g : TimesTo(first, q, g, m)
<1>1. PICK T : T = {n \in 0..m : \E g : TimesTo(first, q, g, n)}
  OBVIOUS
<1>2. 0 \in T
  <2>1. PICK g : g = [i \in 1..0 |-> first]
    OBVIOUS
  <2>2. TimesTo(first, q, g, 0)
    BY <2>1 DEF TimesTo
  <2> QED BY <1>1, <2>2
<1>3. ASSUME NEW n \in 1..m, n - 1 \in T PROVE n \in T
  <2>1. PICK g : TimesTo(first, q, g, n - 1)
    BY <1>1, <1>3
  <2>2. PICK h : h = [i \in 1..n |-> IF i = n THEN TimesNext(first, q, g, n) ELSE g[i]]
    OBVIOUS
  <2>3. ASSUME NEW i \in 1..n PROVE h[i] = TimesNext(first, q, h, i)
    <3>1. CASE i = n
      <4>1. h[n] = TimesNext(first, q, g, n) /\ (n # 1 => h[n - 1] = g[n - 1])
        BY <2>2
      <4> QED BY <3>1, <4>1 DEF TimesNext
    <3>2. CASE i # n
      <4>1. i \in 1..(n - 1) /\ h[i] = g[i] /\ (i # 1 => h[i - 1] = g[i - 1])
        BY <2>2, <3>2
      <4>2. g[i] = TimesNext(first, q, g, i)
        BY <2>1, <4>1 DEF TimesTo
      <4> QED BY <4>1, <4>2 DEF TimesNext
    <3> QED BY <3>1, <3>2
  <2>4. h = [i \in 1..n |-> h[i]]
    BY <2>2
  <2>5. TimesTo(first, q, h, n)
    BY <2>3, <2>4 DEF TimesTo
  <2> QED BY <1>1, <2>5
<1>4. m \in T
  BY <1>2, <1>3, PlayUpTo
<1> QED BY <1>1, <1>4

\* The sample times of a part: the first at the base time, each where the one before it ends.
LEMMA TimesFacts ==
    ASSUME NEW first \in Int, NEW q \in Seq(PlaySamples), NEW at, at = PlayTimes(first, q)
    PROVE  /\ Len(q) > 0 => at[1] = first
           /\ \A i \in 2..Len(q) : at[i] = at[i - 1] + q[i - 1].dur
           /\ \A i \in 1..Len(q) : at[i] \in Int
<1>1. PICK n \in Nat : n = Len(q)
  OBVIOUS
<1>2. PICK g : g = CHOOSE h : TimesTo(first, q, h, n)
  OBVIOUS
<1>3. TimesTo(first, q, g, n)
  BY <1>2, TimesExist
<1>4. at = g
  BY <1>1, <1>2 DEF PlayTimes, TimesTo, TimesNext
<1>5. \A i \in 1..n : g[i] = TimesNext(first, q, g, i)
  BY <1>3 DEF TimesTo
<1>6. \A i \in 2..n : g[i] = g[i - 1] + q[i - 1].dur
  BY <1>5 DEF TimesNext
<1>7. n > 0 => g[1] = first
  BY <1>5 DEF TimesNext
<1>8. \A i \in 1..n : g[i] \in Int
  <2>1. PICK T : T = {i \in 0..n : i > 0 => g[i] \in Int}
    OBVIOUS
  <2>2. \A i \in 1..n : q[i].dur \in Nat
    <3>1. \A i \in 1..n : q[i] \in PlaySamples
      BY <1>1
    <3> QED BY <3>1 DEF PlaySamples
  <2>3. ASSUME NEW j \in 1..n, j - 1 \in T PROVE j \in T
    BY <1>6, <1>7, <2>1, <2>2, <2>3
  <2>4. ASSUME NEW i \in 1..n PROVE i \in T
    <3>1. i \in Nat /\ \A j \in 1..i : j - 1 \in T => j \in T
      BY <2>3
    <3>2. 0 \in T
      BY <2>1
    <3> QED BY <3>1, <3>2, PlayUpTo
  <2> QED BY <2>1, <2>4
<1> QED BY <1>1, <1>4, <1>6, <1>7, <1>8

\* The times up to a sample do not depend on what comes from it on.
LEMMA TimesAgree ==
    ASSUME NEW first \in Int, NEW p \in Seq(PlaySamples), NEW q \in Seq(PlaySamples),
           NEW n \in Nat, n <= Len(p), n <= Len(q), \A i \in 1..n - 1 : p[i].dur = q[i].dur
    PROVE  \A i \in 1..n : PlayTimes(first, p)[i] = PlayTimes(first, q)[i]
<1>1. PICK f : f = PlayTimes(first, p)
  OBVIOUS
<1>2. PICK g : g = PlayTimes(first, q)
  OBVIOUS
<1>3. /\ Len(p) > 0 => f[1] = first
      /\ \A i \in 2..Len(p) : f[i] = f[i - 1] + p[i - 1].dur
  BY <1>1, TimesFacts
<1>4. /\ Len(q) > 0 => g[1] = first
      /\ \A i \in 2..Len(q) : g[i] = g[i - 1] + q[i - 1].dur
  BY <1>2, TimesFacts
<1>5. PICK T : T = {i \in 0..n : i > 0 => f[i] = g[i]}
  OBVIOUS
<1>6. ASSUME NEW j \in 1..n, j - 1 \in T PROVE j \in T
  <2>1. j = 1 \/ (j \in 2..Len(p) /\ j \in 2..Len(q) /\ j - 1 \in 1..n - 1)
    OBVIOUS
  <2>2. CASE j = 1
    BY <1>3, <1>4, <1>5, <2>2
  <2>3. CASE j # 1
    <3>1. f[j] = f[j - 1] + p[j - 1].dur /\ g[j] = g[j - 1] + q[j - 1].dur /\ p[j - 1].dur = q[j - 1].dur
      BY <1>3, <1>4, <2>1, <2>3
    <3>2. f[j - 1] = g[j - 1]
      BY <1>5, <1>6, <2>1, <2>3
    <3> QED BY <1>5, <3>1, <3>2
  <2> QED BY <2>2, <2>3
<1>7. ASSUME NEW i \in 1..n PROVE i \in T
  <2>1. i \in Nat /\ 0 \in T /\ \A j \in 1..i : j - 1 \in T => j \in T
    BY <1>5, <1>6
  <2> QED BY <2>1, PlayUpTo
<1> QED BY <1>1, <1>2, <1>5, <1>7
-----------------------------------------------------------------------------
(* A flush.                                                                *)

\* PlayNone is no sample.
LEMMA NoSample == PlayNone \notin PlaySamples
BY PlayAssumption DEF PlaySamples

\* The largest sample duration, composition offset and stall.
LEMMA MostFacts ==
    /\ PlayMostLength \in PlayLengths /\ PlayMostOffset \in PlayOffsets /\ PlayMostStall \in PlayStalls
    /\ PlayMostLength \in Nat /\ PlayMostOffset \in Nat /\ PlayMostStall \in Nat /\ PlayMostLength > 0
    /\ \A i \in PlayLengths : i \in Nat /\ i > 0 /\ i <= PlayMostLength
    /\ \A i \in PlayOffsets : i \in Nat /\ i <= PlayMostOffset
    /\ \A i \in PlayStalls : i \in Nat /\ i <= PlayMostStall
<1>1. ASSUME NEW set \in {PlayLengths, PlayOffsets, PlayStalls}
      PROVE PlayMost(set) \in set /\ \A i \in set : i <= PlayMost(set)
  BY PlayAssumption DEF PlayMost
<1>2. PlayLengths \subseteq Nat \ {0} /\ PlayOffsets \subseteq Nat /\ PlayStalls \subseteq Nat
  BY PlayAssumption
<1>3. /\ PlayMostLength \in PlayLengths /\ \A i \in PlayLengths : i <= PlayMostLength
      /\ PlayMostOffset \in PlayOffsets /\ \A i \in PlayOffsets : i <= PlayMostOffset
      /\ PlayMostStall \in PlayStalls /\ \A i \in PlayStalls : i <= PlayMostStall
  BY <1>1 DEF PlayMostLength, PlayMostOffset, PlayMostStall
<1> QED BY <1>2, <1>3

\* The longest hole, written with a product of its own.
LEMMA HoleNat ==
    /\ PlayHole \in Nat /\ PlayLong \in Nat /\ PlayLong = PlayHole + PlayMostLength
    /\ PlayHole = PlaySegments * PlayThreshold + (PlaySegments - 1) * PlayMostStall
                    + PlayMax(PlayMostOffset, PlaySecond) + PlayMostLength - 1
<1>1. PlayThreshold \in Nat /\ PlaySecond \in Nat /\ PlaySegments \in Nat /\ PlaySegments - 1 \in Nat
  BY PlayAssumption
<1>2. PICK a \in Nat : a = PlaySegments * PlayThreshold
  BY <1>1
<1>3. PICK b \in Nat : b = (PlaySegments - 1) * PlayMostStall
  BY <1>1, MostFacts
<1>4. PICK d \in Nat : d = PlayMax(PlayMostOffset, PlaySecond)
  BY <1>1, MostFacts DEF PlayMax
<1>5. PlayHole = a + b + d + PlayMostLength - 1
  BY <1>2, <1>3, <1>4 DEF PlayHole, PlayMostLength, PlayMostOffset, PlayMostStall
<1>6. PlayHole \in Nat
  BY <1>2, <1>3, <1>4, <1>5, MostFacts
<1> QED BY <1>2, <1>3, <1>4, <1>5, <1>6, MostFacts DEF PlayLong

\* The front of a sequence.
LEMMA FrontFacts ==
    ASSUME NEW S, NEW q \in Seq(S), NEW n \in 0..Len(q), NEW s, s = SubSeq(q, 1, n)
    PROVE  s \in Seq(S) /\ Len(s) = n /\ \A i \in 1..n : s[i] = q[i]
<1>1. n \in Nat /\ Len(q) \in Nat /\ n <= Len(q)
  OBVIOUS
<1>2. \A i \in 1..n : q[i] \in S
  OBVIOUS
<1> QED BY <1>1, <1>2

\* The concatenation of two sequences.
LEMMA JoinFacts ==
    ASSUME NEW S, NEW a \in Seq(S), NEW b \in Seq(S)
    PROVE  /\ a \o b \in Seq(S) /\ Len(a \o b) = Len(a) + Len(b)
           /\ \A i \in 1..Len(a) : (a \o b)[i] = a[i]
           /\ \A i \in 1..Len(b) : (a \o b)[Len(a) + i] = b[i]
           /\ b = <<>> => a \o b = a
<1>1. b = <<>> => a \o b = a
  OBVIOUS
<1> QED BY <1>1

\* What is written with a part after it.
LEMMA WroteJoin ==
    ASSUME NEW wr \in PlayWritten, NEW p \in Seq(PlaySamples)
    PROVE  /\ wr \o p \in PlayWritten /\ Len(wr \o p) = Len(wr) + Len(p)
           /\ \A i \in 1..Len(wr) : (wr \o p)[i] = wr[i]
           /\ \A i \in 1..Len(p) : (wr \o p)[Len(wr) + i] = p[i]
           /\ Len(p) = 0 => wr \o p = wr
<1>1. PICK S : S = PlaySamples \cup {PlayNone}
  OBVIOUS
<1>2. wr \in Seq(S) /\ p \in Seq(S) /\ PlayWritten = Seq(S) /\ (Len(p) = 0 => p = <<>>)
  BY <1>1 DEF PlayWritten
<1> QED BY <1>2, JoinFacts

\* The samples that a flush places keep everything but their times.
LEMMA PlacedFacts ==
    ASSUME NEW tr \in PlayTrackSet, NEW q \in Seq(PlaySamples), NEW p, p = PlayPlaced(tr, q)
    PROVE  /\ p \in Seq(PlaySamples) /\ Len(p) = Len(q)
           /\ \A i \in 1..Len(q) :
                /\ p[i] = [q[i] EXCEPT !.at = PlayTimes(tr.first, q)[i]]
                /\ p[i].at = PlayTimes(tr.first, q)[i] /\ p[i].is = q[i].is
                /\ p[i].key = q[i].key /\ p[i].offset = q[i].offset /\ p[i].taken = q[i].taken
                /\ p[i].len = q[i].len /\ p[i].dur = q[i].dur
<1>1. PICK n \in Nat : n = Len(q)
  OBVIOUS
<1>2. PICK at : at = PlayTimes(tr.first, q)
  OBVIOUS
<1>3. tr.first \in Int
  BY DEF PlayTrackSet
<1>4. \A i \in 1..n : at[i] \in Int
  BY <1>1, <1>2, <1>3, TimesFacts
<1>5. p = [i \in 1..n |-> [q[i] EXCEPT !.at = at[i]]]
  BY <1>1, <1>2 DEF PlayPlaced
<1>6. ASSUME NEW i \in 1..n
      PROVE  /\ p[i] = [q[i] EXCEPT !.at = at[i]] /\ p[i] \in PlaySamples
             /\ p[i].at = at[i] /\ p[i].is = q[i].is
             /\ p[i].key = q[i].key /\ p[i].offset = q[i].offset /\ p[i].taken = q[i].taken
             /\ p[i].len = q[i].len /\ p[i].dur = q[i].dur
  <2>1. q[i] \in PlaySamples
    BY <1>1
  <2>2. p[i] = [q[i] EXCEPT !.at = at[i]]
    BY <1>5
  <2> QED BY <1>4, <2>1, <2>2 DEF PlaySamples
<1>7. p \in Seq(PlaySamples) /\ Len(p) = n
  BY <1>5, <1>6
<1> QED BY <1>1, <1>2, <1>6, <1>7

\* A part is the samples of the queue up to the n-th.
LEMMA PartFacts ==
    ASSUME NEW tr \in PlayTrackSet, NEW n \in 0..Len(tr.queue), NEW p,
           p = PlayPlaced(tr, SubSeq(tr.queue, 1, n))
    PROVE  /\ p \in Seq(PlaySamples) /\ Len(p) = n
           /\ \A i \in 1..n :
                /\ p[i] = [tr.queue[i] EXCEPT !.at = PlayTimes(tr.first, tr.queue)[i]]
                /\ p[i].at = PlayTimes(tr.first, tr.queue)[i] /\ p[i].is = tr.queue[i].is
                /\ p[i].key = tr.queue[i].key /\ p[i].offset = tr.queue[i].offset
                /\ p[i].taken = tr.queue[i].taken
                /\ p[i].len = tr.queue[i].len /\ p[i].dur = tr.queue[i].dur
<1>1. tr.first \in Int /\ tr.queue \in Seq(PlaySamples)
  BY DEF PlayTrackSet
<1>2. PICK q \in Seq(PlaySamples) : q = tr.queue
  BY <1>1
<1>3. n \in 0..Len(q) /\ n \in Nat
  BY <1>2
<1>4. PICK s : s = SubSeq(q, 1, n)
  OBVIOUS
<1>5. s \in Seq(PlaySamples) /\ Len(s) = n /\ \A i \in 1..n : s[i] = q[i]
  BY <1>3, <1>4, FrontFacts
<1>6. \A i \in 1..n : PlayTimes(tr.first, s)[i] = PlayTimes(tr.first, q)[i]
  <2>1. n \in Nat /\ n <= Len(s) /\ n <= Len(q) /\ \A i \in 1..n - 1 : s[i].dur = q[i].dur
    BY <1>3, <1>5
  <2> QED BY <1>1, <1>5, <2>1, TimesAgree
<1>7. p = PlayPlaced(tr, s)
  BY <1>2, <1>4
<1>8. /\ p \in Seq(PlaySamples) /\ Len(p) = Len(s)
      /\ \A i \in 1..Len(s) :
                /\ p[i] = [s[i] EXCEPT !.at = PlayTimes(tr.first, s)[i]]
                /\ p[i].at = PlayTimes(tr.first, s)[i] /\ p[i].is = s[i].is
                /\ p[i].key = s[i].key /\ p[i].offset = s[i].offset /\ p[i].taken = s[i].taken
                /\ p[i].len = s[i].len /\ p[i].dur = s[i].dur
  BY <1>5, <1>7, PlacedFacts
<1> QED BY <1>2, <1>5, <1>6, <1>8

\* What is written with the samples of the queue up to the n-th.
PlayPart(wr, tr, n) == wr \o PlayPlaced(tr, SubSeq(tr.queue, 1, n))

\* innerFlush writes n samples of a track: each fits the one written before it.
LEMMA FlushWrote ==
    ASSUME NEW t \in PlayTracks, NEW c \in BOOLEAN, NEW tr \in PlayTrackSet, NEW wr \in PlayWritten,
           PlayWroteOk(t, c, wr), PlayTrackOk(t, c, tr, PlayLast(wr)), tr.first >= 0,
           NEW n \in 0..Len(tr.queue),
           t = "video" /\ c /\ n = Len(tr.queue) => PlayLast(tr.queue).dur <= PlayLong,
           NEW new, new = PlayPart(wr, tr, n)
    PROVE  /\ new \in PlayWritten /\ PlayWroteOk(t, c, new)
           /\ n = 0 => new = wr
           /\ n > 0 => PlayLast(new) = [tr.queue[n] EXCEPT !.at = PlayTimes(tr.first, tr.queue)[n]]
<1>1. tr.first \in Int /\ tr.queue \in Seq(PlaySamples)
  BY DEF PlayTrackSet
<1>2. PICK q \in Seq(PlaySamples) : q = tr.queue
  BY <1>1
<1>3. PICK at : at = PlayTimes(tr.first, q)
  OBVIOUS
<1>4. PICK p : p = PlayPlaced(tr, SubSeq(tr.queue, 1, n))
  OBVIOUS
<1>5. /\ p \in Seq(PlaySamples) /\ Len(p) = n
      /\ \A i \in 1..n :
                /\ p[i] = [q[i] EXCEPT !.at = at[i]]
                /\ p[i].at = at[i] /\ p[i].is = q[i].is
                /\ p[i].key = q[i].key /\ p[i].offset = q[i].offset
                /\ p[i].taken = q[i].taken
                /\ p[i].len = q[i].len /\ p[i].dur = q[i].dur
  BY <1>2, <1>3, <1>4, PartFacts
<1>6. PICK k \in Nat : k = Len(wr) /\ k > 0
  BY DEF PlayWroteOk, PlayWritten
<1>7. PICK w : w = wr[k]
  OBVIOUS
<1>8. PlayLast(wr) = w
  BY <1>6, <1>7 DEF PlayLast
<1>9. new = wr \o p
  BY <1>4 DEF PlayPart
<1>10. /\ new \in PlayWritten /\ Len(new) = k + n
       /\ \A i \in 1..k : new[i] = wr[i]
       /\ \A i \in 1..n : new[k + i] = p[i]
  <2>1. p \in Seq(PlaySamples) /\ Len(wr) = k /\ Len(p) = n
    BY <1>5, <1>6
  <2>2. /\ wr \o p \in PlayWritten /\ Len(wr \o p) = Len(wr) + Len(p)
        /\ \A i \in 1..Len(wr) : (wr \o p)[i] = wr[i]
        /\ \A i \in 1..Len(p) : (wr \o p)[Len(wr) + i] = p[i]
    BY <2>1, WroteJoin
  <2>3. /\ new \in PlayWritten /\ Len(new) = Len(wr) + Len(p)
        /\ \A i \in 1..Len(wr) : new[i] = wr[i]
        /\ \A i \in 1..Len(p) : new[Len(wr) + i] = p[i]
    BY <2>2, <1>9, Zenon
  <2> QED BY <2>1, <2>3
<1>11. /\ Len(q) > 0 => at[1] = tr.first
       /\ \A i \in 2..Len(q) : at[i] = at[i - 1] + q[i - 1].dur
       /\ \A i \in 1..Len(q) : at[i] \in Int
  BY <1>1, <1>3, TimesFacts
<1>12. \A i \in 1..n : q[i] \in PlaySamples /\ p[i] \in PlaySamples /\ p[i] # PlayNone
  BY <1>2, <1>5, NoSample
<1>13. \A i \in 1..n : i \in 1..Len(q)
  BY <1>2
<1>14. \A i \in 1..n : q[i].dur \in Nat /\ q[i].offset \in Nat /\ q[i].taken \in Int /\ at[i] \in Int
  BY <1>11, <1>12, <1>13 DEF PlaySamples
<1>15. ASSUME NEW i \in 1..n
       PROVE  p[i].is = "real" /\ p[i].taken >= 0 => p[i].at = p[i].taken
  <2>1. q[i].is = "real" /\ q[i].taken >= 0 => at[i] = q[i].taken
    BY <1>2, <1>3, <1>13 DEF PlayTrackOk, PlayTimed
  <2> QED BY <1>5, <2>1
<1>16. ASSUME NEW i \in 1..n, t = "video", c PROVE p[i].dur <= PlayLong
  <2>1. CASE i < Len(q)
    <3>1. i \in 1..Len(q) - 1
      BY <2>1
    <3>2. q[i].dur <= PlayLong
      BY <1>2, <1>16, <3>1 DEF PlayTrackOk, PlayCovered
    <3> QED BY <1>5, <3>2
  <2>2. CASE ~(i < Len(q))
    <3>1. i = n /\ n = Len(q)
      BY <1>2, <2>2
    <3>2. q[n].dur <= PlayLong
      BY <1>2, <1>16, <3>1 DEF PlayLast
    <3> QED BY <1>5, <3>1, <3>2
  <2> QED BY <2>1, <2>2
<1>17. ASSUME n > 0 PROVE PlayPairOk(t, c, w, p[1])
  <2>1. 1 \in 1..n /\ 1 \in 1..Len(q)
    BY <1>2, <1>17
  <2>2. p[1].at = tr.first
    BY <1>5, <1>11, <2>1
  <2>3. w # PlayNone => w.at + w.dur = tr.first
    BY <1>8 DEF PlayTrackOk, PlayFollows
  <2>4. PlayLinkOk(t, w, q[1])
    BY <1>2, <1>8, <2>1 DEF PlayTrackOk, PlayLinked
  <2>5. w # PlayNone => w \in PlaySamples
    BY <1>6, <1>7 DEF PlayWritten
  <2>6. w # PlayNone => w.at \in Int /\ w.dur \in Nat /\ w.offset \in Nat
    BY <2>5 DEF PlaySamples
  <2>7. w # PlayNone => w.at + w.dur <= p[1].at
    BY <1>1, <2>2, <2>3, <2>6
  <2>8. t = "video" => (p[1].is = "real" /\ ~p[1].key => PlayTaken(w) /\ w.taken + w.len = p[1].taken)
    BY <1>5, <2>1, <2>4 DEF PlayLinkOk
  <2>9. ASSUME t = "video", PlayShort, PlayTaken(w), p[1].is = "hole" PROVE w.at + w.offset <= p[1].at
    <3>1. w.offset <= w.dur /\ w # PlayNone
      BY <1>5, <2>1, <2>4, <2>9 DEF PlayLinkOk, PlayTaken
    <3> QED BY <1>1, <2>2, <2>3, <2>6, <3>1
  <2>10. t = "video" /\ c => (w = PlayNone => p[1].at <= PlayHole)
    BY <1>8, <2>2 DEF PlayTrackOk, PlayCovered
  <2>11. t = "video" /\ c => p[1].dur <= PlayLong
    BY <1>16, <2>1
  <2> QED BY <1>15, <2>1, <2>7, <2>8, <2>9, <2>10, <2>11 DEF PlayPairOk
<1>18. ASSUME NEW i \in 2..n PROVE PlayPairOk(t, c, p[i - 1], p[i])
  <2>1. i \in 1..n /\ i - 1 \in 1..n /\ i \in 2..Len(q)
    BY <1>2
  <2>2. p[i].at = p[i - 1].at + p[i - 1].dur
    BY <1>5, <1>11, <2>1
  <2>3. PlayLinkOk(t, q[i - 1], q[i])
    BY <1>2, <2>1 DEF PlayTrackOk, PlayLinked
  <2>4. p[i - 1].at \in Int /\ p[i - 1].dur \in Nat /\ p[i - 1].offset \in Nat /\ p[i].at \in Int
    BY <1>5, <1>14, <2>1
  <2>5. p[i - 1] # PlayNone /\ q[i - 1] # PlayNone
    BY <1>12, <2>1, NoSample
  <2>6. p[i - 1].at + p[i - 1].dur <= p[i].at
    BY <2>2, <2>4
  <2>7. PlayTaken(p[i - 1]) <=> PlayTaken(q[i - 1])
    BY <1>5, <2>1, <2>5 DEF PlayTaken
  <2>8. t = "video" =>
          (p[i].is = "real" /\ ~p[i].key => PlayTaken(p[i - 1]) /\ p[i - 1].taken + p[i - 1].len = p[i].taken)
    BY <1>5, <2>1, <2>3, <2>7 DEF PlayLinkOk
  <2>9. ASSUME t = "video", PlayShort, PlayTaken(p[i - 1]), p[i].is = "hole"
        PROVE  p[i - 1].at + p[i - 1].offset <= p[i].at
    <3>1. p[i - 1].offset <= p[i - 1].dur
      BY <1>5, <2>1, <2>3, <2>7, <2>9 DEF PlayLinkOk
    <3> QED BY <2>2, <2>4, <3>1
  <2>10. t = "video" /\ c => p[i].dur <= PlayLong
    BY <1>16, <2>1
  <2> QED BY <1>15, <2>1, <2>5, <2>6, <2>8, <2>9, <2>10 DEF PlayPairOk
<1>19. ASSUME NEW i \in 2..k + n PROVE new[i] # PlayNone /\ PlayPairOk(t, c, new[i - 1], new[i])
  <2>1. CASE i <= k
    <3>1. i \in 2..Len(wr) /\ new[i] = wr[i] /\ new[i - 1] = wr[i - 1]
      BY <1>6, <1>10, <2>1
    <3> QED BY <3>1 DEF PlayWroteOk
  <2>2. CASE i = k + 1
    <3>1. n > 0 /\ new[i - 1] = w /\ 1 \in 1..n
      BY <1>6, <1>7, <1>10, <2>2
    <3>2. new[i] = p[1]
      BY <1>10, <2>2, <3>1
    <3> QED BY <1>12, <1>17, <3>1, <3>2
  <2>3. CASE i > k + 1
    <3>1. PICK j \in 2..n : i = k + j
      <4>1. i - k \in 2..n /\ i = k + (i - k)
        BY <1>6, <2>3
      <4> QED BY <4>1
    <3>2. j \in 1..n /\ j - 1 \in 1..n /\ i - 1 = k + (j - 1)
      BY <3>1
    <3>3. new[i] = p[j] /\ new[i - 1] = p[j - 1]
      BY <1>10, <3>1, <3>2
    <3> QED BY <1>12, <1>18, <3>1, <3>2, <3>3
  <2>4. n \in Nat /\ (i <= k \/ i = k + 1 \/ i > k + 1)
    BY <1>2, <1>6
  <2> QED BY <2>1, <2>2, <2>3, <2>4
<1>20. PlayWroteOk(t, c, new)
  BY <1>6, <1>10, <1>19 DEF PlayWroteOk
<1>21. n = 0 => new = wr
  <2>1. p \in Seq(PlaySamples)
    BY <1>5
  <2>2. Len(p) = 0 => wr \o p = wr
    BY <2>1, WroteJoin
  <2> QED BY <1>5, <1>9, <2>2
<1>22. ASSUME n > 0 PROVE PlayLast(new) = [q[n] EXCEPT !.at = at[n]]
  <2>1. n \in 1..n
    BY <1>2, <1>22
  <2>2. new[k + n] = p[n] /\ p[n] = [q[n] EXCEPT !.at = at[n]]
    BY <1>5, <1>10, <2>1
  <2> QED BY <1>10, <2>2 DEF PlayLast
<1> QED BY <1>2, <1>3, <1>10, <1>20, <1>21, <1>22

\* What a track is made of.
LEMMA QueueElement ==
    ASSUME NEW tr \in PlayTrackSet
    PROVE  /\ tr.first \in Int /\ tr.last \in Nat /\ tr.queue \in Seq(PlaySamples)
           /\ Len(tr.queue) \in Nat /\ (Len(tr.queue) = 0 <=> tr.queue = <<>>)
           /\ \A i \in 1..Len(tr.queue) : tr.queue[i] \in PlaySamples
<1>1. tr.first \in Int /\ tr.last \in Nat /\ tr.queue \in Seq(PlaySamples)
  BY DEF PlayTrackSet
<1> QED BY <1>1

\* A track of a single sample keeps it at a flush.
LEMMA KeepsAll ==
    ASSUME NEW tr \in PlayTrackSet, tr.first >= 0, Len(tr.queue) < 2
    PROVE  PlayKeeps(tr) = tr
<1>1. tr.first \in Int
  BY DEF PlayTrackSet
<1> QED BY <1>1 DEF PlayKeeps

\* A track of several samples keeps the last one, which becomes its base.
LEMMA KeepsLast ==
    ASSUME NEW tr \in PlayTrackSet, tr.first >= 0, ~(Len(tr.queue) < 2), NEW s, s = PlayLast(tr.queue)
    PROVE  PlayKeeps(tr) = [first |-> tr.last, last |-> tr.last, queue |-> <<s>>]
<1>1. tr.first \in Int
  BY DEF PlayTrackSet
<1>2. PlayKeeps(tr) = [tr EXCEPT !.queue = <<s>>, !.first = tr.last]
  BY <1>1 DEF PlayKeeps
<1> QED BY <1>2 DEF PlayTrackSet

\* A track that was flushed starts over with its last sample.
LEMMA FlushTrack ==
    ASSUME NEW t \in PlayTracks, NEW c \in BOOLEAN, NEW tr \in PlayTrackSet, NEW wr \in PlayWritten,
           PlayWroteOk(t, c, wr), PlayTrackOk(t, c, tr, PlayLast(wr)), tr.first >= 0,
           NEW n \in Nat, Len(tr.queue) = n + 1, NEW new, new = PlayPart(wr, tr, n),
           NEW keeps, keeps = PlayKeeps(tr)
    PROVE  /\ new \in PlayWritten /\ PlayWroteOk(t, c, new)
           /\ keeps \in PlayTrackSet /\ PlayTrackOk(t, c, keeps, PlayLast(new))
           /\ PlayView(keeps) = PlayView(tr)
<1>1. /\ tr.first \in Int /\ tr.last \in Nat /\ tr.queue \in Seq(PlaySamples)
      /\ \A i \in 1..Len(tr.queue) : tr.queue[i] \in PlaySamples
  BY QueueElement
<1>2. PICK q \in Seq(PlaySamples) : q = tr.queue
  BY <1>1
<1>3. PICK at : at = PlayTimes(tr.first, q)
  OBVIOUS
<1>4. q # <<>> /\ Len(q) \in Nat /\ Len(q) > 0
  BY <1>2 DEF PlayTrackOk, PlayTimed
<1>5. n = Len(q) - 1
  BY <1>2, <1>4
<1>6. /\ new \in PlayWritten /\ PlayWroteOk(t, c, new)
      /\ n = 0 => new = wr
      /\ n > 0 => PlayLast(new) = [q[n] EXCEPT !.at = at[n]]
  <2>1. n \in 0..Len(tr.queue) /\ n # Len(tr.queue) /\ new = PlayPart(wr, tr, n)
    BY <1>2, <1>4, <1>5
  <2> QED BY <1>2, <1>3, <2>1, FlushWrote
<1>7. CASE n = 0
  <2>1. Len(tr.queue) < 2
    BY <1>7
  <2>2. keeps = tr
    BY <2>1, KeepsAll
  <2> QED BY <1>6, <1>7, <2>2
<1>8. CASE n > 0
  <2>1. PICK s \in PlaySamples : s = q[n + 1]
    BY <1>1, <1>2, <1>4, <1>5
  <2>2. PICK a \in PlaySamples : a = q[n]
    BY <1>1, <1>2, <1>4, <1>5, <1>8
  <2>3. PlayLast(q) = s /\ n + 1 = Len(q)
    BY <1>4, <1>5, <2>1 DEF PlayLast
  <2>4. keeps = [first |-> tr.last, last |-> tr.last, queue |-> <<s>>]
    <3>1. ~(Len(tr.queue) < 2) /\ s = PlayLast(tr.queue)
      BY <1>2, <1>4, <1>5, <1>8, <2>3
    <3> QED BY <3>1, KeepsLast
  <2>5. keeps.queue = <<s>> /\ keeps.first = tr.last /\ keeps.last = tr.last /\ keeps \in PlayTrackSet
    <3>1. <<s>> \in Seq(PlaySamples)
      OBVIOUS
    <3>2. PICK sq \in Seq(PlaySamples) : sq = <<s>>
      BY <3>1
    <3>3. keeps = [first |-> tr.last, last |-> tr.last, queue |-> sq]
      BY <2>4, <3>2
    <3>4. keeps.queue = sq /\ keeps.first = tr.last /\ keeps.last = tr.last /\ keeps \in PlayTrackSet
      BY <1>1, <3>3 DEF PlayTrackSet
    <3> QED BY <3>2, <3>4
  <2>6. PlayView(keeps) = PlayView(tr)
    BY <1>1, <1>2, <1>4, <2>3, <2>5 DEF PlayView, PlayLast
  <2>7. /\ at[n + 1] = tr.last
        /\ s.is = "real" => s.taken = tr.last
    BY <1>2, <1>3, <2>3 DEF PlayTrackOk, PlayTimed
  <2>8. at[n + 1] = at[n] + a.dur /\ at[n] \in Int
    <3>1. /\ \A i \in 2..Len(q) : at[i] = at[i - 1] + q[i - 1].dur
          /\ \A i \in 1..Len(q) : at[i] \in Int
      BY <1>1, <1>3, TimesFacts
    <3>2. n + 1 \in 2..Len(q) /\ n \in 1..Len(q) /\ (n + 1) - 1 = n
      BY <1>8, <2>3
    <3> QED BY <2>2, <3>1, <3>2
  <2>9. PICK w \in PlaySamples : w = [a EXCEPT !.at = at[n]]
    BY <2>2, <2>8 DEF PlaySamples
  <2>10. PlayLast(new) = w
    BY <1>6, <1>8, <2>2, <2>9
  <2>11. /\ w.at = at[n] /\ w.is = a.is /\ w.taken = a.taken /\ w.len = a.len
         /\ w.offset = a.offset /\ w.dur = a.dur
    BY <2>9 DEF PlaySamples
  <2>12. w # PlayNone /\ a # PlayNone
    BY NoSample
  <2>13. PlayFollows(keeps, w)
    BY <1>1, <2>5, <2>7, <2>8, <2>11 DEF PlayFollows
  <2>14. PlayLinkOk(t, a, s)
    <3>1. n + 1 \in 2..Len(tr.queue) /\ (n + 1) - 1 = n
      BY <1>2, <1>8, <2>3
    <3>2. PlayLinkOk(t, tr.queue[(n + 1) - 1], tr.queue[n + 1])
      BY <3>1 DEF PlayTrackOk, PlayLinked
    <3> QED BY <1>2, <2>1, <2>2, <3>1, <3>2
  <2>15. PlayLinkOk(t, w, s)
    BY <2>11, <2>12, <2>14 DEF PlayLinkOk, PlayTaken
  <2>16. Len(keeps.queue) = 1 /\ keeps.queue[1] = s
    BY <2>5
  <2>17. PlayLinked(t, keeps, w)
    BY <2>15, <2>16 DEF PlayLinked
  <2>18. PlayTimes(tr.last, <<s>>)[1] = tr.last
    <3>1. PICK sq : sq = <<s>>
      OBVIOUS
    <3>2. sq \in Seq(PlaySamples) /\ Len(sq) = 1 /\ tr.last \in Int
      BY <1>1, <3>1
    <3>3. PICK sat : sat = PlayTimes(tr.last, sq)
      OBVIOUS
    <3>4. Len(sq) > 0 => sat[1] = tr.last
      BY <3>2, <3>3, TimesFacts
    <3> QED BY <3>1, <3>2, <3>3, <3>4
  <2>19. PlayTimed(keeps)
    BY <1>1, <2>5, <2>7, <2>16, <2>18 DEF PlayTimed, PlayLast
  <2>20. PlayCovered(t, c, keeps, w)
    BY <2>12, <2>16 DEF PlayCovered
  <2> QED BY <1>6, <2>5, <2>6, <2>10, <2>13, <2>17, <2>19, <2>20 DEF PlayTrackOk
<1> QED BY <1>7, <1>8

\* What a muxer is made of.
LEMMA MuxerType ==
    ASSUME NEW m \in PlayMuxers, NEW t \in PlayTracks
    PROVE  m.tracks[t] \in PlayTrackSet /\ m.wrote[t] \in PlayWritten
BY DEF PlayMuxers

\* innerFlush keeps the muxer right and its last samples where they are.
LEMMA FlushFacts ==
    ASSUME NEW c \in BOOLEAN, NEW m \in PlayMuxers, PlayMuxOk(c, m), NEW r, r = PlayFlush(m)
    PROVE  /\ r \in PlayMuxers /\ PlayMuxOk(c, r)
           /\ \A t \in PlayTracks : PlayView(r.tracks[t]) = PlayView(m.tracks[t])
<1>1. ASSUME NEW t \in PlayTracks
      PROVE  /\ r.wrote[t] \in PlayWritten /\ PlayWroteOk(t, c, r.wrote[t])
             /\ r.tracks[t] \in PlayTrackSet
             /\ PlayTrackOk(t, c, r.tracks[t], PlayLast(r.wrote[t]))
             /\ PlayView(r.tracks[t]) = PlayView(m.tracks[t])
  <2>1. PICK tr \in PlayTrackSet : tr = m.tracks[t]
    BY MuxerType
  <2>2. PICK wr \in PlayWritten : wr = m.wrote[t]
    BY MuxerType
  <2>3. PlayWroteOk(t, c, wr) /\ PlayTrackOk(t, c, tr, PlayLast(wr))
    BY <2>1, <2>2 DEF PlayMuxOk
  <2>4. PICK keeps : keeps = PlayKeeps(tr)
    OBVIOUS
  <2>5. r.tracks[t] = keeps
    BY <2>1, <2>4 DEF PlayFlush
  <2>6. CASE tr.first >= 0
    <3>1. PICK n \in Nat : Len(tr.queue) = n + 1
      <4>1. Len(tr.queue) \in Nat /\ Len(tr.queue) # 0
        BY <2>3, <2>6, QueueElement DEF PlayTrackOk, PlayTimed
      <4>2. Len(tr.queue) - 1 \in Nat /\ Len(tr.queue) = (Len(tr.queue) - 1) + 1
        BY <4>1
      <4> QED BY <4>2
    <3>2. PICK new : new = PlayPart(wr, tr, n)
      OBVIOUS
    <3>3. tr.first \in Int
      BY QueueElement
    <3>4. r.wrote[t] = wr \o PlayPlaced(tr, IF tr.first < 0 THEN <<>> ELSE SubSeq(tr.queue, 1, Len(tr.queue) - 1))
      BY <2>1, <2>2 DEF PlayFlush
    <3>5. r.wrote[t] = new
      <4>1. ~(tr.first < 0) /\ Len(tr.queue) - 1 = n
        BY <2>6, <3>3, <3>1
      <4> QED BY <3>4, <3>2, <4>1, Zenon DEF PlayPart
    <3>6. /\ new \in PlayWritten /\ PlayWroteOk(t, c, new)
          /\ keeps \in PlayTrackSet /\ PlayTrackOk(t, c, keeps, PlayLast(new))
          /\ PlayView(keeps) = PlayView(tr)
      BY <2>3, <2>4, <2>6, <3>2, <3>1, FlushTrack
    <3> QED BY <2>1, <2>5, <3>5, <3>6
  <2>7. CASE ~(tr.first >= 0)
    <3>1. tr.first \in Int /\ tr.first < 0
      BY <2>7, QueueElement
    <3>2. keeps = tr
      BY <2>4, <3>1 DEF PlayKeeps
    <3>3. PICK p : p = PlayPlaced(tr, <<>>)
      OBVIOUS
    <3>4. p \in Seq(PlaySamples) /\ Len(p) = 0
      <4>1. <<>> \in Seq(PlaySamples) /\ Len(<<>>) = 0
        OBVIOUS
      <4> QED BY <3>3, <4>1, PlacedFacts
    <3>5. r.wrote[t] = wr \o p
      BY <2>1, <2>2, <3>1, <3>3 DEF PlayFlush
    <3>6. r.wrote[t] = wr
      BY <3>4, <3>5, WroteJoin
    <3> QED BY <2>1, <2>3, <2>5, <3>2, <3>6
  <2> QED BY <2>6, <2>7
<1>2. r \in PlayMuxers
  <2>1. r = [tracks |-> [t \in PlayTracks |-> r.tracks[t]], wrote |-> [t \in PlayTracks |-> r.wrote[t]]]
    BY DEF PlayFlush
  <2> QED BY <1>1, <2>1 DEF PlayMuxers
<1> QED BY <1>1, <1>2 DEF PlayMuxOk

\* The last flush writes everything; what it writes last of a track ends where the
\* track does.
LEMMA LastFlushFacts ==
    ASSUME NEW c \in BOOLEAN, NEW m \in PlayMuxers, PlayMuxOk(c, m), NEW r, r = PlayFlushAll(m),
           NEW v, v = m.tracks["video"],
           c /\ v.first >= 0 => PlayLast(v.queue).dur <= PlayLong
    PROVE  /\ r \in PlayMuxers
           /\ \A t \in PlayTracks : PlayWroteOk(t, c, r.wrote[t])
           /\ v.first >= 0 => /\ PlayLast(r.wrote["video"]) # PlayNone
                              /\ PlayLast(r.wrote["video"]).at = v.last
                              /\ PlayLast(r.wrote["video"]).dur = PlayLast(v.queue).dur
           /\ v.first < 0 => PlayLast(r.wrote["video"]) = PlayNone
<1>1. ASSUME NEW t \in PlayTracks, NEW tr, tr = m.tracks[t]
      PROVE  /\ r.wrote[t] \in PlayWritten /\ PlayWroteOk(t, c, r.wrote[t])
             /\ r.tracks[t] = tr /\ tr \in PlayTrackSet
             /\ tr.first >= 0 =>
                  /\ PlayLast(r.wrote[t]) # PlayNone
                  /\ PlayLast(r.wrote[t]).at = tr.last
                  /\ PlayLast(r.wrote[t]).dur = PlayLast(tr.queue).dur
             /\ tr.first < 0 => PlayLast(r.wrote[t]) = PlayNone
  <2>1. tr \in PlayTrackSet
    BY <1>1, MuxerType
  <2>2. PICK wr \in PlayWritten : wr = m.wrote[t]
    BY MuxerType
  <2>3. PlayWroteOk(t, c, wr) /\ PlayTrackOk(t, c, tr, PlayLast(wr))
    BY <1>1, <2>2 DEF PlayMuxOk
  <2>4. r.tracks[t] = tr
    BY <1>1 DEF PlayFlushAll
  <2>5. tr.first \in Int /\ tr.queue \in Seq(PlaySamples) /\ Len(tr.queue) \in Nat
    BY <2>1, QueueElement
  <2>6. CASE tr.first >= 0
    <3>1. PICK n \in Nat : n = Len(tr.queue)
      BY <2>5
    <3>2. n > 0 /\ PlayTimes(tr.first, tr.queue)[n] = tr.last
      BY <2>3, <2>5, <2>6, <3>1 DEF PlayTrackOk, PlayTimed
    <3>3. SubSeq(tr.queue, 1, n) = tr.queue
      BY <2>5, <3>1
    <3>4. PICK new : new = PlayPart(wr, tr, n)
      OBVIOUS
    <3>5. r.wrote[t] = wr \o PlayPlaced(tr, IF tr.first < 0 THEN <<>> ELSE tr.queue)
      BY <1>1, <2>2 DEF PlayFlushAll
    <3>6. r.wrote[t] = wr \o PlayPlaced(tr, tr.queue)
      <4>1. ~(tr.first < 0)
        BY <2>5, <2>6
      <4> QED BY <3>5, <4>1, Zenon
    <3>7. r.wrote[t] = new
      BY <3>6, <3>3, <3>4, Zenon DEF PlayPart
    <3>8. t = "video" /\ c /\ n = Len(tr.queue) => PlayLast(tr.queue).dur <= PlayLong
      BY <1>1, <2>6
    <3>9. n \in 0..Len(tr.queue)
      BY <3>1
    <3>10. /\ new \in PlayWritten /\ PlayWroteOk(t, c, new)
           /\ n > 0 => PlayLast(new) = [tr.queue[n] EXCEPT !.at = PlayTimes(tr.first, tr.queue)[n]]
      BY <2>1, <2>3, <2>6, <3>4, <3>8, <3>9, FlushWrote
    <3>11. PICK s \in PlaySamples : s = tr.queue[n]
      BY <2>5, <3>1, <3>2
    <3>12. PlayLast(new) = [s EXCEPT !.at = tr.last]
      BY <3>2, <3>10, <3>11
    <3>13. tr.last \in Int
      BY <2>1, QueueElement
    <3>14. PlayLast(new) \in PlaySamples /\ PlayLast(new).at = tr.last /\ PlayLast(new).dur = s.dur
      BY <3>12, <3>13 DEF PlaySamples
    <3>15. PlayLast(new) # PlayNone
      BY <3>14, NoSample
    <3>16. s = PlayLast(tr.queue)
      BY <3>1, <3>11 DEF PlayLast
    <3> QED BY <2>1, <2>4, <2>5, <2>6, <3>7, <3>10, <3>14, <3>15, <3>16
  <2>7. CASE tr.first < 0
    <3>1. PICK p : p = PlayPlaced(tr, <<>>)
      OBVIOUS
    <3>2. p \in Seq(PlaySamples) /\ Len(p) = 0
      <4>1. <<>> \in Seq(PlaySamples) /\ Len(<<>>) = 0
        OBVIOUS
      <4> QED BY <2>1, <3>1, <4>1, PlacedFacts
    <3>3. r.wrote[t] = wr \o p
      BY <1>1, <2>2, <2>7, <3>1 DEF PlayFlushAll
    <3>4. r.wrote[t] = wr
      BY <3>2, <3>3, WroteJoin
    <3>5. PlayLast(wr) = PlayNone
      BY <2>3, <2>7 DEF PlayTrackOk, PlayFollows
    <3> QED BY <2>1, <2>3, <2>4, <2>5, <2>7, <3>4, <3>5
  <2> QED BY <2>5, <2>6, <2>7
<1>2. r \in PlayMuxers
  <2>1. r = [tracks |-> m.tracks, wrote |-> [t \in PlayTracks |-> r.wrote[t]]]
    BY DEF PlayFlushAll
  <2>2. m.tracks \in [PlayTracks -> PlayTrackSet] /\ \A t \in PlayTracks : r.wrote[t] \in PlayWritten
    BY <1>1 DEF PlayMuxers
  <2> QED BY <2>1, <2>2 DEF PlayMuxers
<1>3. "video" \in PlayTracks
  BY DEF PlayTracks
<1> QED BY <1>1, <1>2, <1>3

-----------------------------------------------------------------------------
(* A sample.                                                               *)

\* A sequence with one more element.
LEMMA AppendFacts ==
    ASSUME NEW S, NEW b \in Seq(S), NEW s \in S, NEW q, q = Append(b, s)
    PROVE  /\ q \in Seq(S) /\ Len(q) = Len(b) + 1 /\ q # <<>>
           /\ \A i \in 1..Len(b) : q[i] = b[i]
           /\ q[Len(b) + 1] = s
OBVIOUS

\* A sample s may be put after a queue b.
PlayAppends(t, c, first, last, b, s, w) ==
    /\ first \in Int /\ last \in Nat /\ b \in Seq(PlaySamples) /\ s \in PlaySamples
    /\ first >= 0 => IF b = <<>> THEN first = last
                     ELSE PlayTimes(first, b)[Len(b)] + b[Len(b)].dur = last
    /\ \A i \in 1..Len(b) :
         b[i].is = "real" /\ b[i].taken >= 0 => first >= 0 /\ PlayTimes(first, b)[i] = b[i].taken
    /\ first < 0 => s.dur = 0 /\ \A i \in 1..Len(b) : b[i].dur = 0
    /\ s.is = "real" /\ s.taken >= 0 => first >= 0
    /\ s.is = "real" /\ first >= 0 => s.taken = last
    /\ IF b = <<>> THEN PlayLinkOk(t, w, s)
       ELSE /\ PlayLinkOk(t, w, b[1]) /\ PlayLinkOk(t, b[Len(b)], s)
            /\ \A i \in 2..Len(b) : PlayLinkOk(t, b[i - 1], b[i])
    /\ first < 0 => w = PlayNone
    /\ w # PlayNone => w.at + w.dur = first
    /\ t = "video" /\ c => \A i \in 1..Len(b) : b[i].dur <= PlayLong
    /\ t = "video" /\ c => (first >= 0 /\ w = PlayNone => first <= PlayHole)

\* A track is right once such a sample is put after its queue.
LEMMA AppendOk ==
    ASSUME NEW t, NEW c, NEW first, NEW last, NEW b, NEW s, NEW w, PlayAppends(t, c, first, last, b, s, w),
           NEW new, new = [first |-> first, last |-> last, queue |-> Append(b, s)]
    PROVE  /\ new \in PlayTrackSet /\ PlayTrackOk(t, c, new, w)
           /\ PlayView(new) = [in |-> first >= 0, last |-> last, tail |-> s]
<1> USE DEF PlayAppends
<1>1. PICK q \in Seq(PlaySamples) : q = Append(b, s)
  BY AppendFacts
<1>2. PICK n \in Nat : n = Len(b)
  OBVIOUS
<1>3. /\ Len(q) = n + 1 /\ q # <<>> /\ q[n + 1] = s
      /\ \A i \in 1..n : q[i] = b[i]
  BY <1>1, <1>2, AppendFacts
<1>4. new.first = first /\ new.last = last /\ new.queue = q /\ new \in PlayTrackSet
  <2>1. new = [first |-> first, last |-> last, queue |-> q]
    BY <1>1
  <2> QED BY <2>1 DEF PlayTrackSet
<1>5. PICK bt : bt = PlayTimes(first, b)
  OBVIOUS
<1>6. PICK qt : qt = PlayTimes(first, q)
  OBVIOUS
<1>7. \A i \in 1..n : qt[i] = bt[i]
  <2>1. n \in Nat /\ n <= Len(q) /\ n <= Len(b) /\ \A i \in 1..n - 1 : q[i].dur = b[i].dur
    BY <1>2, <1>3
  <2>2. \A i \in 1..n : PlayTimes(first, q)[i] = PlayTimes(first, b)[i]
    BY <2>1, TimesAgree
  <2> QED BY <2>2, <1>5, <1>6, Zenon
<1>8. /\ qt[1] = first
      /\ \A i \in 2..n + 1 : qt[i] = qt[i - 1] + q[i - 1].dur
      /\ \A i \in 1..n + 1 : qt[i] \in Int
  <2>1. /\ Len(q) > 0 => qt[1] = first
        /\ \A i \in 2..Len(q) : qt[i] = qt[i - 1] + q[i - 1].dur
        /\ \A i \in 1..Len(q) : qt[i] \in Int
    BY <1>6, TimesFacts
  <2> QED BY <1>3, <2>1
<1>9. b = <<>> <=> n = 0
  BY <1>2
<1>10. ASSUME first >= 0 PROVE qt[n + 1] = last
  <2>1. CASE n = 0
    BY <1>8, <1>9, <1>10, <2>1
  <2>2. CASE n # 0
    <3>1. n + 1 \in 2..n + 1 /\ n \in 1..n /\ (n + 1) - 1 = n
      BY <2>2
    <3>2. qt[n + 1] = qt[n] + q[n].dur
      BY <1>8, <3>1
    <3>3. bt[n] + b[n].dur = last
      BY <1>2, <1>5, <1>9, <1>10, <2>2
    <3> QED BY <1>3, <1>7, <3>1, <3>2, <3>3
  <2> QED BY <2>1, <2>2
<1>11. PlayLast(q) = s
  BY <1>3 DEF PlayLast
<1>12. PlayTimed(new)
  <2>1. ASSUME NEW i \in 1..n + 1, q[i].is = "real", q[i].taken >= 0
        PROVE  first >= 0 /\ qt[i] = q[i].taken
    <3>1. CASE i = n + 1
      BY <1>3, <1>10, <2>1, <3>1
    <3>2. CASE i # n + 1
      <4>1. i \in 1..n /\ i \in 1..Len(b)
        BY <1>2, <3>2
      <4> QED BY <1>3, <1>5, <1>7, <2>1, <4>1
    <3> QED BY <3>1, <3>2
  <2>2. ASSUME NEW i \in 1..n + 1, first < 0 PROVE q[i].dur = 0
    <3>1. CASE i = n + 1
      BY <1>3, <2>2, <3>1
    <3>2. CASE i # n + 1
      <4>1. i \in 1..n /\ i \in 1..Len(b)
        BY <1>2, <3>2
      <4> QED BY <1>3, <2>2, <4>1
    <3> QED BY <3>1, <3>2
  <2> QED BY <1>3, <1>4, <1>6, <1>10, <1>11, <2>1, <2>2 DEF PlayTimed
<1>13. PlayLinked(t, new, w)
  <2>1. PlayLinkOk(t, w, q[1])
    <3>1. CASE n = 0
      BY <1>3, <1>9, <3>1
    <3>2. CASE n # 0
      <4>1. 1 \in 1..n
        BY <3>2
      <4> QED BY <1>3, <1>9, <3>2, <4>1
    <3> QED BY <3>1, <3>2
  <2>2. ASSUME NEW i \in 2..n + 1 PROVE PlayLinkOk(t, q[i - 1], q[i])
    <3>1. n \in Nat /\ i \in 2..n + 1
      BY <1>2
    <3>2. CASE i = n + 1
      <4> HIDE DEF PlayAppends
      <4>1. n # 0 /\ n \in 1..n /\ i - 1 = n
        BY <3>1, <3>2
      <4>2. PlayLinkOk(t, b[n], s)
        BY <1>2, <1>9, <4>1 DEF PlayAppends
      <4> QED BY <1>3, <3>2, <4>1, <4>2
    <3>3. CASE i # n + 1
      <4>1. i \in 1..n /\ i - 1 \in 1..n /\ i \in 2..Len(b) /\ n # 0
        BY <1>2, <3>3
      <4>2. PlayLinkOk(t, b[i - 1], b[i])
        BY <1>9, <4>1
      <4> QED BY <1>3, <4>1, <4>2
    <3> QED BY <3>2, <3>3
  <2> QED BY <1>3, <1>4, <2>1, <2>2 DEF PlayLinked
<1>14. PlayFollows(new, w)
  BY <1>4 DEF PlayFollows
<1>15. PlayCovered(t, c, new, w)
  <2>1. ASSUME NEW i \in 1..Len(q) - 1, t = "video", c PROVE q[i].dur <= PlayLong
    <3>1. i \in 1..n /\ i \in 1..Len(b)
      BY <1>2, <1>3
    <3> QED BY <1>3, <2>1, <3>1
  <2> QED BY <1>4, <2>1 DEF PlayCovered
<1>16. PlayView(new) = [in |-> first >= 0, last |-> last, tail |-> s]
  BY <1>3, <1>4, <1>11 DEF PlayView
<1> QED BY <1>4, <1>12, <1>13, <1>14, <1>15, <1>16 DEF PlayTrackOk

\* The last of n samples lasts until a time.
PlayLasts(q, b, n, d) ==
    /\ b \in Seq(PlaySamples) /\ Len(b) = n /\ n > 0 /\ b # <<>>
    /\ \A i \in 1..n - 1 : b[i] = q[i]
    /\ b[n] = [q[n] EXCEPT !.dur = d] /\ b[n].dur = d
    /\ \A i \in 1..n : /\ b[i] \in PlaySamples
                       /\ b[i].is = q[i].is /\ b[i].key = q[i].key
                       /\ b[i].offset = q[i].offset /\ b[i].taken = q[i].taken
                       /\ b[i].len = q[i].len /\ b[i].at = q[i].at

\* The last sample of a queue lasts until the next one, the others stay.
LEMMA LastingFacts ==
    ASSUME NEW tr \in PlayTrackSet, tr.queue # <<>>, NEW dts \in Int,
           NEW n \in Nat, n = Len(tr.queue), NEW b, b = PlayLasting(tr, dts)
    PROVE  PlayLasts(tr.queue, b, n, PlayMax(dts - tr.last, 0))
<1>1. PICK q \in Seq(PlaySamples) : q = tr.queue
  BY QueueElement
<1>2. n = Len(q) /\ n > 0 /\ \A i \in 1..n : q[i] \in PlaySamples
  BY <1>1
<1>3. PICK d \in Nat : d = PlayMax(dts - tr.last, 0)
  <2>1. tr.last \in Nat
    BY QueueElement
  <2> QED BY <2>1 DEF PlayMax
<1>4. b = [q EXCEPT ![n].dur = d]
  BY <1>1, <1>2, <1>3 DEF PlayLasting
<1>5. PICK e \in PlaySamples : e = [q[n] EXCEPT !.dur = d]
  <2>1. PICK a \in PlaySamples : a = q[n]
    BY <1>2
  <2> QED BY <2>1 DEF PlaySamples
<1>6. b = [q EXCEPT ![n] = e]
  BY <1>4, <1>5
<1>7. b \in Seq(PlaySamples) /\ Len(b) = n /\ b[n] = e /\ \A i \in 1..n - 1 : b[i] = q[i]
  BY <1>2, <1>6
<1>8. /\ e.dur = d /\ e.is = q[n].is /\ e.key = q[n].key /\ e.offset = q[n].offset
      /\ e.taken = q[n].taken /\ e.len = q[n].len /\ e.at = q[n].at
  <2>1. PICK a \in PlaySamples : a = q[n]
    BY <1>2
  <2> QED BY <1>5, <2>1 DEF PlaySamples
<1>9. ASSUME NEW i \in 1..n
      PROVE  /\ b[i] \in PlaySamples
             /\ b[i].is = q[i].is /\ b[i].key = q[i].key
             /\ b[i].offset = q[i].offset /\ b[i].taken = q[i].taken
             /\ b[i].len = q[i].len /\ b[i].at = q[i].at
  <2>1. CASE i = n
    BY <1>7, <1>8, <2>1
  <2>2. CASE i # n
    <3>1. i \in 1..n - 1
      BY <2>2
    <3> QED BY <1>2, <1>7, <3>1
  <2> QED BY <2>1, <2>2
<1>10. b # <<>>
  BY <1>2, <1>7
<1>11. PlayLasts(q, b, n, d)
  BY <1>2, <1>5, <1>7, <1>8, <1>9, <1>10 DEF PlayLasts
<1> QED BY <1>1, <1>3, <1>11

\* A queue whose last sample lasts until a time.
LEMMA LastingOk ==
    ASSUME NEW t \in PlayTracks, NEW c \in BOOLEAN, NEW tr \in PlayTrackSet, NEW w,
           PlayTrackOk(t, c, tr, w), tr.first >= 0, NEW dts \in Int,
           NEW b, b = PlayLasting(tr, dts), NEW n \in Nat, n = Len(tr.queue)
    PROVE  /\ PlayTimes(tr.first, b)[n] = tr.last
           /\ \A i \in 1..n :
                b[i].is = "real" /\ b[i].taken >= 0 => PlayTimes(tr.first, b)[i] = b[i].taken
           /\ PlayLinkOk(t, w, b[1])
           /\ \A i \in 2..n : PlayLinkOk(t, b[i - 1], b[i])
           /\ t = "video" /\ c => \A i \in 1..n - 1 : b[i].dur <= PlayLong
<1>1. PICK q \in Seq(PlaySamples) : q = tr.queue
  BY QueueElement
<1>2. n = Len(q) /\ q # <<>> /\ n > 0 /\ tr.first \in Int
  BY <1>1, QueueElement DEF PlayTrackOk, PlayTimed
<1>3. /\ b \in Seq(PlaySamples) /\ Len(b) = n
      /\ \A i \in 1..n - 1 : b[i] = q[i]
      /\ \A i \in 1..n : /\ b[i] \in PlaySamples
                         /\ b[i].is = q[i].is /\ b[i].key = q[i].key
                         /\ b[i].offset = q[i].offset /\ b[i].taken = q[i].taken
                         /\ b[i].len = q[i].len /\ b[i].at = q[i].at
  <2>1. tr.queue # <<>>
    BY <1>1, <1>2
  <2>2. PlayLasts(tr.queue, b, n, PlayMax(dts - tr.last, 0))
    BY <2>1, LastingFacts
  <2>3. PlayLasts(q, b, n, PlayMax(dts - tr.last, 0))
    BY <1>1, <2>2
  <2> QED BY <2>3 DEF PlayLasts
<1>4. \A i \in 1..n : PlayTimes(tr.first, b)[i] = PlayTimes(tr.first, q)[i]
  <2>1. n <= Len(b) /\ n <= Len(q) /\ \A i \in 1..n - 1 : b[i].dur = q[i].dur
    BY <1>2, <1>3
  <2> QED BY <1>2, <1>3, <2>1, TimesAgree
<1>5. PICK at : at = PlayTimes(tr.first, q)
  OBVIOUS
<1>6. /\ at[n] = tr.last
      /\ \A i \in 1..n : q[i].is = "real" /\ q[i].taken >= 0 => at[i] = q[i].taken
  BY <1>1, <1>2, <1>5 DEF PlayTrackOk, PlayTimed
<1>7. PlayTimes(tr.first, b)[n] = tr.last
  <2>1. n \in 1..n
    BY <1>2
  <2> QED BY <1>4, <1>5, <1>6, <2>1
<1>8. ASSUME NEW i \in 1..n, b[i].is = "real", b[i].taken >= 0
      PROVE  PlayTimes(tr.first, b)[i] = b[i].taken
  BY <1>3, <1>4, <1>5, <1>6, <1>8
<1>9. PlayLinkOk(t, w, b[1])
  <2>1. PlayLinkOk(t, w, q[1])
    BY <1>1, <1>2 DEF PlayTrackOk, PlayLinked
  <2>2. 1 \in 1..n
    BY <1>2
  <2> QED BY <1>3, <2>1, <2>2 DEF PlayLinkOk
<1>10. ASSUME NEW i \in 2..n PROVE PlayLinkOk(t, b[i - 1], b[i])
  <2>1. PlayLinkOk(t, q[i - 1], q[i])
    BY <1>1, <1>2 DEF PlayTrackOk, PlayLinked
  <2>2. i \in 1..n /\ i - 1 \in 1..n - 1
    BY <1>2
  <2> QED BY <1>3, <2>1, <2>2 DEF PlayLinkOk
<1>11. ASSUME t = "video", c, NEW i \in 1..n - 1 PROVE b[i].dur <= PlayLong
  <2>1. q[i].dur <= PlayLong
    BY <1>1, <1>2, <1>11 DEF PlayTrackOk, PlayCovered
  <2> QED BY <1>3, <2>1
<1> QED BY <1>7, <1>8, <1>9, <1>10, <1>11

\* writeFinalDTS of one track.
LEMMA FinalTrack ==
    ASSUME NEW t \in PlayTracks, NEW c \in BOOLEAN, NEW tr \in PlayTrackSet, NEW w,
           PlayTrackOk(t, c, tr, w), tr.first >= 0, NEW dts \in Int,
           NEW new, new = [tr EXCEPT !.queue = PlayLasting(tr, dts)]
    PROVE  /\ new \in PlayTrackSet /\ PlayTrackOk(t, c, new, w)
           /\ PlayLast(tr.queue) \in PlaySamples /\ new.first = tr.first
           /\ PlayView(new) =
                [in |-> tr.first >= 0, last |-> tr.last,
                 tail |-> [PlayLast(tr.queue) EXCEPT !.dur = PlayMax(dts - tr.last, 0)]]
<1>1. PICK q \in Seq(PlaySamples) : q = tr.queue
  BY QueueElement
<1>2. PICK n \in Nat : n = Len(q)
  BY <1>1
<1>3. q # <<>> /\ n > 0 /\ tr.first \in Int /\ tr.last \in Nat /\ q[n] \in PlaySamples
  BY <1>1, <1>2, QueueElement DEF PlayTrackOk, PlayTimed
<1>4. PICK b : b = PlayLasting(tr, dts)
  OBVIOUS
<1>5. /\ b \in Seq(PlaySamples) /\ Len(b) = n /\ b # <<>>
      /\ b[n] = [q[n] EXCEPT !.dur = PlayMax(dts - tr.last, 0)]
      /\ \A i \in 1..n : b[i].is = q[i].is /\ b[i].taken = q[i].taken
  <2>1. tr.queue # <<>> /\ n = Len(tr.queue)
    BY <1>1, <1>2, <1>3
  <2>2. PlayLasts(tr.queue, b, n, PlayMax(dts - tr.last, 0))
    BY <1>4, <2>1, LastingFacts
  <2>3. PlayLasts(q, b, n, PlayMax(dts - tr.last, 0))
    BY <1>1, <2>2
  <2> QED BY <2>3 DEF PlayLasts
<1>6. /\ PlayTimes(tr.first, b)[n] = tr.last
      /\ \A i \in 1..n :
            b[i].is = "real" /\ b[i].taken >= 0 => PlayTimes(tr.first, b)[i] = b[i].taken
      /\ PlayLinkOk(t, w, b[1])
      /\ \A i \in 2..n : PlayLinkOk(t, b[i - 1], b[i])
      /\ t = "video" /\ c => \A i \in 1..n - 1 : b[i].dur <= PlayLong
  BY <1>1, <1>2, <1>4, LastingOk
<1>7. new.first = tr.first /\ new.last = tr.last /\ new.queue = b /\ new \in PlayTrackSet
  <2>1. new = [tr EXCEPT !.queue = b]
    BY <1>4
  <2> QED BY <1>5, <2>1 DEF PlayTrackSet
<1>8. PlayLast(b) = b[n] /\ PlayLast(q) = q[n]
  BY <1>2, <1>5 DEF PlayLast
<1>9. PlayTimed(new)
  <2>1. b[n].is = "real" => b[n].taken = tr.last
    <3>1. q[n].is = "real" => q[n].taken = tr.last
      BY <1>1, <1>8 DEF PlayTrackOk, PlayTimed
    <3>2. n \in 1..n
      BY <1>3
    <3> QED BY <1>5, <3>1, <3>2
  <2>2. ~(tr.first < 0)
    BY <1>3
  <2>3. PICK f \in Int : f = tr.first
    BY <1>3
  <2>4. PICK bt : bt = PlayTimes(f, b)
    OBVIOUS
  <2>5. bt[n] = tr.last /\ \A i \in 1..n : b[i].is = "real" /\ b[i].taken >= 0 => bt[i] = b[i].taken
    BY <1>6, <2>3, <2>4
  <2> QED BY <1>5, <1>7, <1>8, <2>1, <2>2, <2>3, <2>4, <2>5 DEF PlayTimed
<1>10. PlayLinked(t, new, w)
  BY <1>5, <1>6, <1>7 DEF PlayLinked
<1>11. PlayFollows(new, w)
  BY <1>7 DEF PlayFollows, PlayTrackOk
<1>12. PlayCovered(t, c, new, w)
  <2>1. t = "video" /\ c => (tr.first >= 0 /\ w = PlayNone => tr.first <= PlayHole)
    BY DEF PlayTrackOk, PlayCovered
  <2> QED BY <1>5, <1>6, <1>7, <2>1 DEF PlayCovered
<1>13. PlayView(new) = [in |-> tr.first >= 0, last |-> tr.last,
                        tail |-> [q[n] EXCEPT !.dur = PlayMax(dts - tr.last, 0)]]
  BY <1>5, <1>7, <1>8 DEF PlayView
<1> QED BY <1>1, <1>3, <1>7, <1>8, <1>9, <1>10, <1>11, <1>12, <1>13 DEF PlayTrackOk

\* What writeSample makes of a track, before a part is flushed.
PlayPutTrack(tr, dts, s) ==
    IF dts < 0 THEN [tr EXCEPT !.queue = Append(PlayQueue(tr, dts, s), s)]
    ELSE [first |-> IF tr.first < 0 THEN dts ELSE tr.first, last |-> dts,
          queue |-> Append(PlayQueue(tr, dts, s), s)]

\* A sample may follow what a track holds: it comes no earlier, it is recorded when
\* it comes, its picture follows the last one or is a keyframe, a placeholder comes
\* after the picture before it, and it is not far from it when everything is filled.
PlayFits(t, c, v, dts, s) ==
    /\ s \in PlaySamples /\ s.dur = 0 /\ (v.in => v.last <= dts)
    /\ IF s.is = "real" THEN s.taken = dts ELSE s.key
    /\ t = "video" =>
        /\ s.is = "real" /\ ~s.key => PlayTaken(v.tail) /\ v.tail.taken + v.tail.len = dts
        /\ PlayShort => (s.is = "hole" /\ v.in /\ PlayTaken(v.tail) => v.last + v.tail.offset <= dts)
        /\ c => (v.in => dts - v.last <= PlayLong) /\ (~v.in => dts <= PlayHole)

\* What the view of a track says.
LEMMA ViewFacts ==
    ASSUME NEW tr \in PlayTrackSet
    PROVE  /\ PlayView(tr).in <=> tr.first >= 0
           /\ PlayView(tr).last = tr.last
           /\ tr.queue # <<>> => PlayView(tr).tail = PlayLast(tr.queue) /\ PlayLast(tr.queue) \in PlaySamples
           /\ tr.queue = <<>> => PlayView(tr).tail = PlayNone
           /\ PlayView(tr) \in [in : BOOLEAN, last : Nat, tail : PlaySamples \cup {PlayNone}]
<1>1. tr.first \in Int /\ tr.last \in Nat /\ tr.queue \in Seq(PlaySamples)
  BY QueueElement
<1>2. tr.queue # <<>> => PlayLast(tr.queue) \in PlaySamples
  BY <1>1 DEF PlayLast
<1>3. PICK tail : tail = PlayView(tr).tail
  OBVIOUS
<1>4. tail \in PlaySamples \cup {PlayNone}
  BY <1>2, <1>3 DEF PlayView
<1>5. PlayView(tr) = [in |-> tr.first >= 0, last |-> tr.last, tail |-> tail]
  BY <1>3 DEF PlayView
<1>6. (tr.first >= 0) \in BOOLEAN
  BY <1>1
<1>7. PlayView(tr) \in [in : BOOLEAN, last : Nat, tail : PlaySamples \cup {PlayNone}]
  BY <1>1, <1>4, <1>5, <1>6
<1> QED BY <1>1, <1>2, <1>7 DEF PlayView

\* A sample that fits the view of a track fits the last sample of its queue.
LEMMA LinkFits ==
    ASSUME NEW t \in PlayTracks, NEW c \in BOOLEAN, NEW v, NEW dts \in Int, NEW s, PlayFits(t, c, v, dts, s),
           NEW a, PlayTaken(v.tail) => PlayTaken(a) /\ a.taken = v.tail.taken /\ a.len = v.tail.len
                                       /\ a.offset = v.tail.offset,
           PlayTaken(a) => PlayTaken(v.tail),
           PlayTaken(a) /\ s.is = "hole" =>
               v.in /\ v.last \in Int /\ a.dur = dts - v.last /\ a.offset \in Nat
    PROVE  PlayLinkOk(t, a, s)
<1>1. ASSUME t = "video", s.is = "real", ~s.key PROVE PlayTaken(a) /\ a.taken + a.len = s.taken
  BY <1>1 DEF PlayFits
<1>2. ASSUME t = "video", PlayShort, PlayTaken(a), s.is = "hole" PROVE a.offset <= a.dur
  <2>1. v.last + a.offset <= dts /\ v.last \in Int /\ a.dur = dts - v.last /\ a.offset \in Nat
    BY <1>2 DEF PlayFits
  <2> QED BY <2>1
<1> QED BY <1>1, <1>2 DEF PlayLinkOk

\* Before the window no sample lasts: all are at the base time.
LEMMA TimesStill ==
    ASSUME NEW first \in Int, NEW q \in Seq(PlaySamples), \A i \in 1..Len(q) : q[i].dur = 0
    PROVE  \A i \in 1..Len(q) : PlayTimes(first, q)[i] = first
<1>1. PICK n \in Nat : n = Len(q)
  OBVIOUS
<1>2. PICK at : at = PlayTimes(first, q)
  OBVIOUS
<1>3. /\ Len(q) > 0 => at[1] = first
      /\ \A i \in 2..Len(q) : at[i] = at[i - 1] + q[i - 1].dur
      /\ \A i \in 1..Len(q) : at[i] \in Int
  BY <1>2, TimesFacts
<1>4. PICK T : T = {i \in 0..n : i > 0 => at[i] = first}
  OBVIOUS
<1>5. ASSUME NEW j \in 1..n, j - 1 \in T PROVE j \in T
  <2>1. CASE j = 1
    BY <1>1, <1>3, <1>4, <2>1
  <2>2. CASE j # 1
    <3>1. j \in 2..Len(q) /\ j - 1 \in 1..Len(q) /\ j - 1 > 0
      BY <1>1, <2>2
    <3>2. at[j] = at[j - 1] + q[j - 1].dur /\ q[j - 1].dur = 0 /\ at[j - 1] = first
      BY <1>3, <1>4, <1>5, <3>1
    <3> QED BY <1>4, <3>2
  <2> QED BY <2>1, <2>2
<1>6. ASSUME NEW i \in 1..n PROVE i \in T
  <2>1. i \in Nat /\ 0 \in T /\ \A j \in 1..i : j - 1 \in T => j \in T
    BY <1>4, <1>5
  <2> QED BY <2>1, PlayUpTo
<1> QED BY <1>1, <1>2, <1>4, <1>6

\* writeSample on a track that has nothing in the window yet.
LEMMA SampleBefore ==
    ASSUME NEW t \in PlayTracks, NEW c \in BOOLEAN, NEW tr \in PlayTrackSet, NEW w,
           PlayTrackOk(t, c, tr, w), NEW dts \in Int, NEW s, tr.first < 0,
           PlayFits(t, c, PlayView(tr), dts, s),
           NEW first \in Int, NEW last \in Nat, IF dts < 0 THEN first = tr.first ELSE first = dts /\ last = dts,
           NEW new, new = [first |-> first, last |-> last, queue |-> Append(IF s.key THEN <<>> ELSE tr.queue, s)]
    PROVE  /\ new \in PlayTrackSet /\ PlayTrackOk(t, c, new, w)
           /\ PlayView(new) = [in |-> first >= 0, last |-> last, tail |-> s]
<1>1. PICK q \in Seq(PlaySamples) : q = tr.queue
  BY QueueElement
<1>2. PICK n \in Nat : n = Len(q)
  OBVIOUS
<1>3. tr.first \in Int /\ ~(tr.first >= 0) /\ w = PlayNone
  BY QueueElement DEF PlayTrackOk, PlayFollows
<1>4. PICK v : v = PlayView(tr)
  OBVIOUS
<1>5. /\ ~v.in /\ (q = <<>> => v.tail = PlayNone) /\ (q # <<>> => v.tail = PlayLast(q))
  BY <1>1, <1>3, <1>4, ViewFacts
<1>6. /\ s \in PlaySamples /\ s.dur = 0 /\ (IF s.is = "real" THEN s.taken = dts ELSE s.key)
      /\ t = "video" /\ s.is = "real" /\ ~s.key => PlayTaken(v.tail) /\ v.tail.taken + v.tail.len = dts
      /\ t = "video" /\ c => dts <= PlayHole
  BY <1>4, <1>5 DEF PlayFits
<1>7. /\ \A i \in 1..n : q[i].dur = 0 /\ ~(q[i].is = "real" /\ q[i].taken >= 0)
      /\ q # <<>> => PlayLinkOk(t, w, q[1])
      /\ \A i \in 2..n : PlayLinkOk(t, q[i - 1], q[i])
  BY <1>1, <1>2, <1>3 DEF PlayTrackOk, PlayTimed, PlayLinked
<1>8. s.taken \in Int
  BY <1>6 DEF PlaySamples
<1>9. ~PlayTaken(w)
  BY <1>3 DEF PlayTaken
<1>10. PlayLong \in Nat
  BY HoleNat
<1>11. CASE s.key \/ q = <<>>
  <2>1. <<>> \in Seq(PlaySamples)
    OBVIOUS
  <2>2. PICK b \in Seq(PlaySamples) : b = <<>>
    BY <2>1
  <2>3. new = [first |-> first, last |-> last, queue |-> Append(b, s)]
    BY <1>1, <1>11, <2>2
  <2>4. PlayLinkOk(t, w, s)
    BY <1>5, <1>6, <1>9, <1>11 DEF PlayLinkOk, PlayTaken
  <2>5. Len(b) = 0
    BY <2>2
  <2>6. first >= 0 => first = last /\ dts >= 0
    BY <1>3
  <2>7. (s.is = "real" /\ s.taken >= 0 => first >= 0) /\ (s.is = "real" /\ first >= 0 => s.taken = last)
    BY <1>6, <2>6
  <2>8. first >= 0 => first <= PlayHole \/ ~(t = "video" /\ c)
    BY <1>6, <2>6
  <2>9. PlayAppends(t, c, first, last, b, s, w)
    BY <1>3, <1>6, <2>2, <2>4, <2>5, <2>6, <2>7, <2>8 DEF PlayAppends
  <2> QED BY <2>3, <2>9, AppendOk
<1>12. CASE ~s.key /\ q # <<>>
  <2>1. new = [first |-> first, last |-> last, queue |-> Append(q, s)]
    BY <1>1, <1>12
  <2>2. n > 0 /\ PlayLast(q) = q[n] /\ q[n] \in PlaySamples
    BY <1>2, <1>12 DEF PlayLast
  <2>3. PlayLinkOk(t, q[n], s)
    <3>1. s.is = "real"
      BY <1>6, <1>12
    <3> QED BY <1>5, <1>6, <1>12, <2>2, <3>1 DEF PlayLinkOk
  <2>4. first >= 0 => first = last /\ dts >= 0
    BY <1>3
  <2>5. (s.is = "real" /\ s.taken >= 0 => first >= 0) /\ (s.is = "real" /\ first >= 0 => s.taken = last)
    BY <1>6, <2>4
  <2>6. first >= 0 => first <= PlayHole \/ ~(t = "video" /\ c)
    BY <1>6, <2>4
  <2>7. PlayTimes(first, q)[n] = first /\ q[n].dur = 0
    <3>1. \A i \in 1..Len(q) : q[i].dur = 0
      BY <1>2, <1>7
    <3>2. \A i \in 1..Len(q) : PlayTimes(first, q)[i] = first
      BY <3>1, TimesStill
    <3> QED BY <1>2, <2>2, <3>1, <3>2
  <2>8. first >= 0 => PlayTimes(first, q)[Len(q)] + q[Len(q)].dur = last
    BY <1>2, <2>4, <2>7
  <2>9. \A i \in 1..Len(q) : q[i].dur <= PlayLong
    BY <1>2, <1>7, <1>10
  <2>10. /\ PlayLinkOk(t, w, q[1]) /\ PlayLinkOk(t, q[Len(q)], s)
         /\ \A i \in 2..Len(q) : PlayLinkOk(t, q[i - 1], q[i])
    BY <1>2, <1>7, <1>12, <2>3
  <2>11. \A i \in 1..Len(q) : q[i].is = "real" /\ q[i].taken >= 0 => first >= 0 /\ PlayTimes(first, q)[i] = q[i].taken
    BY <1>2, <1>7
  <2>12. first < 0 => s.dur = 0 /\ \A i \in 1..Len(q) : q[i].dur = 0
    BY <1>2, <1>6, <1>7
  <2>13. PlayAppends(t, c, first, last, q, s, w)
    BY <1>3, <1>6, <1>12, <2>5, <2>6, <2>8, <2>9, <2>10, <2>11, <2>12 DEF PlayAppends
  <2> QED BY <2>1, <2>13, AppendOk
<1> QED BY <1>11, <1>12

\* writeSample on a track that is in the window.
LEMMA SampleAfter ==
    ASSUME NEW t \in PlayTracks, NEW c \in BOOLEAN, NEW tr \in PlayTrackSet, NEW w,
           PlayTrackOk(t, c, tr, w), NEW dts \in Int, NEW s, tr.first >= 0,
           PlayFits(t, c, PlayView(tr), dts, s),
           NEW new, new = [first |-> tr.first, last |-> dts, queue |-> Append(PlayLasting(tr, dts), s)]
    PROVE  /\ new \in PlayTrackSet /\ PlayTrackOk(t, c, new, w) /\ dts >= 0
           /\ PlayView(new) = [in |-> tr.first >= 0, last |-> dts, tail |-> s]
<1>1. PICK q \in Seq(PlaySamples) : q = tr.queue
  BY QueueElement
<1>2. PICK n \in Nat : n = Len(q)
  OBVIOUS
<1>3. q # <<>> /\ n > 0 /\ tr.first \in Int /\ tr.last \in Nat /\ q[n] \in PlaySamples
  BY <1>1, <1>2, QueueElement DEF PlayTrackOk, PlayTimed
<1>4. PICK v : v = PlayView(tr)
  OBVIOUS
<1>5. /\ v.in /\ v.last = tr.last /\ v.tail = q[n]
  BY <1>1, <1>2, <1>3, <1>4, ViewFacts DEF PlayLast
<1>6. /\ s \in PlaySamples /\ s.dur = 0 /\ (IF s.is = "real" THEN s.taken = dts ELSE s.key)
      /\ tr.last <= dts
      /\ t = "video" /\ c => dts - tr.last <= PlayLong
  BY <1>4, <1>5 DEF PlayFits
<1>7. dts \in Nat
  BY <1>3, <1>6
<1>8. PICK b : b = PlayLasting(tr, dts)
  OBVIOUS
<1>9. PlayLasts(q, b, n, dts - tr.last)
  <2>1. tr.queue # <<>> /\ n = Len(tr.queue)
    BY <1>1, <1>2, <1>3
  <2>2. PlayLasts(tr.queue, b, n, PlayMax(dts - tr.last, 0))
    BY <1>8, <2>1, LastingFacts
  <2>3. PlayMax(dts - tr.last, 0) = dts - tr.last
    BY <1>3, <1>6 DEF PlayMax
  <2> QED BY <1>1, <2>2, <2>3
<1>10. /\ b \in Seq(PlaySamples) /\ Len(b) = n /\ b # <<>> /\ b[n].dur = dts - tr.last
       /\ b[n].is = q[n].is /\ b[n].taken = q[n].taken /\ b[n].len = q[n].len
       /\ b[n].offset = q[n].offset /\ b[n] \in PlaySamples
  <2>1. n \in 1..n
    BY <1>3
  <2> QED BY <1>9, <2>1 DEF PlayLasts
<1>11. /\ PlayTimes(tr.first, b)[n] = tr.last
       /\ \A i \in 1..n :
            b[i].is = "real" /\ b[i].taken >= 0 => PlayTimes(tr.first, b)[i] = b[i].taken
       /\ PlayLinkOk(t, w, b[1])
       /\ \A i \in 2..n : PlayLinkOk(t, b[i - 1], b[i])
       /\ t = "video" /\ c => \A i \in 1..n - 1 : b[i].dur <= PlayLong
  BY <1>1, <1>2, <1>8, LastingOk
<1>12. PlayLinkOk(t, b[n], s)
  <2>1. PlayTaken(b[n]) <=> PlayTaken(v.tail)
    BY <1>3, <1>5, <1>10, NoSample DEF PlayTaken
  <2>2. b[n].offset \in Nat
    BY <1>10 DEF PlaySamples
  <2>3. b[n].taken = v.tail.taken /\ b[n].len = v.tail.len /\ b[n].offset = v.tail.offset /\ v.last \in Int
    BY <1>3, <1>5, <1>10
  <2>4. PlayFits(t, c, v, dts, s)
    BY <1>4
  <2> QED BY <1>5, <1>10, <2>1, <2>2, <2>3, <2>4, LinkFits
<1>13. /\ w # PlayNone => w.at + w.dur = tr.first
       /\ t = "video" /\ c => (w = PlayNone => tr.first <= PlayHole)
  BY <1>3 DEF PlayTrackOk, PlayFollows, PlayCovered
<1>14. ASSUME t = "video", c, NEW i \in 1..n PROVE b[i].dur <= PlayLong
  <2>1. CASE i = n
    BY <1>6, <1>10, <1>14, <2>1
  <2>2. CASE i # n
    <3>1. i \in 1..n - 1
      BY <2>2
    <3> QED BY <1>11, <1>14, <3>1
  <2> QED BY <2>1, <2>2
<1>15. new = [first |-> tr.first, last |-> dts, queue |-> Append(b, s)] /\ ~(tr.first < 0)
  BY <1>3, <1>8
<1>16. PlayTimes(tr.first, b)[n] + b[n].dur = dts
  BY <1>3, <1>10, <1>11
<1>17. /\ new \in PlayTrackSet /\ PlayTrackOk(t, c, new, w)
       /\ PlayView(new) = [in |-> tr.first >= 0, last |-> dts, tail |-> s]
  <2>1. PlayAppends(t, c, tr.first, dts, b, s, w)
    BY <1>3, <1>6, <1>7, <1>10, <1>11, <1>12, <1>13, <1>14, <1>15, <1>16 DEF PlayAppends
  <2> QED BY <1>15, <2>1, AppendOk
<1> QED BY <1>7, <1>17

\* What the next operation sees after a sample.
PlayAfterSample(v, dts, s) ==
    [in |-> v.in \/ dts >= 0, last |-> IF dts >= 0 THEN dts ELSE v.last, tail |-> s]

PlayTrackPuts(t, c, w, new, view) == new \in PlayTrackSet /\ PlayTrackOk(t, c, new, w) /\ PlayView(new) = view

\* writeSample on a track keeps it right.
LEMMA PutTrackFacts ==
    ASSUME NEW t \in PlayTracks, NEW c \in BOOLEAN, NEW tr \in PlayTrackSet, NEW w,
           PlayTrackOk(t, c, tr, w), NEW dts \in Int, NEW s,
           PlayFits(t, c, PlayView(tr), dts, s), NEW new, new = PlayPutTrack(tr, dts, s)
    PROVE  PlayTrackPuts(t, c, w, new, PlayAfterSample(PlayView(tr), dts, s))
<1>1. tr.first \in Int /\ tr.last \in Nat /\ (PlayView(tr).in <=> tr.first >= 0) /\ PlayView(tr).last = tr.last
  BY QueueElement, ViewFacts
<1>2. tr.first >= 0 => tr.last <= dts
  BY <1>1 DEF PlayFits
<1>3. CASE tr.first < 0
  <2>1. PICK first \in Int : first = IF dts < 0 THEN tr.first ELSE dts
    BY <1>1
  <2>2. PICK last \in Nat : last = IF dts < 0 THEN tr.last ELSE dts
    BY <1>1
  <2>3. PICK q : q = Append(IF s.key THEN <<>> ELSE tr.queue, s)
    OBVIOUS
  <2>4. PlayQueue(tr, dts, s) = IF s.key THEN <<>> ELSE tr.queue
    BY <1>3 DEF PlayQueue
  <2>5. new = [first |-> first, last |-> last, queue |-> q]
    <3>1. q = Append(PlayQueue(tr, dts, s), s)
      BY <2>3, <2>4, Zenon
    <3>2. CASE dts < 0
      <4>1. new = [tr EXCEPT !.queue = q] /\ first = tr.first /\ last = tr.last
        BY <2>1, <2>2, <3>1, <3>2 DEF PlayPutTrack
      <4> QED BY <4>1 DEF PlayTrackSet
    <3>3. CASE ~(dts < 0)
      <4>1. new = [first |-> IF tr.first < 0 THEN dts ELSE tr.first, last |-> dts, queue |-> q]
        BY <3>1, <3>3, Zenon DEF PlayPutTrack
      <4> QED BY <1>3, <2>1, <2>2, <3>3, <4>1
    <3> QED BY <3>2, <3>3
  <2>6. IF dts < 0 THEN first = tr.first ELSE first = dts /\ last = dts
    BY <2>1, <2>2
  <2>7. new = [first |-> first, last |-> last, queue |-> Append(IF s.key THEN <<>> ELSE tr.queue, s)]
    BY <2>3, <2>5, Zenon
  <2>8. /\ new \in PlayTrackSet /\ PlayTrackOk(t, c, new, w)
        /\ PlayView(new) = [in |-> first >= 0, last |-> last, tail |-> s]
    BY <1>3, <2>6, <2>7, SampleBefore
  <2>9. (first >= 0) = (PlayView(tr).in \/ dts >= 0)
    BY <1>1, <1>3, <2>1
  <2>10. last = IF dts >= 0 THEN dts ELSE PlayView(tr).last
    BY <1>1, <2>2
  <2>11. PlayView(new) = PlayAfterSample(PlayView(tr), dts, s)
    BY <2>8, <2>9, <2>10, Zenon DEF PlayAfterSample
  <2> QED BY <2>8, <2>11 DEF PlayTrackPuts
<1>4. CASE ~(tr.first < 0)
  <2>1. tr.first >= 0 /\ ~(dts < 0) /\ dts >= 0
    BY <1>1, <1>2, <1>4
  <2>2. new = [first |-> tr.first, last |-> dts, queue |-> Append(PlayLasting(tr, dts), s)]
    BY <1>4, <2>1, Zenon DEF PlayPutTrack, PlayQueue
  <2>3. /\ new \in PlayTrackSet /\ PlayTrackOk(t, c, new, w) /\ dts >= 0
        /\ PlayView(new) = [in |-> tr.first >= 0, last |-> dts, tail |-> s]
    BY <2>1, <2>2, SampleAfter
  <2>4. (tr.first >= 0) = (PlayView(tr).in \/ dts >= 0)
    BY <1>1, <2>1
  <2>5. dts = IF dts >= 0 THEN dts ELSE PlayView(tr).last
    BY <2>1
  <2>6. PlayView(new) = PlayAfterSample(PlayView(tr), dts, s)
    BY <2>3, <2>4, <2>5, Zenon DEF PlayAfterSample
  <2> QED BY <2>3, <2>6 DEF PlayTrackPuts
<1> QED BY <1>3, <1>4

\* A muxer with another view of a track.
PlayPuts(c, m, t, view, r) ==
    /\ r \in PlayMuxers /\ PlayMuxOk(c, r)
    /\ PlayView(r.tracks[t]) = view
    /\ \A u \in PlayTracks \ {t} : PlayView(r.tracks[u]) = PlayView(m.tracks[u])

\* A muxer with one track changed to a right one is right.
LEMMA PutFacts ==
    ASSUME NEW c \in BOOLEAN, NEW m \in PlayMuxers, PlayMuxOk(c, m), NEW t \in PlayTracks,
           NEW new, NEW view, PlayTrackPuts(t, c, PlayLast(m.wrote[t]), new, view),
           NEW r, r = [m EXCEPT !.tracks[t] = new]
    PROVE  PlayPuts(c, m, t, view, r)
<1>1. new \in PlayTrackSet /\ PlayTrackOk(t, c, new, PlayLast(m.wrote[t])) /\ PlayView(new) = view
  BY DEF PlayTrackPuts
<1>2. r \in PlayMuxers /\ r.wrote = m.wrote /\ r.tracks[t] = new /\ \A u \in PlayTracks \ {t} : r.tracks[u] = m.tracks[u]
  BY <1>1 DEF PlayMuxers
<1>3. PlayMuxOk(c, r)
  <2>1. ASSUME NEW u \in PlayTracks
        PROVE  PlayWroteOk(u, c, r.wrote[u]) /\ PlayTrackOk(u, c, r.tracks[u], PlayLast(r.wrote[u]))
    <3>1. CASE u = t
      BY <1>1, <1>2, <3>1 DEF PlayMuxOk
    <3>2. CASE u # t
      BY <1>2, <3>2 DEF PlayMuxOk
    <3> QED BY <3>1, <3>2
  <2> QED BY <2>1 DEF PlayMuxOk
<1> QED BY <1>1, <1>2, <1>3 DEF PlayPuts

\* writeSample.
LEMMA SampleFacts ==
    ASSUME NEW c \in BOOLEAN, NEW m \in PlayMuxers, PlayMuxOk(c, m), NEW t \in PlayTracks,
           NEW dts \in Int, NEW s, PlayFits(t, c, PlayView(m.tracks[t]), dts, s),
           NEW r, r = PlaySample(m, t, dts, s)
    PROVE  PlayPuts(c, m, t, PlayAfterSample(PlayView(m.tracks[t]), dts, s), r)
<1>1. PICK tr \in PlayTrackSet : tr = m.tracks[t]
  BY MuxerType
<1>2. PICK new : new = PlayPutTrack(tr, dts, s)
  OBVIOUS
<1>3. PICK put : put = [m EXCEPT !.tracks[t] = new]
  OBVIOUS
<1>4. PICK view : view = PlayAfterSample(PlayView(m.tracks[t]), dts, s)
  OBVIOUS
<1>5. PlayTrackPuts(t, c, PlayLast(m.wrote[t]), new, view)
  <2>1. PlayTrackOk(t, c, tr, PlayLast(m.wrote[t]))
    BY <1>1 DEF PlayMuxOk
  <2> QED BY <1>1, <1>2, <1>4, <2>1, PutTrackFacts
<1>6. PlayPuts(c, m, t, view, put)
  BY <1>3, <1>5, PutFacts
<1>7. r = put \/ r = PlayFlush(put)
  BY <1>1, <1>2, <1>3 DEF PlaySample, PlayPutTrack
<1>8. CASE r = put
  BY <1>4, <1>6, <1>8
<1>9. CASE r = PlayFlush(put)
  <2>1. put \in PlayMuxers /\ PlayMuxOk(c, put)
    BY <1>6 DEF PlayPuts
  <2>2. /\ r \in PlayMuxers /\ PlayMuxOk(c, r)
        /\ \A u \in PlayTracks : PlayView(r.tracks[u]) = PlayView(put.tracks[u])
    BY <1>9, <2>1, FlushFacts
  <2> QED BY <1>4, <1>6, <2>2 DEF PlayPuts
<1> QED BY <1>7, <1>8, <1>9

\* writeFinalDTS.
PlayAfterFinal(v, dts) ==
    IF v.in THEN [v EXCEPT !.tail = [@ EXCEPT !.dur = PlayMax(dts - v.last, 0)]] ELSE v

\* writeFinalDTS keeps the muxer right.
LEMMA FinalFacts ==
    ASSUME NEW c \in BOOLEAN, NEW m \in PlayMuxers, PlayMuxOk(c, m), NEW t \in PlayTracks,
           NEW dts \in Int, NEW r, r = PlayFinal(m, t, dts)
    PROVE  PlayPuts(c, m, t, PlayAfterFinal(PlayView(m.tracks[t]), dts), r)
<1>1. PICK tr \in PlayTrackSet : tr = m.tracks[t]
  BY MuxerType
<1>2. PICK v : v = PlayView(tr)
  OBVIOUS
<1>3. tr.first \in Int /\ (v.in <=> tr.first >= 0) /\ v.last = tr.last
  BY <1>2, QueueElement, ViewFacts
<1>4. CASE tr.first < 0
  <2>1. r = m /\ PlayAfterFinal(v, dts) = v
    BY <1>1, <1>3, <1>4 DEF PlayFinal, PlayAfterFinal
  <2> QED BY <1>1, <1>2, <2>1 DEF PlayPuts
<1>5. CASE ~(tr.first < 0)
  <2>1. PICK q : q = PlayLasting(tr, dts)
    OBVIOUS
  <2>2. PICK new : new = [tr EXCEPT !.queue = q]
    OBVIOUS
  <2>3. PICK w : w = PlayLast(m.wrote[t])
    OBVIOUS
  <2>4. tr.first >= 0 /\ PlayTrackOk(t, c, tr, w)
    BY <1>1, <1>3, <1>5, <2>3 DEF PlayMuxOk
  <2>5. /\ new \in PlayTrackSet /\ PlayTrackOk(t, c, new, w)
        /\ PlayView(new) =
                [in |-> tr.first >= 0, last |-> tr.last,
                 tail |-> [PlayLast(tr.queue) EXCEPT !.dur = PlayMax(dts - tr.last, 0)]]
    BY <2>1, <2>2, <2>4, FinalTrack
  <2>6. v = [in |-> tr.first >= 0, last |-> tr.last, tail |-> PlayLast(tr.queue)]
    BY <1>2, <2>4 DEF PlayView, PlayTrackOk, PlayTimed
  <2>7. PlayView(new) = PlayAfterFinal(v, dts)
    <3>1. PICK d : d = PlayMax(dts - tr.last, 0)
      OBVIOUS
    <3>2. PICK a : a = PlayLast(tr.queue)
      OBVIOUS
    <3>3. PICK e : e = [a EXCEPT !.dur = d]
      OBVIOUS
    <3>4. PlayAfterFinal(v, dts) = [v EXCEPT !.tail = e]
      BY <1>3, <2>4, <2>6, <3>1, <3>2, <3>3 DEF PlayAfterFinal
    <3>5. PlayView(new) = [in |-> tr.first >= 0, last |-> tr.last, tail |-> e]
      BY <2>5, <3>1, <3>2, <3>3
    <3> QED BY <2>6, <3>4, <3>5
  <2>8. PlayTrackPuts(t, c, w, new, PlayAfterFinal(v, dts))
    BY <2>5, <2>7 DEF PlayTrackPuts
  <2>9. r = [m EXCEPT !.tracks[t] = new]
    <3>1. [m EXCEPT !.tracks[t] = new] = [m EXCEPT !.tracks[t] = [m.tracks[t] EXCEPT !.queue = q]]
      BY <1>1, <2>2
    <3>2. r = [m EXCEPT !.tracks[t].queue = PlayLasting(m.tracks[t], dts)]
      BY <1>1, <1>5 DEF PlayFinal
    <3> QED BY <1>1, <2>1, <2>2, <3>2
  <2> QED BY <1>1, <1>2, <2>3, <2>8, <2>9, PutFacts
<1> QED BY <1>4, <1>5

-----------------------------------------------------------------------------
(* Placeholders, a second apart.                                           *)

\* A quotient rounds down.
LEMMA Quotient ==
    ASSUME NEW x \in Nat, NEW S \in Nat \ {0}, NEW n, n = x \div S
    PROVE  n \in Nat /\ n * S <= x /\ x < (n + 1) * S
OBVIOUS

\* A product with one more and with one less.
LEMMA Product ==
    ASSUME NEW i \in Int, NEW S \in Int
    PROVE  (i - 1) * S = i * S - S /\ (i + 1) * S = i * S + S /\ i * S \in Int
OBVIOUS

\* A product of natural numbers.
LEMMA ProductNat == ASSUME NEW i \in Nat, NEW S \in Nat PROVE i * S \in Nat
OBVIOUS

\* The last turn is the one before the target.
LEMMA TickFacts ==
    ASSUME NEW from \in Int, NEW to \in Int, NEW n, n = PlayTicks(from, to)
    PROVE  /\ n \in Nat
           /\ to <= from => n = 0
           /\ from < to => n > 0 /\ from + (n - 1) * PlaySecond < to /\ to <= from + n * PlaySecond
<1>1. PICK S \in Nat \ {0} : S = PlaySecond
  BY PlayAssumption
<1>2. PICK d \in Nat : d = PlayMax(to - from, 0)
  <2>1. PICK x \in Int : x = to - from
    OBVIOUS
  <2>2. PlayMax(x, 0) \in Nat
    BY DEF PlayMax
  <2> QED BY <2>1, <2>2
<1>3. n = (d + S - 1) \div S /\ d + S - 1 \in Nat
  BY <1>1, <1>2 DEF PlayTicks
<1>4. n \in Nat /\ n * S <= d + S - 1 /\ d + S - 1 < (n + 1) * S
  BY <1>3, Quotient
<1>5. (n - 1) * S = n * S - S /\ (n + 1) * S = n * S + S /\ n * S \in Int
  BY <1>1, <1>4, Product
<1>6. to <= from => n = 0
  <2>1. ASSUME to <= from, n > 0 PROVE FALSE
    <3>1. d = 0
      BY <1>2, <2>1 DEF PlayMax
    <3>2. (n - 1) * S \in Nat
      BY <1>4, <2>1, ProductNat
    <3> QED BY <1>4, <1>5, <3>1, <3>2
  <2> QED BY <1>4, <2>1
<1>7. ASSUME from < to PROVE n > 0 /\ from + (n - 1) * S < to /\ to <= from + n * S
  <2>1. d = to - from
    BY <1>2, <1>7 DEF PlayMax
  <2>2. n = 0 => n * S = 0
    BY <1>1
  <2> QED BY <1>4, <1>5, <1>7, <2>1, <2>2
<1> QED BY <1>1, <1>4, <1>6, <1>7

PlayGapSample == PlayPlaceholder("gap")
PlayHoleSample == PlayPlaceholder("hole")

\* What a placeholder is.
LEMMA PlaceholderFacts ==
    /\ PlayGapSample \in PlaySamples /\ PlayGapSample.dur = 0 /\ PlayGapSample.is = "gap" /\ PlayGapSample.key
    /\ PlayHoleSample \in PlaySamples /\ PlayHoleSample.dur = 0 /\ PlayHoleSample.is = "hole" /\ PlayHoleSample.key
BY DEF PlayGapSample, PlayHoleSample, PlayPlaceholder, PlaySamples

BlackNext(m, from, g, i) ==
    IF i = 0 THEN m ELSE PlaySample(g[i - 1], "video", from + (i - 1) * PlaySecond, PlayGapSample)
BlackTo(m, from, g, n) == g = [i \in 0..n |-> BlackNext(m, from, g, i)]

\* The loop of writeBlackGap exists.
LEMMA BlackExists ==
    ASSUME NEW m, NEW from, NEW k \in Nat PROVE \E g : BlackTo(m, from, g, k)
<1>1. PICK T : T = {n \in 0..k : \E g : BlackTo(m, from, g, n)}
  OBVIOUS
<1>2. 0 \in T
  <2>1. PICK g : g = [i \in 0..0 |-> m]
    OBVIOUS
  <2>2. BlackTo(m, from, g, 0)
    BY <2>1 DEF BlackTo, BlackNext
  <2> QED BY <1>1, <2>2
<1>3. ASSUME NEW n \in 1..k, n - 1 \in T PROVE n \in T
  <2>1. PICK g : BlackTo(m, from, g, n - 1)
    BY <1>1, <1>3
  <2>2. PICK h : h = [i \in 0..n |-> IF i = n THEN BlackNext(m, from, g, n) ELSE g[i]]
    OBVIOUS
  <2>3. ASSUME NEW i \in 0..n PROVE h[i] = BlackNext(m, from, h, i)
    <3>1. CASE i = n
      <4>1. h[n] = BlackNext(m, from, g, n) /\ h[n - 1] = g[n - 1]
        BY <2>2
      <4> QED BY <3>1, <4>1 DEF BlackNext
    <3>2. CASE i # n
      <4>1. i \in 0..(n - 1) /\ h[i] = g[i] /\ (i # 0 => h[i - 1] = g[i - 1])
        BY <2>2, <3>2
      <4>2. g[i] = BlackNext(m, from, g, i)
        BY <2>1, <4>1 DEF BlackTo
      <4> QED BY <4>1, <4>2 DEF BlackNext
    <3> QED BY <3>1, <3>2
  <2>4. h = [i \in 0..n |-> h[i]]
    BY <2>2
  <2>5. BlackTo(m, from, h, n)
    BY <2>3, <2>4 DEF BlackTo
  <2> QED BY <1>1, <2>5
<1>4. k \in T
  BY <1>2, <1>3, PlayUpTo
<1> QED BY <1>1, <1>4

\* The turns of writeBlackGap.
LEMMA BlackTurns ==
    ASSUME NEW m, NEW from, NEW k \in Nat, NEW g, g = PlayBlackLoop(m, from, k)
    PROVE  /\ g[0] = m
           /\ \A i \in 1..k : g[i] = PlaySample(g[i - 1], "video", from + (i - 1) * PlaySecond, PlayGapSample)
<1>1. PICK h : h = CHOOSE x : BlackTo(m, from, x, k)
  OBVIOUS
<1>2. BlackTo(m, from, h, k)
  BY <1>1, BlackExists
<1>3. g = h
  BY <1>1 DEF PlayBlackLoop, BlackTo, BlackNext, PlayGapSample
<1>4. \A i \in 0..k : h[i] = BlackNext(m, from, h, i)
  BY <1>2 DEF BlackTo
<1> QED BY <1>3, <1>4 DEF BlackNext

\* writeBlackGap covers what lies before a time.
PlayBlacked(c, m, from, to, r) ==
    IF to <= from THEN r = m
    ELSE /\ r \in PlayMuxers /\ PlayMuxOk(c, r)
         /\ PlayView(r.tracks["audio"]) = PlayView(m.tracks["audio"])
         /\ \E last \in Nat, tail \in PlaySamples :
              /\ PlayView(r.tracks["video"]) = [in |-> last >= 0, last |-> last, tail |-> tail]
              /\ from <= last /\ last < to /\ tail.is = "gap" /\ tail.dur = to - last
              /\ tail.dur <= PlaySecond

\* writeBlackGap keeps the muxer right, and its last placeholder lasts until the end of the gap.
LEMMA BlackFacts ==
    ASSUME NEW c \in BOOLEAN, NEW m \in PlayMuxers, PlayMuxOk(c, m), NEW from \in Nat, NEW to \in Int,
           NEW v, v = PlayView(m.tracks["video"]), v.in => v.last <= from,
           c => (v.in => from - v.last <= PlayLong) /\ (~v.in => from <= PlayHole),
           NEW r, r = PlayBlack(m, from, to)
    PROVE  PlayBlacked(c, m, from, to, r)
<1>1. CASE to <= from
  BY <1>1 DEF PlayBlack, PlayBlacked
<1>2. CASE ~(to <= from)
  <2>1. PICK S \in Nat \ {0} : S = PlaySecond
    BY PlayAssumption
  <2>2. PICK n \in Nat : n = PlayTicks(from, to)
    BY TickFacts
  <2>3. n > 0 /\ from + (n - 1) * S < to /\ to <= from + n * S
    BY <1>2, <2>1, <2>2, TickFacts
  <2>4. PICK g : g = PlayBlackLoop(m, from, n)
    OBVIOUS
  <2>5. /\ g[0] = m
        /\ \A i \in 1..n : g[i] = PlaySample(g[i - 1], "video", from + (i - 1) * S, PlayGapSample)
    BY <2>1, <2>4, BlackTurns
  <2>6. PICK vid \in PlayTracks : vid = "video"
    BY DEF PlayTracks
  <2>7. "audio" \in PlayTracks /\ "audio" # vid
    BY <2>6 DEF PlayTracks
  <2>8. PICK T : T = {i \in 0..n : /\ g[i] \in PlayMuxers /\ PlayMuxOk(c, g[i])
                                  /\ PlayView(g[i].tracks["audio"]) = PlayView(m.tracks["audio"])
                                  /\ IF i = 0 THEN g[i] = m
                                     ELSE PlayView(g[i].tracks[vid]) =
                                            [in |-> from + (i - 1) * S >= 0, last |-> from + (i - 1) * S,
                                             tail |-> PlayGapSample]}
    OBVIOUS
  <2>9. 0 \in T
    BY <2>5, <2>8
  <2>10. S <= PlayLong
    <3>1. PlaySegments \in Nat \ {0} /\ PlayThreshold \in Nat
      BY PlayAssumption
    <3>2. PICK a \in Nat : a = PlaySegments * PlayThreshold
      BY <3>1, ProductNat
    <3>3. PICK b \in Nat : b = (PlaySegments - 1) * PlayMostStall
      BY <3>1, MostFacts, ProductNat
    <3>4. PlayMax(PlayMostOffset, S) \in Nat /\ PlayMax(PlayMostOffset, S) >= S
      BY MostFacts DEF PlayMax
    <3>5. PlayHole = a + b + PlayMax(PlayMostOffset, S) + PlayMostLength - 1 /\ PlayLong = PlayHole + PlayMostLength
      BY <2>1, <3>2, <3>3, HoleNat
    <3> QED BY <3>2, <3>3, <3>4, <3>5, MostFacts
  <2>11. ASSUME NEW i \in 1..n, i - 1 \in T PROVE i \in T
    <3>1. PICK dts \in Nat : dts = from + (i - 1) * S /\ dts >= from
      <4>1. i - 1 \in Nat
        OBVIOUS
      <4>2. (i - 1) * S \in Nat
        BY <4>1, ProductNat
      <4> QED BY <4>2
    <3>2. PICK p \in PlayMuxers : p = g[i - 1]
      BY <2>8, <2>11
    <3>3. PlayMuxOk(c, p) /\ PlayView(p.tracks["audio"]) = PlayView(m.tracks["audio"])
      BY <2>8, <2>11, <3>2
    <3>4. PICK u : u = PlayView(p.tracks[vid])
      OBVIOUS
    <3>5. /\ u.in => u.last \in Int /\ u.last <= dts
          /\ c => (u.in => dts - u.last <= PlayLong) /\ (~u.in => dts <= PlayHole)
      <4>1. CASE i = 1
        <5>1. p = m
          BY <2>8, <2>11, <3>2, <4>1
        <5>2. dts = from
          BY <3>1, <4>1
        <5>3. v = u
          BY <2>6, <3>4, <5>1
        <5>4. v.last \in Int
          BY <2>6, MuxerType, ViewFacts
        <5> QED BY <3>1, <5>2, <5>3, <5>4
      <4>2. CASE i # 1
        <5>1. (i - 1) # 0 /\ (i - 1) - 1 \in Nat /\ i - 1 \in Int
          BY <4>2
        <5>2. (i - 1) * S = ((i - 1) - 1) * S + S /\ ((i - 1) - 1) * S \in Nat
          BY <5>1, Product, ProductNat
        <5>3. PICK e \in Nat : e = from + ((i - 1) - 1) * S
          BY <5>2
        <5>4. u = [in |-> e >= 0, last |-> e, tail |-> PlayGapSample]
          BY <2>8, <2>11, <3>2, <3>4, <5>1, <5>3
        <5>5. dts = e + S
          BY <3>1, <5>2, <5>3
        <5> QED BY <2>10, <5>4, <5>5
      <4> QED BY <4>1, <4>2
    <3>6. PlayFits(vid, c, u, dts, PlayGapSample)
      BY <3>5, PlaceholderFacts DEF PlayFits
    <3>7. g[i] = PlaySample(p, vid, dts, PlayGapSample)
      BY <2>5, <2>6, <3>1, <3>2
    <3>8. PlayPuts(c, p, vid, PlayAfterSample(u, dts, PlayGapSample), g[i])
      BY <3>3, <3>4, <3>6, <3>7, SampleFacts
    <3>9. PlayAfterSample(u, dts, PlayGapSample) = [in |-> dts >= 0, last |-> dts, tail |-> PlayGapSample]
      BY <3>1 DEF PlayAfterSample
    <3>10. /\ g[i] \in PlayMuxers /\ PlayMuxOk(c, g[i])
           /\ PlayView(g[i].tracks[vid]) = [in |-> dts >= 0, last |-> dts, tail |-> PlayGapSample]
           /\ PlayView(g[i].tracks["audio"]) = PlayView(p.tracks["audio"])
      BY <2>7, <3>8, <3>9 DEF PlayPuts
    <3> QED BY <2>8, <3>1, <3>3, <3>10
  <2>12. n \in T
    BY <2>9, <2>11, PlayUpTo
  <2>13. PICK p \in PlayMuxers : p = g[n]
    BY <2>8, <2>12
  <2>14. PICK last \in Nat : last = from + (n - 1) * S
    <3>1. n - 1 \in Nat
      BY <2>3
    <3> QED BY <3>1, ProductNat
  <2>15. /\ PlayMuxOk(c, p) /\ PlayView(p.tracks["audio"]) = PlayView(m.tracks["audio"])
         /\ PlayView(p.tracks[vid]) = [in |-> last >= 0, last |-> last, tail |-> PlayGapSample]
    BY <2>3, <2>8, <2>12, <2>13, <2>14
  <2>16. r = PlayFinal(p, vid, to)
    BY <1>2, <2>2, <2>4, <2>6, <2>13 DEF PlayBlack
  <2>17. PlayPuts(c, p, vid, PlayAfterFinal(PlayView(p.tracks[vid]), to), r)
    BY <2>15, <2>16, FinalFacts
  <2>18. from <= last /\ last < to /\ to - last <= S
    <3>1. n - 1 \in Nat /\ (n - 1) * S \in Nat
      BY <2>3, ProductNat
    <3>2. (n - 1) * S = n * S - S
      BY Product
    <3> QED BY <2>3, <2>14, <3>1, <3>2
  <2>19. PICK tail : tail = [PlayGapSample EXCEPT !.dur = to - last]
    OBVIOUS
  <2>20. tail \in PlaySamples /\ tail.is = "gap" /\ tail.dur = to - last
    BY <2>18, <2>19, PlaceholderFacts DEF PlaySamples
  <2>21. PlayAfterFinal(PlayView(p.tracks[vid]), to) = [in |-> last >= 0, last |-> last, tail |-> tail]
    <3>1. PlayMax(to - last, 0) = to - last
      BY <2>18 DEF PlayMax
    <3>2. PICK u : u = PlayView(p.tracks[vid])
      OBVIOUS
    <3>3. u.in /\ u.last = last /\ u.tail = PlayGapSample
      <4>1. u = [in |-> last >= 0, last |-> last, tail |-> PlayGapSample] /\ last >= 0
        BY <2>15, <3>2
      <4>2. (u.in <=> last >= 0) /\ u.last = last /\ u.tail = PlayGapSample
        BY <4>1
      <4> QED BY <4>1, <4>2
    <3>4. PlayAfterFinal(u, to) = [u EXCEPT !.tail = tail]
      BY <2>19, <3>1, <3>3 DEF PlayAfterFinal
    <3> QED BY <2>15, <3>2, <3>4
  <2>22. /\ r \in PlayMuxers /\ PlayMuxOk(c, r)
         /\ PlayView(r.tracks["video"]) = [in |-> last >= 0, last |-> last, tail |-> tail]
         /\ PlayView(r.tracks["audio"]) = PlayView(m.tracks["audio"])
    BY <2>6, <2>7, <2>15, <2>17, <2>21 DEF PlayPuts
  <2> QED BY <1>2, <2>1, <2>18, <2>20, <2>22 DEF PlayBlacked
<1> QED BY <1>1, <1>2

-----------------------------------------------------------------------------
(* videoFill.                                                              *)

FillNext(k, g, i) == IF i = 0 THEN k ELSE PlayPut(g[i - 1], k.f.end + (i - 1) * PlaySecond)
FillUpTo(k, g, n) == g = [i \in 0..n |-> FillNext(k, g, i)]

\* The loop of fillTo exists.
LEMMA FillExists ==
    ASSUME NEW k, NEW ticks \in Nat PROVE \E g : FillUpTo(k, g, ticks)
<1>1. PICK T : T = {n \in 0..ticks : \E g : FillUpTo(k, g, n)}
  OBVIOUS
<1>2. 0 \in T
  <2>1. PICK g : g = [i \in 0..0 |-> k]
    OBVIOUS
  <2>2. FillUpTo(k, g, 0)
    BY <2>1 DEF FillUpTo, FillNext
  <2> QED BY <1>1, <2>2
<1>3. ASSUME NEW n \in 1..ticks, n - 1 \in T PROVE n \in T
  <2>1. PICK g : FillUpTo(k, g, n - 1)
    BY <1>1, <1>3
  <2>2. PICK h : h = [i \in 0..n |-> IF i = n THEN FillNext(k, g, n) ELSE g[i]]
    OBVIOUS
  <2>3. ASSUME NEW i \in 0..n PROVE h[i] = FillNext(k, h, i)
    <3>1. CASE i = n
      <4>1. h[n] = FillNext(k, g, n) /\ h[n - 1] = g[n - 1]
        BY <2>2
      <4> QED BY <3>1, <4>1 DEF FillNext
    <3>2. CASE i # n
      <4>1. i \in 0..(n - 1) /\ h[i] = g[i] /\ (i # 0 => h[i - 1] = g[i - 1])
        BY <2>2, <3>2
      <4>2. g[i] = FillNext(k, g, i)
        BY <2>1, <4>1 DEF FillUpTo
      <4> QED BY <4>1, <4>2 DEF FillNext
    <3> QED BY <3>1, <3>2
  <2>4. h = [i \in 0..n |-> h[i]]
    BY <2>2
  <2>5. FillUpTo(k, h, n)
    BY <2>3, <2>4 DEF FillUpTo
  <2> QED BY <1>1, <2>5
<1>4. ticks \in T
  BY <1>2, <1>3, PlayUpTo
<1> QED BY <1>1, <1>4

\* The turns of fillTo.
LEMMA FillTurns ==
    ASSUME NEW k, NEW ticks \in Nat, NEW g, g = PlayFillLoop(k, ticks)
    PROVE  /\ g[0] = k
           /\ \A i \in 1..ticks : g[i] = PlayPut(g[i - 1], k.f.end + (i - 1) * PlaySecond)
<1>1. PICK h : h = CHOOSE x : FillUpTo(k, x, ticks)
  OBVIOUS
<1>2. FillUpTo(k, h, ticks)
  BY <1>1, FillExists
<1>3. g = h
  BY <1>1 DEF PlayFillLoop, FillUpTo, FillNext
<1>4. \A i \in 0..ticks : h[i] = FillNext(k, h, i)
  BY <1>2 DEF FillUpTo
<1> QED BY <1>3, <1>4 DEF FillNext

PlayFilling == [m : PlayMuxers, f : PlayFillers]

\* A fill put its last placeholder at d and stands at end.
PlayHoled(c, k, d, end, r) ==
    /\ r.m \in PlayMuxers /\ PlayMuxOk(c, r.m)
    /\ PlayView(r.m.tracks["audio"]) = PlayView(k.m.tracks["audio"])
    /\ PlayView(r.m.tracks["video"]) =
         [in |-> d >= 0, last |-> IF d >= 0 THEN d ELSE PlayView(k.m.tracks["video"]).last, tail |-> PlayHoleSample]
    /\ r.f = [end |-> end, started |-> TRUE, last |-> d, needKey |-> TRUE, other |-> k.f.other]
    /\ r = [m |-> r.m, f |-> r.f]

\* One turn of fillTo keeps the muxer right.
LEMMA PutHole ==
    ASSUME NEW c \in BOOLEAN, NEW x \in PlayFilling, PlayMuxOk(c, x.m), NEW dts \in Int,
           NEW v, v = PlayView(x.m.tracks["video"]), PlayFits("video", c, v, dts, PlayHoleSample),
           ~(x.f.started /\ dts <= x.f.last), NEW r, r = PlayPut(x, dts)
    PROVE  PlayHoled(c, x, dts, x.f.end, r)
<1>1. x.m \in PlayMuxers /\ x.f \in PlayFillers
  BY DEF PlayFilling
<1>2. PICK vid \in PlayTracks : vid = "video"
  BY DEF PlayTracks
<1>3. "audio" \in PlayTracks \ {vid}
  BY <1>2 DEF PlayTracks
<1>4. PICK p : p = PlaySample(x.m, vid, dts, PlayHoleSample)
  OBVIOUS
<1>5. PICK h : h = [x.f EXCEPT !.started = TRUE, !.last = dts, !.needKey = TRUE]
  OBVIOUS
<1>6. r = [m |-> p, f |-> h]
  BY <1>2, <1>4, <1>5 DEF PlayPut, PlayHoleSample
<1>7. h = [end |-> x.f.end, started |-> TRUE, last |-> dts, needKey |-> TRUE, other |-> x.f.other]
  BY <1>1, <1>5 DEF PlayFillers
<1>8. PlayFits(vid, c, v, dts, PlayHoleSample)
  BY <1>2
<1>9. PlayPuts(c, x.m, vid, PlayAfterSample(v, dts, PlayHoleSample), p)
  BY <1>1, <1>2, <1>4, <1>8, SampleFacts
<1>10. v.in => dts >= 0
  <2>1. x.m.tracks[vid] \in PlayTrackSet
    BY <1>1, MuxerType
  <2>2. v.last \in Nat
    BY <1>2, <2>1, ViewFacts
  <2> QED BY <2>2 DEF PlayFits
<1>11. v.in \in BOOLEAN
  BY <1>1, <1>2, MuxerType, ViewFacts
<1>12. (v.in \/ dts >= 0) = (dts >= 0)
  BY <1>10, <1>11
<1>13. PlayAfterSample(v, dts, PlayHoleSample) =
          [in |-> dts >= 0, last |-> IF dts >= 0 THEN dts ELSE v.last, tail |-> PlayHoleSample]
  BY <1>12, Zenon DEF PlayAfterSample
<1> QED BY <1>2, <1>3, <1>6, <1>7, <1>9, <1>13 DEF PlayHoled, PlayPuts

\* A fill may begin: its end is not before the last picture, nor before it is shown,
\* nor far from it when everything is filled.
PlayMayFill(c, f, v) ==
    /\ f.started => /\ f.last <= f.end /\ (v.in <=> f.last >= 0)
                    /\ v.in => v.last = f.last
    /\ v.in => v.last <= f.end
    /\ PlayShort => (v.in /\ PlayTaken(v.tail) => v.last + v.tail.offset <= f.end)
    /\ c => (v.in => f.end - v.last <= PlayLong) /\ (~v.in => f.end <= PlayHole)

\* fillTo: its placeholders come every second up to the target, unless the first
\* one is where a picture is and is the only one.
PlayFillOk(c, k, target, r) ==
    \/ /\ k.f.started /\ k.f.end = k.f.last /\ target <= k.f.end + PlaySecond
       /\ r = [m |-> k.m, f |-> [k.f EXCEPT !.end = @ + PlaySecond]]
    \/ \E d \in Int :
        /\ k.f.end <= d /\ d < target /\ target <= d + PlaySecond
        /\ PlayHoled(c, k, d, d + PlaySecond, r)
        /\ k.f.started => k.f.last < d

\* A placeholder is no longer than what may be missing.
LEMMA SecondLong == PlaySecond \in Nat \ {0} /\ PlaySecond <= PlayHole /\ PlaySecond <= PlayLong
<1>1. PlaySegments \in Nat \ {0} /\ PlayThreshold \in Nat /\ PlaySecond \in Nat \ {0}
  BY PlayAssumption
<1>2. PICK a \in Nat : a = PlaySegments * PlayThreshold
  BY <1>1, ProductNat
<1>3. PICK b \in Nat : b = (PlaySegments - 1) * PlayMostStall
  BY <1>1, MostFacts, ProductNat
<1>4. PlayMax(PlayMostOffset, PlaySecond) \in Nat /\ PlayMax(PlayMostOffset, PlaySecond) >= PlaySecond
  BY <1>1, MostFacts DEF PlayMax
<1>5. PlayHole = a + b + PlayMax(PlayMostOffset, PlaySecond) + PlayMostLength - 1 /\ PlayLong = PlayHole + PlayMostLength
  BY <1>2, <1>3, HoleNat
<1> QED BY <1>1, <1>2, <1>3, <1>4, <1>5, MostFacts

\* fillTo keeps the muxer right and ends with a placeholder just before its target.
LEMMA FillFacts ==
    ASSUME NEW c \in BOOLEAN, NEW k \in PlayFilling, PlayMuxOk(c, k.m), NEW target \in Int,
           NEW v, v = PlayView(k.m.tracks["video"]), PlayMayFill(c, k.f, v), k.f.end < target,
           NEW r, r = PlayFillTo(k, target)
    PROVE  PlayFillOk(c, k, target, r)
<1>1. PICK S \in Nat \ {0} : S = PlaySecond
  BY PlayAssumption
<1>2. k.m \in PlayMuxers /\ k.f \in PlayFillers /\ k = [m |-> k.m, f |-> k.f]
  BY DEF PlayFilling
<1>3. PICK e \in Int : e = k.f.end
  BY <1>2 DEF PlayFillers
<1>4. k.f.started \in BOOLEAN /\ k.f.last \in Int
  BY <1>2 DEF PlayFillers
<1>5. v.in \in BOOLEAN /\ v.last \in Nat /\ v.tail \in PlaySamples \cup {PlayNone}
  <2>1. "video" \in PlayTracks
    BY DEF PlayTracks
  <2> QED BY <1>2, <2>1, MuxerType, ViewFacts
<1>6. PICK n \in Nat : n = PlayTicks(e, target)
  BY TickFacts
<1>7. n > 0 /\ e + (n - 1) * S < target /\ target <= e + n * S
  BY <1>1, <1>3, <1>6, TickFacts
<1>8. PICK g : g = PlayFillLoop(k, n)
  OBVIOUS
<1>9. /\ g[0] = k
      /\ \A i \in 1..n : g[i] = PlayPut(g[i - 1], e + (i - 1) * S)
  BY <1>1, <1>3, <1>8, FillTurns
<1>10. S <= PlayHole /\ S <= PlayLong /\ PlayHole \in Nat /\ PlayLong \in Nat
  BY <1>1, SecondLong, HoleNat
<1>11. PICK skips \in BOOLEAN : skips <=> k.f.started /\ e <= k.f.last
  OBVIOUS
<1>12. PICK T : T = {i \in 0..n : IF i = 0 \/ (i = 1 /\ skips) THEN g[i] = k
                                 ELSE PlayHoled(c, k, e + (i - 1) * S, e, g[i])}
  OBVIOUS
<1>13. 0 \in T
  BY <1>9, <1>12
<1>14. ASSUME NEW i \in 1..n, i - 1 \in T PROVE i \in T
  <2>1. i - 1 \in Nat /\ (i - 1) * S \in Nat
    BY ProductNat
  <2>2. PICK dts \in Int : dts = e + (i - 1) * S
    BY <2>1
  <2>3. PICK x : x = g[i - 1]
    OBVIOUS
  <2>4. g[i] = PlayPut(x, dts)
    BY <1>9, <2>2, <2>3
  <2>5. i = 1 => dts = e
    BY <2>2
  <2>6. i = 2 => dts = e + S
    BY <2>2
  <2>7. CASE i = 1 /\ skips
    <3>1. x = k
      BY <1>12, <1>14, <2>3, <2>7
    <3>2. g[i] = k
      BY <1>11, <2>4, <2>5, <2>7, <3>1 DEF PlayPut
    <3> QED BY <1>12, <2>7, <3>2
  <2>8. CASE (i = 1 /\ ~skips) \/ (i = 2 /\ skips)
    <3>1. x = k
      BY <1>12, <1>14, <2>3, <2>8
    <3>2. ~(x.f.started /\ dts <= x.f.last)
      <4>1. CASE i = 1 /\ ~skips
        BY <1>11, <2>5, <3>1, <4>1
      <4>2. CASE i = 2 /\ skips
        <5>1. k.f.last <= e
          BY <1>3, <1>11, <4>2 DEF PlayMayFill
        <5> QED BY <1>4, <2>6, <3>1, <4>2, <5>1
      <4> QED BY <2>8, <4>1, <4>2
    <3>3. /\ v.in => v.last <= dts
          /\ PlayShort => (v.in /\ PlayTaken(v.tail) => v.last + v.tail.offset <= dts)
          /\ c => (v.in => dts - v.last <= PlayLong) /\ (~v.in => dts <= PlayHole)
      <4>1. /\ v.in => v.last <= e
            /\ PlayShort => (v.in /\ PlayTaken(v.tail) => v.last + v.tail.offset <= e)
            /\ c => (v.in => e - v.last <= PlayLong) /\ (~v.in => e <= PlayHole)
        BY <1>3 DEF PlayMayFill
      <4>2. CASE i = 1
        BY <2>5, <4>1, <4>2
      <4>3. CASE i = 2 /\ skips
        <5>1. dts = e + S
          BY <2>6, <4>3
        <5>2. e = k.f.last /\ (v.in <=> k.f.last >= 0) /\ (v.in => v.last = k.f.last)
          BY <1>3, <1>4, <1>11, <4>3 DEF PlayMayFill
        <5>3. PlayTaken(v.tail) => v.tail.offset \in Nat
          BY <1>5 DEF PlayTaken, PlaySamples
        <5>4. v.in => v.last <= dts
          BY <1>5, <4>1, <5>1
        <5>5. PlayShort => (v.in /\ PlayTaken(v.tail) => v.last + v.tail.offset <= dts)
          BY <1>5, <4>1, <5>1, <5>3
        <5>6. c => (v.in => dts - v.last <= PlayLong) /\ (~v.in => dts <= PlayHole)
          BY <1>5, <1>10, <5>1, <5>2
        <5> QED BY <5>4, <5>5, <5>6
      <4> QED BY <2>8, <4>2, <4>3
    <3>4. PlayFits("video", c, v, dts, PlayHoleSample)
      BY <3>3, PlaceholderFacts DEF PlayFits
    <3>5. PlayHoled(c, k, dts, e, g[i])
      BY <1>3, <2>4, <3>1, <3>2, <3>4, PutHole
    <3> QED BY <1>12, <2>2, <2>8, <3>5
  <2>9. CASE i > 2 \/ (i = 2 /\ ~skips)
    <3>1. i - 1 # 0 /\ ~(i - 1 = 1 /\ skips)
      BY <2>9
    <3>2. (i - 1) - 1 \in Nat /\ ((i - 1) - 1) * S \in Nat /\ (i - 1) * S = ((i - 1) - 1) * S + S
      <4>1. (i - 1) - 1 \in Nat /\ i - 1 \in Int
        BY <3>1
      <4> QED BY <4>1, ProductNat, Product
    <3>3. PICK d \in Int : d = e + ((i - 1) - 1) * S
      BY <3>2
    <3>4. dts = d + S
      BY <2>2, <3>2, <3>3
    <3>5. PlayHoled(c, k, d, e, x)
      BY <1>12, <1>14, <2>3, <3>1, <3>3
    <3>6. x.m \in PlayMuxers /\ x.f \in PlayFillers /\ PlayMuxOk(c, x.m) /\ x = [m |-> x.m, f |-> x.f]
      <4>1. k.f.other \in Int
        BY <1>2 DEF PlayFillers
      <4> QED BY <3>5, <4>1 DEF PlayHoled, PlayFillers
    <3>7. x \in PlayFilling
      BY <3>6 DEF PlayFilling
    <3>8. PICK u : u = PlayView(x.m.tracks["video"])
      OBVIOUS
    <3>9. (u.in <=> d >= 0) /\ (d >= 0 => u.last = d) /\ u.tail = PlayHoleSample
      <4>1. PICK l : l = IF d >= 0 THEN d ELSE PlayView(k.m.tracks["video"]).last
        OBVIOUS
      <4>2. u = [in |-> d >= 0, last |-> l, tail |-> PlayHoleSample]
        BY <3>5, <3>8, <4>1, Zenon DEF PlayHoled
      <4>3. (u.in <=> d >= 0) /\ u.last = l /\ u.tail = PlayHoleSample
        BY <4>2
      <4> QED BY <4>1, <4>3
    <3>10. x.f.last = d /\ x.f.end = e /\ x.f.other = k.f.other
      BY <3>5 DEF PlayHoled
    <3>11. ~(x.f.started /\ dts <= x.f.last)
      BY <3>4, <3>10
    <3>12. /\ u.in => u.last <= dts
           /\ c => (u.in => dts - u.last <= PlayLong) /\ (~u.in => dts <= PlayHole)
      BY <1>10, <3>4, <3>9
    <3>13. ~PlayTaken(u.tail)
      BY <3>9, PlaceholderFacts DEF PlayTaken
    <3>14. PlayFits("video", c, u, dts, PlayHoleSample)
      BY <3>12, <3>13, PlaceholderFacts DEF PlayFits
    <3>15. PlayHoled(c, x, dts, e, g[i])
      BY <2>4, <3>6, <3>7, <3>8, <3>10, <3>11, <3>14, PutHole
    <3>16. PlayHoled(c, k, dts, e, g[i])
      <4>1. PlayView(x.m.tracks["audio"]) = PlayView(k.m.tracks["audio"])
        BY <3>5 DEF PlayHoled
      <4>2. dts >= 0 \/ PlayView(x.m.tracks["video"]).last = v.last
        <5>1. d >= 0 \/ PlayView(x.m.tracks["video"]).last = v.last
          BY <3>5 DEF PlayHoled
        <5> QED BY <3>4, <5>1
      <4>3. (IF dts >= 0 THEN dts ELSE PlayView(x.m.tracks["video"]).last)
               = (IF dts >= 0 THEN dts ELSE PlayView(k.m.tracks["video"]).last)
        BY <4>2
      <4> QED BY <3>10, <3>15, <4>1, <4>3 DEF PlayHoled
    <3> QED BY <1>12, <2>2, <3>1, <2>9, <3>16
  <2>10. (i = 1 /\ skips) \/ (i = 1 /\ ~skips) \/ (i = 2 /\ skips) \/ (i = 2 /\ ~skips) \/ i > 2
    OBVIOUS
  <2> QED BY <2>7, <2>8, <2>9, <2>10
<1>15. n \in T
  BY <1>13, <1>14, PlayUpTo
<1>16. r = [g[n] EXCEPT !.f.end = PlayMax(@, e + n * S)]
  BY <1>1, <1>3, <1>6, <1>8 DEF PlayFillTo
<1>17. PICK d \in Int : d = e + (n - 1) * S /\ e <= d /\ d + S = e + n * S
  <2>1. n - 1 \in Nat /\ (n - 1) * S \in Nat /\ (n - 1) * S = n * S - S /\ n * S \in Int
    BY <1>7, ProductNat, Product
  <2>2. e + (n - 1) * S \in Int /\ e <= e + (n - 1) * S /\ (e + (n - 1) * S) + S = e + n * S
    BY <2>1
  <2> QED BY <2>2
<1>18. PlayMax(e, d + S) = d + S
  BY <1>17 DEF PlayMax
<1>19. CASE n = 1 /\ skips
  <2>1. g[n] = k
    BY <1>12, <1>15, <1>19
  <2>2. d = e
    BY <1>17, <1>19
  <2>3. r = [m |-> k.m, f |-> [k.f EXCEPT !.end = e + S]]
    <3>1. r = [k EXCEPT !.f.end = e + S]
      BY <1>3, <1>16, <1>17, <1>18, <2>1, <2>2
    <3> QED BY <1>2, <3>1
  <2>4. k.f.started /\ e = k.f.last
    BY <1>3, <1>4, <1>11, <1>19 DEF PlayMayFill
  <2>5. target <= e + S
    BY <1>7, <1>17, <2>2
  <2> QED BY <1>1, <1>3, <2>3, <2>4, <2>5 DEF PlayFillOk
<1>20. CASE ~(n = 1 /\ skips)
  <2>1. PICK x : x = g[n]
    OBVIOUS
  <2>2. PlayHoled(c, k, d, e, x)
    BY <1>7, <1>12, <1>15, <1>17, <1>20, <2>1
  <2>3. r = [x EXCEPT !.f.end = d + S]
    <3>1. x.f.end = e
      BY <2>2 DEF PlayHoled
    <3> QED BY <1>16, <1>17, <1>18, <2>1, <3>1
  <2>4. x = [m |-> x.m, f |-> [end |-> e, started |-> TRUE, last |-> d, needKey |-> TRUE, other |-> k.f.other]]
    BY <2>2 DEF PlayHoled
  <2>5. r.m = x.m /\ r.f = [end |-> d + S, started |-> TRUE, last |-> d, needKey |-> TRUE, other |-> k.f.other]
        /\ r = [m |-> r.m, f |-> r.f]
    <3>1. PICK z : z = [end |-> e, started |-> TRUE, last |-> d, needKey |-> TRUE, other |-> k.f.other]
      OBVIOUS
    <3>2. PICK y : y = [end |-> d + S, started |-> TRUE, last |-> d, needKey |-> TRUE, other |-> k.f.other]
      OBVIOUS
    <3>3. [z EXCEPT !.end = d + S] = y
      <4>1. PICK b : b = TRUE
        OBVIOUS
      <4>2. PICK o : o = k.f.other
        OBVIOUS
      <4>3. z = [end |-> e, started |-> b, last |-> d, needKey |-> b, other |-> o]
        BY <3>1, <4>1, <4>2, Zenon
      <4>4. y = [end |-> d + S, started |-> b, last |-> d, needKey |-> b, other |-> o]
        BY <3>2, <4>1, <4>2, Zenon
      <4> HIDE <3>1, <3>2, <4>1
      <4> QED BY <4>3, <4>4
    <3>4. PICK p : p = x.m
      OBVIOUS
    <3>5. x = [m |-> p, f |-> z]
      BY <2>4, <3>1, <3>4
    <3>6. r = [x EXCEPT !.f = y]
      BY <2>3, <3>3, <3>5
    <3>7. r = [m |-> p, f |-> y]
      BY <3>5, <3>6
    <3> QED BY <3>2, <3>4, <3>7
  <2>6. PlayHoled(c, k, d, d + S, r)
    BY <2>2, <2>5 DEF PlayHoled
  <2>7. d < target /\ target <= d + S
    BY <1>7, <1>17
  <2>8. k.f.started => k.f.last < d
    <3>1. CASE ~skips
      BY <1>4, <1>11, <1>17, <3>1
    <3>2. CASE skips
      <4>1. n > 1 /\ k.f.last <= e
        BY <1>3, <1>7, <1>11, <1>20, <3>2 DEF PlayMayFill
      <4>2. e < d
        <5>1. n - 2 \in Nat /\ n - 1 \in Int
          BY <4>1
        <5>2. (n - 2) * S \in Nat /\ ((n - 1) - 1) * S = (n - 1) * S - S /\ (n - 1) - 1 = n - 2
          BY <5>1, ProductNat, Product
        <5> QED BY <1>17, <5>2
      <4> QED BY <1>4, <4>1, <4>2
    <3> QED BY <3>1, <3>2
  <2> QED BY <1>1, <1>3, <1>17, <2>6, <2>7, <2>8 DEF PlayFillOk
<1> QED BY <1>19, <1>20

-----------------------------------------------------------------------------
(* A segment.                                                              *)

PlaySegs == [start : Int, dts : Int, first : BOOLEAN, video : Nat \cup {PlayNone},
             audio : Nat \cup {PlayNone}, broke : BOOLEAN]
PlayViews == [in : BOOLEAN, last : Nat, tail : PlaySamples \cup {PlayNone}]

PlayVideoEnd(seg) == seg.start + PlayReach(seg, "video")
PlayAudioEnd(seg) == seg.start + PlayReach(seg, "audio")

\* The last picture of the muxer starts at one time and lasts until another, no
\* picture at the start of the window.
PlayFrom(u) == IF u.in THEN u.last ELSE 0
PlayUntil(u) == IF u.in THEN u.last + u.tail.dur ELSE 0
PlayOut(u) == IF u.in THEN 0 ELSE 1

\* How much may be missing before the n-th segment, and in a segment.
PlaySlack(n) == (n - 1) * (PlayThreshold + PlayMostStall)
PlayQ == PlayMax(PlayMostOffset, PlaySecond) + PlayMostLength
PlayRoom(X) == X \in Nat /\ X + PlayThreshold + PlayQ - 1 <= PlayHole

\* The numbers the invariant is about.
LEMMA NumberFacts ==
    /\ PlayWindow \in Nat /\ PlayThreshold \in Nat /\ PlaySecond \in Nat /\ PlaySecond > 0
    /\ PlayMostLength \in Nat /\ PlayMostLength > 0 /\ PlayMostOffset \in Nat /\ PlayMostStall \in Nat
    /\ PlayQ \in Nat /\ PlaySecond + PlayMostLength <= PlayQ /\ PlayMostOffset + PlayMostLength <= PlayQ
    /\ PlayHole \in Nat /\ PlayLong \in Nat /\ PlayLong = PlayHole + PlayMostLength
    /\ PlayThreshold + PlayQ - 1 <= PlayHole
<1>1. /\ PlayWindow \in Nat /\ PlayThreshold \in Nat /\ PlaySecond \in Nat /\ PlaySecond > 0
      /\ PlayMostLength \in Nat /\ PlayMostLength > 0 /\ PlayMostOffset \in Nat /\ PlayMostStall \in Nat
      /\ PlayHole \in Nat /\ PlayLong \in Nat /\ PlayLong = PlayHole + PlayMostLength
  BY PlayAssumption, MostFacts, HoleNat
<1>2. PICK x \in Nat : x = PlayMax(PlayMostOffset, PlaySecond)
  BY <1>1 DEF PlayMax
<1>3. x >= PlayMostOffset /\ x >= PlaySecond
  BY <1>1, <1>2 DEF PlayMax
<1>4. PlayQ = x + PlayMostLength
  BY <1>2 DEF PlayQ
<1>5. PICK n \in Nat : PlaySegments = n + 1
  <2>1. PlaySegments \in Nat \ {0}
    BY PlayAssumption
  <2>2. PlaySegments - 1 \in Nat /\ PlaySegments = (PlaySegments - 1) + 1
    BY <2>1
  <2> QED BY <2>2
<1>6. PICK a \in Nat : a = n * PlayThreshold
  BY <1>1, ProductNat
<1>7. PICK b \in Nat : b = n * PlayMostStall
  BY <1>1, ProductNat
<1>8. PlaySegments * PlayThreshold = a + PlayThreshold
  BY <1>1, <1>5, <1>6
<1>9. (PlaySegments - 1) * PlayMostStall = b
  BY <1>5, <1>7
<1>10. PlayHole = a + PlayThreshold + b + x + PlayMostLength - 1
  BY <1>1, <1>2, <1>8, <1>9, HoleNat
<1> QED BY <1>1, <1>2, <1>3, <1>4, <1>6, <1>7, <1>10

\* The n-th segment finds no more missing than it may.
LEMMA SlackFacts ==
    ASSUME NEW n \in 1..PlaySegments
    PROVE  PlayRoom(PlaySlack(n)) /\ PlaySlack(n + 1) = PlaySlack(n) + PlayThreshold + PlayMostStall /\ PlaySlack(1) = 0
<1>1. PlaySegments \in Nat /\ PlayThreshold \in Nat /\ PlayMostStall \in Nat /\ n - 1 \in Nat /\ n \in Nat
  BY PlayAssumption, MostFacts
<1>2. PICK d \in Nat : d = PlayThreshold + PlayMostStall
  BY <1>1
<1>3. PICK p \in Nat : PlaySegments - 1 = p /\ n - 1 <= p
  BY <1>1
<1>4. (n - 1) * d \in Nat /\ (n - 1) * d <= p * d
  BY <1>1, <1>2, <1>3
<1>5. p * d = p * PlayThreshold + p * PlayMostStall
  BY <1>1, <1>2
<1>6. PlaySegments * PlayThreshold = p * PlayThreshold + PlayThreshold
  <2>1. PlaySegments = p + 1
    BY <1>1, <1>3
  <2> QED BY <1>1, <2>1
<1>7. PICK x \in Nat : x = PlayMax(PlayMostOffset, PlaySecond)
  BY MostFacts, PlayAssumption DEF PlayMax
<1>8. PlayHole = p * PlayThreshold + PlayThreshold + p * PlayMostStall + x + PlayMostLength - 1
  BY <1>3, <1>6, <1>7, HoleNat
<1>9. PlayQ = x + PlayMostLength
  BY <1>7 DEF PlayQ
<1>10. PlaySlack(n) = (n - 1) * d
  BY <1>2 DEF PlaySlack
<1>11. PlayRoom(PlaySlack(n))
  <2>1. PICK a \in Nat : a = p * PlayThreshold
    BY <1>1, ProductNat
  <2>2. PICK b \in Nat : b = p * PlayMostStall
    BY <1>1, ProductNat
  <2>3. PICK e \in Nat : e = (n - 1) * d
    BY <1>4
  <2>4. e <= a + b
    BY <1>4, <1>5, <2>1, <2>2, <2>3
  <2>5. PlayHole = a + PlayThreshold + b + x + PlayMostLength - 1
    BY <1>8, <2>1, <2>2
  <2> QED BY <1>1, <1>7, <1>9, <1>10, <2>3, <2>4, <2>5, MostFacts DEF PlayRoom
<1>12. PlaySlack(n + 1) = PlaySlack(n) + d
  <2>1. n * d = (n - 1) * d + d
    BY <1>1, <1>2
  <2>2. PlaySlack(n + 1) = n * d
    BY <1>1, <1>2 DEF PlaySlack
  <2> QED BY <1>10, <2>1, <2>2
<1>13. PlaySlack(1) = 0
  <2>1. 0 * d = 0
    BY <1>2
  <2> QED BY <1>2, <2>1 DEF PlaySlack
<1> QED BY <1>1, <1>2, <1>4, <1>10, <1>11, <1>12, <1>13

\* The filler f of a segment, and the last picture of the muxer: before the first
\* picture, after one, after a placeholder, and after a picture.
PlayIdle(seg, f, u) ==
    ~f.started =>
        /\ f.end = seg.start /\ ~f.needKey /\ (seg.video = PlayNone \/ seg.broke)
        /\ u.in => u.last < seg.start
        /\ u.in /\ PlayTaken(u.tail) => u.last + u.tail.len <= seg.start

PlayBusy(seg, f, u) ==
    f.started =>
        /\ (u.in <=> f.last >= 0) /\ (u.in => u.last = f.last)
        /\ f.last < 0 \/ f.last < PlayEnds(seg)
        /\ seg.start <= f.end

PlayWaits(f, u) ==
    f.started /\ f.needKey =>
        f.end = f.last + PlaySecond /\ u.tail # PlayNone /\ u.tail.is = "hole"

PlayShows(seg, f, u) ==
    f.started /\ ~f.needKey =>
        /\ seg.video # PlayNone /\ PlayTaken(u.tail) /\ u.tail.taken = f.last
        /\ f.last + u.tail.len = PlayVideoEnd(seg) /\ f.last + u.tail.offset <= f.end
        /\ f.end <= f.last + PlaySecond \/ f.end <= PlayVideoEnd(seg) + PlayMostOffset

\* Its audio; what ended it.
PlayHeard(seg, f) ==
    /\ 0 <= f.other /\ f.other <= PlayMax(0, PlayAudioEnd(seg))
    /\ ~seg.broke /\ seg.audio # PlayNone => f.other = PlayMax(0, PlayAudioEnd(seg))
    /\ seg.broke => f.other >= PlayWindow \/ (PlayVideoEnd(seg) >= PlayWindow /\ f.started)

\* The segment only ended because its audio left the window.
PlayHushed(seg, f) == seg.broke /\ f.other >= PlayWindow

\* Where everything is filled, the video has not fallen behind.
PlayKept(c, seg, X, f, u) ==
    c => /\ ~f.started => /\ seg.start - PlayFrom(u) + PlayOut(u) <= X + PlayQ
                          /\ seg.start - PlayUntil(u) <= X + PlayQ - 1
         /\ f.started /\ ~f.needKey /\ u.in => u.tail.dur = u.tail.len
         /\ PlayHushed(seg, f) \/ PlayVideoEnd(seg) <= f.end + PlayThreshold + PlayMostLength
         /\ f.started /\ u.in =>
                PlayHushed(seg, f) \/ PlayUntil(u) >= PlayVideoEnd(seg)
                \/ PlayVideoEnd(seg) < f.end + PlayMostLength
         /\ f.other <= PlayWindow + PlayMostLength - 1
         /\ u.in => u.tail.dur <= PlayLong
                    \/ (PlayHushed(seg, f) /\ PlayUntil(u) <= PlayWindow + PlayMostLength - 1)

\* Where the footage is normal, a fill has begun only when the video is missing.
PlayBacked(seg, f) ==
    PlayNormal /\ ~seg.broke =>
        /\ seg.start >= -2 * PlayThreshold
        /\ seg.video # PlayNone /\ ~f.needKey => PlayVideoEnd(seg) <= f.end
        /\ f.needKey => PlayReach(seg, "audio") - PlayReach(seg, "video") > 2 * PlayThreshold

PlayFillerOk(c, seg, X, f, u) ==
    /\ PlayIdle(seg, f, u) /\ PlayBusy(seg, f, u) /\ PlayWaits(f, u) /\ PlayShows(seg, f, u)
    /\ PlayHeard(seg, f) /\ PlayKept(c, seg, X, f, u) /\ PlayBacked(seg, f)

\* The last sample of the muxer comes from the camera or is a placeholder.
PlayTailOk(u) == PlayTaken(u.tail) => u.tail.len \in PlayLengths /\ u.tail.offset \in PlayOffsets

\* The ends of a segment and of its tracks.
LEMMA SegFacts ==
    ASSUME NEW seg \in PlaySegs
    PROVE  /\ seg.start \in Int /\ seg.dts \in Int /\ seg.broke \in BOOLEAN
           /\ PlayReach(seg, "video") \in Nat /\ PlayReach(seg, "audio") \in Nat /\ PlayElapsed(seg) \in Nat
           /\ PlayVideoEnd(seg) \in Int /\ PlayAudioEnd(seg) \in Int /\ PlayEnds(seg) \in Int
           /\ PlayVideoEnd(seg) = seg.start + PlayReach(seg, "video")
           /\ PlayAudioEnd(seg) = seg.start + PlayReach(seg, "audio")
           /\ PlayEnds(seg) = seg.start + PlayElapsed(seg)
           /\ PlayVideoEnd(seg) <= PlayEnds(seg) /\ PlayAudioEnd(seg) <= PlayEnds(seg)
           /\ PlayEnds(seg) = PlayVideoEnd(seg) \/ PlayEnds(seg) = PlayAudioEnd(seg)
           /\ seg.video = PlayNone => PlayReach(seg, "video") = 0
           /\ seg.audio = PlayNone => PlayReach(seg, "audio") = 0
           /\ seg.video # PlayNone => PlayReach(seg, "video") = seg.video
           /\ seg.audio # PlayNone => PlayReach(seg, "audio") = seg.audio
<1>1. /\ seg.start \in Int /\ seg.dts \in Int /\ seg.broke \in BOOLEAN
      /\ PlayReach(seg, "video") \in Nat /\ PlayReach(seg, "audio") \in Nat
      /\ PlayReach(seg, "video") = IF seg.video = PlayNone THEN 0 ELSE seg.video
      /\ PlayReach(seg, "audio") = IF seg.audio = PlayNone THEN 0 ELSE seg.audio
  BY DEF PlaySegs, PlayReach
<1> QED BY <1>1 DEF PlayVideoEnd, PlayAudioEnd, PlayEnds, PlayElapsed, PlayMax

\* What a view is made of.
LEMMA ViewTypes ==
    ASSUME NEW u \in PlayViews
    PROVE  /\ u.in \in BOOLEAN /\ u.last \in Nat
           /\ u.tail # PlayNone =>
                u.tail.dur \in Nat /\ u.tail.len \in Nat /\ u.tail.offset \in Nat /\ u.tail.taken \in Int
           /\ PlayTaken(u.tail) <=> u.tail # PlayNone /\ u.tail.is = "real"
<1>1. u.in \in BOOLEAN /\ u.last \in Nat /\ u.tail \in PlaySamples \cup {PlayNone}
  BY DEF PlayViews
<1>2. u.tail # PlayNone =>
         u.tail.dur \in Nat /\ u.tail.len \in Nat /\ u.tail.offset \in Nat /\ u.tail.taken \in Int
  BY <1>1 DEF PlaySamples
<1> QED BY <1>1, <1>2 DEF PlayTaken

\* What a filler is made of.
LEMMA FillerTypes ==
    ASSUME NEW f \in PlayFillers
    PROVE  f.end \in Int /\ f.last \in Int /\ f.other \in Int /\ f.started \in BOOLEAN /\ f.needKey \in BOOLEAN
BY DEF PlayFillers

\* A fill may begin in a segment.
LEMMA MayFill ==
    ASSUME NEW c \in BOOLEAN, NEW seg \in PlaySegs, NEW X, PlayRoom(X), NEW f \in PlayFillers,
           NEW u \in PlayViews, PlayFillerOk(c, seg, X, f, u), PlayTailOk(u), u.in => u.tail # PlayNone
    PROVE  PlayMayFill(c, f, u)
<1>1. f.end \in Int /\ f.last \in Int /\ f.started \in BOOLEAN /\ f.needKey \in BOOLEAN
  BY FillerTypes
<1>2. /\ u.in \in BOOLEAN /\ u.last \in Nat
      /\ u.tail # PlayNone => u.tail.dur \in Nat /\ u.tail.len \in Nat /\ u.tail.offset \in Nat
      /\ PlayTaken(u.tail) <=> u.tail # PlayNone /\ u.tail.is = "real"
  BY ViewTypes
<1>3. seg.start \in Int /\ PlayVideoEnd(seg) \in Int
  BY SegFacts
<1>4. PlayTaken(u.tail) => u.tail.len <= PlayMostLength
  BY MostFacts DEF PlayTailOk
<1>5. /\ ~f.started => /\ f.end = seg.start
                       /\ u.in => u.last < seg.start
                       /\ u.in /\ PlayTaken(u.tail) => u.last + u.tail.len <= seg.start
      /\ f.started => (u.in <=> f.last >= 0) /\ (u.in => u.last = f.last)
      /\ f.started /\ f.needKey => f.end = f.last + PlaySecond /\ ~PlayTaken(u.tail)
      /\ f.started /\ ~f.needKey =>
            /\ PlayTaken(u.tail) /\ f.last + u.tail.len = PlayVideoEnd(seg) /\ f.last + u.tail.offset <= f.end
            /\ f.end <= f.last + PlaySecond \/ f.end <= PlayVideoEnd(seg) + PlayMostOffset
  BY <1>2 DEF PlayFillerOk, PlayIdle, PlayBusy, PlayWaits, PlayShows
<1>6. f.started => f.last <= f.end
  BY <1>1, <1>2, <1>5, NumberFacts
<1>7. u.in => u.last <= f.end
  BY <1>1, <1>2, <1>3, <1>5, <1>6
<1>8. ASSUME PlayShort, u.in, PlayTaken(u.tail) PROVE u.last + u.tail.offset <= f.end
  <2>1. u.tail.offset <= u.tail.len
    BY <1>8 DEF PlayShort, PlayTailOk
  <2> QED BY <1>1, <1>2, <1>3, <1>5, <1>8, <2>1
<1>9. ASSUME c PROVE (u.in => f.end - u.last <= PlayLong) /\ (~u.in => f.end <= PlayHole)
  <2>1. CASE f.started
    BY <1>1, <1>2, <1>3, <1>4, <1>5, <2>1, NumberFacts
  <2>2. CASE ~f.started
    <3>1. seg.start - PlayFrom(u) + PlayOut(u) <= X + PlayQ
      BY <1>9, <2>2 DEF PlayFillerOk, PlayKept
    <3>2. X \in Nat /\ X + PlayThreshold + PlayQ - 1 <= PlayHole
      BY DEF PlayRoom
    <3> QED BY <1>1, <1>2, <1>3, <1>5, <2>2, <3>1, <3>2, NumberFacts DEF PlayFrom, PlayOut
  <2> QED BY <2>1, <2>2
<1> QED BY <1>5, <1>6, <1>7, <1>8, <1>9 DEF PlayMayFill

\* Without placeholders the video only has what was recorded.
PlayBare(seg, u) ==
    /\ u.in => u.last < PlayVideoEnd(seg)
    /\ seg.video # PlayNone /\ ~seg.broke =>
         PlayTaken(u.tail) /\ u.tail.taken + u.tail.len = PlayVideoEnd(seg)

PlaySegOk(c, seg, X, k) ==
    /\ seg \in PlaySegs /\ seg.dts = seg.start /\ seg.start < PlayWindow /\ PlayRoom(X)
    /\ k.m \in PlayMuxers /\ PlayMuxOk(c, k.m) /\ k = [m |-> k.m, f |-> k.f]
    /\ PlayView(k.m.tracks["audio"]).in => PlayView(k.m.tracks["audio"]).last < PlayAudioEnd(seg)
    /\ PlayTailOk(PlayView(k.m.tracks["video"]))
    /\ k.f = PlayNone => ~c /\ PlayBare(seg, PlayView(k.m.tracks["video"]))
    /\ k.f # PlayNone =>
         k.f \in PlayFillers /\ PlayFillerOk(c, seg, X, k.f, PlayView(k.m.tracks["video"]))

\* The view of a track of a right muxer.
LEMMA MuxView ==
    ASSUME NEW c \in BOOLEAN, NEW m \in PlayMuxers, PlayMuxOk(c, m), NEW t \in PlayTracks,
           NEW u, u = PlayView(m.tracks[t])
    PROVE  u \in PlayViews /\ (u.in => u.tail # PlayNone)
<1>1. PICK tr \in PlayTrackSet : tr = m.tracks[t]
  BY MuxerType
<1>2. u \in PlayViews /\ (u.in <=> tr.first >= 0) /\ (tr.queue # <<>> => u.tail \in PlaySamples)
  BY <1>1, ViewFacts DEF PlayViews
<1>3. tr.first >= 0 => tr.queue # <<>>
  BY <1>1 DEF PlayMuxOk, PlayTrackOk, PlayTimed
<1> QED BY <1>2, <1>3, NoSample

PlayHoleView(d, last) == [in |-> d >= 0, last |-> IF d >= 0 THEN d ELSE last, tail |-> PlayHoleSample]
PlayHoleFiller(d, other) ==
    [end |-> d + PlaySecond, started |-> TRUE, last |-> d, needKey |-> TRUE, other |-> other]

\* The view of a track that ends with a placeholder.
LEMMA HoleViewFacts ==
    ASSUME NEW d \in Int, NEW last \in Nat, NEW w, w = PlayHoleView(d, last)
    PROVE  /\ w \in PlayViews /\ (w.in <=> d >= 0) /\ (d >= 0 => w.last = d) /\ w.tail = PlayHoleSample
           /\ ~PlayTaken(w.tail) /\ w.tail # PlayNone /\ w.tail.is = "hole" /\ w.tail.dur = 0
<1>1. PICK b \in BOOLEAN : b <=> d >= 0
  OBVIOUS
<1>2. PICK l \in Nat : l = IF d >= 0 THEN d ELSE last
  OBVIOUS
<1>3. (d >= 0) = b
  BY <1>1
<1>4. w = [in |-> b, last |-> l, tail |-> PlayHoleSample]
  BY <1>2, <1>3, Zenon DEF PlayHoleView
<1>5. w \in PlayViews /\ w.in = b /\ w.last = l /\ w.tail = PlayHoleSample
  BY <1>4, PlaceholderFacts DEF PlayViews
<1>6. PlayHoleSample # PlayNone
  BY PlaceholderFacts, NoSample
<1> QED BY <1>1, <1>2, <1>5, <1>6, PlaceholderFacts DEF PlayTaken

\* The filler after a placeholder.
LEMMA HoleFillerFacts ==
    ASSUME NEW d \in Int, NEW other \in Int, NEW g, g = PlayHoleFiller(d, other)
    PROVE  /\ g \in PlayFillers /\ g.end = d + PlaySecond /\ g.started /\ g.last = d /\ g.needKey
           /\ g.other = other
BY NumberFacts DEF PlayHoleFiller, PlayFillers

\* A filler whose end moves on by a second.
LEMMA MovedFacts ==
    ASSUME NEW f \in PlayFillers, NEW g, g = [f EXCEPT !.end = @ + PlaySecond]
    PROVE  /\ g \in PlayFillers /\ g.end = f.end + PlaySecond /\ g.started = f.started /\ g.last = f.last
           /\ g.needKey = f.needKey /\ g.other = f.other
<1>1. PICK e \in Int : e = f.end + PlaySecond
  BY FillerTypes, NumberFacts
<1>2. g = [f EXCEPT !.end = e]
  BY <1>1
<1> QED BY <1>1, <1>2 DEF PlayFillers

\* catchUp where the first placeholder is where a picture is.
LEMMA CatchSkips ==
    ASSUME NEW c \in BOOLEAN, NEW seg \in PlaySegs, NEW X, NEW f \in PlayFillers, NEW u \in PlayViews,
           PlayFillerOk(c, seg, X, f, u), f.started, f.end = f.last,
           NEW g, g = [f EXCEPT !.end = @ + PlaySecond]
    PROVE  g \in PlayFillers /\ PlayFillerOk(c, seg, X, g, u) /\ ~f.needKey
<1>1. f.end \in Int /\ f.last \in Int /\ f.other \in Int /\ PlaySecond \in Nat /\ PlaySecond > 0
      /\ PlayThreshold \in Nat /\ PlayMostLength \in Nat
  BY FillerTypes, NumberFacts
<1>2. /\ g \in PlayFillers /\ g.end = f.end + PlaySecond /\ g.started = f.started /\ g.last = f.last
      /\ g.needKey = f.needKey /\ g.other = f.other
  BY MovedFacts
<1>3. ~f.needKey
  BY <1>1 DEF PlayFillerOk, PlayWaits
<1>4. /\ seg.start \in Int /\ PlayVideoEnd(seg) \in Int
  BY SegFacts
<1>5. u.tail # PlayNone => u.tail.offset \in Nat
  BY ViewTypes
<1>6. PlayIdle(seg, g, u) /\ PlayBusy(seg, g, u) /\ PlayWaits(g, u) /\ PlayHeard(seg, g)
  BY <1>1, <1>2, <1>3, <1>4 DEF PlayFillerOk, PlayIdle, PlayBusy, PlayWaits, PlayHeard
<1>7. PlayShows(seg, g, u)
  BY <1>1, <1>2, <1>3, <1>4, <1>5 DEF PlayFillerOk, PlayShows, PlayTaken
<1>8. PlayKept(c, seg, X, g, u)
  <2>1. PlayHushed(seg, g) <=> PlayHushed(seg, f)
    BY <1>2 DEF PlayHushed
  <2> QED BY <1>1, <1>2, <1>4, <2>1 DEF PlayFillerOk, PlayKept
<1>9. PlayBacked(seg, g)
  BY <1>1, <1>2, <1>3, <1>4 DEF PlayFillerOk, PlayBacked
<1> QED BY <1>2, <1>3, <1>6, <1>7, <1>8, <1>9 DEF PlayFillerOk

\* catchUp where it puts a placeholder.
PlayCatches(f, d) ==
    /\ d \in Int /\ f.other - f.end > 2 * PlayThreshold /\ f.end <= d
    /\ d < f.other - PlayThreshold /\ f.other - PlayThreshold <= d + PlaySecond

\* The filler after a catchUp that wrote a placeholder.
LEMMA CatchHoles ==
    ASSUME NEW c \in BOOLEAN, NEW seg \in PlaySegs, NEW X, NEW f \in PlayFillers, NEW u \in PlayViews,
           PlayFillerOk(c, seg, X, f, u), ~seg.broke,
           NEW d, PlayCatches(f, d), NEW g, g = PlayHoleFiller(d, f.other), NEW w, w = PlayHoleView(d, u.last)
    PROVE  PlayFillerOk(c, seg, X, g, w)
<1>1. /\ d \in Int /\ f.other - f.end > 2 * PlayThreshold /\ f.end <= d
      /\ d < f.other - PlayThreshold /\ f.other - PlayThreshold <= d + PlaySecond
  BY DEF PlayCatches
<1>2. /\ f.end \in Int /\ f.last \in Int /\ f.other \in Int /\ u.last \in Nat
      /\ f.started \in BOOLEAN /\ f.needKey \in BOOLEAN
  BY FillerTypes, ViewTypes
<1>3. g.end = d + PlaySecond /\ g.started /\ g.last = d /\ g.needKey /\ g.other = f.other
  BY <1>1, <1>2, HoleFillerFacts
<1>4. /\ (w.in <=> d >= 0) /\ (d >= 0 => w.last = d)
      /\ w.tail # PlayNone /\ w.tail.is = "hole" /\ w.tail.dur = 0
  BY <1>1, <1>2, HoleViewFacts
<1>5. /\ seg.start \in Int /\ PlayVideoEnd(seg) \in Int /\ PlayAudioEnd(seg) \in Int /\ PlayEnds(seg) \in Int
      /\ PlayAudioEnd(seg) <= PlayEnds(seg)
      /\ PlayVideoEnd(seg) = seg.start + PlayReach(seg, "video")
      /\ PlayAudioEnd(seg) = seg.start + PlayReach(seg, "audio")
      /\ PlayReach(seg, "video") \in Nat /\ PlayReach(seg, "audio") \in Nat
      /\ seg.video = PlayNone => PlayReach(seg, "video") = 0
  BY SegFacts
<1>6. seg.start <= f.end
  BY <1>2, <1>5 DEF PlayFillerOk, PlayIdle, PlayBusy
<1>7. /\ 0 <= f.other /\ f.other <= PlayMax(0, PlayAudioEnd(seg))
      /\ seg.audio # PlayNone => f.other = PlayMax(0, PlayAudioEnd(seg))
  BY DEF PlayFillerOk, PlayHeard
<1>8. PlayIdle(seg, g, w) /\ PlayWaits(g, w) /\ PlayShows(seg, g, w)
  BY <1>3, <1>4 DEF PlayIdle, PlayWaits, PlayShows
<1>9. PlayBusy(seg, g, w)
  <2>1. d < 0 \/ d < PlayEnds(seg)
    BY <1>1, <1>2, <1>5, <1>7, NumberFacts DEF PlayMax
  <2> QED BY <1>1, <1>2, <1>3, <1>4, <1>5, <1>6, <2>1, NumberFacts DEF PlayBusy
<1>10. PlayHeard(seg, g)
  BY <1>3, <1>7 DEF PlayHeard
<1>11. PlayKept(c, seg, X, g, w)
  <2>1. ~PlayHushed(seg, f) /\ ~PlayHushed(seg, g)
    BY DEF PlayHushed
  <2>2. c => /\ PlayVideoEnd(seg) <= f.end + PlayThreshold + PlayMostLength
             /\ f.other <= PlayWindow + PlayMostLength - 1
    BY <2>1 DEF PlayFillerOk, PlayKept
  <2>3. c => PlayVideoEnd(seg) < g.end + PlayMostLength
    BY <1>1, <1>2, <1>3, <1>5, <2>2, NumberFacts
  <2>4. c => PlayVideoEnd(seg) <= g.end + PlayThreshold + PlayMostLength
    BY <1>1, <1>2, <1>3, <1>5, <2>3, NumberFacts
  <2>5. w.tail.dur <= PlayLong
    BY <1>4, NumberFacts
  <2> QED BY <1>3, <2>2, <2>3, <2>4, <2>5 DEF PlayKept
<1>12. PlayBacked(seg, g)
  <2>1. ASSUME PlayNormal PROVE PlayReach(seg, "audio") - PlayReach(seg, "video") > 2 * PlayThreshold
    <3>1. /\ seg.start >= -2 * PlayThreshold
          /\ seg.video # PlayNone /\ ~f.needKey => PlayVideoEnd(seg) <= f.end
          /\ f.needKey => PlayReach(seg, "audio") - PlayReach(seg, "video") > 2 * PlayThreshold
      BY <2>1 DEF PlayFillerOk, PlayBacked
    <3>2. CASE f.needKey
      BY <3>1, <3>2
    <3>3. CASE ~f.needKey
      <4>1. PlayVideoEnd(seg) <= f.end
        BY <1>2, <1>5, <1>6, <3>1, <3>3
      <4>2. f.other <= 0 \/ f.other <= PlayAudioEnd(seg)
        BY <1>5, <1>7 DEF PlayMax
      <4> QED BY <1>1, <1>2, <1>5, <1>6, <3>1, <4>1, <4>2, NumberFacts
    <3> QED BY <1>2, <3>2, <3>3
  <2>2. PlayNormal => seg.start >= -2 * PlayThreshold
    BY DEF PlayFillerOk, PlayBacked
  <2> QED BY <1>3, <2>1, <2>2 DEF PlayBacked
<1> QED BY <1>8, <1>9, <1>10, <1>11, <1>12 DEF PlayFillerOk

\* catchUp.
LEMMA CatchUpFacts ==
    ASSUME NEW c \in BOOLEAN, NEW seg, NEW X, NEW k, PlaySegOk(c, seg, X, k), ~seg.broke,
           NEW r, r = PlayCatchUp(k)
    PROVE  /\ PlaySegOk(c, seg, X, r) /\ (r.f = PlayNone <=> k.f = PlayNone)
           /\ k.f # PlayNone => r.f.other = k.f.other
<1>1. CASE k.f # PlayNone /\ k.f.other - k.f.end > 2 * PlayThreshold
  <2>1. PICK target \in Int : target = k.f.other - PlayThreshold
    BY <1>1, NumberFacts, FillerTypes DEF PlaySegOk
  <2>2. r = PlayFillTo(k, target)
    BY <1>1, <2>1 DEF PlayCatchUp
  <2>3. PICK f \in PlayFillers : f = k.f
    BY <1>1 DEF PlaySegOk
  <2>4. "video" \in PlayTracks /\ "audio" \in PlayTracks
    BY DEF PlayTracks
  <2>5. k.m \in PlayMuxers /\ PlayMuxOk(c, k.m) /\ k \in PlayFilling
    BY <2>3 DEF PlaySegOk, PlayFilling
  <2>6. PICK u \in PlayViews : u = PlayView(k.m.tracks["video"]) /\ (u.in => u.tail # PlayNone)
    BY <2>4, <2>5, MuxView
  <2>7. seg \in PlaySegs /\ PlayRoom(X) /\ PlayFillerOk(c, seg, X, f, u) /\ PlayTailOk(u)
    BY <1>1, <2>3, <2>6 DEF PlaySegOk
  <2>8. PlayMayFill(c, f, u)
    BY <2>6, <2>7, MayFill
  <2>9. f.end \in Int /\ f.last \in Int /\ f.other \in Int /\ u.last \in Nat
    BY FillerTypes, ViewTypes
  <2>10. f.end < target
    BY <1>1, <2>1, <2>3, <2>9, NumberFacts
  <2>11. PlayFillOk(c, k, target, r)
    BY <2>2, <2>3, <2>5, <2>6, <2>8, <2>10, FillFacts
  <2>12. CASE /\ f.started /\ f.end = f.last
              /\ r = [m |-> k.m, f |-> [f EXCEPT !.end = @ + PlaySecond]]
    <3>1. PICK g : g = [f EXCEPT !.end = @ + PlaySecond]
      OBVIOUS
    <3>2. g \in PlayFillers /\ PlayFillerOk(c, seg, X, g, u)
      BY <2>7, <2>12, <3>1, CatchSkips
    <3>3. r = [m |-> k.m, f |-> g]
      BY <2>12, <3>1
    <3>4. r.m = k.m /\ r.f = g /\ r = [m |-> r.m, f |-> r.f]
      BY <3>3
    <3>5. g # PlayNone /\ g.other = f.other
      <4>1. g # PlayNone
        BY <3>2, PlayAssumption DEF PlayFillers
      <4> QED BY <3>1, <4>1 DEF PlayFillers
    <3> QED BY <1>1, <2>3, <2>6, <3>2, <3>4, <3>5 DEF PlaySegOk
  <2>13. CASE \E d \in Int : /\ f.end <= d /\ d < target /\ target <= d + PlaySecond
                             /\ PlayHoled(c, k, d, d + PlaySecond, r)
    <3>1. PICK d \in Int : /\ f.end <= d /\ d < target /\ target <= d + PlaySecond
                           /\ PlayHoled(c, k, d, d + PlaySecond, r)
      BY <2>13
    <3>2. PICK g : g = PlayHoleFiller(d, f.other)
      OBVIOUS
    <3>3. PICK w : w = PlayHoleView(d, u.last)
      OBVIOUS
    <3>4. /\ r.m \in PlayMuxers /\ PlayMuxOk(c, r.m) /\ r = [m |-> r.m, f |-> r.f]
          /\ PlayView(r.m.tracks["audio"]) = PlayView(k.m.tracks["audio"])
      BY <3>1 DEF PlayHoled
    <3>5. r.f = g
      BY <2>3, <3>1, <3>2, Zenon DEF PlayHoled, PlayHoleFiller
    <3>6. PlayView(r.m.tracks["video"]) = w
      BY <2>6, <3>1, <3>3, Zenon DEF PlayHoled, PlayHoleView
    <3>7. PlayFillerOk(c, seg, X, g, w)
      <4>1. PlayCatches(f, d)
        BY <1>1, <2>1, <2>3, <3>1 DEF PlayCatches
      <4> QED BY <2>7, <3>2, <3>3, <4>1, CatchHoles
    <3>8. g \in PlayFillers /\ g.other = f.other
      <4>1. PICK o \in Int : o = f.other
        BY <2>9
      <4>2. g = PlayHoleFiller(d, o)
        BY <3>2, <4>1
      <4>3. g \in PlayFillers /\ g.other = o
        BY <4>2, HoleFillerFacts
      <4> QED BY <4>1, <4>3
    <3>9. g # PlayNone
      BY <3>8, PlayAssumption DEF PlayFillers
    <3>10. PlayTailOk(w)
      BY <2>9, <3>3, HoleViewFacts DEF PlayTailOk
    <3> QED BY <1>1, <2>3, <3>4, <3>5, <3>6, <3>7, <3>8, <3>9, <3>10 DEF PlaySegOk
  <2> QED BY <2>3, <2>11, <2>12, <2>13 DEF PlayFillOk
<1>2. CASE ~(k.f # PlayNone /\ k.f.other - k.f.end > 2 * PlayThreshold)
  <2>1. r = k
    BY <1>2 DEF PlayCatchUp
  <2> QED BY <2>1
<1> QED BY <1>1, <1>2

-----------------------------------------------------------------------------
(* A picture.                                                              *)

\* A sample of a track of a segment comes where the track is.
PlayComes(seg, t, at, len, key, offset) ==
    /\ at \in Nat /\ len \in PlayLengths /\ key \in BOOLEAN /\ offset \in PlayOffsets
    /\ PlayElapsed(seg) - at <= PlayLate
    /\ IF seg[t] = PlayNone THEN (t = "video" => key) /\ at \in {0, PlayElapsed(seg)} ELSE at = seg[t]

\* The segment with a track up to a time, broken off or not.
PlayGrows(seg, t, to, past) == [seg EXCEPT ![t] = to, !.broke = past]

\* A segment whose video grows.
LEMMA GrowsVideo ==
    ASSUME NEW seg \in PlaySegs, NEW to \in Nat, PlayReach(seg, "video") <= to, NEW past \in BOOLEAN,
           NEW seg2, seg2 = PlayGrows(seg, "video", to, past)
    PROVE  /\ seg2 \in PlaySegs /\ seg2.start = seg.start /\ seg2.dts = seg.dts /\ seg2.broke = past
           /\ seg2.video = to /\ seg2.video # PlayNone /\ seg2.audio = seg.audio
           /\ PlayVideoEnd(seg2) = seg.start + to /\ PlayAudioEnd(seg2) = PlayAudioEnd(seg)
           /\ PlayReach(seg2, "video") = to /\ PlayReach(seg2, "audio") = PlayReach(seg, "audio")
           /\ PlayEnds(seg) <= PlayEnds(seg2) /\ seg.start + to <= PlayEnds(seg2)
<1>1. /\ seg2 \in PlaySegs /\ seg2.start = seg.start /\ seg2.dts = seg.dts /\ seg2.broke = past
      /\ seg2.video = to /\ seg2.audio = seg.audio
  BY DEF PlayGrows, PlaySegs
<1>2. seg2.video # PlayNone
  BY <1>1, PlayAssumption
<1>3. PlayReach(seg2, "audio") = PlayReach(seg, "audio")
  <2>1. PlayReach(seg, "audio") = IF seg.audio = PlayNone THEN 0 ELSE seg.audio
    BY DEF PlayReach, PlaySegs
  <2>2. PlayReach(seg2, "audio") = IF seg2.audio = PlayNone THEN 0 ELSE seg2.audio
    BY <1>1 DEF PlayReach, PlaySegs
  <2> QED BY <1>1, <2>1, <2>2
<1> QED BY <1>1, <1>2, <1>3, SegFacts

\* A segment whose audio grows.
LEMMA GrowsAudio ==
    ASSUME NEW seg \in PlaySegs, NEW to \in Nat, PlayReach(seg, "audio") <= to, NEW past \in BOOLEAN,
           NEW seg2, seg2 = PlayGrows(seg, "audio", to, past)
    PROVE  /\ seg2 \in PlaySegs /\ seg2.start = seg.start /\ seg2.dts = seg.dts /\ seg2.broke = past
           /\ seg2.audio = to /\ seg2.audio # PlayNone /\ seg2.video = seg.video
           /\ PlayAudioEnd(seg2) = seg.start + to /\ PlayVideoEnd(seg2) = PlayVideoEnd(seg)
           /\ PlayReach(seg2, "audio") = to /\ PlayReach(seg2, "video") = PlayReach(seg, "video")
           /\ PlayEnds(seg) <= PlayEnds(seg2) /\ seg.start + to <= PlayEnds(seg2)
<1>1. /\ seg2 \in PlaySegs /\ seg2.start = seg.start /\ seg2.dts = seg.dts /\ seg2.broke = past
      /\ seg2.audio = to /\ seg2.video = seg.video
  BY DEF PlayGrows, PlaySegs
<1>2. seg2.audio # PlayNone
  BY <1>1, PlayAssumption
<1>3. PlayReach(seg2, "video") = PlayReach(seg, "video")
  <2>1. PlayReach(seg, "video") = IF seg.video = PlayNone THEN 0 ELSE seg.video
    BY DEF PlayReach, PlaySegs
  <2>2. PlayReach(seg2, "video") = IF seg2.video = PlayNone THEN 0 ELSE seg2.video
    BY <1>1 DEF PlayReach, PlaySegs
  <2> QED BY <1>1, <2>1, <2>2
<1> QED BY <1>1, <1>2, <1>3, SegFacts

\* The view of a track whose last sample lasts until a time.
LEMMA FinalView ==
    ASSUME NEW u \in PlayViews, u.in => u.tail # PlayNone, NEW dts \in Int, NEW w, w = PlayAfterFinal(u, dts)
    PROVE  /\ w \in PlayViews /\ w.in = u.in /\ w.last = u.last
           /\ (w.tail = PlayNone <=> u.tail = PlayNone) /\ (PlayTaken(w.tail) <=> PlayTaken(u.tail))
           /\ w.tail.is = u.tail.is /\ w.tail.taken = u.tail.taken /\ w.tail.len = u.tail.len
           /\ w.tail.offset = u.tail.offset
           /\ u.in => w.tail.dur = PlayMax(dts - u.last, 0)
           /\ ~u.in => w = u
<1>1. u.in \in BOOLEAN /\ u.last \in Nat /\ u.tail \in PlaySamples \cup {PlayNone}
  BY DEF PlayViews
<1>2. CASE ~u.in
  BY <1>2 DEF PlayAfterFinal
<1>3. CASE u.in
  <2>1. PICK x \in Int : x = dts - u.last
    BY <1>1
  <2>2. PICK n \in Nat : n = PlayMax(x, 0)
    <3>1. PlayMax(x, 0) \in Nat
      BY DEF PlayMax
    <3> QED BY <3>1
  <2>3. PICK a \in PlaySamples : a = u.tail
    BY <1>1, <1>3
  <2>4. PICK b : b = [a EXCEPT !.dur = n]
    OBVIOUS
  <2>5. /\ b \in PlaySamples /\ b.dur = n /\ b.is = a.is /\ b.taken = a.taken /\ b.len = a.len
        /\ b.offset = a.offset
    BY <2>4 DEF PlaySamples
  <2>6. w = [u EXCEPT !.tail = b]
    BY <1>3, <2>1, <2>2, <2>3, <2>4 DEF PlayAfterFinal
  <2>7. w \in PlayViews /\ w.in = u.in /\ w.last = u.last /\ w.tail = b
    BY <2>5, <2>6 DEF PlayViews
  <2>8. a # PlayNone /\ b # PlayNone
    BY <2>5, NoSample
  <2> QED BY <1>3, <2>1, <2>2, <2>3, <2>5, <2>7, <2>8 DEF PlayTaken
<1> QED BY <1>1, <1>2, <1>3

\* A picture that is dropped: the filler g waits for a keyframe.
PlayDropsAt(seg2, g, w, dts) ==
    /\ g.started /\ g.needKey /\ PlayBusy(seg2, g, w) /\ PlayWaits(g, w)
    /\ dts <= g.end + PlayThreshold

\* The filler after a picture it dropped.
LEMMA DropOk ==
    ASSUME NEW c \in BOOLEAN, NEW X, NEW dts \in Int, NEW to \in Int, NEW len \in PlayLengths, to = dts + len,
           NEW seg2 \in PlaySegs, PlayVideoEnd(seg2) = to, ~seg2.broke, ~PlayNormal,
           NEW g \in PlayFillers, NEW w \in PlayViews, PlayDropsAt(seg2, g, w, dts), PlayHeard(seg2, g),
           c => g.other <= PlayWindow + PlayMostLength - 1,
           NEW u, u = PlayAfterFinal(w, to)
    PROVE  PlayFillerOk(c, seg2, X, g, u) /\ ~PlayTaken(u.tail)
<1>1. /\ g.end \in Int /\ g.last \in Int /\ g.other \in Int /\ g.started /\ g.needKey
      /\ w.last \in Nat /\ w.in \in BOOLEAN
  BY FillerTypes, ViewTypes DEF PlayDropsAt
<1>2. /\ (w.in <=> g.last >= 0) /\ (w.in => w.last = g.last)
      /\ g.last < 0 \/ g.last < PlayEnds(seg2)
      /\ seg2.start <= g.end /\ g.end = g.last + PlaySecond
      /\ w.tail # PlayNone /\ w.tail.is = "hole" /\ dts <= g.end + PlayThreshold
  BY DEF PlayDropsAt, PlayBusy, PlayWaits
<1>3. len \in Nat /\ len > 0 /\ len <= PlayMostLength
  BY MostFacts
<1>4. to \in Int /\ to = dts + len
  OBVIOUS
<1>5. /\ u \in PlayViews /\ u.in = w.in /\ u.last = w.last /\ u.tail # PlayNone /\ u.tail.is = "hole"
      /\ w.in => u.tail.dur = PlayMax(to - w.last, 0)
      /\ ~PlayTaken(u.tail)
  <2>1. u = PlayAfterFinal(w, to)
    BY <1>4
  <2>2. ~PlayTaken(w.tail)
    BY <1>2 DEF PlayTaken
  <2> QED BY <1>2, <2>1, <2>2, FinalView
<1>6. PlayIdle(seg2, g, u) /\ PlayBusy(seg2, g, u) /\ PlayWaits(g, u) /\ PlayShows(seg2, g, u)
  BY <1>1, <1>2, <1>5 DEF PlayIdle, PlayBusy, PlayWaits, PlayShows
<1>7. PlayBacked(seg2, g)
  BY DEF PlayBacked
<1>8. w.in => u.tail.dur \in Nat /\ u.last + u.tail.dur >= to /\ u.tail.dur <= PlayLong
  <2>1. w.in => to - w.last <= PlaySecond + PlayThreshold + PlayMostLength
    BY <1>1, <1>2, <1>3, <1>4, NumberFacts
  <2> QED BY <1>1, <1>4, <1>5, <2>1, NumberFacts DEF PlayMax
<1>9. PlayKept(c, seg2, X, g, u)
  <2>1. c => PlayVideoEnd(seg2) <= g.end + PlayThreshold + PlayMostLength
    BY <1>1, <1>2, <1>3, NumberFacts
  <2>2. u.in => PlayUntil(u) >= PlayVideoEnd(seg2)
    BY <1>4, <1>5, <1>8 DEF PlayUntil
  <2> QED BY <1>1, <1>5, <1>8, <2>1, <2>2 DEF PlayKept
<1> QED BY <1>5, <1>6, <1>7, <1>9 DEF PlayFillerOk

\* A picture that is shown: the filler g before it, and f after it.
PlayShowing(g, dts, s) ==
    [g EXCEPT !.end = PlayShown(g, dts, s), !.started = TRUE, !.last = dts, !.needKey = FALSE]

PlayShowsAt(c, seg2, dts, to, len, offset, s, g, v) ==
    /\ dts \in Int /\ to \in Int /\ to = dts + len /\ len \in PlayLengths /\ offset \in PlayOffsets
    /\ s \in PlaySamples /\ s.is = "real" /\ s.len = len /\ s.offset = offset /\ s.taken = dts
    /\ seg2 \in PlaySegs /\ PlayVideoEnd(seg2) = to /\ ~seg2.broke /\ seg2.video # PlayNone
    /\ seg2.start <= dts /\ (PlayNormal => seg2.start >= -2 * PlayThreshold)
    /\ g \in PlayFillers /\ PlayHeard(seg2, g)
    /\ c => g.other <= PlayWindow + PlayMostLength - 1
    /\ seg2.start <= g.end /\ (g.end <= dts + PlaySecond \/ g.end <= dts + PlayMostOffset)
    /\ v \in PlayViews /\ (v.in => dts >= 0)

\* The filler after a picture it let through.
LEMMA PutOk ==
    ASSUME NEW c \in BOOLEAN, NEW X, NEW dts, NEW to, NEW len, NEW offset, NEW s, NEW seg2, NEW g, NEW v,
           PlayShowsAt(c, seg2, dts, to, len, offset, s, g, v),
           NEW f, f = PlayShowing(g, dts, s),
           NEW w, w = PlayAfterSample(v, dts, s), NEW u, u = PlayAfterFinal(w, to)
    PROVE  f \in PlayFillers /\ PlayFillerOk(c, seg2, X, f, u) /\ PlayTailOk(u)
<1> USE DEF PlayShowsAt
<1>1. g.end \in Int /\ g.other \in Int /\ v.in \in BOOLEAN /\ v.last \in Nat
  BY FillerTypes, ViewTypes
<1>2. len \in Nat /\ len > 0 /\ len <= PlayMostLength /\ offset \in Nat /\ offset <= PlayMostOffset
  BY MostFacts
<1>3. PICK end \in Int : end = PlayShown(g, dts, s)
  BY <1>1, <1>2 DEF PlayShown, PlayMax
<1>4. /\ end = g.end \/ end = dts + offset \/ end = dts + offset + len
      /\ g.end <= end /\ dts + offset <= end
      /\ len <= PlayThreshold => dts + offset + len <= end
  BY <1>1, <1>2, <1>3, NumberFacts DEF PlayShown, PlayMax
<1>5. f \in PlayFillers /\ f.end = end /\ f.started /\ f.last = dts /\ ~f.needKey /\ f.other = g.other
  <2>1. f = [g EXCEPT !.end = end, !.started = TRUE, !.last = dts, !.needKey = FALSE]
    BY <1>3 DEF PlayShowing
  <2> QED BY <2>1 DEF PlayFillers
<1>6. PICK b \in BOOLEAN : b <=> dts >= 0
  OBVIOUS
<1>7. PICK l \in Nat : l = IF dts >= 0 THEN dts ELSE v.last
  BY <1>1
<1>8. w \in PlayViews /\ w.in = b /\ w.last = l /\ w.tail = s
  <2>1. (v.in \/ dts >= 0) = b
    BY <1>1, <1>6
  <2>2. w = [in |-> b, last |-> l, tail |-> s]
    BY <1>7, <2>1, Zenon DEF PlayAfterSample
  <2> QED BY <2>2 DEF PlayViews
<1>9. s # PlayNone /\ PlayTaken(s)
  BY NoSample DEF PlayTaken
<1>10. to \in Int /\ to = dts + len
  OBVIOUS
<1>11. /\ u \in PlayViews /\ u.in = b /\ u.last = l /\ u.tail # PlayNone /\ PlayTaken(u.tail)
       /\ u.tail.len = len /\ u.tail.offset = offset /\ u.tail.taken = dts
       /\ b => u.tail.dur = len
  <2>1. u = PlayAfterFinal(w, to) /\ (w.in => w.tail # PlayNone)
    BY <1>8, <1>9, <1>10
  <2>2. /\ u \in PlayViews /\ u.in = w.in /\ u.last = w.last /\ (u.tail = PlayNone <=> w.tail = PlayNone)
        /\ (PlayTaken(u.tail) <=> PlayTaken(w.tail))
        /\ u.tail.len = w.tail.len /\ u.tail.offset = w.tail.offset /\ u.tail.taken = w.tail.taken
        /\ w.in => u.tail.dur = PlayMax(to - w.last, 0)
    BY <1>8, <2>1, FinalView
  <2>3. b => PlayMax(to - l, 0) = len
    BY <1>2, <1>6, <1>7, <1>10 DEF PlayMax
  <2> QED BY <1>8, <1>9, <2>2, <2>3
<1>12. PlayVideoEnd(seg2) = to /\ to <= PlayEnds(seg2) /\ seg2.start \in Int /\ PlayEnds(seg2) \in Int
  BY <1>10, SegFacts
<1>13. PlayIdle(seg2, f, u) /\ PlayWaits(f, u)
  BY <1>5 DEF PlayIdle, PlayWaits
<1>14. PlayBusy(seg2, f, u)
  <2>1. dts < PlayEnds(seg2) /\ seg2.start <= end
    BY <1>1, <1>2, <1>4, <1>10, <1>12
  <2> QED BY <1>5, <1>6, <1>7, <1>11, <2>1 DEF PlayBusy
<1>15. PlayShows(seg2, f, u)
  <2>1. end <= dts + PlaySecond \/ end <= to + PlayMostOffset
    BY <1>1, <1>2, <1>4, <1>10, NumberFacts
  <2> QED BY <1>4, <1>5, <1>10, <1>11, <1>12, <2>1 DEF PlayShows
<1>16. PlayHeard(seg2, f)
  BY <1>5 DEF PlayHeard
<1>17. PlayKept(c, seg2, X, f, u)
  <2>1. to <= end + PlayThreshold + PlayMostLength
    BY <1>2, <1>4, <1>10, NumberFacts
  <2>2. b => PlayUntil(u) = to
    BY <1>6, <1>7, <1>10, <1>11 DEF PlayUntil
  <2>3. len <= PlayLong
    BY <1>2, NumberFacts
  <2> QED BY <1>5, <1>11, <1>12, <2>1, <2>2, <2>3 DEF PlayKept
<1>18. PlayBacked(seg2, f)
  <2>1. ASSUME PlayNormal PROVE to <= end
    <3>1. len <= PlayThreshold
      BY <2>1, NumberFacts DEF PlayNormal
    <3> QED BY <1>2, <1>4, <1>10, <3>1
  <2> QED BY <1>5, <1>12, <2>1 DEF PlayBacked
<1>19. PlayTailOk(u)
  BY <1>11 DEF PlayTailOk
<1> QED BY <1>5, <1>13, <1>14, <1>15, <1>16, <1>17, <1>18, <1>19 DEF PlayFillerOk

\* What is known of a picture that comes.
LEMMA VideoComes ==
    ASSUME NEW seg \in PlaySegs, NEW at, NEW len, NEW key, NEW offset,
           PlayComes(seg, "video", at, len, key, offset)
    PROVE  /\ at \in Nat /\ len \in Nat /\ len > 0 /\ len <= PlayMostLength /\ key \in BOOLEAN /\ offset \in Nat
           /\ PlayElapsed(seg) - at <= PlayLate /\ PlayReach(seg, "video") <= at /\ at <= PlayElapsed(seg)
           /\ ~key => seg.video # PlayNone
           /\ seg.video # PlayNone => at = PlayReach(seg, "video") /\ seg.start + at = PlayVideoEnd(seg)
           /\ seg.video = PlayNone => at = 0 \/ at = PlayElapsed(seg)
<1>1. /\ PlayReach(seg, "video") \in Nat /\ PlayElapsed(seg) \in Nat
      /\ PlayVideoEnd(seg) = seg.start + PlayReach(seg, "video")
      /\ seg.video = PlayNone => PlayReach(seg, "video") = 0
      /\ seg.video # PlayNone => PlayReach(seg, "video") = seg.video
      /\ PlayReach(seg, "video") <= PlayElapsed(seg)
  <2>1. /\ PlayReach(seg, "video") \in Nat /\ PlayElapsed(seg) \in Nat
        /\ PlayVideoEnd(seg) = seg.start + PlayReach(seg, "video") /\ PlayVideoEnd(seg) <= PlayEnds(seg)
        /\ PlayEnds(seg) = seg.start + PlayElapsed(seg) /\ seg.start \in Int
        /\ seg.video = PlayNone => PlayReach(seg, "video") = 0
        /\ seg.video # PlayNone => PlayReach(seg, "video") = seg.video
    BY SegFacts
  <2> QED BY <2>1
<1>2. /\ at \in Nat /\ len \in PlayLengths /\ key \in BOOLEAN /\ offset \in PlayOffsets
      /\ PlayElapsed(seg) - at <= PlayLate
      /\ seg.video = PlayNone => key /\ (at = 0 \/ at = PlayElapsed(seg))
      /\ seg.video # PlayNone => at = seg.video
  BY DEF PlayComes
<1>3. len \in Nat /\ len > 0 /\ len <= PlayMostLength /\ offset \in Nat
  BY <1>2, MostFacts
<1> QED BY <1>1, <1>2, <1>3

\* The audio of a segment is what it was when its video grows.
LEMMA HeardGrows ==
    ASSUME NEW seg \in PlaySegs, NEW to \in Nat, PlayReach(seg, "video") <= to, NEW past \in BOOLEAN, ~past,
           NEW seg2, seg2 = PlayGrows(seg, "video", to, past), ~seg.broke,
           NEW f, NEW g, g.other = f.other, PlayHeard(seg, f)
    PROVE  PlayHeard(seg2, g)
<1>1. PlayAudioEnd(seg2) = PlayAudioEnd(seg) /\ seg2.audio = seg.audio /\ ~seg2.broke
  BY GrowsVideo
<1> QED BY <1>1 DEF PlayHeard

\* What a picture finds, with no fill for it: it may be shown.
LEMMA ReadyFacts ==
    ASSUME NEW c \in BOOLEAN, NEW seg \in PlaySegs, ~seg.broke, NEW X, PlayRoom(X), NEW g \in PlayFillers,
           NEW u \in PlayViews, PlayFillerOk(c, seg, X, g, u), PlayTailOk(u),
           NEW at, NEW len, NEW key, NEW offset, PlayComes(seg, "video", at, len, key, offset),
           NEW dts \in Int, dts = seg.start + at, ~(g.started /\ dts <= g.last), dts <= g.end + PlayThreshold
    PROVE  /\ seg.start <= g.end /\ (g.end <= dts + PlaySecond \/ g.end <= dts + PlayMostOffset)
           /\ u.in => u.last <= dts /\ dts >= 0
           /\ ~g.needKey /\ ~key => PlayTaken(u.tail) /\ u.tail.taken + u.tail.len = dts
           /\ c => (u.in => dts - u.last <= PlayLong) /\ (~u.in => dts <= PlayHole)
<1>1. /\ g.end \in Int /\ g.last \in Int /\ g.started \in BOOLEAN /\ g.needKey \in BOOLEAN
      /\ u.in \in BOOLEAN /\ u.last \in Nat
      /\ u.tail # PlayNone => u.tail.len \in Nat
      /\ PlayTaken(u.tail) <=> u.tail # PlayNone /\ u.tail.is = "real"
  BY FillerTypes, ViewTypes
<1>2. /\ seg.start \in Int /\ PlayVideoEnd(seg) \in Int
  BY SegFacts
<1>3. /\ at \in Nat /\ key \in BOOLEAN
      /\ ~key => seg.video # PlayNone
      /\ seg.video # PlayNone => dts = PlayVideoEnd(seg)
  BY VideoComes
<1>4. PlayTaken(u.tail) => u.tail.len <= PlayMostLength
  BY MostFacts DEF PlayTailOk
<1>5. /\ ~g.started => /\ g.end = seg.start /\ seg.video = PlayNone /\ ~g.needKey
                       /\ u.in => u.last < seg.start
      /\ g.started => (u.in <=> g.last >= 0) /\ (u.in => u.last = g.last) /\ seg.start <= g.end
      /\ g.started /\ g.needKey => g.end = g.last + PlaySecond
      /\ g.started /\ ~g.needKey =>
            /\ PlayTaken(u.tail) /\ u.tail.taken = g.last /\ g.last + u.tail.len = PlayVideoEnd(seg)
            /\ seg.video # PlayNone
            /\ g.end <= g.last + PlaySecond \/ g.end <= PlayVideoEnd(seg) + PlayMostOffset
  BY DEF PlayFillerOk, PlayIdle, PlayBusy, PlayWaits, PlayShows
<1>6. seg.start <= g.end
  BY <1>1, <1>2, <1>5
<1>7. /\ g.end <= dts + PlaySecond \/ g.end <= dts + PlayMostOffset
      /\ u.in => u.last <= dts /\ dts >= 0
      /\ ~g.needKey /\ ~key => PlayTaken(u.tail) /\ u.tail.taken + u.tail.len = dts
  <2>1. CASE g.started /\ g.needKey
    BY <1>1, <1>5, <2>1, NumberFacts
  <2>2. CASE g.started /\ ~g.needKey
    <3>1. PICK l \in Nat : l = u.tail.len
      BY <1>1, <1>5, <2>2
    <3>2. /\ dts = g.last + l /\ PlayTaken(u.tail) /\ u.tail.taken = g.last
          /\ g.end <= g.last + PlaySecond \/ g.end <= dts + PlayMostOffset
          /\ (u.in <=> g.last >= 0) /\ (u.in => u.last = g.last)
      BY <1>3, <1>5, <2>2, <3>1
    <3> QED BY <1>1, <2>2, <3>1, <3>2, NumberFacts
  <2>3. CASE ~g.started
    <3>1. key /\ g.end = seg.start /\ (u.in => u.last < seg.start)
      BY <1>3, <1>5, <2>3
    <3> QED BY <1>1, <1>2, <1>3, <3>1, NumberFacts
  <2> QED BY <1>1, <2>1, <2>2, <2>3
<1>8. ASSUME c PROVE (u.in => dts - u.last <= PlayLong) /\ (~u.in => dts <= PlayHole)
  <2>1. CASE g.started
    <3>1. CASE g.needKey
      BY <1>1, <1>5, <2>1, <3>1, NumberFacts
    <3>2. CASE ~g.needKey
      BY <1>1, <1>2, <1>3, <1>4, <1>5, <2>1, <3>2, NumberFacts
    <3> QED BY <3>1, <3>2
  <2>2. CASE ~g.started
    <3>1. seg.start - PlayFrom(u) + PlayOut(u) <= X + PlayQ
      BY <1>8, <2>2 DEF PlayFillerOk, PlayKept
    <3>2. X \in Nat /\ X + PlayThreshold + PlayQ - 1 <= PlayHole
      BY DEF PlayRoom
    <3> QED BY <1>1, <1>2, <1>5, <2>2, <3>1, <3>2, NumberFacts DEF PlayFrom, PlayOut
  <2> QED BY <2>1, <2>2
<1> QED BY <1>6, <1>7, <1>8

\* Normal footage has no picture that is dropped: the video is not that late.
LEMMA NotNormal ==
    ASSUME NEW seg \in PlaySegs, ~seg.broke, NEW f \in PlayFillers, PlayBacked(seg, f),
           NEW at, NEW len, NEW key, NEW offset, PlayComes(seg, "video", at, len, key, offset),
           NEW dts \in Int, dts = seg.start + at,
           \/ f.needKey /\ ~key
           \/ ~f.needKey /\ ~key /\ dts > f.end + PlayThreshold
           \/ f.needKey /\ dts <= f.last /\ (f.last < 0 \/ f.last < PlayEnds(seg))
    PROVE  ~PlayNormal
<1> SUFFICES ASSUME PlayNormal PROVE FALSE
  OBVIOUS
<1>1. f.end \in Int /\ f.last \in Int /\ f.needKey \in BOOLEAN
  BY FillerTypes
<1>2. /\ seg.start \in Int /\ PlayReach(seg, "video") \in Nat /\ PlayReach(seg, "audio") \in Nat
      /\ PlayElapsed(seg) \in Nat
      /\ PlayVideoEnd(seg) \in Int /\ PlayAudioEnd(seg) <= PlayEnds(seg)
      /\ PlayAudioEnd(seg) = seg.start + PlayReach(seg, "audio") /\ PlayEnds(seg) = seg.start + PlayElapsed(seg)
      /\ PlayVideoEnd(seg) = seg.start + PlayReach(seg, "video")
      /\ seg.video = PlayNone => PlayReach(seg, "video") = 0
  BY SegFacts
<1>3. /\ at \in Nat /\ ~key => seg.video # PlayNone
      /\ PlayElapsed(seg) - at <= PlayLate
      /\ seg.video # PlayNone => at = PlayReach(seg, "video")
      /\ seg.video = PlayNone => at = 0 \/ at = PlayElapsed(seg)
  BY VideoComes
<1>4. PlayLate \in Nat /\ PlayLate <= 2 * PlayThreshold /\ PlayThreshold \in Nat
  BY PlayAssumption DEF PlayNormal
<1>5. /\ seg.start >= -2 * PlayThreshold
      /\ seg.video # PlayNone /\ ~f.needKey => PlayVideoEnd(seg) <= f.end
      /\ f.needKey => PlayReach(seg, "audio") - PlayReach(seg, "video") > 2 * PlayThreshold
  BY DEF PlayBacked
<1>6. PlayReach(seg, "audio") <= PlayElapsed(seg)
  BY <1>2
<1>7. CASE f.needKey /\ seg.video # PlayNone
  BY <1>2, <1>3, <1>4, <1>5, <1>6, <1>7
<1>8. CASE f.needKey /\ seg.video = PlayNone
  BY <1>1, <1>2, <1>3, <1>4, <1>5, <1>6, <1>8
<1>9. CASE ~f.needKey
  BY <1>1, <1>2, <1>3, <1>4, <1>5, <1>9
<1> QED BY <1>1, <1>7, <1>8, <1>9

\* writeSample and writeFinalDTS.
LEMMA ShowFacts ==
    ASSUME NEW c \in BOOLEAN, NEW m \in PlayMuxers, PlayMuxOk(c, m), NEW t \in PlayTracks,
           NEW dts \in Int, NEW s, PlayFits(t, c, PlayView(m.tracks[t]), dts, s), NEW to \in Int,
           NEW r, r = PlayFinal(PlaySample(m, t, dts, s), t, to)
    PROVE  PlayPuts(c, m, t, PlayAfterFinal(PlayAfterSample(PlayView(m.tracks[t]), dts, s), to), r)
<1>1. PICK p : p = PlaySample(m, t, dts, s)
  OBVIOUS
<1>2. PlayPuts(c, m, t, PlayAfterSample(PlayView(m.tracks[t]), dts, s), p)
  BY <1>1, SampleFacts
<1>3. p \in PlayMuxers /\ PlayMuxOk(c, p)
  BY <1>2 DEF PlayPuts
<1>4. r = PlayFinal(p, t, to)
  BY <1>1
<1>5. PlayPuts(c, p, t, PlayAfterFinal(PlayView(p.tracks[t]), to), r)
  BY <1>3, <1>4, FinalFacts
<1> QED BY <1>2, <1>5 DEF PlayPuts

\* What a sample of the camera is.
LEMMA RealFacts ==
    ASSUME NEW key \in BOOLEAN, NEW offset \in Nat, NEW taken \in Int, NEW len \in Nat,
           NEW s, s = PlayReal(key, offset, taken, len)
    PROVE  /\ s \in PlaySamples /\ s.is = "real" /\ s.key = key /\ s.offset = offset /\ s.taken = taken
           /\ s.len = len /\ s.dur = 0 /\ s # PlayNone
<1>1. /\ s \in PlaySamples /\ s.is = "real" /\ s.key = key /\ s.offset = offset /\ s.taken = taken
      /\ s.len = len /\ s.dur = 0
  BY DEF PlayReal, PlaySamples
<1> QED BY <1>1, NoSample

\* A picture may be shown after the picture w with the filler g.
PlayFinds(c, seg, key, dts, g, w) ==
    /\ seg.start <= g.end /\ (g.end <= dts + PlaySecond \/ g.end <= dts + PlayMostOffset)
    /\ w.in => w.last <= dts /\ dts >= 0
    /\ ~key => PlayTaken(w.tail) /\ w.tail.taken + w.tail.len = dts
    /\ c => (w.in => dts - w.last <= PlayLong) /\ (~w.in => dts <= PlayHole)
    /\ PlayHeard(seg, g) /\ (c => g.other <= PlayWindow + PlayMostLength - 1)
    /\ PlayNormal => seg.start >= -2 * PlayThreshold

\* A picture of a segment comes, and the segment after it.
PlayTakes(seg, at, len, key, offset, dts, to, seg2) ==
    /\ seg \in PlaySegs /\ ~seg.broke /\ PlayComes(seg, "video", at, len, key, offset)
    /\ dts \in Int /\ dts = seg.start + at /\ to \in Int /\ to = dts + len
    /\ \E past \in BOOLEAN, n \in Nat : ~past /\ n = at + len /\ seg2 = PlayGrows(seg, "video", n, past)

\* A segment that takes a picture.
LEMMA TakesFacts ==
    ASSUME NEW seg, NEW at, NEW len, NEW key, NEW offset, NEW dts, NEW to, NEW seg2,
           PlayTakes(seg, at, len, key, offset, dts, to, seg2)
    PROVE  /\ seg \in PlaySegs /\ ~seg.broke /\ PlayComes(seg, "video", at, len, key, offset)
           /\ dts \in Int /\ dts = seg.start + at /\ to \in Int /\ to = dts + len
           /\ at \in Nat /\ len \in Nat /\ len > 0 /\ key \in BOOLEAN /\ offset \in Nat
           /\ len \in PlayLengths /\ offset \in PlayOffsets
           /\ ~key => seg.video # PlayNone
           /\ seg.video # PlayNone => dts = PlayVideoEnd(seg)
           /\ seg2 \in PlaySegs /\ seg2.start = seg.start /\ seg2.dts = seg.dts /\ ~seg2.broke
           /\ seg2.video # PlayNone /\ PlayAudioEnd(seg2) = PlayAudioEnd(seg)
           /\ PlayVideoEnd(seg2) = to /\ seg.start <= dts /\ PlayVideoEnd(seg) <= dts
           /\ PlayEnds(seg) <= PlayEnds(seg2) /\ dts < PlayEnds(seg2)
           /\ \A f, g : g.other = f.other /\ PlayHeard(seg, f) => PlayHeard(seg2, g)
<1>1. /\ seg \in PlaySegs /\ ~seg.broke /\ PlayComes(seg, "video", at, len, key, offset)
      /\ dts \in Int /\ dts = seg.start + at /\ to \in Int /\ to = dts + len
  BY DEF PlayTakes
<1>2. PICK past \in BOOLEAN, n \in Nat : ~past /\ n = at + len /\ seg2 = PlayGrows(seg, "video", n, past)
  BY DEF PlayTakes
<1>3. /\ at \in Nat /\ len \in Nat /\ len > 0 /\ key \in BOOLEAN /\ offset \in Nat
      /\ PlayReach(seg, "video") <= at
      /\ ~key => seg.video # PlayNone
      /\ seg.video # PlayNone => dts = PlayVideoEnd(seg)
  <2>1. /\ at \in Nat /\ len \in Nat /\ len > 0 /\ key \in BOOLEAN /\ offset \in Nat
        /\ PlayReach(seg, "video") <= at
        /\ ~key => seg.video # PlayNone
        /\ seg.video # PlayNone => seg.start + at = PlayVideoEnd(seg)
    BY <1>1, VideoComes
  <2> QED BY <1>1, <2>1
<1>4. len \in PlayLengths /\ offset \in PlayOffsets
  BY <1>1 DEF PlayComes
<1>5. seg.start \in Int /\ PlayReach(seg, "video") \in Nat /\ PlayVideoEnd(seg) = seg.start + PlayReach(seg, "video")
  BY <1>1, SegFacts
<1>6. PlayReach(seg, "video") <= n
  BY <1>2, <1>3, <1>5
<1>7. /\ seg2 \in PlaySegs /\ seg2.start = seg.start /\ seg2.dts = seg.dts /\ ~seg2.broke
      /\ seg2.video # PlayNone /\ PlayVideoEnd(seg2) = seg.start + n /\ PlayAudioEnd(seg2) = PlayAudioEnd(seg)
      /\ PlayEnds(seg) <= PlayEnds(seg2) /\ seg.start + n <= PlayEnds(seg2)
  BY <1>1, <1>2, <1>6, GrowsVideo
<1>8. PlayEnds(seg2) \in Int
  BY <1>7, SegFacts
<1>9. PlayVideoEnd(seg2) = to /\ seg.start <= dts /\ dts < PlayEnds(seg2) /\ PlayVideoEnd(seg) <= dts
  BY <1>1, <1>2, <1>3, <1>5, <1>7, <1>8
<1>10. \A f, g : g.other = f.other /\ PlayHeard(seg, f) => PlayHeard(seg2, g)
  BY <1>1, <1>2, <1>6, HeardGrows
<1> QED BY <1>1, <1>3, <1>4, <1>7, <1>9, <1>10

\* The muxer p after it, and the filler g.
PlayDone(c, seg2, X, m, p, g) ==
    /\ p \in PlayMuxers /\ PlayMuxOk(c, p)
    /\ PlayView(p.tracks["audio"]) = PlayView(m.tracks["audio"])
    /\ g \in PlayFillers /\ PlayFillerOk(c, seg2, X, g, PlayView(p.tracks["video"]))
    /\ PlayTailOk(PlayView(p.tracks["video"]))

\* The muxer and the filler after a picture that is shown.
LEMMA Shown ==
    ASSUME NEW c \in BOOLEAN, NEW X, NEW seg, NEW at, NEW len, NEW key, NEW offset, NEW dts, NEW to, NEW seg2,
           PlayTakes(seg, at, len, key, offset, dts, to, seg2), NEW s, s = PlayReal(key, offset, dts, len),
           NEW m \in PlayMuxers, PlayMuxOk(c, m),
           NEW g \in PlayFillers, PlayFinds(c, seg, key, dts, g, PlayView(m.tracks["video"])),
           NEW p, p = PlayFinal(PlaySample(m, "video", dts, s), "video", to)
    PROVE  PlayDone(c, seg2, X, m, p, PlayShowing(g, dts, s))
<1>1. /\ dts \in Int /\ to \in Int /\ to = dts + len
      /\ at \in Nat /\ len \in Nat /\ len > 0 /\ key \in BOOLEAN /\ offset \in Nat
      /\ len \in PlayLengths /\ offset \in PlayOffsets
      /\ seg2 \in PlaySegs /\ seg2.start = seg.start /\ ~seg2.broke
      /\ seg2.video # PlayNone /\ PlayVideoEnd(seg2) = to /\ seg.start <= dts
      /\ \A f, h : h.other = f.other /\ PlayHeard(seg, f) => PlayHeard(seg2, h)
  BY TakesFacts
<1>2. /\ s \in PlaySamples /\ s.is = "real" /\ s.key = key /\ s.offset = offset /\ s.taken = dts
      /\ s.len = len /\ s.dur = 0
  BY <1>1, RealFacts
<1>3. PICK vid \in PlayTracks : vid = "video"
  BY DEF PlayTracks
<1>4. "audio" \in PlayTracks \ {vid}
  BY <1>3 DEF PlayTracks
<1>5. PICK w \in PlayViews : w = PlayView(m.tracks["video"])
  BY <1>3, MuxView
<1>6. w.in \in BOOLEAN /\ w.last \in Nat
  BY ViewTypes
<1>7. PlayFinds(c, seg, key, dts, g, w)
  BY <1>5
<1>8. PlayFits(vid, c, w, dts, s)
  <2>1. w.in => w.last <= dts
    BY <1>7 DEF PlayFinds
  <2>2. ~s.key => PlayTaken(w.tail) /\ w.tail.taken + w.tail.len = dts
    BY <1>2, <1>7 DEF PlayFinds
  <2>3. c => (w.in => dts - w.last <= PlayLong) /\ (~w.in => dts <= PlayHole)
    BY <1>7 DEF PlayFinds
  <2> QED BY <1>2, <2>1, <2>2, <2>3 DEF PlayFits
<1>9. PICK v : v = PlayAfterSample(w, dts, s)
  OBVIOUS
<1>10. PICK u : u = PlayAfterFinal(v, to)
  OBVIOUS
<1>11. PlayPuts(c, m, vid, u, p)
  BY <1>1, <1>3, <1>5, <1>8, <1>9, <1>10, ShowFacts
<1>12. /\ p \in PlayMuxers /\ PlayMuxOk(c, p) /\ PlayView(p.tracks["video"]) = u
       /\ PlayView(p.tracks["audio"]) = PlayView(m.tracks["audio"])
  BY <1>3, <1>4, <1>11 DEF PlayPuts
<1>13. PlayShowsAt(c, seg2, dts, to, len, offset, s, g, w)
  <2>1. /\ PlayNormal => seg2.start >= -2 * PlayThreshold
        /\ c => g.other <= PlayWindow + PlayMostLength - 1
        /\ seg2.start <= g.end /\ (g.end <= dts + PlaySecond \/ g.end <= dts + PlayMostOffset)
        /\ w.in => dts >= 0
    BY <1>1, <1>7 DEF PlayFinds
  <2>2. PlayHeard(seg2, g)
    BY <1>1, <1>7 DEF PlayFinds
  <2> QED BY <1>1, <1>2, <2>1, <2>2 DEF PlayShowsAt
<1>14. PICK f : f = PlayShowing(g, dts, s)
  OBVIOUS
<1>15. f \in PlayFillers /\ PlayFillerOk(c, seg2, X, f, u) /\ PlayTailOk(u)
  BY <1>9, <1>10, <1>13, <1>14, PutOk
<1> QED BY <1>12, <1>14, <1>15 DEF PlayDone

\* A picture waits for a keyframe.
PlayMisses(seg, dts, g, w) ==
    /\ ~PlayNormal /\ g.started /\ g.needKey /\ PlayWaits(g, w)
    /\ (w.in <=> g.last >= 0) /\ (w.in => w.last = g.last)
    /\ seg.start <= g.end /\ (g.last < 0 \/ g.last < PlayEnds(seg) \/ g.last < dts)
    /\ dts <= g.end + PlayThreshold

\* The muxer and the filler after a picture that is dropped.
LEMMA Dropped ==
    ASSUME NEW c \in BOOLEAN, NEW X, NEW seg, NEW at, NEW len, NEW key, NEW offset, NEW dts, NEW to, NEW seg2,
           PlayTakes(seg, at, len, key, offset, dts, to, seg2),
           NEW m \in PlayMuxers, PlayMuxOk(c, m),
           NEW g \in PlayFillers, PlayMisses(seg, dts, g, PlayView(m.tracks["video"])),
           PlayHeard(seg, g), c => g.other <= PlayWindow + PlayMostLength - 1,
           NEW p, p = PlayFinal(m, "video", to)
    PROVE  PlayDone(c, seg2, X, m, p, g)
<1>1. /\ dts \in Int /\ to \in Int /\ to = dts + len
      /\ at \in Nat /\ len \in Nat /\ len > 0 /\ len \in PlayLengths
      /\ seg \in PlaySegs /\ seg2 \in PlaySegs /\ seg2.start = seg.start /\ ~seg2.broke
      /\ PlayVideoEnd(seg2) = to /\ PlayEnds(seg) <= PlayEnds(seg2) /\ dts < PlayEnds(seg2)
      /\ \A f, h : h.other = f.other /\ PlayHeard(seg, f) => PlayHeard(seg2, h)
  BY TakesFacts
<1>2. PlayEnds(seg) \in Int /\ PlayEnds(seg2) \in Int /\ g.last \in Int
  BY <1>1, SegFacts, FillerTypes
<1>3. PICK vid \in PlayTracks : vid = "video"
  BY DEF PlayTracks
<1>4. "audio" \in PlayTracks \ {vid}
  BY <1>3 DEF PlayTracks
<1>5. PICK w \in PlayViews : w = PlayView(m.tracks["video"])
  BY <1>3, MuxView
<1>6. PICK u : u = PlayAfterFinal(w, to)
  OBVIOUS
<1>7. PlayPuts(c, m, vid, u, p)
  BY <1>1, <1>3, <1>5, <1>6, FinalFacts
<1>8. /\ p \in PlayMuxers /\ PlayMuxOk(c, p) /\ PlayView(p.tracks["video"]) = u
      /\ PlayView(p.tracks["audio"]) = PlayView(m.tracks["audio"])
  BY <1>3, <1>4, <1>7 DEF PlayPuts
<1>9. /\ ~PlayNormal /\ g.started /\ g.needKey /\ PlayWaits(g, w)
      /\ (w.in <=> g.last >= 0) /\ (w.in => w.last = g.last)
      /\ seg.start <= g.end /\ (g.last < 0 \/ g.last < PlayEnds(seg) \/ g.last < dts)
      /\ dts <= g.end + PlayThreshold
  BY <1>5 DEF PlayMisses
<1>10. PlayHeard(seg2, g)
  BY <1>1
<1>11. PlayDropsAt(seg2, g, w, dts)
  <2>1. g.last < 0 \/ g.last < PlayEnds(seg2)
    BY <1>1, <1>2, <1>9
  <2>2. PlayBusy(seg2, g, w)
    BY <1>1, <1>9, <2>1 DEF PlayBusy
  <2> QED BY <1>9, <2>2 DEF PlayDropsAt
<1>12. PlayFillerOk(c, seg2, X, g, u) /\ ~PlayTaken(u.tail)
  BY <1>1, <1>6, <1>9, <1>10, <1>11, DropOk
<1> QED BY <1>8, <1>12 DEF PlayDone, PlayTailOk

\* What a picture finds after the fill before it.
PlayStands(c, seg, key, dts, k, x) ==
    /\ x.m \in PlayMuxers /\ PlayMuxOk(c, x.m) /\ x.f \in PlayFillers /\ x = [m |-> x.m, f |-> x.f]
    /\ PlayView(x.m.tracks["audio"]) = PlayView(k.m.tracks["audio"])
    /\ PlayHeard(seg, x.f) /\ (c => x.f.other <= PlayWindow + PlayMostLength - 1)
    /\ x.f.needKey /\ ~key => PlayMisses(seg, dts, x.f, PlayView(x.m.tracks["video"]))
    /\ ~(x.f.needKey /\ ~key) => PlayFinds(c, seg, key, dts, x.f, PlayView(x.m.tracks["video"]))

\* The end of the window is not past the sound that was heard.
LEMMA KeptOther ==
    ASSUME NEW c, NEW seg, NEW X, NEW f, NEW u, PlayFillerOk(c, seg, X, f, u)
    PROVE  /\ PlayHeard(seg, f) /\ PlayBacked(seg, f) /\ PlayWaits(f, u) /\ PlayBusy(seg, f, u)
           /\ PlayIdle(seg, f, u) /\ PlayShows(seg, f, u) /\ PlayKept(c, seg, X, f, u)
           /\ c => f.other <= PlayWindow + PlayMostLength - 1
BY DEF PlayFillerOk, PlayKept

\* A picture that needs no fill.
LEMMA StandsNear ==
    ASSUME NEW c \in BOOLEAN, NEW seg \in PlaySegs, ~seg.broke, NEW X, PlayRoom(X), NEW g \in PlayFillers,
           NEW u \in PlayViews, PlayFillerOk(c, seg, X, g, u), PlayTailOk(u),
           NEW at, NEW len, NEW key, NEW offset, PlayComes(seg, "video", at, len, key, offset),
           NEW dts \in Int, dts = seg.start + at, ~(g.started /\ dts <= g.last), dts <= g.end + PlayThreshold
    PROVE  /\ g.needKey /\ ~key => PlayMisses(seg, dts, g, u)
           /\ ~(g.needKey /\ ~key) => PlayFinds(c, seg, key, dts, g, u)
<1>1. /\ PlayHeard(seg, g) /\ PlayBacked(seg, g) /\ PlayWaits(g, u) /\ PlayBusy(seg, g, u) /\ PlayIdle(seg, g, u)
      /\ c => g.other <= PlayWindow + PlayMostLength - 1
  BY KeptOther
<1>2. /\ seg.start <= g.end /\ (g.end <= dts + PlaySecond \/ g.end <= dts + PlayMostOffset)
      /\ u.in => u.last <= dts /\ dts >= 0
      /\ ~g.needKey /\ ~key => PlayTaken(u.tail) /\ u.tail.taken + u.tail.len = dts
      /\ c => (u.in => dts - u.last <= PlayLong) /\ (~u.in => dts <= PlayHole)
  BY ReadyFacts
<1>3. ASSUME g.needKey, ~key PROVE PlayMisses(seg, dts, g, u)
  <2>1. ~PlayNormal
    BY <1>1, <1>3, NotNormal
  <2>2. g.started
    BY <1>1, <1>3 DEF PlayIdle
  <2>3. /\ (u.in <=> g.last >= 0) /\ (u.in => u.last = g.last)
        /\ g.last < 0 \/ g.last < PlayEnds(seg)
    BY <1>1, <2>2 DEF PlayBusy
  <2> QED BY <1>1, <1>2, <1>3, <2>1, <2>2, <2>3 DEF PlayMisses
<1>4. ASSUME ~(g.needKey /\ ~key) PROVE PlayFinds(c, seg, key, dts, g, u)
  <2>1. ~key => PlayTaken(u.tail) /\ u.tail.taken + u.tail.len = dts
    BY <1>2, <1>4
  <2>2. PlayNormal => seg.start >= -2 * PlayThreshold
    BY <1>1 DEF PlayBacked
  <2> QED BY <1>1, <1>2, <2>1, <2>2 DEF PlayFinds
<1> QED BY <1>3, <1>4

\* A picture far from what is shown, once the span before it is filled.
LEMMA StandsFar ==
    ASSUME NEW c \in BOOLEAN, NEW seg \in PlaySegs, ~seg.broke, NEW X, PlayRoom(X), NEW f \in PlayFillers,
           NEW u \in PlayViews, PlayFillerOk(c, seg, X, f, u),
           NEW at, NEW len, NEW key, NEW offset, PlayComes(seg, "video", at, len, key, offset),
           NEW dts \in Int, dts = seg.start + at, dts > f.end + PlayThreshold,
           NEW d \in Int, f.end <= d, d < dts, dts <= d + PlaySecond,
           NEW other \in Int, other = f.other,
           NEW g, g = PlayHoleFiller(d, other), NEW w, w = PlayHoleView(d, u.last)
    PROVE  /\ g \in PlayFillers /\ PlayHeard(seg, g) /\ (c => g.other <= PlayWindow + PlayMostLength - 1)
           /\ g.needKey /\ ~key => PlayMisses(seg, dts, g, w)
           /\ ~(g.needKey /\ ~key) => PlayFinds(c, seg, key, dts, g, w)
<1>1. /\ PlayHeard(seg, f) /\ PlayBacked(seg, f) /\ PlayBusy(seg, f, u) /\ PlayIdle(seg, f, u)
      /\ c => f.other <= PlayWindow + PlayMostLength - 1
  BY KeptOther
<1>2. f.end \in Int /\ f.started \in BOOLEAN /\ f.needKey \in BOOLEAN /\ u.last \in Nat
  BY FillerTypes, ViewTypes
<1>3. g \in PlayFillers /\ g.end = d + PlaySecond /\ g.started /\ g.last = d /\ g.needKey /\ g.other = f.other
  BY HoleFillerFacts
<1>4. /\ w \in PlayViews /\ (w.in <=> d >= 0) /\ (d >= 0 => w.last = d) /\ w.tail # PlayNone /\ w.tail.is = "hole"
  BY <1>2, HoleViewFacts
<1>5. PlayHeard(seg, g)
  BY <1>1, <1>3 DEF PlayHeard
<1>6. seg.start \in Int /\ seg.start <= f.end /\ seg.start <= g.end
  <2>1. seg.start \in Int
    BY SegFacts
  <2>2. seg.start <= f.end
    BY <1>1, <1>2, <2>1 DEF PlayBusy, PlayIdle
  <2> QED BY <1>2, <1>3, <2>1, <2>2, NumberFacts
<1>7. ASSUME ~key PROVE PlayMisses(seg, dts, g, w)
  <2>1. ~PlayNormal
    BY <1>1, <1>2, <1>7, NotNormal
  <2>2. PlayWaits(g, w)
    BY <1>3, <1>4 DEF PlayWaits
  <2>3. dts <= g.end + PlayThreshold
    BY <1>3, NumberFacts
  <2> QED BY <1>3, <1>4, <1>6, <2>1, <2>2, <2>3 DEF PlayMisses
<1>8. ASSUME key PROVE PlayFinds(c, seg, key, dts, g, w)
  <2>1. g.end <= dts + PlaySecond
    BY <1>3, NumberFacts
  <2>2. w.in => w.last <= dts /\ dts >= 0
    BY <1>4
  <2>3. (w.in => dts - w.last <= PlayLong) /\ (~w.in => dts <= PlayHole)
    BY <1>4, SecondLong, NumberFacts
  <2>4. PlayNormal => seg.start >= -2 * PlayThreshold
    BY <1>1 DEF PlayBacked
  <2>5. c => g.other <= PlayWindow + PlayMostLength - 1
    BY <1>1, <1>3
  <2> QED BY <1>5, <1>6, <1>8, <2>1, <2>2, <2>3, <2>4, <2>5 DEF PlayFinds
<1> QED BY <1>1, <1>3, <1>5, <1>7, <1>8

\* The fill before a picture.
LEMMA StandsFacts ==
    ASSUME NEW c \in BOOLEAN, NEW seg, NEW X, NEW k, PlaySegOk(c, seg, X, k), ~seg.broke, k.f # PlayNone,
           NEW at, NEW len, NEW key, NEW offset, PlayComes(seg, "video", at, len, key, offset),
           NEW dts \in Int, dts = seg.start + at, ~(k.f.started /\ dts <= k.f.last),
           NEW x, x = IF dts - k.f.end > PlayThreshold THEN PlayFillTo(k, dts) ELSE k
    PROVE  PlayStands(c, seg, key, dts, k, x)
<1>1. PICK f \in PlayFillers : f = k.f
  BY DEF PlaySegOk
<1>2. "video" \in PlayTracks /\ "audio" \in PlayTracks
  BY DEF PlayTracks
<1>3. k.m \in PlayMuxers /\ PlayMuxOk(c, k.m) /\ k \in PlayFilling /\ k = [m |-> k.m, f |-> k.f]
  BY <1>1 DEF PlaySegOk, PlayFilling
<1>4. PICK u \in PlayViews : u = PlayView(k.m.tracks["video"]) /\ (u.in => u.tail # PlayNone)
  BY <1>2, <1>3, MuxView
<1>5. seg \in PlaySegs /\ PlayRoom(X) /\ PlayFillerOk(c, seg, X, f, u) /\ PlayTailOk(u)
  BY <1>1, <1>4 DEF PlaySegOk
<1>6. f.end \in Int /\ f.last \in Int /\ f.other \in Int /\ u.last \in Nat
  BY FillerTypes, ViewTypes
<1>7. CASE ~(dts - f.end > PlayThreshold)
  <2>1. x = k
    BY <1>1, <1>7
  <2>2. dts <= f.end + PlayThreshold
    BY <1>6, <1>7, NumberFacts
  <2>3. /\ f.needKey /\ ~key => PlayMisses(seg, dts, f, u)
        /\ ~(f.needKey /\ ~key) => PlayFinds(c, seg, key, dts, f, u)
    BY <1>1, <1>5, <2>2, StandsNear
  <2>4. PlayHeard(seg, f) /\ (c => f.other <= PlayWindow + PlayMostLength - 1)
    BY <1>5, KeptOther
  <2> QED BY <1>1, <1>3, <1>4, <2>1, <2>3, <2>4 DEF PlayStands
<1>8. CASE dts - f.end > PlayThreshold
  <2>1. x = PlayFillTo(k, dts)
    BY <1>1, <1>8
  <2>2. PlayMayFill(c, f, u)
    BY <1>4, <1>5, MayFill
  <2>3. f.end < dts /\ dts > f.end + PlayThreshold
    BY <1>6, <1>8, NumberFacts
  <2>4. PlayFillOk(c, k, dts, x)
    BY <1>1, <1>3, <1>4, <2>1, <2>2, <2>3, FillFacts
  <2>5. CASE /\ f.started /\ f.end = f.last /\ dts <= f.end + PlaySecond
             /\ x = [m |-> k.m, f |-> [f EXCEPT !.end = @ + PlaySecond]]
    <3>1. PICK g : g = [f EXCEPT !.end = @ + PlaySecond]
      OBVIOUS
    <3>2. g \in PlayFillers /\ PlayFillerOk(c, seg, X, g, u)
      BY <1>5, <2>5, <3>1, CatchSkips
    <3>3. g.end = f.end + PlaySecond /\ g.started = f.started /\ g.last = f.last
      BY <3>1, MovedFacts
    <3>4. x.m = k.m /\ x.f = g /\ x = [m |-> x.m, f |-> x.f]
      BY <2>5, <3>1
    <3>5. ~(g.started /\ dts <= g.last) /\ dts <= g.end + PlayThreshold
      BY <1>1, <1>6, <2>5, <3>3, NumberFacts
    <3>6. /\ g.needKey /\ ~key => PlayMisses(seg, dts, g, u)
          /\ ~(g.needKey /\ ~key) => PlayFinds(c, seg, key, dts, g, u)
      BY <1>5, <3>2, <3>5, StandsNear
    <3>7. PlayHeard(seg, g) /\ (c => g.other <= PlayWindow + PlayMostLength - 1)
      BY <3>2, KeptOther
    <3> QED BY <1>3, <1>4, <3>2, <3>4, <3>6, <3>7 DEF PlayStands
  <2>6. CASE \E d \in Int : /\ f.end <= d /\ d < dts /\ dts <= d + PlaySecond
                            /\ PlayHoled(c, k, d, d + PlaySecond, x)
    <3>1. PICK d \in Int : /\ f.end <= d /\ d < dts /\ dts <= d + PlaySecond
                           /\ PlayHoled(c, k, d, d + PlaySecond, x)
      BY <2>6
    <3>2. PICK other \in Int : other = f.other
      BY <1>6
    <3>3. PICK g : g = PlayHoleFiller(d, other)
      OBVIOUS
    <3>4. PICK w : w = PlayHoleView(d, u.last)
      OBVIOUS
    <3>5. /\ x.m \in PlayMuxers /\ PlayMuxOk(c, x.m) /\ x = [m |-> x.m, f |-> x.f]
          /\ PlayView(x.m.tracks["audio"]) = PlayView(k.m.tracks["audio"])
      BY <3>1 DEF PlayHoled
    <3>6. x.f = g
      BY <1>1, <3>1, <3>2, <3>3, Zenon DEF PlayHoled, PlayHoleFiller
    <3>7. PlayView(x.m.tracks["video"]) = w
      BY <1>4, <3>1, <3>4, Zenon DEF PlayHoled, PlayHoleView
    <3>8. /\ g \in PlayFillers /\ PlayHeard(seg, g) /\ (c => g.other <= PlayWindow + PlayMostLength - 1)
          /\ g.needKey /\ ~key => PlayMisses(seg, dts, g, w)
          /\ ~(g.needKey /\ ~key) => PlayFinds(c, seg, key, dts, g, w)
      BY <1>5, <2>3, <3>1, <3>2, <3>3, <3>4, StandsFar
    <3> QED BY <3>5, <3>6, <3>7, <3>8 DEF PlayStands
  <2> QED BY <1>1, <2>4, <2>5, <2>6 DEF PlayFillOk
<1> QED BY <1>7, <1>8

PlayPictured(k, dts, s, to) == [PlayPicture(k, dts, s) EXCEPT !.m = PlayFinal(@, "video", to)]

\* A picture without a filler.
LEMMA PictureBare ==
    ASSUME NEW c \in BOOLEAN, NEW seg, NEW X, NEW k, PlaySegOk(c, seg, X, k), k.f = PlayNone,
           NEW at, NEW len, NEW key, NEW offset, NEW dts, NEW to, NEW seg2,
           PlayTakes(seg, at, len, key, offset, dts, to, seg2), NEW s, s = PlayReal(key, offset, dts, len),
           NEW r, r = PlayPictured(k, dts, s, to)
    PROVE  PlaySegOk(c, seg2, X, r) /\ r.f = PlayNone
<1>1. PICK m \in PlayMuxers : m = k.m /\ PlayMuxOk(c, m) /\ k = [m |-> m, f |-> PlayNone]
  BY DEF PlaySegOk
<1>2. seg \in PlaySegs /\ ~c /\ PlayVideoEnd(seg) \in Int
  BY SegFacts DEF PlaySegOk
<1>3. /\ dts \in Int /\ to \in Int /\ to = dts + len /\ ~seg.broke
      /\ len \in Nat /\ len > 0 /\ key \in BOOLEAN /\ offset \in Nat
      /\ len \in PlayLengths /\ offset \in PlayOffsets
      /\ ~key => seg.video # PlayNone
      /\ seg.video # PlayNone => dts = PlayVideoEnd(seg)
      /\ PlayVideoEnd(seg) <= dts
  BY TakesFacts
<1>4. /\ s \in PlaySamples /\ s.is = "real" /\ s.key = key /\ s.offset = offset /\ s.taken = dts
      /\ s.len = len /\ s.dur = 0 /\ s # PlayNone
  BY <1>3, RealFacts
<1>5. to \in Int /\ to = dts + len
  BY <1>3
<1>6. PICK vid \in PlayTracks : vid = "video"
  BY DEF PlayTracks
<1>7. "audio" \in PlayTracks \ {vid}
  BY <1>6 DEF PlayTracks
<1>8. PICK v \in PlayViews : v = PlayView(m.tracks[vid]) /\ (v.in => v.tail # PlayNone)
  BY <1>1, <1>6, MuxView
<1>9. v.in \in BOOLEAN /\ v.last \in Nat
  BY ViewTypes
<1>10. /\ v.in => v.last < PlayVideoEnd(seg)
       /\ seg.video # PlayNone => PlayTaken(v.tail) /\ v.tail.taken + v.tail.len = PlayVideoEnd(seg)
  BY <1>1, <1>3, <1>6, <1>8 DEF PlaySegOk, PlayBare
<1>11. PlayFits(vid, c, v, dts, s)
  <2>1. v.in => v.last <= dts
    BY <1>2, <1>3, <1>9, <1>10
  <2>2. ~s.key => PlayTaken(v.tail) /\ v.tail.taken + v.tail.len = dts
    BY <1>3, <1>4, <1>10
  <2> QED BY <1>2, <1>4, <2>1, <2>2 DEF PlayFits
<1>12. PICK w : w = PlayAfterSample(v, dts, s)
  OBVIOUS
<1>13. PICK u : u = PlayAfterFinal(w, to)
  OBVIOUS
<1>14. PICK p : p = PlayFinal(PlaySample(m, vid, dts, s), vid, to)
  OBVIOUS
<1>15. PlayPuts(c, m, vid, u, p)
  BY <1>1, <1>3, <1>8, <1>11, <1>12, <1>13, <1>14, ShowFacts
<1>16. /\ p \in PlayMuxers /\ PlayMuxOk(c, p) /\ PlayView(p.tracks["video"]) = u
       /\ PlayView(p.tracks["audio"]) = PlayView(m.tracks["audio"])
  BY <1>6, <1>7, <1>15 DEF PlayPuts
<1>17. r.m = p /\ r.f = PlayNone /\ r = [m |-> r.m, f |-> r.f]
  <2>1. PICK q : q = PlaySample(m, vid, dts, s)
    OBVIOUS
  <2>2. PlayPicture(k, dts, s) = [m |-> q, f |-> PlayNone]
    BY <1>1, <1>6, <2>1 DEF PlayPicture
  <2>3. r = [m |-> PlayFinal(q, vid, to), f |-> PlayNone]
    BY <1>5, <1>6, <2>2 DEF PlayPictured
  <2>4. r = [m |-> p, f |-> PlayNone]
    BY <1>14, <2>1, <2>3
  <2> QED BY <2>4
<1>18. /\ w \in PlayViews /\ (w.in <=> v.in \/ dts >= 0) /\ (w.in => w.last = dts) /\ w.tail = s
  <2>1. PICK b \in BOOLEAN : b <=> v.in \/ dts >= 0
    OBVIOUS
  <2>2. PICK l \in Nat : l = IF dts >= 0 THEN dts ELSE v.last
    BY <1>3, <1>9
  <2>3. (v.in \/ dts >= 0) = b
    BY <2>1
  <2>4. w = [in |-> b, last |-> l, tail |-> s]
    BY <1>12, <2>2, <2>3, Zenon DEF PlayAfterSample
  <2>5. w \in PlayViews /\ w.in = b /\ w.last = l /\ w.tail = s
    BY <1>4, <2>4 DEF PlayViews
  <2>6. v.in => dts >= 0
    BY <1>2, <1>3, <1>9, <1>10
  <2> QED BY <2>1, <2>2, <2>5, <2>6
<1>19. /\ u.in = w.in /\ u.last = w.last /\ PlayTaken(u.tail) /\ u.tail.taken = dts
       /\ u.tail.len = len /\ u.tail.offset = offset
  <2>1. w.in => w.tail # PlayNone
    BY <1>4, <1>18
  <2>2. /\ u.in = w.in /\ u.last = w.last /\ (PlayTaken(u.tail) <=> PlayTaken(w.tail))
        /\ u.tail.taken = w.tail.taken /\ u.tail.len = w.tail.len /\ u.tail.offset = w.tail.offset
    BY <1>3, <1>13, <1>18, <2>1, FinalView
  <2> QED BY <1>4, <1>18, <2>2 DEF PlayTaken
<1>20. /\ seg2 \in PlaySegs /\ seg2.start = seg.start /\ seg2.dts = seg.dts
       /\ PlayVideoEnd(seg2) = to /\ PlayAudioEnd(seg2) = PlayAudioEnd(seg)
  BY TakesFacts
<1>21. PlayBare(seg2, u)
  <2>1. u.in => u.last < to
    BY <1>3, <1>5, <1>18, <1>19
  <2> QED BY <1>5, <1>19, <1>20, <2>1 DEF PlayBare
<1>22. PlayTailOk(u)
  BY <1>3, <1>19 DEF PlayTailOk
<1>23. /\ seg.dts = seg.start /\ seg.start < PlayWindow /\ PlayRoom(X)
       /\ PlayView(m.tracks["audio"]).in => PlayView(m.tracks["audio"]).last < PlayAudioEnd(seg)
  BY <1>1 DEF PlaySegOk
<1> QED BY <1>2, <1>16, <1>17, <1>20, <1>21, <1>22, <1>23 DEF PlaySegOk

\* videoFill.video keeps the segment right.
LEMMA PictureFacts ==
    ASSUME NEW c \in BOOLEAN, NEW seg, NEW X, NEW k, PlaySegOk(c, seg, X, k),
           NEW at, NEW len, NEW key, NEW offset, NEW dts, NEW to, NEW seg2,
           PlayTakes(seg, at, len, key, offset, dts, to, seg2), NEW s, s = PlayReal(key, offset, dts, len),
           NEW r, r = PlayPictured(k, dts, s, to)
    PROVE  PlaySegOk(c, seg2, X, r) /\ (r.f = PlayNone <=> k.f = PlayNone)
<1>1. CASE k.f = PlayNone
  BY <1>1, PictureBare
<1>2. CASE k.f # PlayNone
  <2>1. PICK f \in PlayFillers : f = k.f
    BY <1>2 DEF PlaySegOk
  <2>2. PICK m \in PlayMuxers : m = k.m /\ PlayMuxOk(c, m) /\ k = [m |-> m, f |-> f]
    BY <2>1 DEF PlaySegOk
  <2>3. PICK u \in PlayViews : u = PlayView(m.tracks["video"]) /\ (u.in => u.tail # PlayNone)
    <3>1. "video" \in PlayTracks
      BY DEF PlayTracks
    <3> QED BY <2>2, <3>1, MuxView
  <2>4. seg \in PlaySegs /\ PlayRoom(X) /\ PlayFillerOk(c, seg, X, f, u) /\ PlayTailOk(u)
    BY <1>2, <2>1, <2>2, <2>3 DEF PlaySegOk
  <2>5. /\ PlayHeard(seg, f) /\ PlayBacked(seg, f) /\ PlayWaits(f, u) /\ PlayBusy(seg, f, u)
        /\ PlayShows(seg, f, u) /\ (c => f.other <= PlayWindow + PlayMostLength - 1)
    BY <2>4, KeptOther
  <2>6. /\ f.end \in Int /\ f.last \in Int /\ f.started \in BOOLEAN /\ f.needKey \in BOOLEAN
    BY FillerTypes
  <2>7. /\ ~seg.broke /\ PlayComes(seg, "video", at, len, key, offset)
        /\ dts \in Int /\ dts = seg.start + at /\ key \in BOOLEAN
        /\ seg.video # PlayNone => dts = PlayVideoEnd(seg)
        /\ seg2 \in PlaySegs /\ seg2.start = seg.start /\ seg2.dts = seg.dts
        /\ PlayAudioEnd(seg2) = PlayAudioEnd(seg)
    BY TakesFacts
  <2>8. s.key = key
    BY DEF PlayReal
  <2>9. /\ seg.dts = seg.start /\ seg.start < PlayWindow
        /\ PlayView(m.tracks["audio"]).in => PlayView(m.tracks["audio"]).last < PlayAudioEnd(seg)
    BY <2>2 DEF PlaySegOk
  <2>10. ASSUME NEW p, NEW g, PlayDone(c, seg2, X, m, p, g), r = [m |-> p, f |-> g]
         PROVE  PlaySegOk(c, seg2, X, r) /\ r.f # PlayNone
    <3>1. /\ p \in PlayMuxers /\ PlayMuxOk(c, p)
          /\ PlayView(p.tracks["audio"]) = PlayView(m.tracks["audio"])
          /\ g \in PlayFillers /\ PlayFillerOk(c, seg2, X, g, PlayView(p.tracks["video"]))
          /\ PlayTailOk(PlayView(p.tracks["video"]))
      BY <2>10 DEF PlayDone
    <3>2. g # PlayNone
      BY <3>1, PlayAssumption DEF PlayFillers
    <3>3. r.m = p /\ r.f = g /\ r = [m |-> r.m, f |-> r.f]
      BY <2>10
    <3> QED BY <2>4, <2>7, <2>9, <3>1, <3>2, <3>3 DEF PlaySegOk
  <2>11. CASE f.started /\ dts <= f.last
    <3>1. f.needKey
      <4>1. ASSUME ~f.needKey PROVE FALSE
        <5>1. /\ seg.video # PlayNone /\ PlayTaken(u.tail) /\ f.last + u.tail.len = PlayVideoEnd(seg)
          BY <2>5, <2>11, <4>1 DEF PlayShows
        <5>2. u.tail.len \in Nat /\ u.tail.len > 0
          BY <2>4, <5>1, MostFacts DEF PlayTailOk
        <5> QED BY <2>6, <2>7, <2>11, <5>1, <5>2
      <4> QED BY <2>6, <4>1
    <3>2. /\ (u.in <=> f.last >= 0) /\ (u.in => u.last = f.last)
          /\ f.last < 0 \/ f.last < PlayEnds(seg)
          /\ seg.start <= f.end
      BY <2>5, <2>11 DEF PlayBusy
    <3>3. ~PlayNormal
      BY <2>4, <2>5, <2>7, <2>11, <3>1, <3>2, NotNormal
    <3>4. dts <= f.end + PlayThreshold
      <4>1. f.end = f.last + PlaySecond
        BY <2>5, <2>11, <3>1 DEF PlayWaits
      <4> QED BY <2>6, <2>7, <2>11, <4>1, NumberFacts
    <3>5. PICK p : p = PlayFinal(m, "video", to)
      OBVIOUS
    <3>6. PlayMisses(seg, dts, f, PlayView(m.tracks["video"]))
      BY <2>3, <2>5, <2>11, <3>1, <3>2, <3>3, <3>4 DEF PlayMisses
    <3>7. PlayDone(c, seg2, X, m, p, f)
      BY <2>2, <2>5, <3>5, <3>6, Dropped
    <3>8. PlayPicture(k, dts, s) = k
      BY <1>2, <2>1, <2>11 DEF PlayPicture
    <3>9. r = [m |-> p, f |-> f]
      BY <2>2, <3>5, <3>8 DEF PlayPictured
    <3> QED BY <1>2, <2>10, <3>7, <3>9
  <2>12. CASE ~(f.started /\ dts <= f.last)
    <3>1. PICK x : x = IF dts - k.f.end > PlayThreshold THEN PlayFillTo(k, dts) ELSE k
      OBVIOUS
    <3>2. PlayStands(c, seg, key, dts, k, x)
      BY <1>2, <2>1, <2>7, <2>12, <3>1, StandsFacts
    <3>3. PICK g \in PlayFillers : g = x.f
      BY <3>2 DEF PlayStands
    <3>4. PICK y \in PlayMuxers : y = x.m
      BY <3>2 DEF PlayStands
    <3>5. /\ PlayMuxOk(c, y) /\ PlayView(y.tracks["audio"]) = PlayView(m.tracks["audio"])
          /\ PlayHeard(seg, g) /\ (c => g.other <= PlayWindow + PlayMostLength - 1)
          /\ g.needKey /\ ~key => PlayMisses(seg, dts, g, PlayView(y.tracks["video"]))
          /\ ~(g.needKey /\ ~key) => PlayFinds(c, seg, key, dts, g, PlayView(y.tracks["video"]))
          /\ x = [m |-> y, f |-> g]
      BY <2>2, <3>2, <3>3, <3>4 DEF PlayStands
    <3>6. ASSUME NEW p, NEW h, PlayDone(c, seg2, X, y, p, h) PROVE PlayDone(c, seg2, X, m, p, h)
      BY <3>5, <3>6 DEF PlayDone
    <3>7. CASE g.needKey /\ ~key
      <4>1. PICK p : p = PlayFinal(y, "video", to)
        OBVIOUS
      <4>2. PlayMisses(seg, dts, g, PlayView(y.tracks["video"]))
        BY <3>5, <3>7
      <4>3. PlayDone(c, seg2, X, y, p, g)
        BY <3>5, <4>1, <4>2, Dropped
      <4>4. PlayPicture(k, dts, s) = x
        BY <1>2, <2>1, <2>8, <2>12, <3>1, <3>3, <3>7 DEF PlayPicture
      <4>5. r = [m |-> p, f |-> g]
        BY <3>5, <4>1, <4>4 DEF PlayPictured
      <4> QED BY <1>2, <2>10, <3>6, <4>3, <4>5
    <3>8. CASE ~(g.needKey /\ ~key)
      <4>1. PICK p : p = PlayFinal(PlaySample(y, "video", dts, s), "video", to)
        OBVIOUS
      <4>2. PICK h : h = PlayShowing(g, dts, s)
        OBVIOUS
      <4>3. PlayFinds(c, seg, key, dts, g, PlayView(y.tracks["video"]))
        BY <3>5, <3>8
      <4>4. PlayDone(c, seg2, X, y, p, h)
        BY <3>5, <4>1, <4>2, <4>3, Shown
      <4>5. PlayPicture(k, dts, s) = [m |-> PlaySample(y, "video", dts, s), f |-> h]
        BY <1>2, <2>1, <2>8, <2>12, <3>1, <3>3, <3>4, <3>8, <4>2 DEF PlayPicture, PlayShowing
      <4>6. r = [m |-> p, f |-> h]
        BY <4>1, <4>5 DEF PlayPictured
      <4> QED BY <1>2, <2>10, <3>6, <4>4, <4>6
    <3> QED BY <3>7, <3>8
  <2> QED BY <2>11, <2>12
<1> QED BY <1>1, <1>2

-----------------------------------------------------------------------------
(* A sample past the window, and a sound.                                  *)

\* What is known of a sample of audio that comes.
LEMMA AudioComes ==
    ASSUME NEW seg \in PlaySegs, NEW at, NEW len, NEW key, NEW offset,
           PlayComes(seg, "audio", at, len, key, offset)
    PROVE  /\ at \in Nat /\ len \in Nat /\ len > 0 /\ len <= PlayMostLength /\ PlayReach(seg, "audio") <= at
           /\ seg.audio # PlayNone => at = PlayReach(seg, "audio")
           /\ seg.audio = PlayNone => at = 0 \/ at = PlayElapsed(seg)
<1>1. /\ PlayReach(seg, "audio") \in Nat
      /\ seg.audio = PlayNone => PlayReach(seg, "audio") = 0
      /\ seg.audio # PlayNone => PlayReach(seg, "audio") = seg.audio
  BY SegFacts
<1>2. /\ at \in Nat /\ len \in PlayLengths
      /\ seg.audio = PlayNone => at = 0 \/ at = PlayElapsed(seg)
      /\ seg.audio # PlayNone => at = seg.audio
  BY DEF PlayComes
<1>3. len \in Nat /\ len > 0 /\ len <= PlayMostLength
  BY <1>2, MostFacts
<1> QED BY <1>1, <1>2, <1>3

\* A sample of a segment comes past the window, and the segment it ends.
PlayLeaves(seg, t, at, len, key, offset, dts, seg2) ==
    /\ seg \in PlaySegs /\ ~seg.broke /\ PlayComes(seg, t, at, len, key, offset)
    /\ seg.start < PlayWindow /\ dts \in Int /\ dts = seg.start + at /\ dts >= PlayWindow
    /\ \E past \in BOOLEAN : past /\ seg2 = PlayGrows(seg, t, at, past)

\* A segment that a picture past the window ends.
LEMMA LeavesVideo ==
    ASSUME NEW seg, NEW at, NEW len, NEW key, NEW offset, NEW dts, NEW seg2,
           PlayLeaves(seg, "video", at, len, key, offset, dts, seg2)
    PROVE  /\ seg \in PlaySegs /\ ~seg.broke /\ dts \in Int /\ dts >= PlayWindow /\ seg.start < dts
           /\ seg2 \in PlaySegs /\ seg2.start = seg.start /\ seg2.dts = seg.dts /\ seg2.broke
           /\ seg2.video # PlayNone /\ PlayAudioEnd(seg2) = PlayAudioEnd(seg)
           /\ PlayVideoEnd(seg2) = dts /\ PlayVideoEnd(seg) <= dts
           /\ PlayEnds(seg) <= PlayEnds(seg2)
           /\ seg.video # PlayNone => dts = PlayVideoEnd(seg)
           /\ seg.video = PlayNone => /\ seg.audio # PlayNone /\ PlayAudioEnd(seg) = dts
                                      /\ PlayEnds(seg) = dts
<1>1. /\ seg \in PlaySegs /\ ~seg.broke /\ PlayComes(seg, "video", at, len, key, offset)
      /\ seg.start < PlayWindow /\ dts \in Int /\ dts = seg.start + at /\ dts >= PlayWindow
  BY DEF PlayLeaves
<1>2. PICK past \in BOOLEAN : past /\ seg2 = PlayGrows(seg, "video", at, past)
  BY DEF PlayLeaves
<1>3. /\ at \in Nat /\ PlayReach(seg, "video") <= at
      /\ seg.video # PlayNone => seg.start + at = PlayVideoEnd(seg)
      /\ seg.video = PlayNone => at = 0 \/ at = PlayElapsed(seg)
  BY <1>1, VideoComes
<1>4. at \in Nat /\ PlayReach(seg, "video") <= at /\ seg \in PlaySegs
  BY <1>1, <1>3
<1>5. /\ seg2 \in PlaySegs /\ seg2.start = seg.start /\ seg2.dts = seg.dts
      /\ seg2.video # PlayNone /\ PlayAudioEnd(seg2) = PlayAudioEnd(seg)
      /\ PlayVideoEnd(seg2) = seg.start + at /\ PlayEnds(seg) <= PlayEnds(seg2)
  <2>1. PICK n \in Nat : n = at
    BY <1>4
  <2>2. seg2 = PlayGrows(seg, "video", n, past) /\ PlayReach(seg, "video") <= n
    BY <1>2, <1>4, <2>1
  <2>3. /\ seg2 \in PlaySegs /\ seg2.start = seg.start /\ seg2.dts = seg.dts
        /\ seg2.video # PlayNone /\ PlayAudioEnd(seg2) = PlayAudioEnd(seg)
        /\ PlayVideoEnd(seg2) = seg.start + n /\ PlayEnds(seg) <= PlayEnds(seg2)
    BY <1>4, <2>2, GrowsVideo
  <2> QED BY <2>1, <2>3
<1>6. seg2.broke
  <2>1. seg2.broke = past
    BY <1>2, <1>4, GrowsVideo
  <2> QED BY <1>2, <2>1
<1>7. /\ seg.start \in Int /\ PlayReach(seg, "video") \in Nat
      /\ PlayVideoEnd(seg) = seg.start + PlayReach(seg, "video")
      /\ PlayAudioEnd(seg) = seg.start + PlayReach(seg, "audio") /\ PlayReach(seg, "audio") \in Nat
      /\ PlayEnds(seg) = seg.start + PlayElapsed(seg) /\ PlayElapsed(seg) \in Nat
      /\ PlayEnds(seg) = PlayVideoEnd(seg) \/ PlayEnds(seg) = PlayAudioEnd(seg)
      /\ seg.video = PlayNone => PlayReach(seg, "video") = 0
      /\ seg.audio = PlayNone => PlayReach(seg, "audio") = 0
  BY <1>1, SegFacts
<1>8. ASSUME seg.video = PlayNone
      PROVE  seg.audio # PlayNone /\ PlayAudioEnd(seg) = dts /\ PlayEnds(seg) = dts
  <2>1. at = PlayElapsed(seg) /\ at > 0
    BY <1>1, <1>3, <1>7, <1>8, NumberFacts
  <2> QED BY <1>1, <1>7, <1>8, <2>1
<1> QED BY <1>1, <1>3, <1>5, <1>6, <1>7, <1>8, NumberFacts

\* A segment that audio past the window ends.
LEMMA LeavesAudio ==
    ASSUME NEW seg, NEW at, NEW len, NEW key, NEW offset, NEW dts, NEW seg2,
           PlayLeaves(seg, "audio", at, len, key, offset, dts, seg2)
    PROVE  /\ seg \in PlaySegs /\ ~seg.broke /\ dts \in Int /\ dts >= PlayWindow /\ seg.start < dts
           /\ seg2 \in PlaySegs /\ seg2.start = seg.start /\ seg2.dts = seg.dts /\ seg2.broke
           /\ seg2.video = seg.video /\ PlayVideoEnd(seg2) = PlayVideoEnd(seg)
           /\ PlayAudioEnd(seg2) = dts /\ PlayAudioEnd(seg) <= dts
           /\ PlayEnds(seg) <= PlayEnds(seg2)
           /\ seg.audio # PlayNone => dts = PlayAudioEnd(seg)
           /\ seg.audio = PlayNone => seg.video # PlayNone /\ PlayVideoEnd(seg) = dts
<1>1. /\ seg \in PlaySegs /\ ~seg.broke /\ PlayComes(seg, "audio", at, len, key, offset)
      /\ seg.start < PlayWindow /\ dts \in Int /\ dts = seg.start + at /\ dts >= PlayWindow
  BY DEF PlayLeaves
<1>2. PICK past \in BOOLEAN : past /\ seg2 = PlayGrows(seg, "audio", at, past)
  BY DEF PlayLeaves
<1>3. /\ at \in Nat /\ PlayReach(seg, "audio") <= at
      /\ seg.audio # PlayNone => at = PlayReach(seg, "audio")
      /\ seg.audio = PlayNone => at = 0 \/ at = PlayElapsed(seg)
  BY <1>1, AudioComes
<1>4. at \in Nat /\ PlayReach(seg, "audio") <= at /\ seg \in PlaySegs
  BY <1>1, <1>3
<1>5. /\ seg2 \in PlaySegs /\ seg2.start = seg.start /\ seg2.dts = seg.dts
      /\ seg2.video = seg.video /\ PlayVideoEnd(seg2) = PlayVideoEnd(seg)
      /\ PlayAudioEnd(seg2) = seg.start + at /\ PlayEnds(seg) <= PlayEnds(seg2)
  <2>1. PICK n \in Nat : n = at
    BY <1>4
  <2>2. seg2 = PlayGrows(seg, "audio", n, past) /\ PlayReach(seg, "audio") <= n
    BY <1>2, <1>4, <2>1
  <2>3. /\ seg2 \in PlaySegs /\ seg2.start = seg.start /\ seg2.dts = seg.dts
        /\ seg2.video = seg.video /\ PlayVideoEnd(seg2) = PlayVideoEnd(seg)
        /\ PlayAudioEnd(seg2) = seg.start + n /\ PlayEnds(seg) <= PlayEnds(seg2)
    BY <1>4, <2>2, GrowsAudio
  <2> QED BY <2>1, <2>3
<1>6. seg2.broke
  <2>1. seg2.broke = past
    BY <1>2, <1>4, GrowsAudio
  <2> QED BY <1>2, <2>1
<1>7. /\ seg.start \in Int /\ PlayReach(seg, "video") \in Nat
      /\ PlayVideoEnd(seg) = seg.start + PlayReach(seg, "video")
      /\ PlayAudioEnd(seg) = seg.start + PlayReach(seg, "audio") /\ PlayReach(seg, "audio") \in Nat
      /\ PlayEnds(seg) = seg.start + PlayElapsed(seg) /\ PlayElapsed(seg) \in Nat
      /\ PlayEnds(seg) = PlayVideoEnd(seg) \/ PlayEnds(seg) = PlayAudioEnd(seg)
      /\ seg.video = PlayNone => PlayReach(seg, "video") = 0
      /\ seg.audio = PlayNone => PlayReach(seg, "audio") = 0
  BY <1>1, SegFacts
<1>8. ASSUME seg.audio = PlayNone PROVE seg.video # PlayNone /\ PlayVideoEnd(seg) = dts
  <2>1. at = PlayElapsed(seg) /\ at > 0
    BY <1>1, <1>3, <1>7, <1>8, NumberFacts
  <2> QED BY <1>1, <1>7, <1>8, <2>1
<1> QED BY <1>1, <1>3, <1>5, <1>6, <1>7, <1>8, NumberFacts

\* The filler once a picture is past the window.
LEMMA LeavesVideoOk ==
    ASSUME NEW c \in BOOLEAN, NEW X, NEW seg, NEW at, NEW len, NEW key, NEW offset, NEW dts, NEW seg2,
           PlayLeaves(seg, "video", at, len, key, offset, dts, seg2), PlayRoom(X),
           NEW f \in PlayFillers, NEW u \in PlayViews, u.in => u.tail # PlayNone,
           PlayFillerOk(c, seg, X, f, u), PlayTailOk(u), NEW w, w = PlayAfterFinal(u, dts)
    PROVE  PlayFillerOk(c, seg2, X, f, w)
<1>1. /\ seg \in PlaySegs /\ ~seg.broke /\ dts \in Int /\ dts >= PlayWindow /\ seg.start < dts
      /\ seg2 \in PlaySegs /\ seg2.start = seg.start /\ seg2.broke
      /\ seg2.video # PlayNone /\ PlayAudioEnd(seg2) = PlayAudioEnd(seg)
      /\ PlayVideoEnd(seg2) = dts /\ PlayEnds(seg) <= PlayEnds(seg2)
      /\ seg.video # PlayNone => dts = PlayVideoEnd(seg)
      /\ seg.video = PlayNone => /\ seg.audio # PlayNone /\ PlayAudioEnd(seg) = dts /\ PlayEnds(seg) = dts
  BY LeavesVideo
<1>2. /\ PlayHeard(seg, f) /\ PlayWaits(f, u) /\ PlayBusy(seg, f, u)
      /\ PlayIdle(seg, f, u) /\ PlayShows(seg, f, u) /\ PlayKept(c, seg, X, f, u)
  BY KeptOther
<1>3. /\ f.end \in Int /\ f.last \in Int /\ f.other \in Int /\ f.started \in BOOLEAN /\ f.needKey \in BOOLEAN
      /\ u.in \in BOOLEAN /\ u.last \in Nat
      /\ u.tail # PlayNone => u.tail.len \in Nat /\ u.tail.dur \in Nat
      /\ PlayTaken(u.tail) => u.tail.len <= PlayMostLength
  BY FillerTypes, ViewTypes, MostFacts DEF PlayTailOk
<1>4. /\ seg.start \in Int /\ PlayEnds(seg) \in Int /\ PlayEnds(seg2) \in Int
  BY <1>1, SegFacts
<1>5. /\ w \in PlayViews /\ w.in = u.in /\ w.last = u.last
      /\ (w.tail = PlayNone <=> u.tail = PlayNone) /\ (PlayTaken(w.tail) <=> PlayTaken(u.tail))
      /\ w.tail.is = u.tail.is /\ w.tail.taken = u.tail.taken /\ w.tail.len = u.tail.len
      /\ w.tail.offset = u.tail.offset
      /\ u.in => w.tail.dur = PlayMax(dts - u.last, 0)
      /\ ~u.in => w = u
  BY <1>1, FinalView
<1>6. seg.video # PlayNone => f.started
  BY <1>1, <1>2, <1>3 DEF PlayIdle
<1>7. seg.video = PlayNone => f.other = dts
  <2>1. seg.video = PlayNone => f.other = PlayMax(0, dts)
    BY <1>1, <1>2 DEF PlayHeard
  <2> QED BY <1>1, <2>1, NumberFacts DEF PlayMax
<1>8. /\ u.in => w.tail.dur \in Nat /\ PlayUntil(w) = u.last + w.tail.dur
      /\ u.in => (IF u.last <= dts THEN w.tail.dur = dts - u.last ELSE w.tail.dur = 0)
      /\ PlayFrom(w) = PlayFrom(u) /\ PlayOut(w) = PlayOut(u) /\ (~u.in => PlayUntil(w) = PlayUntil(u))
  BY <1>1, <1>3, <1>5 DEF PlayMax, PlayUntil, PlayFrom, PlayOut
<1>9. u.in => PlayUntil(w) >= dts
  BY <1>1, <1>3, <1>8
<1>10. u.in /\ seg.video = PlayNone => u.last <= dts
  BY <1>1, <1>2, <1>3, <1>4 DEF PlayBusy, PlayIdle
<1>11. f.started /\ ~f.needKey /\ u.in => /\ w.tail.dur = w.tail.len /\ w.tail.len <= PlayMostLength
                                          /\ seg.video # PlayNone
  BY <1>1, <1>2, <1>3, <1>5, <1>8, NumberFacts DEF PlayBusy, PlayShows, PlayTaken
<1>12. PlayIdle(seg2, f, w)
  BY <1>1, <1>2, <1>5 DEF PlayIdle
<1>13. PlayBusy(seg2, f, w)
  BY <1>1, <1>2, <1>3, <1>4, <1>5 DEF PlayBusy
<1>14. PlayWaits(f, w)
  BY <1>2, <1>5 DEF PlayWaits
<1>15. PlayShows(seg2, f, w)
  BY <1>1, <1>2, <1>5 DEF PlayShows
<1>16. PlayHeard(seg2, f)
  BY <1>1, <1>2, <1>6, <1>7 DEF PlayHeard
<1>17. PlayBacked(seg2, f)
  BY <1>1 DEF PlayBacked
<1>18. ~PlayHushed(seg, f) /\ (seg.video = PlayNone => PlayHushed(seg2, f))
  BY <1>1, <1>7 DEF PlayHushed
<1>19. X \in Nat
  BY DEF PlayRoom
<1>20. ASSUME c PROVE PlayKept(c, seg2, X, f, w)
  <2>1. /\ ~f.started => /\ seg.start - PlayFrom(u) + PlayOut(u) <= X + PlayQ
                         /\ seg.start - PlayUntil(u) <= X + PlayQ - 1
        /\ PlayVideoEnd(seg) <= f.end + PlayThreshold + PlayMostLength
        /\ f.other <= PlayWindow + PlayMostLength - 1
    BY <1>2, <1>18, <1>20 DEF PlayKept
  <2>2. ~f.started => seg.start - PlayUntil(w) <= X + PlayQ - 1
    <3>1. CASE u.in
      <4>1. PlayUntil(w) \in Int
        BY <1>3, <1>8, <3>1
      <4> QED BY <1>1, <1>4, <1>9, <1>19, <3>1, <4>1, NumberFacts
    <3>2. CASE ~u.in
      BY <1>8, <2>1, <3>2
    <3> QED BY <3>1, <3>2
  <2>3. PlayHushed(seg2, f) \/ PlayVideoEnd(seg2) <= f.end + PlayThreshold + PlayMostLength
    BY <1>1, <1>18, <2>1
  <2>4. ASSUME u.in PROVE w.tail.dur <= PlayLong
                          \/ (PlayHushed(seg2, f) /\ PlayUntil(w) <= PlayWindow + PlayMostLength - 1)
    <3>1. CASE seg.video = PlayNone
      <4>1. PlayUntil(w) = dts
        BY <1>1, <1>3, <1>8, <1>10, <2>4, <3>1
      <4> QED BY <1>7, <1>18, <2>1, <3>1, <4>1
    <3>2. CASE seg.video # PlayNone /\ ~f.needKey
      BY <1>3, <1>5, <1>6, <1>8, <1>11, <2>4, <3>2, NumberFacts
    <3>3. CASE seg.video # PlayNone /\ f.needKey
      <4>1. f.end = f.last + PlaySecond /\ u.last = f.last
        BY <1>2, <1>3, <1>6, <2>4, <3>3 DEF PlayWaits, PlayBusy
      <4>2. dts <= u.last + PlaySecond + PlayThreshold + PlayMostLength
        BY <1>1, <1>3, <2>1, <3>3, <4>1, NumberFacts
      <4>3. PICK d \in Nat : d = w.tail.dur
        BY <1>8, <2>4
      <4>4. d = 0 \/ d = dts - u.last
        BY <1>8, <2>4, <4>3
      <4>5. d <= PlayLong
        BY <1>1, <1>3, <4>2, <4>4, NumberFacts
      <4> QED BY <4>3, <4>5
    <3> QED BY <1>3, <3>1, <3>2, <3>3
  <2> QED BY <1>1, <1>5, <1>8, <1>9, <1>11, <2>1, <2>2, <2>3, <2>4 DEF PlayKept
<1>21. PlayKept(c, seg2, X, f, w)
  BY <1>20 DEF PlayKept
<1> QED BY <1>12, <1>13, <1>14, <1>15, <1>16, <1>17, <1>21 DEF PlayFillerOk

\* The filler once the audio is past the window.
LEMMA LeavesAudioOk ==
    ASSUME NEW c \in BOOLEAN, NEW X, NEW seg, NEW at, NEW len, NEW key, NEW offset, NEW dts, NEW seg2,
           PlayLeaves(seg, "audio", at, len, key, offset, dts, seg2),
           NEW f \in PlayFillers, NEW u \in PlayViews, PlayFillerOk(c, seg, X, f, u)
    PROVE  PlayFillerOk(c, seg2, X, f, u)
<1>1. /\ seg \in PlaySegs /\ ~seg.broke /\ dts \in Int /\ dts >= PlayWindow /\ seg.start < dts
      /\ seg2 \in PlaySegs /\ seg2.start = seg.start /\ seg2.broke
      /\ seg2.video = seg.video /\ PlayVideoEnd(seg2) = PlayVideoEnd(seg)
      /\ PlayAudioEnd(seg2) = dts /\ PlayAudioEnd(seg) <= dts /\ PlayEnds(seg) <= PlayEnds(seg2)
      /\ seg.audio # PlayNone => dts = PlayAudioEnd(seg)
      /\ seg.audio = PlayNone => seg.video # PlayNone /\ PlayVideoEnd(seg) = dts
  BY LeavesAudio
<1>2. /\ PlayHeard(seg, f) /\ PlayWaits(f, u) /\ PlayBusy(seg, f, u)
      /\ PlayIdle(seg, f, u) /\ PlayShows(seg, f, u) /\ PlayKept(c, seg, X, f, u)
  BY KeptOther
<1>3. /\ f.end \in Int /\ f.last \in Int /\ f.other \in Int /\ f.started \in BOOLEAN /\ f.needKey \in BOOLEAN
  BY FillerTypes
<1>4. PlayEnds(seg) \in Int /\ PlayEnds(seg2) \in Int /\ PlayAudioEnd(seg) \in Int
  BY <1>1, SegFacts
<1>5. PlayIdle(seg2, f, u)
  BY <1>1, <1>2 DEF PlayIdle
<1>6. PlayBusy(seg2, f, u)
  BY <1>1, <1>2, <1>3, <1>4 DEF PlayBusy
<1>7. PlayShows(seg2, f, u)
  BY <1>1, <1>2 DEF PlayShows
<1>8. PlayHeard(seg2, f)
  <2>1. 0 <= f.other /\ f.other <= PlayMax(0, PlayAudioEnd(seg))
    BY <1>2 DEF PlayHeard
  <2>2. f.other <= PlayMax(0, PlayAudioEnd(seg2))
    BY <1>1, <1>3, <1>4, <2>1, NumberFacts DEF PlayMax
  <2>3. seg.audio # PlayNone => f.other = dts
    <3>1. seg.audio # PlayNone => f.other = PlayMax(0, dts)
      BY <1>1, <1>2 DEF PlayHeard
    <3> QED BY <1>1, <3>1, NumberFacts DEF PlayMax
  <2>4. seg.audio = PlayNone => f.started /\ PlayVideoEnd(seg2) >= PlayWindow
    BY <1>1, <1>2, <1>3 DEF PlayIdle
  <2> QED BY <1>1, <2>1, <2>2, <2>3, <2>4 DEF PlayHeard
<1>9. PlayKept(c, seg2, X, f, u)
  <2>1. ~PlayHushed(seg, f)
    BY <1>1 DEF PlayHushed
  <2> QED BY <1>1, <1>2, <2>1 DEF PlayKept
<1>10. PlayBacked(seg2, f)
  BY <1>1 DEF PlayBacked
<1> QED BY <1>2, <1>5, <1>6, <1>7, <1>8, <1>9, <1>10 DEF PlayFillerOk

\* writeFinalDTS for a sample past the window.
LEMMA PastVideo ==
    ASSUME NEW c \in BOOLEAN, NEW X, NEW seg, NEW k, PlaySegOk(c, seg, X, k),
           NEW at, NEW len, NEW key, NEW offset, NEW dts, NEW seg2,
           PlayLeaves(seg, "video", at, len, key, offset, dts, seg2),
           NEW r, r = [k EXCEPT !.m = PlayFinal(k.m, "video", dts)]
    PROVE  PlaySegOk(c, seg2, X, r) /\ (r.f = PlayNone <=> k.f = PlayNone)
<1>1. PICK m \in PlayMuxers : m = k.m
  BY DEF PlaySegOk
<1>2. /\ seg.dts = seg.start /\ seg.start < PlayWindow /\ PlayRoom(X) /\ PlayMuxOk(c, m)
      /\ k = [m |-> m, f |-> k.f]
      /\ PlayView(m.tracks["audio"]).in => PlayView(m.tracks["audio"]).last < PlayAudioEnd(seg)
      /\ PlayTailOk(PlayView(m.tracks["video"]))
  BY <1>1 DEF PlaySegOk
<1>3. /\ seg \in PlaySegs /\ ~seg.broke /\ dts \in Int /\ dts >= PlayWindow
      /\ seg2 \in PlaySegs /\ seg2.start = seg.start /\ seg2.dts = seg.dts /\ seg2.broke
      /\ PlayAudioEnd(seg2) = PlayAudioEnd(seg)
      /\ PlayVideoEnd(seg2) = dts /\ PlayVideoEnd(seg) <= dts
  BY LeavesVideo
<1>4. "video" \in PlayTracks /\ "audio" \in PlayTracks
  BY DEF PlayTracks
<1>5. PICK u \in PlayViews : u = PlayView(m.tracks["video"]) /\ (u.in => u.tail # PlayNone)
  BY <1>2, <1>4, MuxView
<1>6. PICK p : p = PlayFinal(m, "video", dts)
  OBVIOUS
<1>7. PICK w : w = PlayAfterFinal(u, dts)
  OBVIOUS
<1>8. PlayPuts(c, m, "video", w, p)
  BY <1>2, <1>3, <1>4, <1>5, <1>6, <1>7, FinalFacts
<1>9. /\ p \in PlayMuxers /\ PlayMuxOk(c, p) /\ PlayView(p.tracks["video"]) = w
      /\ PlayView(p.tracks["audio"]) = PlayView(m.tracks["audio"])
  BY <1>4, <1>8 DEF PlayPuts
<1>10. /\ w \in PlayViews /\ w.in = u.in /\ w.last = u.last
       /\ (PlayTaken(w.tail) <=> PlayTaken(u.tail)) /\ w.tail.len = u.tail.len /\ w.tail.offset = u.tail.offset
  BY <1>3, <1>5, <1>7, FinalView
<1>11. r = [m |-> p, f |-> k.f] /\ r.m = p /\ r.f = k.f
  BY <1>1, <1>2, <1>6
<1>12. PlayTailOk(w)
  BY <1>2, <1>5, <1>10 DEF PlayTailOk
<1>13. k.f = PlayNone => ~c /\ PlayBare(seg2, w)
  <2>1. k.f = PlayNone => ~c /\ PlayBare(seg, u)
    BY <1>1, <1>5 DEF PlaySegOk
  <2>2. PlayVideoEnd(seg) \in Int /\ u.last \in Int
    BY <1>3, SegFacts, ViewTypes
  <2> QED BY <1>3, <1>10, <2>1, <2>2 DEF PlayBare
<1>14. ASSUME k.f # PlayNone PROVE k.f \in PlayFillers /\ PlayFillerOk(c, seg2, X, k.f, w)
  <2>1. k.f \in PlayFillers /\ PlayFillerOk(c, seg, X, k.f, u)
    BY <1>1, <1>5, <1>14 DEF PlaySegOk
  <2>2. PlayTailOk(u)
    BY <1>2, <1>5
  <2> QED BY <1>2, <1>5, <1>7, <2>1, <2>2, LeavesVideoOk
<1> QED BY <1>2, <1>3, <1>9, <1>11, <1>12, <1>13, <1>14 DEF PlaySegOk

\* Audio past the window keeps the segment right.
LEMMA PastAudio ==
    ASSUME NEW c \in BOOLEAN, NEW X, NEW seg, NEW k, PlaySegOk(c, seg, X, k),
           NEW at, NEW len, NEW key, NEW offset, NEW dts, NEW seg2,
           PlayLeaves(seg, "audio", at, len, key, offset, dts, seg2),
           NEW r, r = [k EXCEPT !.m = PlayFinal(k.m, "audio", dts)]
    PROVE  PlaySegOk(c, seg2, X, r) /\ (r.f = PlayNone <=> k.f = PlayNone)
<1>1. PICK m \in PlayMuxers : m = k.m
  BY DEF PlaySegOk
<1>2. /\ seg.dts = seg.start /\ seg.start < PlayWindow /\ PlayRoom(X) /\ PlayMuxOk(c, m)
      /\ k = [m |-> m, f |-> k.f]
      /\ PlayView(m.tracks["audio"]).in => PlayView(m.tracks["audio"]).last < PlayAudioEnd(seg)
      /\ PlayTailOk(PlayView(m.tracks["video"]))
  BY <1>1 DEF PlaySegOk
<1>3. /\ seg \in PlaySegs /\ ~seg.broke /\ dts \in Int /\ dts >= PlayWindow
      /\ seg2 \in PlaySegs /\ seg2.start = seg.start /\ seg2.dts = seg.dts /\ seg2.broke
      /\ PlayVideoEnd(seg2) = PlayVideoEnd(seg)
      /\ PlayAudioEnd(seg2) = dts /\ PlayAudioEnd(seg) <= dts
  BY LeavesAudio
<1>4. "video" \in PlayTracks /\ "audio" \in PlayTracks /\ "video" # "audio"
  BY DEF PlayTracks
<1>5. PICK v \in PlayViews : v = PlayView(m.tracks["audio"]) /\ (v.in => v.tail # PlayNone)
  BY <1>2, <1>4, MuxView
<1>6. PICK p : p = PlayFinal(m, "audio", dts)
  OBVIOUS
<1>7. PICK w : w = PlayAfterFinal(v, dts)
  OBVIOUS
<1>8. PlayPuts(c, m, "audio", w, p)
  BY <1>2, <1>3, <1>4, <1>5, <1>6, <1>7, FinalFacts
<1>9. /\ p \in PlayMuxers /\ PlayMuxOk(c, p) /\ PlayView(p.tracks["audio"]) = w
      /\ PlayView(p.tracks["video"]) = PlayView(m.tracks["video"])
  BY <1>4, <1>8 DEF PlayPuts
<1>10. w.in = v.in /\ w.last = v.last
  BY <1>3, <1>5, <1>7, FinalView
<1>11. r = [m |-> p, f |-> k.f] /\ r.m = p /\ r.f = k.f
  BY <1>1, <1>2, <1>6
<1>12. w.in => w.last < PlayAudioEnd(seg2)
  <2>1. PlayAudioEnd(seg) \in Int /\ v.last \in Int
    BY <1>3, <1>5, SegFacts, ViewTypes
  <2> QED BY <1>2, <1>3, <1>5, <1>10, <2>1
<1>13. PICK u \in PlayViews : u = PlayView(m.tracks["video"])
  BY <1>2, <1>4, MuxView
<1>14. k.f = PlayNone => ~c /\ PlayBare(seg2, u)
  <2>1. k.f = PlayNone => ~c /\ PlayBare(seg, u)
    BY <1>1, <1>13 DEF PlaySegOk
  <2> QED BY <1>3, <2>1 DEF PlayBare
<1>15. ASSUME k.f # PlayNone PROVE k.f \in PlayFillers /\ PlayFillerOk(c, seg2, X, k.f, u)
  <2>1. k.f \in PlayFillers /\ PlayFillerOk(c, seg, X, k.f, u)
    BY <1>1, <1>13, <1>15 DEF PlaySegOk
  <2> QED BY <1>13, <2>1, LeavesAudioOk
<1> QED BY <1>2, <1>3, <1>9, <1>11, <1>12, <1>13, <1>14, <1>15 DEF PlaySegOk

\* A sound of a segment comes, and the segment after it.
PlaySounds(seg, at, len, key, offset, dts, to, seg2) ==
    /\ seg \in PlaySegs /\ ~seg.broke /\ PlayComes(seg, "audio", at, len, key, offset)
    /\ dts \in Int /\ dts = seg.start + at /\ dts < PlayWindow /\ to \in Int /\ to = dts + len
    /\ \E past \in BOOLEAN, n \in Nat : ~past /\ n = at + len /\ seg2 = PlayGrows(seg, "audio", n, past)

\* A segment that takes a sample of audio.
LEMMA SoundsFacts ==
    ASSUME NEW seg, NEW at, NEW len, NEW key, NEW offset, NEW dts, NEW to, NEW seg2,
           PlaySounds(seg, at, len, key, offset, dts, to, seg2)
    PROVE  /\ seg \in PlaySegs /\ ~seg.broke /\ dts \in Int /\ to \in Int /\ dts < to
           /\ to <= PlayWindow + PlayMostLength - 1 /\ key \in BOOLEAN /\ offset \in Nat /\ len \in Nat
           /\ to = dts + len
           /\ seg2 \in PlaySegs /\ seg2.start = seg.start /\ seg2.dts = seg.dts /\ ~seg2.broke
           /\ seg2.video = seg.video /\ PlayVideoEnd(seg2) = PlayVideoEnd(seg)
           /\ PlayAudioEnd(seg) <= dts /\ PlayAudioEnd(seg2) = to /\ PlayEnds(seg) <= PlayEnds(seg2)
           /\ PlayReach(seg, "audio") <= PlayReach(seg2, "audio")
           /\ PlayReach(seg2, "video") = PlayReach(seg, "video")
<1>1. /\ seg \in PlaySegs /\ ~seg.broke /\ PlayComes(seg, "audio", at, len, key, offset)
      /\ dts \in Int /\ dts = seg.start + at /\ dts < PlayWindow /\ to \in Int /\ to = dts + len
  BY DEF PlaySounds
<1>2. PICK past \in BOOLEAN, n \in Nat : ~past /\ n = at + len /\ seg2 = PlayGrows(seg, "audio", n, past)
  BY DEF PlaySounds
<1>3. /\ at \in Nat /\ len \in Nat /\ len > 0 /\ len <= PlayMostLength /\ PlayReach(seg, "audio") <= at
  BY <1>1, AudioComes
<1>4. key \in BOOLEAN /\ offset \in Nat
  BY <1>1, PlayAssumption DEF PlayComes
<1>5. seg.start \in Int /\ PlayReach(seg, "audio") \in Nat /\ PlayAudioEnd(seg) = seg.start + PlayReach(seg, "audio")
  BY <1>1, SegFacts
<1>6. PlayReach(seg, "audio") <= n
  BY <1>2, <1>3, <1>5
<1>7. /\ seg2 \in PlaySegs /\ seg2.start = seg.start /\ seg2.dts = seg.dts /\ ~seg2.broke
      /\ seg2.video = seg.video /\ PlayVideoEnd(seg2) = PlayVideoEnd(seg)
      /\ PlayAudioEnd(seg2) = seg.start + n /\ PlayEnds(seg) <= PlayEnds(seg2)
      /\ PlayReach(seg2, "audio") = n /\ PlayReach(seg2, "video") = PlayReach(seg, "video")
  BY <1>1, <1>2, <1>6, GrowsAudio
<1>8. seg.start + n = to /\ dts < to /\ PlayAudioEnd(seg) <= dts /\ to <= PlayWindow + PlayMostLength - 1
  BY <1>1, <1>2, <1>3, <1>5, NumberFacts
<1> QED BY <1>1, <1>3, <1>4, <1>6, <1>7, <1>8

\* The filler after a sample of audio.
LEMMA SoundOk ==
    ASSUME NEW c \in BOOLEAN, NEW X, NEW seg, NEW at, NEW len, NEW key, NEW offset, NEW dts, NEW to, NEW seg2,
           PlaySounds(seg, at, len, key, offset, dts, to, seg2),
           NEW f \in PlayFillers, NEW u \in PlayViews, PlayFillerOk(c, seg, X, f, u),
           NEW g, g = [f EXCEPT !.other = PlayMax(@, to)]
    PROVE  g \in PlayFillers /\ PlayFillerOk(c, seg2, X, g, u)
<1>1. /\ seg \in PlaySegs /\ ~seg.broke /\ dts \in Int /\ to \in Int /\ dts < to
      /\ to <= PlayWindow + PlayMostLength - 1
      /\ seg2 \in PlaySegs /\ seg2.start = seg.start /\ ~seg2.broke
      /\ seg2.video = seg.video /\ PlayVideoEnd(seg2) = PlayVideoEnd(seg)
      /\ PlayAudioEnd(seg) <= dts /\ PlayAudioEnd(seg2) = to /\ PlayEnds(seg) <= PlayEnds(seg2)
      /\ PlayReach(seg, "audio") <= PlayReach(seg2, "audio")
      /\ PlayReach(seg2, "video") = PlayReach(seg, "video")
  BY SoundsFacts
<1>2. /\ PlayHeard(seg, f) /\ PlayWaits(f, u) /\ PlayBusy(seg, f, u) /\ PlayBacked(seg, f)
      /\ PlayIdle(seg, f, u) /\ PlayShows(seg, f, u) /\ PlayKept(c, seg, X, f, u)
  BY KeptOther
<1>3. /\ f.end \in Int /\ f.last \in Int /\ f.other \in Int /\ f.started \in BOOLEAN /\ f.needKey \in BOOLEAN
  BY FillerTypes
<1>4. /\ PlayEnds(seg) \in Int /\ PlayEnds(seg2) \in Int /\ PlayAudioEnd(seg) \in Int
      /\ PlayReach(seg, "audio") \in Nat /\ PlayReach(seg2, "audio") \in Nat /\ PlayReach(seg, "video") \in Nat
  BY <1>1, SegFacts
<1>5. PICK o \in Int : o = PlayMax(f.other, to)
  BY <1>1, <1>3 DEF PlayMax
<1>6. g = [f EXCEPT !.other = o]
  BY <1>5
<1>7. /\ g \in PlayFillers /\ g.other = o /\ g.end = f.end /\ g.last = f.last
      /\ g.started = f.started /\ g.needKey = f.needKey
  BY <1>6 DEF PlayFillers
<1>8. PlayIdle(seg2, g, u)
  BY <1>1, <1>2, <1>7 DEF PlayIdle
<1>9. PlayBusy(seg2, g, u)
  BY <1>1, <1>2, <1>3, <1>4, <1>7 DEF PlayBusy
<1>10. PlayWaits(g, u)
  BY <1>2, <1>7 DEF PlayWaits
<1>11. PlayShows(seg2, g, u)
  BY <1>1, <1>2, <1>7 DEF PlayShows
<1>12. PlayHeard(seg2, g)
  <2>1. 0 <= f.other /\ f.other <= PlayMax(0, PlayAudioEnd(seg))
    BY <1>2 DEF PlayHeard
  <2>2. o = PlayMax(0, PlayAudioEnd(seg2)) /\ 0 <= o
    BY <1>1, <1>3, <1>4, <1>5, <2>1 DEF PlayMax
  <2>3. PlayMax(0, PlayAudioEnd(seg2)) \in Int
    BY <2>2
  <2> QED BY <1>1, <1>7, <2>2, <2>3 DEF PlayHeard
<1>13. PlayKept(c, seg2, X, g, u)
  <2>1. ~PlayHushed(seg, f) /\ ~PlayHushed(seg2, g)
    BY <1>1 DEF PlayHushed
  <2>2. c => o <= PlayWindow + PlayMostLength - 1
    <3>1. c => f.other <= PlayWindow + PlayMostLength - 1
      BY <1>2 DEF PlayKept
    <3> QED BY <1>1, <1>3, <1>5, <3>1, NumberFacts DEF PlayMax
  <2> QED BY <1>1, <1>2, <1>7, <2>1, <2>2 DEF PlayKept
<1>14. PlayBacked(seg2, g)
  BY <1>1, <1>2, <1>4, <1>7, NumberFacts DEF PlayBacked
<1> QED BY <1>7, <1>8, <1>9, <1>10, <1>11, <1>12, <1>13, <1>14 DEF PlayFillerOk

PlaySounded(k, dts, s, to) == [PlaySound(k, dts, s) EXCEPT !.m = PlayFinal(@, "audio", to)]

\* videoFill.other keeps the segment right.
LEMMA SoundFacts ==
    ASSUME NEW c \in BOOLEAN, NEW X, NEW seg, NEW k, PlaySegOk(c, seg, X, k),
           NEW at, NEW len, NEW key, NEW offset, NEW dts, NEW to, NEW seg2,
           PlaySounds(seg, at, len, key, offset, dts, to, seg2), NEW s, s = PlayReal(key, offset, dts, len),
           NEW r, r = PlaySounded(k, dts, s, to)
    PROVE  PlaySegOk(c, seg2, X, r) /\ (r.f = PlayNone <=> k.f = PlayNone)
<1>1. PICK m \in PlayMuxers : m = k.m
  BY DEF PlaySegOk
<1>2. /\ seg.dts = seg.start /\ seg.start < PlayWindow /\ PlayRoom(X) /\ PlayMuxOk(c, m)
      /\ k = [m |-> m, f |-> k.f]
      /\ PlayView(m.tracks["audio"]).in => PlayView(m.tracks["audio"]).last < PlayAudioEnd(seg)
      /\ PlayTailOk(PlayView(m.tracks["video"]))
  BY <1>1 DEF PlaySegOk
<1>3. /\ seg \in PlaySegs /\ ~seg.broke /\ dts \in Int /\ to \in Int /\ dts < to
      /\ seg2 \in PlaySegs /\ seg2.start = seg.start /\ seg2.dts = seg.dts /\ ~seg2.broke
      /\ seg2.video = seg.video /\ PlayVideoEnd(seg2) = PlayVideoEnd(seg)
      /\ PlayAudioEnd(seg) <= dts /\ PlayAudioEnd(seg2) = to
  BY SoundsFacts
<1>4. key \in BOOLEAN /\ offset \in Nat /\ len \in Nat /\ to = dts + len
  BY SoundsFacts
<1>5. "video" \in PlayTracks /\ "audio" \in PlayTracks /\ "video" # "audio"
  BY DEF PlayTracks
<1>6. PICK v \in PlayViews : v = PlayView(m.tracks["audio"])
  BY <1>2, <1>5, MuxView
<1>7. /\ s \in PlaySamples /\ s.is = "real" /\ s.taken = dts /\ s.len = len /\ s.dur = 0
  BY <1>3, <1>4, RealFacts
<1>8. v.in \in BOOLEAN /\ v.last \in Nat /\ PlayAudioEnd(seg) \in Int
  BY <1>3, <1>6, SegFacts, ViewTypes
<1>9. v.in => v.last <= dts
  BY <1>2, <1>3, <1>6, <1>8
<1>10. PlayFits("audio", c, PlayView(m.tracks["audio"]), dts, s)
  BY <1>5, <1>6, <1>7, <1>9 DEF PlayFits
<1>11. PICK p : p = PlayFinal(PlaySample(m, "audio", dts, s), "audio", to)
  OBVIOUS
<1>12. PICK w : w = PlayAfterSample(v, dts, s)
  OBVIOUS
<1>13. PlayPuts(c, m, "audio", PlayAfterFinal(w, to), p)
  BY <1>2, <1>3, <1>5, <1>6, <1>10, <1>11, <1>12, ShowFacts
<1>14. /\ p \in PlayMuxers /\ PlayMuxOk(c, p) /\ PlayView(p.tracks["audio"]) = PlayAfterFinal(w, to)
       /\ PlayView(p.tracks["video"]) = PlayView(m.tracks["video"])
  BY <1>5, <1>13 DEF PlayPuts
<1>15. w \in PlayViews /\ w.tail # PlayNone /\ (w.in => w.last <= dts)
  <2>1. PICK b \in BOOLEAN : b = (v.in \/ dts >= 0)
    OBVIOUS
  <2>2. PICK l \in Nat : l = IF dts >= 0 THEN dts ELSE v.last
    BY <1>3, <1>8
  <2>3. w = [in |-> b, last |-> l, tail |-> s]
    BY <1>12, <2>1, <2>2 DEF PlayAfterSample
  <2>4. b => l <= dts
    BY <1>3, <1>8, <1>9, <2>1, <2>2
  <2> QED BY <1>7, <2>3, <2>4, NoSample DEF PlayViews
<1>16. PlayView(p.tracks["audio"]).in => PlayView(p.tracks["audio"]).last < PlayAudioEnd(seg2)
  <2>1. PlayAfterFinal(w, to).in = w.in /\ PlayAfterFinal(w, to).last = w.last
    BY <1>3, <1>15, FinalView
  <2>2. w.last \in Nat
    BY <1>15, ViewTypes
  <2> QED BY <1>3, <1>14, <1>15, <2>1, <2>2
<1>17. PICK u \in PlayViews : u = PlayView(m.tracks["video"])
  BY <1>2, <1>5, MuxView
<1>18. CASE k.f = PlayNone
  <2>1. r = [m |-> p, f |-> k.f] /\ r.m = p /\ r.f = k.f
    BY <1>1, <1>2, <1>11, <1>18 DEF PlaySounded, PlaySound
  <2>2. ~c /\ PlayBare(seg, u)
    BY <1>1, <1>17, <1>18 DEF PlaySegOk
  <2>3. PlayBare(seg2, u)
    BY <1>3, <2>2 DEF PlayBare
  <2> QED BY <1>2, <1>3, <1>14, <1>16, <1>17, <1>18, <2>1, <2>2, <2>3 DEF PlaySegOk
<1>19. CASE k.f # PlayNone
  <2>1. PICK f \in PlayFillers : f = k.f
    BY <1>19 DEF PlaySegOk
  <2>2. PlayFillerOk(c, seg, X, f, u)
    BY <1>1, <1>17, <1>19, <2>1 DEF PlaySegOk
  <2>3. PICK g : g = [f EXCEPT !.other = PlayMax(@, to)]
    OBVIOUS
  <2>4. g \in PlayFillers /\ PlayFillerOk(c, seg2, X, g, u)
    BY <1>17, <2>2, <2>3, SoundOk
  <2>5. g # PlayNone
    BY <2>4, PlayAssumption DEF PlayFillers
  <2>6. r = [m |-> p, f |-> g] /\ r.m = p /\ r.f = g
    BY <1>1, <1>2, <1>4, <1>7, <1>11, <1>19, <2>1, <2>3 DEF PlaySounded, PlaySound
  <2> QED BY <1>2, <1>3, <1>14, <1>16, <1>17, <1>19, <2>4, <2>5, <2>6 DEF PlaySegOk
<1> QED BY <1>18, <1>19

-----------------------------------------------------------------------------
(* A fragment.                                                             *)

\* A step writes after what the one before it wrote.
LEMMA FreshFacts ==
    ASSUME NEW c \in BOOLEAN, NEW m \in PlayMuxers, PlayMuxOk(c, m), NEW k, k = [m |-> m, f |-> k.f],
           NEW r, r = PlayFresh(k)
    PROVE  /\ r.f = k.f /\ r.m \in PlayMuxers /\ PlayMuxOk(c, r.m) /\ r = [m |-> r.m, f |-> r.f]
           /\ r.m.tracks = m.tracks
<1>1. PICK w : w = [t \in PlayTracks |-> <<PlayLast(m.wrote[t])>>]
  OBVIOUS
<1>2. PICK p : p = [m EXCEPT !.wrote = w]
  OBVIOUS
<1>3. k.m = m
  OBVIOUS
<1>4. r = [m |-> p, f |-> k.f]
  BY <1>1, <1>2, <1>3 DEF PlayFresh
<1>5. \A t \in PlayTracks : /\ m.wrote[t] \in PlayWritten /\ PlayWroteOk(t, c, m.wrote[t])
                            /\ PlayTrackOk(t, c, m.tracks[t], PlayLast(m.wrote[t]))
  BY MuxerType DEF PlayMuxOk
<1>6. \A t \in PlayTracks : PlayLast(m.wrote[t]) \in PlaySamples \cup {PlayNone}
  <2>1. TAKE t \in PlayTracks
  <2>2. PICK wr \in PlayWritten : wr = m.wrote[t]
    BY <1>5
  <2>3. Len(wr) > 0
    BY <1>5, <2>2 DEF PlayWroteOk
  <2>4. wr[Len(wr)] \in PlaySamples \cup {PlayNone}
    BY <2>3 DEF PlayWritten
  <2> QED BY <2>2, <2>4 DEF PlayLast
<1>7. \A t \in PlayTracks : /\ w[t] \in PlayWritten /\ Len(w[t]) = 1 /\ PlayLast(w[t]) = PlayLast(m.wrote[t])
  <2>1. TAKE t \in PlayTracks
  <2>2. PICK x \in PlaySamples \cup {PlayNone} : x = PlayLast(m.wrote[t])
    BY <1>6
  <2>3. w[t] = <<x>>
    BY <1>1, <2>2
  <2>4. <<x>> \in PlayWritten /\ Len(<<x>>) = 1 /\ <<x>>[1] = x
    BY DEF PlayWritten
  <2> QED BY <2>2, <2>3, <2>4 DEF PlayLast
<1>8. p.tracks = m.tracks /\ p.wrote = w /\ p \in PlayMuxers
  <2>1. w \in [PlayTracks -> PlayWritten]
    BY <1>1, <1>7
  <2> QED BY <1>2, <2>1 DEF PlayMuxers
<1>9. \A t \in PlayTracks : PlayWroteOk(t, c, w[t])
  BY <1>7 DEF PlayWroteOk
<1>10. PlayMuxOk(c, p)
  BY <1>5, <1>7, <1>8, <1>9 DEF PlayMuxOk
<1> QED BY <1>4, <1>8, <1>10

\* The next step starts with the last samples written.
LEMMA FreshSeg ==
    ASSUME NEW c \in BOOLEAN, NEW seg, NEW X, NEW k, PlaySegOk(c, seg, X, k), NEW r, r = PlayFresh(k)
    PROVE  PlaySegOk(c, seg, X, r) /\ r.f = k.f
<1>1. PICK m \in PlayMuxers : m = k.m
  BY DEF PlaySegOk
<1>2. PlayMuxOk(c, m) /\ k = [m |-> m, f |-> k.f]
  BY <1>1 DEF PlaySegOk
<1>3. /\ r.f = k.f /\ r.m \in PlayMuxers /\ PlayMuxOk(c, r.m) /\ r = [m |-> r.m, f |-> r.f]
      /\ r.m.tracks = m.tracks
  BY <1>2, FreshFacts
<1> QED BY <1>1, <1>3 DEF PlaySegOk

\* The segment after a sample.
PlayPasses(seg, t, at, len, past) == PlayGrows(seg, t, IF past THEN at ELSE at + len, past)

\* A fragment keeps the segment right.
LEMMA FragmentFacts ==
    ASSUME NEW c \in BOOLEAN, NEW seg, NEW X, NEW k, PlaySegOk(c, seg, X, k), ~seg.broke, NEW t \in PlayTracks,
           NEW at, NEW len, NEW key, NEW offset, PlayComes(seg, t, at, len, key, offset),
           NEW dts \in Int, dts = seg.start + at,
           NEW past \in BOOLEAN, past <=> dts >= PlayWindow,
           NEW seg2, seg2 = PlayPasses(seg, t, at, len, past),
           NEW r, r = PlayTrun(PlayFresh(k), t, dts, PlayReal(key, offset, dts, len))
    PROVE  PlaySegOk(c, seg2, X, r) /\ (r.f = PlayNone <=> k.f = PlayNone)
<1>1. PICK x : x = PlayFresh(k)
  OBVIOUS
<1>2. PlaySegOk(c, seg, X, x) /\ x.f = k.f
  BY <1>1, FreshSeg
<1>3. PICK y : y = PlayCatchUp(x)
  OBVIOUS
<1>4. PlaySegOk(c, seg, X, y) /\ (y.f = PlayNone <=> k.f = PlayNone)
  BY <1>2, <1>3, CatchUpFacts
<1>5. PICK s : s = PlayReal(key, offset, dts, len)
  OBVIOUS
<1>6. s.len = len
  BY <1>5 DEF PlayReal
<1>7. at \in Nat /\ len \in Nat /\ seg \in PlaySegs /\ seg.start < PlayWindow /\ PlayWindow \in Int
  BY MostFacts, NumberFacts DEF PlayComes, PlaySegOk
<1>8. CASE dts < PlayWindow
  <2>1. PICK to \in Int : to = dts + len
    BY <1>7
  <2>2. ~past
    BY <1>7, <1>8
  <2>3. PICK n \in Nat : n = at + len
    BY <1>7
  <2>4. seg2 = PlayGrows(seg, t, n, past)
    BY <2>2, <2>3 DEF PlayPasses
  <2>5. CASE t = "video"
    <3>1. PlayTakes(seg, at, len, key, offset, dts, to, seg2)
      BY <1>7, <2>1, <2>2, <2>3, <2>4, <2>5 DEF PlayTakes
    <3>2. r = PlayPictured(y, dts, s, to)
      BY <1>1, <1>3, <1>5, <1>6, <1>8, <2>1, <2>5 DEF PlayTrun, PlayPictured
    <3> QED BY <1>4, <1>5, <3>1, <3>2, PictureFacts
  <2>6. CASE t = "audio"
    <3>1. PlaySounds(seg, at, len, key, offset, dts, to, seg2)
      BY <1>7, <1>8, <2>1, <2>2, <2>3, <2>4, <2>6 DEF PlaySounds
    <3>2. r = PlaySounded(y, dts, s, to)
      BY <1>1, <1>3, <1>5, <1>6, <1>8, <2>1, <2>6 DEF PlayTrun, PlaySounded
    <3> QED BY <1>4, <1>5, <3>1, <3>2, SoundFacts
  <2> QED BY <2>5, <2>6 DEF PlayTracks
<1>9. CASE ~(dts < PlayWindow)
  <2>1. past /\ dts >= PlayWindow
    BY <1>7, <1>9
  <2>2. seg2 = PlayGrows(seg, t, at, past)
    BY <2>1 DEF PlayPasses
  <2>3. PlayLeaves(seg, t, at, len, key, offset, dts, seg2)
    BY <1>7, <2>1, <2>2 DEF PlayLeaves
  <2>4. r = [y EXCEPT !.m = PlayFinal(y.m, t, dts)]
    BY <1>1, <1>3, <1>5, <1>9 DEF PlayTrun
  <2>5. CASE t = "video"
    BY <1>4, <2>3, <2>4, <2>5, PastVideo
  <2>6. CASE t = "audio"
    BY <1>4, <2>3, <2>4, <2>6, PastAudio
  <2> QED BY <2>5, <2>6 DEF PlayTracks
<1> QED BY <1>8, <1>9

-----------------------------------------------------------------------------
(* The end of a segment.                                                   *)

PlayEnding(c, seg, X, f, u, e) ==
    /\ seg \in PlaySegs /\ PlayRoom(X) /\ f \in PlayFillers /\ u \in PlayViews /\ (u.in => u.tail # PlayNone)
    /\ PlayFillerOk(c, seg, X, f, u) /\ PlayTailOk(u)
    /\ PlayElapsed(seg) > 0 /\ e = PlayEnds(seg) /\ e > 0

\* How the ends of a segment, its audio and its filler compare.
LEMMA EndFacts ==
    ASSUME NEW c \in BOOLEAN, NEW seg, NEW X, NEW f, NEW u, NEW e, PlayEnding(c, seg, X, f, u, e)
    PROVE  /\ e \in Int /\ e > 0 /\ seg.start <= e /\ PlayVideoEnd(seg) <= e
           /\ f.other > 0 => f.other <= e
           /\ e < PlayWindow => /\ ~seg.broke /\ f.other <= e
                                /\ e = f.other \/ (e = PlayVideoEnd(seg) /\ f.started)
           /\ e >= PlayWindow /\ f.other < PlayWindow => PlayVideoEnd(seg) >= PlayWindow /\ f.started
<1>1. /\ seg \in PlaySegs /\ f \in PlayFillers /\ PlayElapsed(seg) > 0 /\ e = PlayEnds(seg) /\ e > 0
      /\ PlayFillerOk(c, seg, X, f, u)
  BY DEF PlayEnding
<1>2. PlayHeard(seg, f) /\ PlayIdle(seg, f, u)
  BY <1>1, KeptOther
<1>3. f.other \in Int /\ f.started \in BOOLEAN
  BY <1>1, FillerTypes
<1>4. /\ seg.start \in Int /\ PlayVideoEnd(seg) \in Int /\ PlayAudioEnd(seg) \in Int /\ e \in Int
      /\ seg.broke \in BOOLEAN /\ seg.start < e
      /\ PlayVideoEnd(seg) <= e /\ PlayAudioEnd(seg) <= e
      /\ e = PlayVideoEnd(seg) \/ e = PlayAudioEnd(seg)
      /\ seg.video = PlayNone => PlayVideoEnd(seg) = seg.start
      /\ seg.audio = PlayNone => PlayAudioEnd(seg) = seg.start
  BY <1>1, SegFacts
<1>5. /\ 0 <= f.other /\ f.other <= PlayMax(0, PlayAudioEnd(seg))
      /\ ~seg.broke /\ seg.audio # PlayNone => f.other = PlayMax(0, PlayAudioEnd(seg))
      /\ seg.broke => f.other >= PlayWindow \/ (PlayVideoEnd(seg) >= PlayWindow /\ f.started)
  BY <1>2 DEF PlayHeard
<1>6. ~f.started => seg.video = PlayNone \/ seg.broke
  BY <1>2 DEF PlayIdle
<1>7. f.other <= e
  BY <1>1, <1>3, <1>4, <1>5 DEF PlayMax
<1>8. ~seg.broke /\ e = PlayAudioEnd(seg) => e = f.other
  BY <1>1, <1>3, <1>4, <1>5 DEF PlayMax
<1>9. e < PlayWindow => ~seg.broke
  BY <1>3, <1>4, <1>5, <1>7, NumberFacts
<1>10. ~seg.broke => e = f.other \/ (e = PlayVideoEnd(seg) /\ f.started)
  BY <1>4, <1>6, <1>8
<1>11. e >= PlayWindow /\ f.other < PlayWindow => PlayVideoEnd(seg) >= PlayWindow /\ f.started
  BY <1>3, <1>4, <1>5, <1>10, NumberFacts
<1> QED BY <1>1, <1>4, <1>7, <1>9, <1>10, <1>11

\* The picture that is left, w, where the segment ends at e.
PlayBehind(e, w) ==
    /\ w.in => w.last < e
    /\ w.in /\ PlayTaken(w.tail) => w.last + w.tail.len <= e
    /\ PlayTailOk(w)

PlayCloses(X, e, w) ==
    /\ e < PlayWindow => /\ e - PlayFrom(w) + PlayOut(w) <= X + PlayThreshold + PlayQ
                         /\ e - PlayUntil(w) <= X + PlayThreshold + PlayQ - 1
    /\ w.in => w.tail.dur <= PlayLong
    /\ e >= PlayWindow => PlayUntil(w) >= PlayWindow - PlayHole

\* The video is not past the end of the segment.
LEMMA BehindFacts ==
    ASSUME NEW c \in BOOLEAN, NEW seg, NEW X, NEW f, NEW u, NEW e, PlayEnding(c, seg, X, f, u, e)
    PROVE  PlayBehind(e, u)
<1>1. /\ seg \in PlaySegs /\ f \in PlayFillers /\ u \in PlayViews /\ e = PlayEnds(seg) /\ e > 0
      /\ PlayFillerOk(c, seg, X, f, u) /\ PlayTailOk(u)
  BY DEF PlayEnding
<1>2. PlayWaits(f, u) /\ PlayBusy(seg, f, u) /\ PlayIdle(seg, f, u) /\ PlayShows(seg, f, u)
  BY <1>1, KeptOther
<1>3. f.end \in Int /\ f.last \in Int /\ f.started \in BOOLEAN /\ f.needKey \in BOOLEAN
  BY <1>1, FillerTypes
<1>4. /\ u.in \in BOOLEAN /\ u.last \in Nat
      /\ u.tail # PlayNone => u.tail.len \in Nat
      /\ PlayTaken(u.tail) <=> u.tail # PlayNone /\ u.tail.is = "real"
  BY <1>1, ViewTypes
<1>5. seg.start \in Int /\ PlayVideoEnd(seg) \in Int /\ e \in Int /\ seg.start <= e /\ PlayVideoEnd(seg) <= e
  BY <1>1, EndFacts, SegFacts
<1>6. CASE ~f.started
  BY <1>1, <1>2, <1>4, <1>5, <1>6 DEF PlayIdle, PlayBehind
<1>7. CASE f.started
  <2>1. u.in => u.last = f.last /\ u.last < e
    BY <1>1, <1>2, <1>3, <1>4, <1>5, <1>7 DEF PlayBusy
  <2>2. PlayTaken(u.tail) => ~f.needKey
    BY <1>2, <1>4, <1>7 DEF PlayWaits
  <2>3. ~f.needKey => f.last + u.tail.len = PlayVideoEnd(seg)
    BY <1>2, <1>7 DEF PlayShows
  <2> QED BY <1>1, <1>3, <1>4, <1>5, <2>1, <2>2, <2>3 DEF PlayBehind
<1> QED BY <1>3, <1>6, <1>7

\* What the end of a segment is after, where everything is filled.
LEMMA CloseFacts ==
    ASSUME NEW c \in BOOLEAN, c, NEW seg, NEW X, NEW f, NEW u, NEW e, PlayEnding(c, seg, X, f, u, e)
    PROVE  /\ ~f.started => /\ f.end - PlayFrom(u) + PlayOut(u) <= X + PlayQ
                            /\ f.end - PlayUntil(u) <= X + PlayQ - 1
           /\ f.started => (u.in <=> f.last >= 0) /\ (u.in => u.last = f.last)
           /\ f.started /\ f.needKey => f.end = f.last + PlaySecond
           /\ f.started /\ ~f.needKey =>
                /\ f.last + u.tail.len = PlayVideoEnd(seg) /\ u.tail.len \in Nat
                /\ u.tail.len > 0 /\ u.tail.len <= PlayMostLength
                /\ f.end <= f.last + PlaySecond \/ f.end <= PlayVideoEnd(seg) + PlayMostOffset
                /\ u.in => u.tail.dur = u.tail.len
           /\ e < PlayWindow \/ f.other < PlayWindow =>
                /\ PlayVideoEnd(seg) <= f.end + PlayThreshold + PlayMostLength
                /\ f.started /\ u.in =>
                     PlayUntil(u) >= PlayVideoEnd(seg) \/ PlayVideoEnd(seg) < f.end + PlayMostLength
           /\ u.in => u.tail.dur <= PlayLong
                      \/ (f.other >= PlayWindow /\ PlayUntil(u) <= PlayWindow + PlayMostLength - 1)
<1>1. /\ seg \in PlaySegs /\ f \in PlayFillers /\ u \in PlayViews /\ (u.in => u.tail # PlayNone)
      /\ PlayFillerOk(c, seg, X, f, u) /\ PlayTailOk(u)
  BY DEF PlayEnding
<1>2. /\ PlayWaits(f, u) /\ PlayBusy(seg, f, u) /\ PlayIdle(seg, f, u) /\ PlayShows(seg, f, u)
      /\ PlayKept(c, seg, X, f, u)
  BY <1>1, KeptOther
<1>3. f.started \in BOOLEAN /\ f.needKey \in BOOLEAN /\ f.other \in Int
  BY <1>1, FillerTypes
<1>4. e < PlayWindow \/ f.other < PlayWindow => ~PlayHushed(seg, f)
  <2>1. e \in Int /\ (e < PlayWindow => f.other <= e)
    BY EndFacts
  <2> QED BY <1>3, <2>1, NumberFacts DEF PlayHushed
<1>5. f.started /\ ~f.needKey =>
        /\ u.tail.len \in Nat /\ u.tail.len > 0 /\ u.tail.len <= PlayMostLength
  <2>1. f.started /\ ~f.needKey => PlayTaken(u.tail)
    BY <1>2 DEF PlayShows
  <2> QED BY <1>1, <2>1, MostFacts DEF PlayTailOk
<1>6. ~f.started => f.end = seg.start
  BY <1>2 DEF PlayIdle
<1>7. f.started => (u.in <=> f.last >= 0) /\ (u.in => u.last = f.last)
  BY <1>2 DEF PlayBusy
<1>8. f.started /\ f.needKey => f.end = f.last + PlaySecond
  BY <1>2 DEF PlayWaits
<1>9. f.started /\ ~f.needKey =>
        /\ f.last + u.tail.len = PlayVideoEnd(seg)
        /\ f.end <= f.last + PlaySecond \/ f.end <= PlayVideoEnd(seg) + PlayMostOffset
  BY <1>2 DEF PlayShows
<1>10. PlayHushed(seg, f) => f.other >= PlayWindow
  BY DEF PlayHushed
<1>11. /\ ~f.started => /\ seg.start - PlayFrom(u) + PlayOut(u) <= X + PlayQ
                        /\ seg.start - PlayUntil(u) <= X + PlayQ - 1
       /\ f.started /\ ~f.needKey /\ u.in => u.tail.dur = u.tail.len
       /\ PlayHushed(seg, f) \/ PlayVideoEnd(seg) <= f.end + PlayThreshold + PlayMostLength
       /\ f.started /\ u.in =>
            PlayHushed(seg, f) \/ PlayUntil(u) >= PlayVideoEnd(seg) \/ PlayVideoEnd(seg) < f.end + PlayMostLength
       /\ u.in => u.tail.dur <= PlayLong
                  \/ (PlayHushed(seg, f) /\ PlayUntil(u) <= PlayWindow + PlayMostLength - 1)
  BY <1>2 DEF PlayKept
<1> QED BY <1>4, <1>5, <1>6, <1>7, <1>8, <1>9, <1>10, <1>11

\* The end of a segment that needs no fill.
LEMMA StandCloses ==
    ASSUME NEW c \in BOOLEAN, c, NEW seg, NEW X, NEW f, NEW u, NEW e, PlayEnding(c, seg, X, f, u, e),
           PlayMin(f.other, PlayWindow) <= f.end + PlayThreshold
    PROVE  PlayCloses(X, e, u)
<1>1. /\ seg \in PlaySegs /\ f \in PlayFillers /\ u \in PlayViews /\ PlayRoom(X) /\ (u.in => u.tail # PlayNone)
  BY DEF PlayEnding
<1>2. /\ f.end \in Int /\ f.last \in Int /\ f.other \in Int /\ f.started \in BOOLEAN /\ f.needKey \in BOOLEAN
      /\ u.in \in BOOLEAN /\ u.last \in Nat /\ (u.in => u.tail.dur \in Nat)
      /\ PlayVideoEnd(seg) \in Int /\ X \in Nat /\ X + PlayThreshold + PlayQ - 1 <= PlayHole
  BY <1>1, FillerTypes, ViewTypes, SegFacts DEF PlayRoom
<1>3. /\ u.in => PlayFrom(u) = u.last /\ PlayOut(u) = 0 /\ PlayUntil(u) = u.last + u.tail.dur
      /\ ~u.in => PlayFrom(u) = 0 /\ PlayOut(u) = 1 /\ PlayUntil(u) = 0
  BY <1>2 DEF PlayFrom, PlayOut, PlayUntil
<1>4. /\ e \in Int /\ e > 0
      /\ e < PlayWindow => f.other <= e /\ (e = f.other \/ (e = PlayVideoEnd(seg) /\ f.started))
      /\ e >= PlayWindow /\ f.other < PlayWindow => PlayVideoEnd(seg) >= PlayWindow /\ f.started
  <2>1. /\ e \in Int /\ e > 0 /\ seg.start <= e /\ PlayVideoEnd(seg) <= e
        /\ f.other > 0 => f.other <= e
        /\ e < PlayWindow => /\ ~seg.broke /\ f.other <= e
                             /\ e = f.other \/ (e = PlayVideoEnd(seg) /\ f.started)
        /\ e >= PlayWindow /\ f.other < PlayWindow => PlayVideoEnd(seg) >= PlayWindow /\ f.started
    BY Zenon, EndFacts
  <2> QED BY <2>1
<1>5. /\ f.other < PlayWindow => f.other <= f.end + PlayThreshold
      /\ f.other >= PlayWindow => PlayWindow <= f.end + PlayThreshold
  BY <1>2, NumberFacts DEF PlayMin
<1>6. /\ ~f.started => /\ f.end - PlayFrom(u) + PlayOut(u) <= X + PlayQ
                       /\ f.end - PlayUntil(u) <= X + PlayQ - 1
      /\ f.started => (u.in <=> f.last >= 0) /\ (u.in => u.last = f.last)
      /\ f.started /\ f.needKey => f.end = f.last + PlaySecond
      /\ f.started /\ ~f.needKey =>
           /\ f.last + u.tail.len = PlayVideoEnd(seg) /\ u.tail.len \in Nat
           /\ u.tail.len > 0 /\ u.tail.len <= PlayMostLength
           /\ f.end <= f.last + PlaySecond \/ f.end <= PlayVideoEnd(seg) + PlayMostOffset
           /\ u.in => u.tail.dur = u.tail.len
      /\ e < PlayWindow \/ f.other < PlayWindow =>
           /\ PlayVideoEnd(seg) <= f.end + PlayThreshold + PlayMostLength
           /\ f.started /\ u.in =>
                PlayUntil(u) >= PlayVideoEnd(seg) \/ PlayVideoEnd(seg) < f.end + PlayMostLength
      /\ u.in => u.tail.dur <= PlayLong
                 \/ (f.other >= PlayWindow /\ PlayUntil(u) <= PlayWindow + PlayMostLength - 1)
  BY Zenon, CloseFacts
<1>7. CASE ~f.started
  <2>1. /\ f.end - PlayFrom(u) + PlayOut(u) <= X + PlayQ
        /\ f.end - PlayUntil(u) <= X + PlayQ - 1
        /\ u.in => u.tail.dur <= PlayLong
                   \/ (f.other >= PlayWindow /\ PlayUntil(u) <= PlayWindow + PlayMostLength - 1)
    BY <1>7, CloseFacts
  <2>2. e < PlayWindow => e <= f.end + PlayThreshold
    BY <1>2, <1>4, <1>5, <1>7, NumberFacts
  <2>3. e >= PlayWindow => PlayWindow <= f.end + PlayThreshold
    BY <1>2, <1>4, <1>5, <1>7, NumberFacts
  <2>4. CASE u.in
    <3>1. u.tail.dur <= PlayLong
      BY <1>2, <1>3, <1>5, <2>1, <2>4, NumberFacts
    <3> QED BY <1>2, <1>3, <1>4, <2>1, <2>2, <2>3, <2>4, <3>1, NumberFacts DEF PlayCloses
  <2>5. CASE ~u.in
    BY <1>2, <1>3, <1>4, <2>1, <2>2, <2>3, <2>5, NumberFacts DEF PlayCloses
  <2> QED BY <1>2, <2>4, <2>5
<1>8. CASE f.started /\ f.needKey
  <2>1. /\ (u.in <=> f.last >= 0) /\ (u.in => u.last = f.last) /\ f.end = f.last + PlaySecond
        /\ e < PlayWindow \/ f.other < PlayWindow =>
             /\ PlayVideoEnd(seg) <= f.end + PlayThreshold + PlayMostLength
             /\ u.in => PlayUntil(u) >= PlayVideoEnd(seg) \/ PlayVideoEnd(seg) < f.end + PlayMostLength
        /\ u.in => u.tail.dur <= PlayLong
                   \/ (f.other >= PlayWindow /\ PlayUntil(u) <= PlayWindow + PlayMostLength - 1)
    BY <1>8, <1>6
  <2>2. CASE u.in
    <3>1. u.tail.dur <= PlayLong
      BY <1>2, <1>3, <1>5, <2>1, <2>2, NumberFacts
    <3>2. e < PlayWindow => e - u.last <= X + PlayThreshold + PlayQ
      BY <1>2, <1>4, <1>5, <2>1, <2>2, NumberFacts
    <3>3. e < PlayWindow => e - PlayUntil(u) <= X + PlayThreshold + PlayQ - 1
      BY <1>2, <1>3, <1>4, <1>5, <2>1, <2>2, NumberFacts
    <3>4. e >= PlayWindow => PlayUntil(u) >= PlayWindow - PlayHole
      BY <1>2, <1>3, <1>4, <1>5, <2>1, <2>2, NumberFacts
    <3> QED BY <1>2, <1>3, <1>4, <2>2, <3>1, <3>2, <3>3, <3>4, NumberFacts DEF PlayCloses
  <2>3. CASE ~u.in
    <3>1. e < PlayWindow => e + 1 <= X + PlayThreshold + PlayQ
      BY <1>2, <1>4, <1>5, <2>1, <2>3, NumberFacts
    <3>2. e >= PlayWindow => 0 >= PlayWindow - PlayHole
      BY <1>2, <1>4, <1>5, <2>1, <2>3, NumberFacts
    <3> QED BY <1>2, <1>3, <1>4, <2>3, <3>1, <3>2, NumberFacts DEF PlayCloses
  <2> QED BY <1>2, <2>2, <2>3
<1>9. CASE f.started /\ ~f.needKey
  <2>1. /\ (u.in <=> f.last >= 0) /\ (u.in => u.last = f.last)
        /\ f.last + u.tail.len = PlayVideoEnd(seg) /\ u.tail.len \in Nat
        /\ u.tail.len > 0 /\ u.tail.len <= PlayMostLength
        /\ f.end <= f.last + PlaySecond \/ f.end <= PlayVideoEnd(seg) + PlayMostOffset
        /\ u.in => u.tail.dur = u.tail.len
    BY <1>9, <1>6
  <2>2. CASE u.in
    <3>1. u.tail.dur <= PlayLong
      BY <1>2, <2>1, <2>2, NumberFacts
    <3>2. PlayUntil(u) = PlayVideoEnd(seg)
      BY <1>2, <1>3, <2>1, <2>2
    <3>3. e < PlayWindow => e - u.last <= X + PlayThreshold + PlayQ
      BY <1>2, <1>4, <1>5, <2>1, <2>2, NumberFacts
    <3>4. e < PlayWindow => e - PlayUntil(u) <= X + PlayThreshold + PlayQ - 1
      BY <1>2, <1>4, <1>5, <2>1, <2>2, <3>2, NumberFacts
    <3>5. e >= PlayWindow => PlayUntil(u) >= PlayWindow - PlayHole
      BY <1>2, <1>4, <1>5, <2>1, <2>2, <3>2, NumberFacts
    <3> QED BY <1>2, <1>3, <1>4, <2>2, <3>1, <3>3, <3>4, <3>5, NumberFacts DEF PlayCloses
  <2>3. CASE ~u.in
    <3>1. e < PlayWindow => e + 1 <= X + PlayThreshold + PlayQ
      BY <1>2, <1>4, <1>5, <2>1, <2>3, NumberFacts
    <3>2. e >= PlayWindow => 0 >= PlayWindow - PlayHole
      BY <1>2, <1>4, <1>5, <2>1, <2>3, NumberFacts
    <3> QED BY <1>2, <1>3, <1>4, <2>3, <3>1, <3>2, NumberFacts DEF PlayCloses
  <2> QED BY <1>2, <2>2, <2>3
<1> QED BY <1>2, <1>7, <1>8, <1>9

\* The end of a segment with a fill: its target is not far from it.
PlayTarget(f, target) ==
    target \in Int /\ target = PlayMin(f.other, PlayWindow) /\ target - f.end > PlayThreshold

\* What finish fills is not past the end of the segment, and leaves less than a sample.
LEMMA TargetFacts ==
    ASSUME NEW c \in BOOLEAN, NEW seg, NEW X, NEW f, NEW u, NEW e, PlayEnding(c, seg, X, f, u, e),
           NEW target, PlayTarget(f, target)
    PROVE  /\ target > 0 => target <= e
           /\ c => PlayMin(e, PlayWindow) <= target + PlayMostLength - 1
<1>1. /\ e \in Int /\ e > 0 /\ seg.start <= e /\ PlayVideoEnd(seg) <= e
      /\ f.other > 0 => f.other <= e
      /\ e < PlayWindow => /\ ~seg.broke /\ f.other <= e
                           /\ e = f.other \/ (e = PlayVideoEnd(seg) /\ f.started)
      /\ e >= PlayWindow /\ f.other < PlayWindow => PlayVideoEnd(seg) >= PlayWindow /\ f.started
  BY Zenon, EndFacts
<1>2. seg \in PlaySegs /\ f \in PlayFillers
  BY DEF PlayEnding
<1>3. f.other \in Int /\ f.end \in Int /\ PlayVideoEnd(seg) \in Int
  BY <1>2, FillerTypes, SegFacts
<1>4. /\ target \in Int /\ target - f.end > PlayThreshold /\ target <= f.other
      /\ f.other < PlayWindow => target = f.other
      /\ f.other >= PlayWindow => target = PlayWindow
  BY <1>3, NumberFacts DEF PlayTarget, PlayMin
<1>5. ASSUME c PROVE e < PlayWindow \/ f.other < PlayWindow =>
                       PlayVideoEnd(seg) <= f.end + PlayThreshold + PlayMostLength
  BY <1>5, CloseFacts
<1>6. ASSUME c PROVE PlayMin(e, PlayWindow) <= target + PlayMostLength - 1
  <2>1. e < PlayWindow => e <= target + PlayMostLength - 1
    BY <1>1, <1>3, <1>4, <1>5, <1>6, NumberFacts
  <2>2. e >= PlayWindow => PlayWindow <= target + PlayMostLength - 1
    BY <1>1, <1>3, <1>4, <1>5, <1>6, NumberFacts
  <2> QED BY <1>1, <2>1, <2>2, NumberFacts DEF PlayMin
<1> QED BY <1>1, <1>3, <1>4, <1>6

\* finish where its only placeholder would be where a picture is.
LEMMA SkipCloses ==
    ASSUME NEW c \in BOOLEAN, NEW seg, NEW X, NEW f, NEW u, NEW e, PlayEnding(c, seg, X, f, u, e),
           NEW target, PlayTarget(f, target), f.started, f.end = f.last, target <= f.end + PlaySecond,
           NEW w, w = PlayAfterFinal(u, target)
    PROVE  PlayBehind(e, w) /\ (c => PlayCloses(X, e, w))
<1>1. /\ f \in PlayFillers /\ u \in PlayViews /\ (u.in => u.tail # PlayNone) /\ PlayRoom(X)
      /\ PlayFillerOk(c, seg, X, f, u)
  BY DEF PlayEnding
<1>2. /\ f.end \in Int /\ f.last \in Int /\ u.in \in BOOLEAN /\ u.last \in Nat
      /\ X \in Nat /\ X + PlayThreshold + PlayQ - 1 <= PlayHole
  BY <1>1, FillerTypes, ViewTypes DEF PlayRoom
<1>3. target \in Int /\ target - f.end > PlayThreshold
  BY DEF PlayTarget
<1>4. (u.in <=> f.last >= 0) /\ (u.in => u.last = f.last)
  BY <1>1, KeptOther DEF PlayBusy
<1>5. /\ w.in = u.in /\ w.last = u.last
      /\ (PlayTaken(w.tail) <=> PlayTaken(u.tail)) /\ w.tail.len = u.tail.len
      /\ w.tail.offset = u.tail.offset
      /\ u.in => w.tail.dur = PlayMax(target - u.last, 0)
  BY <1>1, <1>3, FinalView
<1>6. u.in => w.tail.dur = target - f.end
  BY <1>2, <1>3, <1>4, <1>5, NumberFacts DEF PlayMax
<1>7. PlayBehind(e, u)
  BY BehindFacts
<1>8. PlayBehind(e, w)
  BY <1>5, <1>7 DEF PlayBehind, PlayTailOk
<1>9. ASSUME c PROVE PlayCloses(X, e, w)
  <2>1. PlayMin(e, PlayWindow) <= target + PlayMostLength - 1
    BY <1>9, TargetFacts
  <2>2. e \in Int
    BY EndFacts
  <2>3. /\ e < PlayWindow => e <= target + PlayMostLength - 1
        /\ e >= PlayWindow => PlayWindow <= target + PlayMostLength - 1
    BY <1>3, <2>1, <2>2, NumberFacts DEF PlayMin
  <2>4. CASE u.in
    <3>1. PlayFrom(w) = f.last /\ PlayOut(w) = 0 /\ PlayUntil(w) = target
      BY <1>2, <1>3, <1>4, <1>5, <1>6, <2>4 DEF PlayFrom, PlayOut, PlayUntil
    <3> QED BY <1>2, <1>3, <1>5, <1>6, <2>2, <2>3, <2>4, <3>1, NumberFacts DEF PlayCloses
  <2>5. CASE ~u.in
    <3>1. PlayFrom(w) = 0 /\ PlayOut(w) = 1 /\ PlayUntil(w) = 0
      BY <1>5, <2>5 DEF PlayFrom, PlayOut, PlayUntil
    <3>2. target <= PlaySecond - 1
      BY <1>2, <1>3, <1>4, <2>5, NumberFacts
    <3> QED BY <1>2, <1>3, <1>5, <2>2, <2>3, <2>5, <3>1, <3>2, NumberFacts DEF PlayCloses
  <2> QED BY <1>2, <2>4, <2>5
<1> QED BY <1>8, <1>9

\* finish where it wrote a placeholder.
LEMMA HoleCloses ==
    ASSUME NEW c \in BOOLEAN, NEW seg, NEW X, NEW f, NEW u, NEW e, PlayEnding(c, seg, X, f, u, e),
           NEW target, PlayTarget(f, target), NEW d \in Int, d < target, target <= d + PlaySecond,
           NEW v, v = PlayHoleView(d, u.last), NEW w, w = PlayAfterFinal(v, target)
    PROVE  PlayBehind(e, w) /\ (c => PlayCloses(X, e, w))
<1>1. u \in PlayViews /\ PlayRoom(X)
  BY DEF PlayEnding
<1>2. u.last \in Nat /\ X \in Nat /\ X + PlayThreshold + PlayQ - 1 <= PlayHole
  BY <1>1, ViewTypes DEF PlayRoom
<1>3. target \in Int
  BY DEF PlayTarget
<1>4. /\ v \in PlayViews /\ (v.in <=> d >= 0) /\ (d >= 0 => v.last = d)
      /\ ~PlayTaken(v.tail) /\ v.tail # PlayNone
  BY <1>2, HoleViewFacts
<1>5. /\ w.in = v.in /\ w.last = v.last /\ (PlayTaken(w.tail) <=> PlayTaken(v.tail))
      /\ v.in => w.tail.dur = PlayMax(target - v.last, 0)
  BY <1>3, <1>4, FinalView
<1>6. v.in => w.tail.dur = target - d
  BY <1>3, <1>4, <1>5 DEF PlayMax
<1>7. e \in Int /\ e > 0
  BY EndFacts
<1>8. target > 0 => target <= e
  BY TargetFacts
<1>9. PlayBehind(e, w)
  BY <1>3, <1>4, <1>5, <1>7, <1>8 DEF PlayBehind, PlayTailOk
<1>10. ASSUME c PROVE PlayCloses(X, e, w)
  <2>1. PlayMin(e, PlayWindow) <= target + PlayMostLength - 1
    BY <1>10, TargetFacts
  <2>2. /\ e < PlayWindow => e <= target + PlayMostLength - 1
        /\ e >= PlayWindow => PlayWindow <= target + PlayMostLength - 1
    BY <1>3, <1>7, <2>1, NumberFacts DEF PlayMin
  <2>3. CASE d >= 0
    <3>1. PlayFrom(w) = d /\ PlayOut(w) = 0 /\ PlayUntil(w) = target
      BY <1>3, <1>4, <1>5, <1>6, <2>3 DEF PlayFrom, PlayOut, PlayUntil
    <3> QED BY <1>2, <1>3, <1>4, <1>5, <1>6, <1>7, <2>2, <2>3, <3>1, NumberFacts DEF PlayCloses
  <2>4. CASE ~(d >= 0)
    <3>1. PlayFrom(w) = 0 /\ PlayOut(w) = 1 /\ PlayUntil(w) = 0
      BY <1>4, <1>5, <2>4 DEF PlayFrom, PlayOut, PlayUntil
    <3> QED BY <1>2, <1>3, <1>4, <1>5, <1>7, <2>2, <2>4, <3>1, NumberFacts DEF PlayCloses
  <2> QED BY <2>3, <2>4
<1> QED BY <1>9, <1>10

\* Between two segments: the last one ended at e.
PlayNextOk(c, X, e, k) ==
    /\ e \in Int /\ e > 0 /\ PlayRoom(X)
    /\ k.m \in PlayMuxers /\ PlayMuxOk(c, k.m) /\ k = [m |-> k.m, f |-> k.f]
    /\ PlayView(k.m.tracks["audio"]).in => PlayView(k.m.tracks["audio"]).last < e
    /\ PlayView(k.m.tracks["video"]).in => PlayView(k.m.tracks["video"]).last < e
    /\ PlayTailOk(PlayView(k.m.tracks["video"]))
    /\ k.f # PlayNone => PlayBehind(e, PlayView(k.m.tracks["video"]))
    /\ k.f = PlayNone => ~c
    /\ c => PlayCloses(X, e, PlayView(k.m.tracks["video"]))

\* finish.
LEMMA FinishFacts ==
    ASSUME NEW c \in BOOLEAN, NEW seg, NEW X, NEW k, PlaySegOk(c, seg, X, k),
           PlayElapsed(seg) > 0, NEW e, e = PlayEnds(seg), e > 0, NEW r, r = PlayFinish(k)
    PROVE  PlayNextOk(c, X, e, r) /\ (r.f = PlayNone <=> k.f = PlayNone)
<1>1. PICK m \in PlayMuxers : m = k.m
  BY DEF PlaySegOk
<1>2. /\ seg \in PlaySegs /\ PlayRoom(X) /\ PlayMuxOk(c, m) /\ k = [m |-> m, f |-> k.f]
      /\ PlayView(m.tracks["audio"]).in => PlayView(m.tracks["audio"]).last < PlayAudioEnd(seg)
      /\ PlayTailOk(PlayView(m.tracks["video"]))
  BY <1>1 DEF PlaySegOk
<1>3. "video" \in PlayTracks /\ "audio" \in PlayTracks
  BY DEF PlayTracks
<1>4. PICK u \in PlayViews : u = PlayView(m.tracks["video"]) /\ (u.in => u.tail # PlayNone)
  BY <1>2, <1>3, MuxView
<1>5. PICK v \in PlayViews : v = PlayView(m.tracks["audio"])
  BY <1>2, <1>3, MuxView
<1>6. u.in \in BOOLEAN /\ u.last \in Nat /\ v.in \in BOOLEAN /\ v.last \in Nat
  BY <1>4, <1>5, ViewTypes
<1>7. /\ PlayVideoEnd(seg) \in Int /\ PlayAudioEnd(seg) \in Int /\ e \in Int
      /\ PlayVideoEnd(seg) <= e /\ PlayAudioEnd(seg) <= e
  BY <1>2, SegFacts
<1>8. v.in => v.last < e
  BY <1>2, <1>5, <1>6, <1>7
<1>9. CASE k.f = PlayNone
  <2>1. r = k
    BY <1>9 DEF PlayFinish
  <2>2. ~c /\ PlayBare(seg, u)
    BY <1>1, <1>4, <1>9 DEF PlaySegOk
  <2>3. u.in => u.last < e
    BY <1>6, <1>7, <2>2 DEF PlayBare
  <2> QED BY <1>1, <1>2, <1>4, <1>5, <1>7, <1>8, <1>9, <2>1, <2>2, <2>3 DEF PlayNextOk
<1>10. CASE k.f # PlayNone
  <2>1. PICK f \in PlayFillers : f = k.f
    BY <1>10 DEF PlaySegOk
  <2>2. PlayFillerOk(c, seg, X, f, u) /\ PlayTailOk(u)
    BY <1>1, <1>2, <1>4, <1>10, <2>1 DEF PlaySegOk
  <2>3. PlayEnding(c, seg, X, f, u, e)
    BY <1>2, <1>4, <2>2 DEF PlayEnding
  <2>4. f.other \in Int /\ f.end \in Int
    BY FillerTypes
  <2>5. PICK target \in Int : target = PlayMin(f.other, PlayWindow)
    BY <2>4, NumberFacts DEF PlayMin
  <2>6. CASE target - f.end > PlayThreshold
    <3>1. PlayTarget(f, target)
      BY <2>5, <2>6 DEF PlayTarget
    <3>2. PICK x : x = PlayFillTo(k, target)
      OBVIOUS
    <3>3. r = [x EXCEPT !.m = PlayFinal(x.m, "video", target)]
      BY <1>10, <2>1, <2>5, <2>6, <3>2 DEF PlayFinish
    <3>4. k \in PlayFilling /\ PlayMuxOk(c, k.m) /\ f.end < target
      <4>1. f.end < target
        BY <2>4, <2>6, NumberFacts
      <4> QED BY <1>1, <1>2, <2>1, <4>1 DEF PlayFilling
    <3>5. PlayMayFill(c, f, u)
      BY <1>2, <1>4, <2>2, MayFill
    <3>6. PlayFillOk(c, k, target, x)
      BY <1>1, <1>4, <2>1, <3>2, <3>4, <3>5, FillFacts
    <3>7. ASSUME NEW y \in PlayMuxers, PlayMuxOk(c, y), NEW g \in PlayFillers, x = [m |-> y, f |-> g],
                 NEW z \in PlayViews, z = PlayView(y.tracks["video"]),
                 PlayView(y.tracks["audio"]) = v,
                 NEW w, w = PlayAfterFinal(z, target),
                 PlayBehind(e, w) /\ (c => PlayCloses(X, e, w))
          PROVE  PlayNextOk(c, X, e, r) /\ r.f # PlayNone
      <4>1. PICK p : p = PlayFinal(y, "video", target)
        OBVIOUS
      <4>2. PlayPuts(c, y, "video", w, p)
        BY <1>3, <3>7, <4>1, FinalFacts
      <4>3. /\ p \in PlayMuxers /\ PlayMuxOk(c, p) /\ PlayView(p.tracks["video"]) = w
            /\ PlayView(p.tracks["audio"]) = v
        BY <1>3, <3>7, <4>2 DEF PlayPuts
      <4>4. g # PlayNone
        BY <3>7, PlayAssumption DEF PlayFillers
      <4>5. r = [m |-> p, f |-> g] /\ r.m = p /\ r.f = g
        BY <3>3, <3>7, <4>1
      <4>6. PlayTailOk(w) /\ (w.in => w.last < e)
        BY <3>7 DEF PlayBehind
      <4> QED BY <1>2, <1>7, <1>8, <3>7, <4>3, <4>4, <4>5, <4>6 DEF PlayNextOk
    <3>8. CASE /\ f.started /\ f.end = f.last /\ target <= f.end + PlaySecond
               /\ x = [m |-> k.m, f |-> [f EXCEPT !.end = @ + PlaySecond]]
      <4>1. PICK g : g = [f EXCEPT !.end = @ + PlaySecond]
        OBVIOUS
      <4>2. g \in PlayFillers /\ x = [m |-> m, f |-> g]
        BY <1>1, <3>8, <4>1, MovedFacts
      <4>3. PICK w : w = PlayAfterFinal(u, target)
        OBVIOUS
      <4>4. PlayBehind(e, w) /\ (c => PlayCloses(X, e, w))
        BY <2>3, <3>1, <3>8, <4>3, SkipCloses
      <4> QED BY <1>2, <1>4, <1>5, <1>10, <3>7, <4>2, <4>3, <4>4
    <3>9. CASE \E d \in Int : /\ f.end <= d /\ d < target /\ target <= d + PlaySecond
                              /\ PlayHoled(c, k, d, d + PlaySecond, x)
      <4>1. PICK d \in Int : /\ f.end <= d /\ d < target /\ target <= d + PlaySecond
                             /\ PlayHoled(c, k, d, d + PlaySecond, x)
        BY <3>9
      <4>2. PICK z : z = PlayHoleView(d, u.last)
        OBVIOUS
      <4>3. z \in PlayViews
        BY <1>6, <4>2, HoleViewFacts
      <4>4. PICK w : w = PlayAfterFinal(z, target)
        OBVIOUS
      <4>5. PlayBehind(e, w) /\ (c => PlayCloses(X, e, w))
        BY <2>3, <3>1, <4>1, <4>2, <4>4, HoleCloses
      <4>6. PICK g : g = PlayHoleFiller(d, f.other)
        OBVIOUS
      <4>7. g \in PlayFillers
        BY <2>4, <4>6, HoleFillerFacts
      <4>8. PICK y \in PlayMuxers : y = x.m
        BY <4>1 DEF PlayHoled
      <4>9. /\ PlayMuxOk(c, y) /\ PlayView(y.tracks["audio"]) = v /\ PlayView(y.tracks["video"]) = z
            /\ x = [m |-> y, f |-> g]
        BY <1>1, <1>4, <1>5, <2>1, <4>1, <4>2, <4>6, <4>8 DEF PlayHoled, PlayHoleView, PlayHoleFiller
      <4> QED BY <1>10, <3>7, <4>3, <4>4, <4>5, <4>7, <4>9
    <3> QED BY <2>1, <3>6, <3>8, <3>9 DEF PlayFillOk
  <2>7. CASE ~(target - f.end > PlayThreshold)
    <3>1. r = k
      BY <2>1, <2>5, <2>7 DEF PlayFinish
    <3>2. PlayMin(f.other, PlayWindow) <= f.end + PlayThreshold
      BY <2>4, <2>5, <2>7, NumberFacts
    <3>3. PlayBehind(e, u)
      BY <2>3, BehindFacts
    <3>4. ASSUME c PROVE PlayCloses(X, e, u)
      BY <2>3, <3>2, <3>4, StandCloses
    <3>5. u.in => u.last < e
      BY <3>3 DEF PlayBehind
    <3> QED BY <1>1, <1>2, <1>4, <1>5, <1>7, <1>8, <1>10, <3>1, <3>3, <3>4, <3>5 DEF PlayNextOk
  <2> QED BY <2>6, <2>7
<1> QED BY <1>9, <1>10

-----------------------------------------------------------------------------
(* The start of a segment.                                                 *)

\* A segment may start with a muxer.
PlayOpens(c, X, start, holes, m) ==
    /\ m \in PlayMuxers /\ PlayMuxOk(c, m) /\ PlayRoom(X) /\ start \in Int /\ start < PlayWindow
    /\ PlayNormal => start >= -2 * PlayThreshold
    /\ PlayView(m.tracks["audio"]).in => PlayView(m.tracks["audio"]).last < start
    /\ PlayView(m.tracks["video"]).in => PlayView(m.tracks["video"]).last < start
    /\ PlayTailOk(PlayView(m.tracks["video"]))
    /\ IF holes THEN PlayBehind(start, PlayView(m.tracks["video"])) ELSE ~c
    /\ c => /\ start - PlayFrom(PlayView(m.tracks["video"])) + PlayOut(PlayView(m.tracks["video"])) <= X + PlayQ
            /\ start - PlayUntil(PlayView(m.tracks["video"])) <= X + PlayQ - 1
            /\ PlayView(m.tracks["video"]).in => PlayView(m.tracks["video"]).tail.dur <= PlayLong

\* A segment that starts.
LEMMA SegmentFacts ==
    ASSUME NEW start \in Int, NEW first \in BOOLEAN, NEW seg, seg = PlaySegment(start, start, first)
    PROVE  /\ seg \in PlaySegs /\ seg.start = start /\ seg.dts = start /\ ~seg.broke
           /\ seg.video = PlayNone /\ seg.audio = PlayNone
           /\ PlayVideoEnd(seg) = start /\ PlayAudioEnd(seg) = start /\ PlayEnds(seg) = start
<1>1. seg \in PlaySegs /\ seg.start = start /\ seg.dts = start /\ ~seg.broke
      /\ seg.video = PlayNone /\ seg.audio = PlayNone
  BY DEF PlaySegment, PlaySegs
<1> QED BY <1>1, SegFacts

\* The state of a segment that starts.
LEMMA OpensFacts ==
    ASSUME NEW c \in BOOLEAN, NEW X, NEW start, NEW holes \in BOOLEAN, NEW m, PlayOpens(c, X, start, holes, m),
           NEW first \in BOOLEAN, NEW seg, seg = PlaySegment(start, start, first),
           NEW k, k = [m |-> m, f |-> PlayAt(holes, start)]
    PROVE  PlaySegOk(c, seg, X, k) /\ (k.f = PlayNone <=> ~holes)
<1>1. /\ m \in PlayMuxers /\ PlayMuxOk(c, m) /\ PlayRoom(X) /\ start \in Int /\ start < PlayWindow
      /\ PlayNormal => start >= -2 * PlayThreshold
      /\ PlayView(m.tracks["audio"]).in => PlayView(m.tracks["audio"]).last < start
      /\ PlayTailOk(PlayView(m.tracks["video"]))
  BY DEF PlayOpens
<1>2. /\ seg \in PlaySegs /\ seg.start = start /\ seg.dts = start /\ ~seg.broke
      /\ seg.video = PlayNone /\ seg.audio = PlayNone
      /\ PlayVideoEnd(seg) = start /\ PlayAudioEnd(seg) = start /\ PlayEnds(seg) = start
  BY <1>1, SegmentFacts
<1>3. k.m = m /\ k.f = PlayAt(holes, start) /\ k = [m |-> k.m, f |-> k.f]
  OBVIOUS
<1>4. "video" \in PlayTracks
  BY DEF PlayTracks
<1>5. PICK u \in PlayViews : u = PlayView(m.tracks["video"]) /\ (u.in => u.tail # PlayNone)
  BY <1>1, <1>4, MuxView
<1>6. /\ u.in => u.last < start
      /\ IF holes THEN PlayBehind(start, u) ELSE ~c
      /\ c => /\ start - PlayFrom(u) + PlayOut(u) <= X + PlayQ
              /\ start - PlayUntil(u) <= X + PlayQ - 1
              /\ u.in => u.tail.dur <= PlayLong
  BY <1>5 DEF PlayOpens
<1>7. CASE ~holes
  <2>1. k.f = PlayNone
    BY <1>3, <1>7 DEF PlayAt
  <2>2. PlayBare(seg, u)
    BY <1>2, <1>6 DEF PlayBare
  <2> QED BY <1>1, <1>2, <1>3, <1>5, <1>6, <1>7, <2>1, <2>2 DEF PlaySegOk
<1>8. CASE holes
  <2>1. PICK f : f = k.f
    OBVIOUS
  <2>2. /\ f \in PlayFillers /\ f.end = start /\ ~f.started /\ ~f.needKey /\ f.other = 0
    BY <1>1, <1>3, <1>8, <2>1 DEF PlayAt, PlayFiller, PlayFillers
  <2>3. f # PlayNone
    BY <2>2, PlayAssumption DEF PlayFillers
  <2>4. PlayIdle(seg, f, u)
    BY <1>2, <1>6, <1>8, <2>2 DEF PlayIdle, PlayBehind
  <2>5. PlayBusy(seg, f, u) /\ PlayWaits(f, u) /\ PlayShows(seg, f, u)
    BY <2>2 DEF PlayBusy, PlayWaits, PlayShows
  <2>6. PlayHeard(seg, f)
    BY <1>1, <1>2, <2>2 DEF PlayHeard, PlayMax
  <2>7. PlayKept(c, seg, X, f, u)
    <3>1. start <= start + PlayThreshold + PlayMostLength /\ 0 <= PlayWindow + PlayMostLength - 1
      BY <1>1, NumberFacts
    <3> QED BY <1>2, <1>6, <2>2, <3>1 DEF PlayKept
  <2>8. PlayBacked(seg, f)
    BY <1>1, <1>2, <2>2 DEF PlayBacked
  <2>9. PlayFillerOk(c, seg, X, f, u)
    BY <2>4, <2>5, <2>6, <2>7, <2>8 DEF PlayFillerOk
  <2> QED BY <1>1, <1>2, <1>3, <1>5, <1>6, <1>8, <2>1, <2>2, <2>3, <2>9 DEF PlaySegOk
<1> QED BY <1>7, <1>8

\* Between two segments, the next step starts with the last samples written.
LEMMA FreshNext ==
    ASSUME NEW c \in BOOLEAN, NEW X, NEW e, NEW k, PlayNextOk(c, X, e, k), NEW r, r = PlayFresh(k)
    PROVE  PlayNextOk(c, X, e, r) /\ r.f = k.f
<1>1. PICK m \in PlayMuxers : m = k.m
  BY DEF PlayNextOk
<1>2. PlayMuxOk(c, m) /\ k = [m |-> m, f |-> k.f]
  BY <1>1 DEF PlayNextOk
<1>3. /\ r.f = k.f /\ r.m \in PlayMuxers /\ PlayMuxOk(c, r.m) /\ r = [m |-> r.m, f |-> r.f]
      /\ r.m.tracks = m.tracks
  BY <1>2, FreshFacts
<1> QED BY <1>1, <1>3 DEF PlayNextOk

\* A segment that follows the last one.
LEMMA JoinsFacts ==
    ASSUME NEW c \in BOOLEAN, NEW X, NEW e, NEW k, PlayNextOk(c, X, e, k),
           NEW holes \in BOOLEAN, k.f = PlayNone <=> ~holes,
           NEW d \in Nat, NEW X2, PlayRoom(X2), X + PlayThreshold + d <= X2,
           NEW start, start = e + d, start < PlayWindow
    PROVE  PlayOpens(c, X2, start, holes, k.m)
<1>1. /\ e \in Int /\ e > 0 /\ PlayRoom(X) /\ k.m \in PlayMuxers /\ PlayMuxOk(c, k.m)
      /\ PlayView(k.m.tracks["audio"]).in => PlayView(k.m.tracks["audio"]).last < e
      /\ PlayView(k.m.tracks["video"]).in => PlayView(k.m.tracks["video"]).last < e
      /\ PlayTailOk(PlayView(k.m.tracks["video"]))
  BY DEF PlayNextOk
<1>2. "video" \in PlayTracks /\ "audio" \in PlayTracks
  BY DEF PlayTracks
<1>3. PICK u \in PlayViews : u = PlayView(k.m.tracks["video"]) /\ (u.in => u.tail # PlayNone)
  BY <1>1, <1>2, MuxView
<1>4. PICK v \in PlayViews : v = PlayView(k.m.tracks["audio"])
  BY <1>1, <1>2, MuxView
<1>5. /\ u.in \in BOOLEAN /\ u.last \in Nat /\ v.last \in Nat
      /\ u.tail # PlayNone => u.tail.len \in Nat /\ u.tail.dur \in Nat
      /\ X \in Nat /\ X2 \in Nat /\ start \in Int /\ e <= start /\ e < PlayWindow
      /\ PlayTaken(u.tail) => u.tail # PlayNone
  BY <1>1, <1>3, <1>4, ViewTypes, NumberFacts DEF PlayRoom
<1>6. PlayNormal => start >= -2 * PlayThreshold
  BY <1>1, <1>5, NumberFacts
<1>7. (v.in => v.last < start) /\ (u.in => u.last < start)
  BY <1>1, <1>3, <1>4, <1>5
<1>8. holes => PlayBehind(start, u)
  <2>1. holes => PlayBehind(e, u)
    BY <1>3 DEF PlayNextOk
  <2> QED BY <1>1, <1>5, <1>7, <2>1 DEF PlayBehind
<1>9. ~holes => ~c
  BY DEF PlayNextOk
<1>10. c => /\ start - PlayFrom(u) + PlayOut(u) <= X2 + PlayQ
            /\ start - PlayUntil(u) <= X2 + PlayQ - 1
            /\ u.in => u.tail.dur <= PlayLong
  <2>1. c => /\ e - PlayFrom(u) + PlayOut(u) <= X + PlayThreshold + PlayQ
             /\ e - PlayUntil(u) <= X + PlayThreshold + PlayQ - 1
             /\ u.in => u.tail.dur <= PlayLong
    BY <1>3, <1>5 DEF PlayNextOk, PlayCloses
  <2>2. PlayFrom(u) \in Int /\ PlayOut(u) \in Int /\ PlayUntil(u) \in Int
    BY <1>3, <1>5 DEF PlayFrom, PlayOut, PlayUntil
  <2> QED BY <1>1, <1>5, <2>1, <2>2, NumberFacts
<1> QED BY <1>1, <1>3, <1>4, <1>5, <1>6, <1>7, <1>8, <1>9, <1>10 DEF PlayOpens

\* What is filled after a segment.
LEMMA BlackAfter ==
    ASSUME NEW c \in BOOLEAN, NEW X, NEW e, NEW k, PlayNextOk(c, X, e, k),
           NEW to \in Int, to <= PlayWindow, NEW r, r = PlayBlack(k.m, e, to)
    PROVE  PlayBlacked(c, k.m, e, to, r)
<1>1. CASE to <= e
  BY <1>1 DEF PlayBlack, PlayBlacked
<1>2. CASE ~(to <= e)
  <2>1. /\ e \in Int /\ e > 0 /\ PlayRoom(X) /\ k.m \in PlayMuxers /\ PlayMuxOk(c, k.m)
    BY DEF PlayNextOk
  <2>2. "video" \in PlayTracks
    BY DEF PlayTracks
  <2>3. PICK u \in PlayViews : u = PlayView(k.m.tracks["video"]) /\ (u.in => u.tail # PlayNone)
    BY <2>1, <2>2, MuxView
  <2>4. u.in \in BOOLEAN /\ u.last \in Nat /\ e < PlayWindow /\ X \in Nat /\ e \in Nat
        /\ X + PlayThreshold + PlayQ - 1 <= PlayHole
    BY <1>2, <2>1, <2>3, ViewTypes, NumberFacts DEF PlayRoom
  <2>5. u.in => u.last <= e
    BY <2>1, <2>3, <2>4 DEF PlayNextOk
  <2>6. c => e - PlayFrom(u) + PlayOut(u) <= X + PlayThreshold + PlayQ
    BY <2>3, <2>4 DEF PlayNextOk, PlayCloses
  <2>7. c => (u.in => e - u.last <= PlayLong) /\ (~u.in => e <= PlayHole)
    BY <2>1, <2>4, <2>6, NumberFacts DEF PlayFrom, PlayOut
  <2> QED BY <2>1, <2>3, <2>4, <2>5, <2>7, BlackFacts
<1> QED BY <1>1, <1>2

\* A segment after a gap that is filled.
LEMMA BlackOpens ==
    ASSUME NEW c \in BOOLEAN, NEW k, NEW from \in Nat, NEW start \in Int, ~(start <= from), start < PlayWindow,
           NEW r, PlayBlacked(c, k.m, from, start, r), NEW X2, PlayRoom(X2), NEW holes \in BOOLEAN, ~holes => ~c,
           PlayNormal => start >= -2 * PlayThreshold,
           PlayView(k.m.tracks["audio"]).in => PlayView(k.m.tracks["audio"]).last < start
    PROVE  PlayOpens(c, X2, start, holes, r)
<1>1. /\ r \in PlayMuxers /\ PlayMuxOk(c, r)
      /\ PlayView(r.tracks["audio"]) = PlayView(k.m.tracks["audio"])
  BY DEF PlayBlacked
<1>2. PICK last \in Nat, tail \in PlaySamples :
        /\ PlayView(r.tracks["video"]) = [in |-> last >= 0, last |-> last, tail |-> tail]
        /\ from <= last /\ last < start /\ tail.is = "gap" /\ tail.dur = start - last /\ tail.dur <= PlaySecond
  BY DEF PlayBlacked
<1>3. PICK u : u = PlayView(r.tracks["video"])
  OBVIOUS
<1>4. PICK b \in BOOLEAN : b <=> last >= 0
  OBVIOUS
<1>5. (last >= 0) = b /\ b
  BY <1>2, <1>4
<1>6. u.in /\ u.last = last /\ u.tail = tail
  <2>1. u = [in |-> b, last |-> last, tail |-> tail]
    BY Zenon, <1>2, <1>3, <1>5
  <2> QED BY <1>5, <2>1
<1>7. ~PlayTaken(u.tail)
  BY <1>2, <1>6 DEF PlayTaken
<1>8. PlayBehind(start, u) /\ PlayTailOk(u)
  BY <1>2, <1>6, <1>7 DEF PlayBehind, PlayTailOk
<1>9. PlayFrom(u) = last /\ PlayOut(u) = 0 /\ PlayUntil(u) = start
  BY <1>2, <1>6 DEF PlayFrom, PlayOut, PlayUntil
<1>10. X2 \in Nat
  BY DEF PlayRoom
<1>11. start - last + 0 <= X2 + PlayQ /\ start - start <= X2 + PlayQ - 1 /\ tail.dur <= PlayLong
  BY <1>2, <1>10, NumberFacts
<1>12. /\ start - PlayFrom(u) + PlayOut(u) <= X2 + PlayQ
       /\ start - PlayUntil(u) <= X2 + PlayQ - 1
       /\ u.tail.dur <= PlayLong
  BY <1>6, <1>9, <1>11
<1>13. u.in => u.last < start
  BY <1>2, <1>6
<1> QED BY <1>1, <1>3, <1>8, <1>12, <1>13 DEF PlayOpens

\* A segment after a gap.
LEMMA GapFacts ==
    ASSUME NEW c \in BOOLEAN, NEW X, NEW e, NEW k, PlayNextOk(c, X, e, k),
           NEW holes \in BOOLEAN, k.f = PlayNone <=> ~holes,
           NEW d \in Nat, NEW X2, PlayRoom(X2), X + PlayThreshold <= X2,
           NEW start, start = e + d, start < PlayWindow, NEW r, r = PlayBlack(k.m, e, start)
    PROVE  PlayOpens(c, X2, start, holes, r)
<1>1. /\ e \in Int /\ e > 0 /\ k.m \in PlayMuxers /\ PlayRoom(X)
      /\ PlayView(k.m.tracks["audio"]).in => PlayView(k.m.tracks["audio"]).last < e
  BY DEF PlayNextOk
<1>2. start \in Int /\ e <= start /\ X2 \in Nat /\ X \in Nat
  BY <1>1 DEF PlayRoom
<1>3. PlayBlacked(c, k.m, e, start, r)
  BY <1>1, <1>2, NumberFacts, BlackAfter
<1>4. CASE start <= e
  <2>1. r = k.m
    BY <1>3, <1>4 DEF PlayBlacked
  <2>2. PICK z \in Nat : z = 0
    OBVIOUS
  <2>3. start = e + z /\ X + PlayThreshold + z <= X2
    BY <1>1, <1>2, <1>4, <2>2, NumberFacts
  <2> QED BY <2>1, <2>3, JoinsFacts
<1>5. CASE ~(start <= e)
  <2>1. PlayNormal => start >= -2 * PlayThreshold
    BY <1>1, <1>2, NumberFacts
  <2>2. ~holes => ~c
    BY DEF PlayNextOk
  <2>3. "audio" \in PlayTracks /\ PlayMuxOk(c, k.m)
    BY DEF PlayTracks, PlayNextOk
  <2>4. PICK v \in PlayViews : v = PlayView(k.m.tracks["audio"])
    BY <1>1, <2>3, MuxView
  <2>5. v.in => v.last < start
    BY <1>1, <1>2, <2>4, ViewTypes
  <2>6. e \in Nat
    BY <1>1
  <2> QED BY <1>1, <1>2, <1>3, <1>5, <2>1, <2>2, <2>4, <2>5, <2>6, BlackOpens
<1> QED BY <1>4, <1>5

\* What is written in the end.
PlayEndOk(c, m) ==
    /\ \A t \in PlayTracks : PlayWroteOk(t, c, m.wrote[t])
    /\ c => (IF PlayLast(m.wrote["video"]) = PlayNone THEN 0
             ELSE PlayLast(m.wrote["video"]).at + PlayLast(m.wrote["video"]).dur) >= PlayWindow - PlayHole

\* The last flush writes right samples, up to the end of the window.
LEMMA LastFacts ==
    ASSUME NEW c \in BOOLEAN, NEW m \in PlayMuxers, PlayMuxOk(c, m), NEW u, u = PlayView(m.tracks["video"]),
           c => (u.in => u.tail.dur <= PlayLong) /\ PlayUntil(u) >= PlayWindow - PlayHole,
           NEW r, r = PlayFlushAll(m)
    PROVE  PlayEndOk(c, r)
<1>1. "video" \in PlayTracks
  BY DEF PlayTracks
<1>2. PICK tr \in PlayTrackSet : tr = m.tracks["video"]
  BY <1>1, MuxerType
<1>3. u \in PlayViews /\ (u.in => u.tail # PlayNone)
  BY <1>1, MuxView
<1>4. /\ u.in <=> tr.first >= 0
      /\ u.last = tr.last
      /\ tr.queue # <<>> => u.tail = PlayLast(tr.queue)
      /\ tr.queue = <<>> => u.tail = PlayNone
  BY <1>2, ViewFacts
<1>5. tr.first >= 0 => u.in /\ u.tail = PlayLast(tr.queue)
  BY <1>3, <1>4
<1>6. c /\ tr.first >= 0 => PlayLast(tr.queue).dur <= PlayLong
  BY <1>5
<1>7. /\ \A t \in PlayTracks : PlayWroteOk(t, c, r.wrote[t])
      /\ tr.first >= 0 => /\ PlayLast(r.wrote["video"]) # PlayNone
                          /\ PlayLast(r.wrote["video"]).at = tr.last
                          /\ PlayLast(r.wrote["video"]).dur = PlayLast(tr.queue).dur
      /\ tr.first < 0 => PlayLast(r.wrote["video"]) = PlayNone
  BY <1>2, <1>6, LastFlushFacts
<1>8. tr.first \in Int
  BY QueueElement
<1>9. CASE tr.first >= 0
  <2>1. PlayUntil(u) = PlayLast(r.wrote["video"]).at + PlayLast(r.wrote["video"]).dur
    BY <1>4, <1>5, <1>7, <1>9 DEF PlayUntil
  <2> QED BY <1>7, <1>9, <2>1 DEF PlayEndOk
<1>10. CASE ~(tr.first >= 0)
  <2>1. PlayUntil(u) = 0 /\ PlayLast(r.wrote["video"]) = PlayNone
    BY <1>4, <1>7, <1>8, <1>10 DEF PlayUntil
  <2> QED BY <1>7, <2>1 DEF PlayEndOk
<1> QED BY <1>9, <1>10

\* What follows the last segment is filled and written.
LEMMA TailFacts ==
    ASSUME NEW c \in BOOLEAN, NEW X, NEW e, NEW k, PlayNextOk(c, X, e, k),
           NEW gaps \in BOOLEAN, c => gaps,
           NEW m, m = IF gaps THEN PlayBlack(k.m, e, PlayWindow) ELSE k.m, NEW r, r = PlayFlushAll(m)
    PROVE  PlayEndOk(c, r)
<1>1. e \in Int /\ e > 0 /\ k.m \in PlayMuxers /\ PlayMuxOk(c, k.m) /\ PlayWindow \in Int
  BY NumberFacts DEF PlayNextOk
<1>2. ASSUME m = k.m, c => PlayWindow <= e PROVE PlayEndOk(c, r)
  <2>1. PICK u : u = PlayView(k.m.tracks["video"])
    OBVIOUS
  <2>2. c => PlayCloses(X, e, u)
    BY <2>1 DEF PlayNextOk
  <2>3. c => (u.in => u.tail.dur <= PlayLong) /\ PlayUntil(u) >= PlayWindow - PlayHole
    BY <1>1, <1>2, <2>2 DEF PlayCloses
  <2> QED BY <1>1, <1>2, <2>1, <2>3, LastFacts
<1>3. CASE gaps /\ e < PlayWindow
  <2>1. m = PlayBlack(k.m, e, PlayWindow)
    BY <1>3
  <2>2. PlayBlacked(c, k.m, e, PlayWindow, m)
    BY <1>1, <2>1, BlackAfter
  <2>3. ~(PlayWindow <= e)
    BY <1>1, <1>3
  <2>4. m \in PlayMuxers /\ PlayMuxOk(c, m)
    BY <2>2, <2>3 DEF PlayBlacked
  <2>5. PICK last \in Nat, tail \in PlaySamples :
          /\ PlayView(m.tracks["video"]) = [in |-> last >= 0, last |-> last, tail |-> tail]
          /\ e <= last /\ last < PlayWindow /\ tail.is = "gap" /\ tail.dur = PlayWindow - last
          /\ tail.dur <= PlaySecond
    BY <2>2, <2>3 DEF PlayBlacked
  <2>6. PICK u : u = PlayView(m.tracks["video"])
    OBVIOUS
  <2>7. PICK b \in BOOLEAN : b <=> last >= 0
    OBVIOUS
  <2>8. (last >= 0) = b /\ b
    BY <2>5, <2>7
  <2>9. u.in /\ u.last = last /\ u.tail = tail
    <3>1. u = [in |-> b, last |-> last, tail |-> tail]
      BY Zenon, <2>5, <2>6, <2>8
    <3> QED BY <2>8, <3>1
  <2>10. PlayUntil(u) = PlayWindow
    BY <1>1, <2>5, <2>9 DEF PlayUntil
  <2>11. tail.dur <= PlayLong /\ PlayWindow >= PlayWindow - PlayHole
    BY <1>1, <2>5, NumberFacts
  <2> QED BY <2>4, <2>6, <2>9, <2>10, <2>11, LastFacts
<1>4. CASE gaps /\ ~(e < PlayWindow)
  <2>1. m = k.m
    BY <1>1, <1>4 DEF PlayBlack
  <2> QED BY <1>1, <1>2, <1>4, <2>1
<1>5. CASE ~gaps
  BY <1>2, <1>5
<1> QED BY <1>1, <1>3, <1>4, <1>5

-----------------------------------------------------------------------------
(* The download.                                                           *)

PlayStates == [phase : {"segment", "next", "stop", "failed", "done"}, gaps : BOOLEAN, holes : BOOLEAN,
               first : Int, seg : PlaySegs, end : Int, count : 1..PlaySegments]

PlayStateOk(c, p, k) ==
    /\ p \in PlayStates /\ (c <=> p.gaps /\ p.holes) /\ (k.f = PlayNone <=> ~p.holes)
    /\ p.phase = "segment" => PlaySegOk(c, p.seg, PlaySlack(p.count), k)
    /\ p.phase \in {"next", "stop"} => PlayNextOk(c, PlaySlack(p.count), p.end, k)
    /\ p.phase = "failed" => PlayMuxOk(c, k.m)
    /\ p.phase = "done" => PlayEndOk(c, k.m)

PlayIInv == \E c \in BOOLEAN : PlayStateOk(c, play, playK)

\* A sample comes.
LEMMA FragmentStep ==
    ASSUME NEW c \in BOOLEAN, PlayStateOk(c, play, playK), NEW t \in PlayTracks, PlayFragment(t)
    PROVE  PlayStateOk(c, play', playK')
<1>1. PICK seg \in PlaySegs : seg = play.seg
  BY DEF PlayStateOk, PlayStates
<1>2. PICK X : X = PlaySlack(play.count)
  OBVIOUS
<1>3. play.phase = "segment" /\ ~seg.broke
  BY <1>1 DEF PlayFragment
<1>4. PlaySegOk(c, seg, X, playK)
  BY <1>1, <1>2, <1>3 DEF PlayStateOk
<1>5. PICK at \in PlayStarts(seg, t), len \in PlayLengths, key \in BOOLEAN, offset \in PlayOffsets :
        /\ t = "video" /\ seg.video = PlayNone => key
        /\ PlayElapsed(seg) - at <= PlayLate
        /\ playK' = PlayTrun(PlayFresh(playK), t, seg.dts + at, PlayReal(key, offset, seg.start + at, len))
        /\ play' = [play EXCEPT !.seg[t] = IF seg.dts + at >= PlayWindow THEN at ELSE at + len,
                                !.seg.broke = (seg.dts + at >= PlayWindow)]
  BY <1>1 DEF PlayFragment
<1>6. at \in Nat /\ PlayComes(seg, t, at, len, key, offset)
  <2>1. PlayElapsed(seg) \in Nat
    BY SegFacts
  <2>2. seg[t] \in Nat \cup {PlayNone}
    BY DEF PlayTracks, PlaySegs
  <2>3. at \in Nat
    BY <1>5, <2>1, <2>2 DEF PlayStarts
  <2>4. IF seg[t] = PlayNone THEN at \in {0, PlayElapsed(seg)} ELSE at = seg[t]
    BY <1>5 DEF PlayStarts
  <2>5. t = "video" /\ seg[t] = PlayNone => key
    BY <1>5
  <2> QED BY <1>5, <2>3, <2>4, <2>5 DEF PlayComes
<1>7. PICK dts \in Int : dts = seg.start + at /\ seg.dts = seg.start
  BY <1>4, <1>6 DEF PlaySegOk, PlaySegs
<1>8. PICK past \in BOOLEAN : past <=> dts >= PlayWindow
  OBVIOUS
<1>9. (dts >= PlayWindow) = past
  BY <1>8
<1>10. PICK seg2 : seg2 = PlayPasses(seg, t, at, len, past)
  OBVIOUS
<1>11. play' = [play EXCEPT !.seg = seg2]
  <2>1. play' = [play EXCEPT !.seg[t] = IF past THEN at ELSE at + len, !.seg.broke = past]
    BY Zenon, <1>5, <1>7, <1>9
  <2>2. play \in PlayStates
    BY DEF PlayStateOk
  <2> QED BY <1>1, <1>10, <2>1, <2>2 DEF PlayPasses, PlayGrows, PlayStates
<1>12. playK' = PlayTrun(PlayFresh(playK), t, dts, PlayReal(key, offset, dts, len))
  BY <1>5, <1>7
<1>13. PlaySegOk(c, seg2, X, playK') /\ (playK'.f = PlayNone <=> playK.f = PlayNone)
  BY <1>3, <1>4, <1>6, <1>7, <1>8, <1>10, <1>12, FragmentFacts
<1>14. seg2 \in PlaySegs
  BY <1>13 DEF PlaySegOk
<1>15. play \in PlayStates /\ (c <=> play.gaps /\ play.holes) /\ (playK.f = PlayNone <=> ~play.holes)
  BY DEF PlayStateOk
<1>16. /\ play' \in PlayStates /\ play'.gaps = play.gaps /\ play'.holes = play.holes /\ play'.seg = seg2
       /\ play'.phase = "segment" /\ play'.count = play.count
  BY <1>3, <1>11, <1>14, <1>15 DEF PlayStates
<1> QED BY <1>2, <1>13, <1>15, <1>16 DEF PlayStateOk

\* The end of a segment.
LEMMA CloseStep ==
    ASSUME NEW c \in BOOLEAN, PlayStateOk(c, play, playK), PlayClose
    PROVE  PlayStateOk(c, play', playK')
<1>1. PICK seg \in PlaySegs : seg = play.seg
  BY DEF PlayStateOk, PlayStates
<1>2. PICK X : X = PlaySlack(play.count)
  OBVIOUS
<1>3. PICK e \in Int : e = PlayEnds(seg)
  BY SegFacts
<1>4. /\ play.phase = "segment" /\ PlayElapsed(seg) > 0 /\ e > 0
      /\ play' = [play EXCEPT !.phase = "next", !.end = e] /\ playK' = PlayFinish(PlayFresh(playK))
  BY <1>1, <1>3 DEF PlayClose
<1>5. PlaySegOk(c, seg, X, playK)
  BY <1>1, <1>2, <1>4 DEF PlayStateOk
<1>6. PICK k : k = PlayFresh(playK)
  OBVIOUS
<1>7. PlaySegOk(c, seg, X, k) /\ k.f = playK.f
  BY <1>5, <1>6, FreshSeg
<1>8. PlayNextOk(c, X, e, playK') /\ (playK'.f = PlayNone <=> k.f = PlayNone)
  BY <1>3, <1>4, <1>6, <1>7, FinishFacts
<1>9. play \in PlayStates /\ (c <=> play.gaps /\ play.holes) /\ (playK.f = PlayNone <=> ~play.holes)
  BY DEF PlayStateOk
<1>10. /\ play' \in PlayStates /\ play'.gaps = play.gaps /\ play'.holes = play.holes /\ play'.end = e
       /\ play'.phase = "next" /\ play'.count = play.count
  BY <1>4, <1>9 DEF PlayStates
<1> QED BY <1>2, <1>7, <1>8, <1>9, <1>10 DEF PlayStateOk

\* The next segment follows.
LEMMA NextFacts ==
    ASSUME NEW c \in BOOLEAN, PlayStateOk(c, play, playK), play.phase \in {"next", "stop"},
           NEW k, k = PlayFresh(playK), NEW X, X = PlaySlack(play.count)
    PROVE  PlayNextOk(c, X, play.end, k) /\ k.f = playK.f /\ (k.f = PlayNone <=> ~play.holes)
<1>1. PlayNextOk(c, X, play.end, playK) /\ (playK.f = PlayNone <=> ~play.holes)
  BY DEF PlayStateOk
<1> QED BY <1>1, FreshNext

\* There is room for one more segment.
LEMMA CountFacts ==
    ASSUME NEW p \in PlayStates, p.count < PlaySegments
    PROVE  /\ p.count + 1 \in 1..PlaySegments /\ PlayRoom(PlaySlack(p.count + 1))
           /\ PlaySlack(p.count + 1) = PlaySlack(p.count) + PlayThreshold + PlayMostStall
           /\ PlaySlack(p.count) \in Nat
<1>1. p.count \in 1..PlaySegments /\ PlaySegments \in Nat
  BY PlayAssumption DEF PlayStates
<1>2. p.count + 1 \in 1..PlaySegments
  BY <1>1
<1> QED BY <1>1, <1>2, SlackFacts DEF PlayRoom

\* The state once a segment has started.
LEMMA StartStep ==
    ASSUME NEW c \in BOOLEAN, PlayStateOk(c, play, playK), play.count < PlaySegments,
           NEW X, X = PlaySlack(play.count + 1), NEW start, NEW m, PlayOpens(c, X, start, play.holes, m),
           NEW first \in BOOLEAN, NEW seg, seg = PlaySegment(start, start, first),
           play' = [play EXCEPT !.phase = "segment", !.count = @ + 1, !.seg = seg],
           playK' = [m |-> m, f |-> PlayAt(play.holes, start)]
    PROVE  PlayStateOk(c, play', playK')
<1>1. play \in PlayStates /\ (c <=> play.gaps /\ play.holes) /\ play.holes \in BOOLEAN
  BY DEF PlayStateOk, PlayStates
<1>2. PICK n \in 1..PlaySegments : n = play.count + 1
  BY <1>1, CountFacts
<1>3. PlaySegOk(c, seg, X, playK') /\ (playK'.f = PlayNone <=> ~play.holes)
  BY <1>1, OpensFacts
<1>4. seg \in PlaySegs
  BY <1>3 DEF PlaySegOk
<1>5. play' = [play EXCEPT !.phase = "segment", !.count = n, !.seg = seg]
  BY <1>1, <1>2
<1>6. /\ play' \in PlayStates /\ play'.gaps = play.gaps /\ play'.holes = play.holes /\ play'.seg = seg
      /\ play'.phase = "segment" /\ play'.count = n
  BY <1>1, <1>4, <1>5 DEF PlayStates
<1> QED BY <1>1, <1>2, <1>3, <1>6 DEF PlayStateOk

\* The next segment follows the last one.
LEMMA ConcatStep ==
    ASSUME PlayOneClock, NEW c \in BOOLEAN, PlayStateOk(c, play, playK), PlayConcat
    PROVE  PlayStateOk(c, play', playK')
<1>1. play \in PlayStates /\ play.phase = "next" /\ play.count < PlaySegments
  BY DEF PlayConcat, PlayStateOk
<1>2. PICK stall \in PlayStalls, back \in IF play.seg.first THEN {0} ELSE PlayRestarts :
        LET start == play.end + stall
            k == PlayFresh(playK)
        IN /\ start < PlayWindow
           /\ play' = PlayJoins(start, -back)
           /\ playK' = [m |-> k.m, f |-> PlayAt(play.holes, start - back)]
  BY Zenon DEF PlayConcat
<1>3. back = 0 /\ stall \in Nat /\ stall <= PlayMostStall /\ play.end \in Int
      /\ play.seg.first \in BOOLEAN /\ play.holes \in BOOLEAN
  BY <1>1, <1>2, MostFacts DEF PlayOneClock, PlayStates, PlaySegs
<1>4. PICK e \in Int : e = play.end
  BY <1>3
<1>5. PICK start \in Int : start = e + stall
  BY <1>3
<1>6. start < PlayWindow /\ start + (-back) = start /\ start - back = start
  BY <1>2, <1>3, <1>4, <1>5
<1>7. PICK k : k = PlayFresh(playK)
  OBVIOUS
<1>8. PICK X : X = PlaySlack(play.count)
  OBVIOUS
<1>9. PlayNextOk(c, X, e, k) /\ (k.f = PlayNone <=> ~play.holes)
  BY <1>1, <1>4, <1>7, <1>8, NextFacts
<1>10. PICK X2 : X2 = PlaySlack(play.count + 1)
  OBVIOUS
<1>11. PlayRoom(X2) /\ X2 = X + PlayThreshold + PlayMostStall /\ X \in Nat
  BY <1>1, <1>8, <1>10, CountFacts
<1>12. X + PlayThreshold + stall <= X2
  BY <1>3, <1>11, NumberFacts
<1>13. PlayOpens(c, X2, start, play.holes, k.m)
  BY <1>3, <1>5, <1>6, <1>9, <1>11, <1>12, JoinsFacts
<1>14. PICK seg : seg = PlaySegment(start, start, play.seg.first)
  OBVIOUS
<1>15. play' = [play EXCEPT !.phase = "segment", !.count = @ + 1, !.seg = seg]
  <2>1. play' = PlayJoins(start, -back)
    BY <1>2, <1>4, <1>5
  <2> QED BY <1>6, <1>14, <2>1 DEF PlayJoins
<1>16. playK' = [m |-> k.m, f |-> PlayAt(play.holes, start)]
  <2>1. (play.end + stall) - back = start
    BY <1>3, <1>4, <1>5
  <2>2. playK' = [m |-> PlayFresh(playK).m, f |-> PlayAt(play.holes, (play.end + stall) - back)]
    BY Zenon, <1>2
  <2> QED BY Zenon, <1>7, <2>1, <2>2
<1> QED BY <1>1, <1>3, <1>10, <1>13, <1>14, <1>15, <1>16, StartStep

\* There is a hole before the next segment.
LEMMA StopStep ==
    ASSUME NEW c \in BOOLEAN, PlayStateOk(c, play, playK), play.phase = "next",
           play' = [play EXCEPT !.phase = "stop"], playK' = PlayFresh(playK)
    PROVE  PlayStateOk(c, play', playK')
<1>1. play \in PlayStates /\ (c <=> play.gaps /\ play.holes)
  BY DEF PlayStateOk
<1>2. /\ PlayNextOk(c, PlaySlack(play.count), play.end, playK')
      /\ playK'.f = PlayNone <=> ~play.holes
  BY NextFacts
<1>3. /\ play' \in PlayStates /\ play'.gaps = play.gaps /\ play'.holes = play.holes /\ play'.end = play.end
      /\ play'.phase = "stop" /\ play'.count = play.count
  BY <1>1 DEF PlayStates
<1> QED BY <1>1, <1>2, <1>3 DEF PlayStateOk

\* A gap before the next segment.
LEMMA GapStep ==
    ASSUME NEW c \in BOOLEAN, PlayStateOk(c, play, playK), PlayGap
    PROVE  PlayStateOk(c, play', playK')
<1>1. play \in PlayStates /\ play.phase = "next" /\ play.count < PlaySegments
  BY DEF PlayGap, PlayStateOk
<1>2. PICK gap \in PlayGaps, same \in BOOLEAN :
        /\ play.end + gap < PlayWindow
        /\ IF play.gaps
           THEN /\ play' = [PlayJoins(play.end + gap, 0) EXCEPT !.seg.first = @ /\ same]
                /\ playK' = [m |-> PlayBlack(PlayFresh(playK).m, play.end, play.end + gap),
                             f |-> PlayAt(play.holes, play.end + gap)]
           ELSE play' = [play EXCEPT !.phase = "stop"] /\ playK' = PlayFresh(playK)
  BY DEF PlayGap
<1>3. gap \in Nat /\ play.end \in Int /\ play.seg.first \in BOOLEAN /\ play.holes \in BOOLEAN
      /\ play.gaps \in BOOLEAN
  BY <1>1, <1>2, PlayAssumption DEF PlayStates, PlaySegs
<1>4. CASE ~play.gaps
  BY <1>1, <1>2, <1>4, StopStep
<1>5. CASE play.gaps
  <2>1. PICK e \in Int : e = play.end
    BY <1>3
  <2>2. PICK start \in Int : start = e + gap
    BY <1>3
  <2>3. start < PlayWindow /\ start + 0 = start
    BY <1>2, <2>1, <2>2
  <2>4. PICK k : k = PlayFresh(playK)
    OBVIOUS
  <2>5. PICK X : X = PlaySlack(play.count)
    OBVIOUS
  <2>6. PlayNextOk(c, X, e, k) /\ (k.f = PlayNone <=> ~play.holes)
    BY <1>1, <2>1, <2>4, <2>5, NextFacts
  <2>7. PICK X2 : X2 = PlaySlack(play.count + 1)
    OBVIOUS
  <2>8. PlayRoom(X2) /\ X2 = X + PlayThreshold + PlayMostStall /\ X \in Nat
    BY <1>1, <2>5, <2>7, CountFacts
  <2>9. X + PlayThreshold <= X2
    BY <2>8, NumberFacts
  <2>10. PICK m : m = PlayBlack(k.m, e, start)
    OBVIOUS
  <2>11. PlayOpens(c, X2, start, play.holes, m)
    BY <1>3, <2>2, <2>3, <2>6, <2>8, <2>9, <2>10, GapFacts
  <2>12. PICK first \in BOOLEAN : first = (play.seg.first /\ same)
    OBVIOUS
  <2>13. PICK seg : seg = PlaySegment(start, start, first)
    OBVIOUS
  <2>14. play' = [play EXCEPT !.phase = "segment", !.count = @ + 1, !.seg = seg]
    <3>1. play' = [PlayJoins(start, 0) EXCEPT !.seg.first = @ /\ same]
      BY <1>2, <1>5, <2>1, <2>2
    <3>2. PICK old : old = PlaySegment(start, start, play.seg.first)
      OBVIOUS
    <3>3. PlayJoins(start, 0) = [play EXCEPT !.phase = "segment", !.count = @ + 1, !.seg = old]
      BY <2>3, <3>2 DEF PlayJoins
    <3>4. seg = [old EXCEPT !.first = first] /\ old.first = play.seg.first
      <4>1. PICK f \in BOOLEAN : f = play.seg.first
        BY <1>3
      <4>2. old = PlaySegment(start, start, f)
        BY <3>2, <4>1
      <4>3. seg = [old EXCEPT !.first = first]
        <5>1. PICK b : b = FALSE
          OBVIOUS
        <5>2. old = [start |-> start, dts |-> start, first |-> f, video |-> PlayNone,
                     audio |-> PlayNone, broke |-> b]
          BY Zenon, <4>2, <5>1 DEF PlaySegment
        <5>3. seg = [start |-> start, dts |-> start, first |-> first, video |-> PlayNone,
                     audio |-> PlayNone, broke |-> b]
          BY Zenon, <2>13, <5>1 DEF PlaySegment
        <5> HIDE <2>13, <4>2, <3>2, <5>1
        <5> QED BY <5>2, <5>3
      <4>4. old.first = f
        BY <4>2 DEF PlaySegment
      <4> QED BY Zenon, <4>1, <4>3, <4>4
    <3>5. PlayJoins(start, 0).seg = old
      BY <1>1, <3>3 DEF PlayStates
    <3>6. PlayJoins(start, 0).seg.first = play.seg.first
      BY <3>4, <3>5
    <3>7. play' = [PlayJoins(start, 0) EXCEPT !.seg.first = first]
      BY Zenon, <2>12, <3>1, <3>6
    <3> QED BY <1>1, <3>3, <3>4, <3>5, <3>7 DEF PlayStates
  <2>15. playK' = [m |-> m, f |-> PlayAt(play.holes, start)]
    BY <1>2, <1>5, <2>1, <2>2, <2>4, <2>10
  <2> QED BY <1>1, <2>7, <2>11, <2>12, <2>13, <2>14, <2>15, StartStep
<1> QED BY <1>3, <1>4, <1>5

\* The tracks of the next segment are others.
LEMMA DiffersStep ==
    ASSUME NEW c \in BOOLEAN, PlayStateOk(c, play, playK), PlayDiffers
    PROVE  PlayStateOk(c, play', playK')
BY StopStep DEF PlayDiffers

\* The file of the next segment is gone.
LEMMA FailsStep ==
    ASSUME NEW c \in BOOLEAN, PlayStateOk(c, play, playK), PlayFails
    PROVE  PlayStateOk(c, play', playK')
<1>1. /\ play \in PlayStates /\ (c <=> play.gaps /\ play.holes) /\ play.phase = "next"
      /\ play' = [play EXCEPT !.phase = "failed"] /\ playK' = PlayFresh(playK)
  BY DEF PlayStateOk, PlayFails
<1>2. /\ PlayNextOk(c, PlaySlack(play.count), play.end, playK')
      /\ playK'.f = PlayNone <=> ~play.holes
  BY <1>1, NextFacts
<1>3. PlayMuxOk(c, playK'.m)
  BY <1>2 DEF PlayNextOk
<1>4. /\ play' \in PlayStates /\ play'.gaps = play.gaps /\ play'.holes = play.holes
      /\ play'.phase = "failed"
  BY <1>1 DEF PlayStates
<1> QED BY <1>1, <1>2, <1>3, <1>4 DEF PlayStateOk

\* The end of the download.
LEMMA TailStep ==
    ASSUME NEW c \in BOOLEAN, PlayStateOk(c, play, playK), PlayTail
    PROVE  PlayStateOk(c, play', playK')
<1>1. PICK k : k = PlayFresh(playK)
  OBVIOUS
<1>2. PICK m : m = IF play.gaps THEN PlayBlack(k.m, play.end, PlayWindow) ELSE k.m
  OBVIOUS
<1>3. /\ play \in PlayStates /\ (c <=> play.gaps /\ play.holes) /\ play.phase \in {"next", "stop"}
      /\ play' = [play EXCEPT !.phase = "done"]
  BY DEF PlayStateOk, PlayTail
<1>4. playK' = [m |-> PlayFlushAll(m), f |-> k.f]
  BY <1>1, <1>2 DEF PlayTail
<1>5. /\ PlayNextOk(c, PlaySlack(play.count), play.end, k)
      /\ k.f = PlayNone <=> ~play.holes
  BY <1>1, <1>3, NextFacts
<1>6. PICK r : r = PlayFlushAll(m)
  OBVIOUS
<1>7. play.gaps \in BOOLEAN /\ (c => play.gaps)
  BY <1>3 DEF PlayStates
<1>8. PlayEndOk(c, r)
  BY <1>2, <1>5, <1>6, <1>7, TailFacts
<1>9. playK'.m = r /\ playK'.f = k.f
  BY <1>4, <1>6
<1>10. /\ play' \in PlayStates /\ play'.gaps = play.gaps /\ play'.holes = play.holes
       /\ play'.phase = "done"
  BY <1>3 DEF PlayStates
<1> QED BY <1>3, <1>5, <1>8, <1>9, <1>10 DEF PlayStateOk

-----------------------------------------------------------------------------
(* The start of the download.                                              *)

PlayFirstMuxer == [tracks |-> [t \in PlayTracks |-> PlayTrack], wrote |-> [t \in PlayTracks |-> <<PlayNone>>]]

\* The muxer of a new download.
LEMMA FirstMuxer ==
    ASSUME NEW c \in BOOLEAN, NEW m, m = PlayFirstMuxer
    PROVE  /\ m \in PlayMuxers /\ PlayMuxOk(c, m)
           /\ \A t \in PlayTracks : ~PlayView(m.tracks[t]).in /\ PlayView(m.tracks[t]).tail = PlayNone
<1>1. /\ PlayTrack \in PlayTrackSet /\ PlayTrack.first < 0 /\ ~(PlayTrack.first >= 0)
      /\ PlayTrack.queue = <<>> /\ Len(PlayTrack.queue) = 0
  BY DEF PlayTrack, PlayTrackSet
<1>2. <<PlayNone>> \in PlayWritten /\ Len(<<PlayNone>>) = 1 /\ PlayLast(<<PlayNone>>) = PlayNone
  BY DEF PlayWritten, PlayLast
<1>3. \A t \in PlayTracks : m.tracks[t] = PlayTrack /\ m.wrote[t] = <<PlayNone>>
  BY DEF PlayFirstMuxer
<1>4. m \in PlayMuxers
  BY <1>1, <1>2 DEF PlayMuxers, PlayFirstMuxer
<1>5. ASSUME NEW t \in PlayTracks PROVE PlayWroteOk(t, c, <<PlayNone>>) /\ PlayTrackOk(t, c, PlayTrack, PlayNone)
  <2>1. PlayWroteOk(t, c, <<PlayNone>>)
    BY <1>2 DEF PlayWroteOk
  <2>2. PlayTimed(PlayTrack)
    <3>1. \A i \in 1..Len(PlayTrack.queue) : FALSE
      BY <1>1
    <3> QED BY <1>1, <3>1 DEF PlayTimed
  <2>3. PlayLinked(t, PlayTrack, PlayNone) /\ PlayFollows(PlayTrack, PlayNone)
    BY <1>1 DEF PlayLinked, PlayFollows
  <2>4. PlayCovered(t, c, PlayTrack, PlayNone)
    <3>1. \A i \in 1..Len(PlayTrack.queue) - 1 : FALSE
      BY <1>1
    <3> QED BY <1>1, <3>1 DEF PlayCovered
  <2> QED BY <2>1, <2>2, <2>3, <2>4 DEF PlayTrackOk
<1>6. PlayMuxOk(c, m)
  BY <1>2, <1>3, <1>5 DEF PlayMuxOk
<1>7. ~PlayView(PlayTrack).in /\ PlayView(PlayTrack).tail = PlayNone
  <2>1. PICK b \in BOOLEAN : b <=> PlayTrack.first >= 0
    OBVIOUS
  <2>2. (PlayTrack.first >= 0) = b /\ ~b
    BY <1>1, <2>1
  <2>3. PlayView(PlayTrack) = [in |-> b, last |-> PlayTrack.last, tail |-> PlayNone]
    BY Zenon, <1>1, <2>2 DEF PlayView
  <2> QED BY <2>2, <2>3
<1> QED BY <1>3, <1>4, <1>6, <1>7

\* Nothing is recorded before the first segment that is filled.
LEMMA FirstOpens ==
    ASSUME NEW c \in BOOLEAN, NEW start \in Int, start < PlayWindow, NEW gaps \in BOOLEAN, c => gaps,
           NEW holes \in BOOLEAN, c => holes, PlayNormal => start >= -2 * PlayThreshold,
           NEW X, X = 0, PlayRoom(X),
           NEW m, m = IF gaps THEN PlayBlack(PlayFirstMuxer, 0, PlayMin(start, PlayWindow)) ELSE PlayFirstMuxer
    PROVE  PlayOpens(c, X, start, holes, m)
<1>1. PICK k : k = [m |-> PlayFirstMuxer]
  OBVIOUS
<1>2. "video" \in PlayTracks /\ "audio" \in PlayTracks
  BY DEF PlayTracks
<1>3. /\ k.m \in PlayMuxers /\ PlayMuxOk(c, k.m) /\ k.m = PlayFirstMuxer
      /\ ~PlayView(k.m.tracks["audio"]).in
  BY <1>1, <1>2, FirstMuxer
<1>4. PICK u \in PlayViews : u = PlayView(k.m.tracks["video"]) /\ ~u.in /\ u.tail = PlayNone
  BY <1>1, <1>2, <1>3, FirstMuxer, MuxView
<1>5. PlayMin(start, PlayWindow) = start
  BY NumberFacts DEF PlayMin
<1>6. CASE gaps /\ ~(start <= 0)
  <2>1. m = PlayBlack(k.m, 0, start)
    BY Zenon, <1>3, <1>5, <1>6
  <2>2. PICK z \in Nat : z = 0
    OBVIOUS
  <2>3. ~(start <= z) /\ z <= PlayHole
    BY <1>6, <2>2, NumberFacts
  <2>4. m = PlayBlack(k.m, z, start)
    BY Zenon, <2>1, <2>2
  <2>5. PlayBlacked(c, k.m, z, start, m)
    BY <1>3, <1>4, <2>3, <2>4, BlackFacts
  <2> QED BY <1>3, <2>3, <2>5, BlackOpens
<1>7. CASE ~(gaps /\ ~(start <= 0))
  <2>1. m = k.m
    <3>1. PlayBlack(PlayFirstMuxer, 0, start) = PlayFirstMuxer \/ ~(start <= 0)
      BY DEF PlayBlack
    <3> QED BY Zenon, <1>3, <1>5, <1>7, <3>1
  <2>2. c => start <= 0
    BY <1>7
  <2>3. PlayFrom(u) = 0 /\ PlayOut(u) = 1 /\ PlayUntil(u) = 0
    BY <1>4 DEF PlayFrom, PlayOut, PlayUntil, PlayTaken
  <2>4. c => start - PlayFrom(u) + PlayOut(u) <= X + PlayQ /\ start - PlayUntil(u) <= X + PlayQ - 1
    BY <2>2, <2>3, NumberFacts
  <2>5. PlayTailOk(u) /\ PlayBehind(start, u)
    BY <1>4 DEF PlayTailOk, PlayBehind, PlayTaken
  <2>6. ~holes => ~c
    OBVIOUS
  <2> QED BY <1>3, <1>4, <2>1, <2>4, <2>5, <2>6 DEF PlayOpens
<1> QED BY <1>6, <1>7

\* The first segment.
LEMMA InitStep == PlayInit => PlayIInv
<1> SUFFICES ASSUME PlayInit PROVE PlayIInv
  OBVIOUS
<1>1. PICK start \in {-b : b \in PlayBefore} \cup PlayAfter, gaps, holes \in BOOLEAN :
        /\ start < PlayWindow
        /\ play = [phase |-> "segment", gaps |-> gaps, holes |-> holes, first |-> start,
                   seg |-> PlaySegment(start, start, TRUE), end |-> start, count |-> 1]
        /\ playK = [m |-> IF gaps THEN PlayBlack(PlayFirstMuxer, 0, PlayMin(start, PlayWindow)) ELSE PlayFirstMuxer,
                    f |-> PlayAt(holes, start)]
  BY Zenon DEF PlayInit, PlayFirstMuxer
<1>2. start \in Int /\ (PlayNormal => start >= -2 * PlayThreshold)
  <2>1. CASE start \in PlayAfter
    BY <2>1, PlayAssumption
  <2>2. CASE start \in {-b : b \in PlayBefore}
    <3>1. PICK b \in PlayBefore : start = -b
      BY <2>2
    <3>2. b \in Nat /\ (PlayNormal => b <= 2 * PlayThreshold)
      BY <3>1, PlayAssumption DEF PlayNormal
    <3> QED BY <3>1, <3>2, NumberFacts
  <2> QED BY <1>1, <2>1, <2>2
<1>3. PICK c \in BOOLEAN : c <=> gaps /\ holes
  BY <1>1
<1>4. PICK n \in 1..PlaySegments : n = 1
  BY PlayAssumption
<1>5. PICK X : X = PlaySlack(n)
  OBVIOUS
<1>6. X = 0 /\ PlayRoom(X)
  BY <1>4, <1>5, SlackFacts
<1>7. PICK m : m = IF gaps THEN PlayBlack(PlayFirstMuxer, 0, PlayMin(start, PlayWindow)) ELSE PlayFirstMuxer
  OBVIOUS
<1>8. PlayOpens(c, X, start, holes, m)
  BY <1>1, <1>2, <1>3, <1>6, <1>7, FirstOpens
<1>9. PICK first \in BOOLEAN : first = TRUE
  OBVIOUS
<1>10. PICK seg : seg = PlaySegment(start, start, first)
  OBVIOUS
<1>11. playK = [m |-> m, f |-> PlayAt(holes, start)]
  BY Zenon, <1>1, <1>7
<1>12. PlaySegOk(c, seg, X, playK) /\ (playK.f = PlayNone <=> ~holes)
  BY <1>1, <1>8, <1>10, <1>11, OpensFacts
<1>13. seg \in PlaySegs
  BY <1>12 DEF PlaySegOk
<1>14. play = [phase |-> "segment", gaps |-> gaps, holes |-> holes, first |-> start,
               seg |-> seg, end |-> start, count |-> n]
  BY Zenon, <1>1, <1>4, <1>9, <1>10
<1>15. /\ play \in PlayStates /\ play.gaps = gaps /\ play.holes = holes /\ play.seg = seg
       /\ play.phase = "segment" /\ play.count = n
  <2>1. gaps \in BOOLEAN /\ holes \in BOOLEAN
    BY <1>1
  <2> HIDE <1>1
  <2> QED BY <1>2, <1>4, <1>13, <1>14, <2>1 DEF PlayStates
<1>16. PlayStateOk(c, play, playK)
  BY <1>3, <1>5, <1>12, <1>15 DEF PlayStateOk
<1> QED BY <1>16 DEF PlayIInv

\* One step of the download.
LEMMA PlayStep ==
    ASSUME PlayOneClock, PlayIInv, [PlayNext]_playVars
    PROVE  PlayIInv'
<1>1. PICK c \in BOOLEAN : PlayStateOk(c, play, playK)
  BY DEF PlayIInv
<1>2. "video" \in PlayTracks /\ "audio" \in PlayTracks
  BY DEF PlayTracks
<1>3. CASE PlayVideo
  BY <1>1, <1>2, <1>3, FragmentStep DEF PlayVideo, PlayIInv
<1>4. CASE PlayAudio
  BY <1>1, <1>2, <1>4, FragmentStep DEF PlayAudio, PlayIInv
<1>5. CASE PlayClose
  BY <1>1, <1>5, CloseStep DEF PlayIInv
<1>6. CASE PlayConcat
  BY <1>1, <1>6, ConcatStep DEF PlayIInv
<1>7. CASE PlayGap
  BY <1>1, <1>7, GapStep DEF PlayIInv
<1>8. CASE PlayDiffers
  BY <1>1, <1>8, DiffersStep DEF PlayIInv
<1>9. CASE PlayFails
  BY <1>1, <1>9, FailsStep DEF PlayIInv
<1>10. CASE PlayTail
  BY <1>1, <1>10, TailStep DEF PlayIInv
<1>11. CASE UNCHANGED playVars
  BY <1>1, <1>11 DEF PlayIInv, playVars
<1> QED BY <1>3, <1>4, <1>5, <1>6, <1>7, <1>8, <1>9, <1>10, <1>11 DEF PlayNext

\* The inductive invariant: the muxer, the filler and the segment agree with one another at
\* every step of seekAndMux, where the sessions of the segments share one clock.
THEOREM PlayIInvHolds == ASSUME PlayOneClock PROVE PlaySpec => []PlayIInv
<1>1. PlayInit => PlayIInv
  BY InitStep
<1>2. PlayIInv /\ [PlayNext]_playVars => PlayIInv'
  BY PlayStep
<1> QED BY <1>1, <1>2, PTL DEF PlaySpec

-----------------------------------------------------------------------------
(* What a clip holds.                                                      *)

\* What was written fits what was written before it.
LEMMA WroteFacts ==
    ASSUME NEW c \in BOOLEAN, PlayStateOk(c, play, playK), NEW t \in PlayTracks, NEW pair \in PlayPairs(t)
    PROVE  pair[2] # PlayNone /\ PlayPairOk(t, c, pair[1], pair[2])
<1>1. PICK wr : wr = playK.m.wrote[t]
  OBVIOUS
<1>2. PlayWroteOk(t, c, wr)
  <2>1. CASE play.phase = "segment"
    BY <1>1, <2>1 DEF PlayStateOk, PlaySegOk, PlayMuxOk
  <2>2. CASE play.phase \in {"next", "stop"}
    BY <1>1, <2>2 DEF PlayStateOk, PlayNextOk, PlayMuxOk
  <2>3. CASE play.phase = "failed"
    BY <1>1, <2>3 DEF PlayStateOk, PlayMuxOk
  <2>4. CASE play.phase = "done"
    BY <1>1, <2>4 DEF PlayStateOk, PlayEndOk
  <2>5. play.phase \in {"segment", "next", "stop", "failed", "done"}
    BY DEF PlayStateOk, PlayStates
  <2> QED BY <2>1, <2>2, <2>3, <2>4, <2>5
<1>3. PICK i \in 2..Len(wr) : pair = <<wr[i - 1], wr[i]>>
  BY <1>1 DEF PlayPairs, PlayWrote
<1>4. wr[i] # PlayNone /\ PlayPairOk(t, c, wr[i - 1], wr[i])
  BY <1>2 DEF PlayWroteOk
<1>5. pair[1] = wr[i - 1] /\ pair[2] = wr[i]
  BY <1>3
<1> QED BY <1>4, <1>5

\* What the invariant says of the samples written.
LEMMA DecodableFacts ==
    ASSUME PlayIInv
    PROVE  PlayDecodable /\ PlayTimesTrue /\ (PlayShort => PlayInOrder)
<1>1. PICK c \in BOOLEAN : PlayStateOk(c, play, playK)
  BY DEF PlayIInv
<1>2. "video" \in PlayTracks
  BY DEF PlayTracks
<1>3. \A t \in PlayTracks : \A pair \in PlayPairs(t) : pair[2] # PlayNone /\ PlayPairOk(t, c, pair[1], pair[2])
  BY <1>1, WroteFacts
<1>4. PlayDecodable
  BY <1>2, <1>3 DEF PlayDecodable, PlayPairOk, PlayTaken
<1>5. PlayTimesTrue
  BY <1>3 DEF PlayTimesTrue, PlayPairOk, PlayTaken
<1>6. PlayShort => PlayInOrder
  BY <1>2, <1>3 DEF PlayInOrder, PlayPairOk
<1> QED BY <1>4, <1>5, <1>6

\* What the invariant says of the pictures held back for a keyframe.
LEMMA FillsHolesFacts ==
    ASSUME PlayIInv, PlayNormal
    PROVE  PlayFillsHoles
<1> SUFFICES ASSUME play.phase = "segment", ~play.seg.broke, play.seg.video # PlayNone,
                    playK.f # PlayNone, playK.f.needKey
             PROVE  PlayReach(play.seg, "audio") - play.seg.video > PlayThreshold
  BY DEF PlayFillsHoles
<1>1. PICK c \in BOOLEAN : PlayStateOk(c, play, playK)
  BY DEF PlayIInv
<1>2. PICK seg \in PlaySegs : seg = play.seg
  BY <1>1 DEF PlayStateOk, PlayStates
<1>3. PlaySegOk(c, seg, PlaySlack(play.count), playK)
  BY <1>1, <1>2 DEF PlayStateOk
<1>4. PlayBacked(seg, playK.f)
  BY <1>3 DEF PlaySegOk, PlayFillerOk
<1>5. PlayReach(seg, "audio") - PlayReach(seg, "video") > 2 * PlayThreshold
  BY <1>2, <1>4 DEF PlayBacked
<1>6. PlayReach(seg, "audio") \in Nat /\ PlayReach(seg, "video") \in Nat /\ PlayReach(seg, "video") = seg.video
  BY <1>2, SegFacts
<1> QED BY <1>2, <1>5, <1>6, NumberFacts

\* What the invariant says of the length of the clip.
LEMMA CoversFacts ==
    ASSUME PlayIInv
    PROVE  PlayCovers
<1> SUFFICES ASSUME play.gaps, play.holes
             PROVE  /\ \A pair \in PlayPairs("video") :
                        /\ pair[1] = PlayNone => pair[2].at <= PlayHole
                        /\ pair[2].dur <= PlayHole + PlayMost(PlayLengths)
                    /\ play.phase = "done" =>
                        (IF PlayLast(PlayWrote("video")) = PlayNone THEN 0
                         ELSE PlayLast(PlayWrote("video")).at + PlayLast(PlayWrote("video")).dur)
                            >= PlayWindow - PlayHole
  BY DEF PlayCovers
<1>1. PICK c \in BOOLEAN : PlayStateOk(c, play, playK)
  BY DEF PlayIInv
<1>2. c
  BY <1>1 DEF PlayStateOk
<1>3. "video" \in PlayTracks
  BY DEF PlayTracks
<1>4. ASSUME NEW pair \in PlayPairs("video")
      PROVE  /\ pair[1] = PlayNone => pair[2].at <= PlayHole
             /\ pair[2].dur <= PlayHole + PlayMost(PlayLengths)
  <2>1. PlayPairOk("video", c, pair[1], pair[2])
    BY <1>1, <1>3, WroteFacts
  <2> QED BY <1>2, <2>1 DEF PlayPairOk, PlayLong, PlayMostLength
<1>5. play.phase = "done" =>
        (IF PlayLast(PlayWrote("video")) = PlayNone THEN 0
         ELSE PlayLast(PlayWrote("video")).at + PlayLast(PlayWrote("video")).dur)
            >= PlayWindow - PlayHole
  BY <1>1, <1>2 DEF PlayStateOk, PlayEndOk, PlayWrote
<1> QED BY <1>4, <1>5

\* Whatever is missing in the recordings and between them, what a clip holds can be
\* decoded and is where it was recorded.
THEOREM PlayDecodableHolds == ASSUME PlayOneClock PROVE PlaySpec => [](PlayDecodable /\ PlayTimesTrue)
<1>1. PlayIInv => PlayDecodable /\ PlayTimesTrue
  BY DecodableFacts
<1> QED BY <1>1, PlayIInvHolds, PTL

\* A clip is faithful, where no picture is shown later than it lasts.
THEOREM PlayFaithfulHolds == ASSUME PlayOneClock, PlayShort PROVE PlaySpec => []PlayFaithful
<1>1. PlayIInv => PlayFaithful
  BY DecodableFacts DEF PlayFaithful
<1> QED BY <1>1, PlayIInvHolds, PTL

\* With both placeholders there is video from the start of the window to its end.
THEOREM PlayCoversHolds == ASSUME PlayOneClock PROVE PlaySpec => []PlayCovers
<1>1. PlayIInv => PlayCovers
  BY CoversFacts
<1> QED BY <1>1, PlayIInvHolds, PTL

\* Placeholders are where there is no video, and only there, where the footage is normal.
THEOREM PlayFilledHolds == ASSUME PlayOneClock, PlayNormal PROVE PlaySpec => []PlayFilled
<1>1. PlayIInv => PlayFilled
  BY CoversFacts, FillsHolesFacts DEF PlayFilled
<1> QED BY <1>1, PlayIInvHolds, PTL
=============================================================================
