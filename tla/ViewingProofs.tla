---------------------------- MODULE ViewingProofs ----------------------------
(***************************************************************************)
(* Proofs about what crosses between a camera and a browser.               *)
(*                                                                         *)
(* Push-to-talk (TalkSession), for every set of handlers, every capacity   *)
(* of the audio channel and every length of a session: TalkSafe, which     *)
(* says that one handler at a time holds the camera's backchannel and its  *)
(* slot, that the shutdown leaves none of the sessions it found online,    *)
(* and that a passthrough session never loses its newest frame.            *)
(*                                                                         *)
(* The live stream (LiveStream), for every set of viewers, every size of   *)
(* its queues, parts and GOP buffer, and every length and number of RTSP   *)
(* sessions: LiveFeedWhole, which says that what a viewer is given has no  *)
(* gap, belongs to the session of its init, starts with a keyframe, and    *)
(* that no part of it overlaps the next unless the clock went back.        *)
(*                                                                         *)
(* The samples of a recorder (SamplePath), for every SegmentDuration,      *)
(* every tolerance and every jump of the camera's clock: PathFaithful,     *)
(* which says that each segment can be decoded from its start and tells    *)
(* when its samples were taken.                                            *)
(***************************************************************************)
EXTENDS TalkSession, LiveStream, SamplePath, SequenceTheorems, TLAPS

-----------------------------------------------------------------------------
(* The inductive invariant.                                                *)

\* What one session's record says at each place of its handler: the RTSP client
\* exists from the dialing to the end of Close, the loop only while it is open,
\* nobody closes a session that is not registered yet, and nothing is open once
\* the handler is on its way out.
TalkEarly == {"idle", "upgrade", "handshake"}
TalkLate == {"release", "returned"}
TalkRegistered == {"ready", "talk", "shed", "again", "closing"}

TalkOpenWhere(r) == r.pc \in TalkEarly \cup TalkLate => ~r.open
TalkOnceWhere(r) ==
    /\ r.pc \in TalkEarly \cup {"dial", "register"} => r.once = "idle"
    /\ r.once = "done" => ~r.open

\* The channel never exceeds its capacity, and after shedding there is room in it.
\* In a passthrough session the newest frame is the last one queued, or, when the
\* queue is empty, the last one that the loop took.
TalkQueueWhere(r) ==
    /\ Len(r.ch) <= TalkBuffer
    /\ r.pc = "again" => Len(r.ch) < TalkBuffer
    /\ r.pc \in TalkEarly \cup {"dial", "register", "ready"} => r.fed = 0
    /\ r.pc \in {"shed", "again"} => r.fed > 0
    /\ r.pc = "talk" /\ r.codec = "passthrough" /\ r.fed > 0 =>
        /\ r.ch = <<>> => r.took = r.fed
        /\ r.ch # <<>> => r.ch[Len(r.ch)] = r.fed

\* The slot and the shutdown.  Until the sweep a busy handler has the slot; a
\* session that is registered, or that the sweep found, is past registration, and
\* torn down if its handler is on the way out.
TalkBusyAt(t) == talker[t].pc \in TalkBusyPlaces
TalkSwept == talkEnd.phase \in {"sweep", "down"}
TalkFound(t) == talkSlot = t \/ t \in talkEnd.swept

TalkSlotWhere ==
    /\ talkSlot # TalkFree => \E t \in Talkers : TalkBusyAt(t)
    /\ \A t \in Talkers : talkSlot = t => TalkBusyAt(t)
    /\ \A t, u \in Talkers : TalkBusyAt(t) /\ TalkBusyAt(u) => t = u
    /\ \A t \in Talkers : TalkBusyAt(t) /\ ~TalkSwept => talkSlot \in {t, TalkReserved}
TalkSweptWhere ==
    /\ ~TalkSwept => talkEnd.swept = {}
    /\ \A t \in Talkers : TalkFound(t) =>
        \/ talker[t].pc \in TalkRegistered
        \/ talker[t].pc \in TalkLate /\ talker[t].once = "done"
        \/ talker[t].pc = "idle" /\ TalkSwept
    /\ talkEnd.phase = "down" => \A t \in talkEnd.swept : ~talker[t].open

TalkInv ==
    /\ TalkTypeOK
    /\ \A t \in Talkers :
        TalkOpenWhere(talker[t]) /\ TalkOnceWhere(talker[t]) /\ TalkQueueWhere(talker[t])
    /\ TalkSlotWhere
    /\ TalkSweptWhere

-----------------------------------------------------------------------------
(* A step of one session.                                                  *)

\* What a step does to one session, whatever it does to the slot and the shutdown:
\* only t's record changes, into r.
TalkBecomes(t, r) == talker' = [talker EXCEPT ![t] = r]

LEMMA TalkOthers ==
    ASSUME TalkTypeOK, NEW t \in Talkers, NEW r, TalkBecomes(t, r)
    PROVE  /\ talker'[t] = r
           /\ \A u \in Talkers : u # t => talker'[u] = talker[u]
  BY DEF TalkTypeOK, TalkBecomes

\* A step of one session that leaves the slot and the shutdown alone keeps the
\* invariant, if its record stays orderly and it neither begins nor ends to be
\* busy, nor is closed any less than it was.
TalkRecord == [pc : TalkPlaces, ws : {"open", "gone", "closed"},
               ping : BOOLEAN, codec : {"g711", "passthrough"}, open : BOOLEAN,
               loop : BOOLEAN, stop : BOOLEAN, once : {"idle", "inside", "done"},
               lost : BOOLEAN, ch : Seq(1..TalkFrames), fed : 0..TalkFrames,
               took : 0..TalkFrames]
TalkOrderly(r) ==
    r \in TalkRecord /\ TalkOpenWhere(r) /\ TalkOnceWhere(r) /\ TalkQueueWhere(r)

LEMMA TalkOwnStep ==
    ASSUME TalkInv, NEW t \in Talkers, NEW r, TalkBecomes(t, r), TalkOrderly(r),
           UNCHANGED <<talkSlot, talkEnd>>,
           talkEnd.phase # "down",
           r.pc \in TalkBusyPlaces <=> TalkBusyAt(t),
           talker[t].pc \in TalkRegistered =>
               r.pc \in TalkRegistered \/ (r.pc \in TalkLate /\ r.once = "done"),
           talker[t].pc \in TalkLate =>
               r.pc \in TalkLate /\ (talker[t].once = "done" => r.once = "done"),
           talker[t].pc = "idle" => r.pc = "idle"
    PROVE  TalkInv'
  <1>1. /\ talker'[t] = r
        /\ \A u \in Talkers : u # t => talker'[u] = talker[u]
    BY TalkOthers DEF TalkInv
  <1>2. TalkTypeOK'
    BY DEF TalkInv, TalkTypeOK, TalkBecomes, TalkOrderly, TalkRecord
  <1>3. (\A u \in Talkers :
           TalkOpenWhere(talker[u]) /\ TalkOnceWhere(talker[u]) /\ TalkQueueWhere(talker[u]))'
    BY <1>1 DEF TalkInv, TalkOrderly
  <1>4. \A u \in Talkers : TalkBusyAt(u)' <=> TalkBusyAt(u)
    BY <1>1 DEF TalkBusyAt
  <1>5. TalkSlotWhere'
    <2>1. TalkSlotWhere
      BY DEF TalkInv
    <2>2. (talkSlot # TalkFree)' => \E u \in Talkers : TalkBusyAt(u)'
      BY <2>1, <1>4 DEF TalkSlotWhere
    <2>3. \A u, v \in Talkers : TalkBusyAt(u)' /\ TalkBusyAt(v)' => u = v
      BY <2>1, <1>4 DEF TalkSlotWhere
    <2>4. \A u \in Talkers : TalkBusyAt(u)' /\ ~TalkSwept' => talkSlot' \in {u, TalkReserved}
      BY <2>1, <1>4 DEF TalkSlotWhere, TalkSwept
    <2>5. \A u \in Talkers : talkSlot' = u => TalkBusyAt(u)'
      BY <2>1, <1>4 DEF TalkSlotWhere
    <2> QED
      BY <2>2, <2>3, <2>4, <2>5 DEF TalkSlotWhere
  <1>6. TalkSweptWhere'
    <2>1. (~TalkSwept => talkEnd.swept = {})'
      BY DEF TalkInv, TalkSweptWhere, TalkSwept
    <2>2. ASSUME NEW u \in Talkers, TalkFound(u)'
          PROVE  \/ talker'[u].pc \in TalkRegistered
                 \/ talker'[u].pc \in TalkLate /\ talker'[u].once = "done"
                 \/ talker'[u].pc = "idle" /\ TalkSwept'
      <3>1. TalkFound(u) /\ (TalkSwept' <=> TalkSwept)
        BY <2>2 DEF TalkFound, TalkSwept
      <3>2. \/ talker[u].pc \in TalkRegistered
            \/ talker[u].pc \in TalkLate /\ talker[u].once = "done"
            \/ talker[u].pc = "idle" /\ TalkSwept
        BY <3>1 DEF TalkInv, TalkSweptWhere
      <3> QED
        BY <1>1, <3>1, <3>2
    <2>3. (talkEnd.phase = "down" => \A u \in talkEnd.swept : ~talker[u].open)'
      OBVIOUS
    <2> QED
      BY <2>1, <2>2, <2>3 DEF TalkSweptWhere
  <1> QED
    BY <1>2, <1>3, <1>5, <1>6 DEF TalkInv

-----------------------------------------------------------------------------
(* The steps of one session, by what they do to its record.                *)

\* The places of a handler in the terms of the invariant.
LEMMA TalkPlaceFacts ==
    ASSUME TalkInv, NEW t \in Talkers
    PROVE  /\ talker[t] \in TalkRecord /\ TalkOrderly(talker[t])
           /\ TalkBusyPlaces = {"upgrade", "handshake", "dial", "register", "ready", "talk",
                                "shed", "again", "closing", "release"}
           /\ TalkBusyPlaces \subseteq TalkPlaces
  BY DEF TalkInv, TalkTypeOK, TalkRecord, TalkOrderly, TalkBusyPlaces, TalkPlaces

\* The handler up to the dialing: nothing of the session exists yet.
LEMMA TalkUpgradeKeeps ==
    ASSUME TalkInv, talkEnd.phase # "down", NEW t \in Talkers, TalkUpgrade(t)
    PROVE  TalkInv'
  <1>1. PICK to \in {"handshake", "release"} : TalkMove(t, "upgrade", to)
    BY DEF TalkUpgrade
  <1> DEFINE r == [talker[t] EXCEPT !.pc = to]
  <1>2. TalkBecomes(t, r) /\ talker[t].pc = "upgrade"
    BY <1>1 DEF TalkMove, TalkBecomes
  <1>3. TalkOrderly(r) /\ r.pc = to
    BY <1>2, TalkPlaceFacts DEF TalkOrderly, TalkRecord, TalkPlaces, TalkOpenWhere, TalkOnceWhere,
                 TalkQueueWhere, TalkEarly, TalkLate
  <1> QED
    BY <1>2, <1>3, TalkOwnStep, TalkPlaceFacts
       DEF TalkUpgrade, TalkBusyAt, TalkRegistered, TalkLate

LEMMA TalkHandshakeKeeps ==
    ASSUME TalkInv, talkEnd.phase # "down", NEW t \in Talkers, TalkHandshake(t)
    PROVE  TalkInv'
  <1>1. CASE TalkMove(t, "handshake", "release")
    <2> DEFINE r == [talker[t] EXCEPT !.pc = "release"]
    <2>1. TalkBecomes(t, r) /\ talker[t].pc = "handshake"
      BY <1>1 DEF TalkMove, TalkBecomes
    <2>2. TalkOrderly(r) /\ r.pc = "release"
      BY <2>1, TalkPlaceFacts DEF TalkOrderly, TalkRecord, TalkPlaces, TalkOpenWhere,
                   TalkOnceWhere, TalkQueueWhere, TalkEarly, TalkLate
    <2> QED
      BY <2>1, <2>2, TalkOwnStep, TalkPlaceFacts
         DEF TalkHandshake, TalkBusyAt, TalkRegistered, TalkLate
  <1>2. ASSUME NEW codec \in {"g711", "passthrough"}, talker[t].pc = "handshake",
               talker' = [talker EXCEPT ![t].pc = "dial", ![t].codec = codec, ![t].open = TRUE]
        PROVE  TalkInv'
    <2> DEFINE r == [talker[t] EXCEPT !.pc = "dial", !.codec = codec, !.open = TRUE]
    <2>1. TalkBecomes(t, r)
      BY <1>2 DEF TalkBecomes
    <2>2. TalkOrderly(r) /\ r.pc = "dial"
      <3>1. r \in TalkRecord
        <4>1. talker[t] \in TalkRecord /\ "dial" \in TalkPlaces
          BY TalkPlaceFacts DEF TalkPlaces
        <4> QED BY <4>1 DEF TalkRecord
      <3>2. /\ r.pc = "dial" /\ r.open = TRUE
            /\ r.once = talker[t].once /\ r.ch = talker[t].ch /\ r.fed = talker[t].fed
        BY <1>2, TalkPlaceFacts DEF TalkRecord
      <3> HIDE DEF r
      <3> QED
        BY <1>2, <3>1, <3>2, TalkPlaceFacts
           DEF TalkOrderly, TalkOpenWhere, TalkOnceWhere, TalkQueueWhere, TalkEarly, TalkLate
    <2> QED
      BY <1>2, <2>1, <2>2, TalkOwnStep, TalkPlaceFacts
         DEF TalkHandshake, TalkBusyAt, TalkRegistered, TalkLate
  <1> QED
    BY <1>1, <1>2 DEF TalkHandshake

\* Dial succeeds, or closes the client that it opened.
LEMMA TalkDialKeeps ==
    ASSUME TalkInv, talkEnd.phase # "down", NEW t \in Talkers, TalkDialFails(t) \/ TalkDials(t)
    PROVE  TalkInv'
  <1>1. CASE TalkDialFails(t)
    <2> DEFINE r == [talker[t] EXCEPT !.pc = "release", !.open = FALSE]
    <2>1. TalkBecomes(t, r) /\ talker[t].pc = "dial"
      BY <1>1 DEF TalkDialFails, TalkBecomes
    <2>2. TalkOrderly(r) /\ r.pc = "release"
      <3>1. r \in TalkRecord
        <4>1. talker[t] \in TalkRecord /\ "release" \in TalkPlaces
          BY TalkPlaceFacts DEF TalkPlaces
        <4> QED BY <2>1, <4>1 DEF TalkRecord
      <3>2. /\ r.pc = "release" /\ r.open = FALSE
            /\ r.once = talker[t].once /\ r.ch = talker[t].ch /\ r.fed = talker[t].fed
        BY <2>1, TalkPlaceFacts DEF TalkRecord
      <3> HIDE DEF r
      <3> QED
        BY <2>1, <3>1, <3>2, TalkPlaceFacts
           DEF TalkOrderly, TalkOpenWhere, TalkOnceWhere, TalkQueueWhere, TalkEarly, TalkLate
    <2> QED
      BY <1>1, <2>1, <2>2, TalkOwnStep, TalkPlaceFacts
         DEF TalkDialFails, TalkBusyAt, TalkRegistered, TalkLate
  <1>2. CASE TalkDials(t)
    <2> DEFINE r == [talker[t] EXCEPT !.pc = "register", !.loop = TRUE]
    <2>1. TalkBecomes(t, r) /\ talker[t].pc = "dial"
      BY <1>2 DEF TalkDials, TalkBecomes
    <2>2. TalkOrderly(r) /\ r.pc = "register"
      <3>1. r \in TalkRecord
        <4>1. talker[t] \in TalkRecord /\ "register" \in TalkPlaces
          BY TalkPlaceFacts DEF TalkPlaces
        <4> QED BY <2>1, <4>1 DEF TalkRecord
      <3>2. /\ r.pc = "register" /\ r.open = talker[t].open
            /\ r.once = talker[t].once /\ r.ch = talker[t].ch /\ r.fed = talker[t].fed
        BY <2>1, TalkPlaceFacts DEF TalkRecord
      <3> HIDE DEF r
      <3> QED
        BY <2>1, <3>1, <3>2, TalkPlaceFacts
           DEF TalkOrderly, TalkOpenWhere, TalkOnceWhere, TalkQueueWhere, TalkEarly, TalkLate
    <2> QED
      BY <1>2, <2>1, <2>2, TalkOwnStep, TalkPlaceFacts
         DEF TalkDials, TalkBusyAt, TalkRegistered, TalkLate
  <1> QED
    BY <1>1, <1>2

\* The session begins and ends to be read from.
LEMMA TalkReadyKeeps ==
    ASSUME TalkInv, talkEnd.phase # "down", NEW t \in Talkers, TalkReady(t) \/ TalkReadFails(t)
    PROVE  TalkInv'
  <1>1. PICK to \in {"talk", "closing"}, ping \in BOOLEAN :
          /\ talker[t].pc \in {"ready", "talk"} /\ (to = "talk" => talker[t].pc = "ready")
          /\ talker' = [talker EXCEPT ![t].pc = to, ![t].ping = ping]
          /\ UNCHANGED <<talkSlot, talkEnd>>
    <2>1. CASE talker' = [talker EXCEPT ![t].pc = "talk", ![t].ping = TRUE]
               /\ talker[t].pc = "ready" /\ UNCHANGED <<talkSlot, talkEnd>>
      BY <2>1
    <2>2. CASE talker' = [talker EXCEPT ![t].pc = "closing"]
               /\ talker[t].pc = "ready" /\ UNCHANGED <<talkSlot, talkEnd>>
      <3>1. talker' = [talker EXCEPT ![t].pc = "closing", ![t].ping = talker[t].ping]
        BY <2>2, TalkPlaceFacts DEF TalkInv, TalkTypeOK, TalkRecord
      <3>2. talker[t].ping \in BOOLEAN
        BY TalkPlaceFacts DEF TalkRecord
      <3> QED
        BY <2>2, <3>1, <3>2
    <2>3. CASE TalkReadFails(t)
      BY <2>3 DEF TalkReadFails
    <2> QED
      BY <2>1, <2>2, <2>3 DEF TalkReady
  <1> DEFINE r == [talker[t] EXCEPT !.pc = to, !.ping = ping]
  <1>2. TalkBecomes(t, r)
    BY <1>1 DEF TalkBecomes
  <1>3. TalkOrderly(r) /\ r.pc = to
    <2>1. r \in TalkRecord
      <3>1. talker[t] \in TalkRecord /\ to \in TalkPlaces
        BY <1>1, TalkPlaceFacts DEF TalkPlaces
      <3> QED BY <1>1, <3>1 DEF TalkRecord
    <2>2. /\ r.pc = to /\ r.open = talker[t].open /\ r.once = talker[t].once
          /\ r.ch = talker[t].ch /\ r.fed = talker[t].fed
      BY <1>1, TalkPlaceFacts DEF TalkRecord
    <2> HIDE DEF r
    <2> QED
      BY <1>1, <2>1, <2>2, TalkPlaceFacts
         DEF TalkOrderly, TalkOpenWhere, TalkOnceWhere, TalkQueueWhere, TalkEarly, TalkLate
  <1> QED
    BY <1>1, <1>2, <1>3, TalkOwnStep, TalkPlaceFacts
       DEF TalkBusyAt, TalkRegistered, TalkLate

-----------------------------------------------------------------------------
(* What moves the queue: the feed and the send loop.                       *)

\* Queues, as the channel keeps them: the last frame stays the last one until it
\* is taken.
LEMMA TalkQueues ==
    ASSUME NEW S, NEW s \in Seq(S)
    PROVE  /\ Len(s) \in Nat
           /\ \A n \in S : /\ Append(s, n) \in Seq(S) /\ Len(Append(s, n)) = Len(s) + 1
                            /\ Append(s, n) # <<>> /\ Append(s, n)[Len(Append(s, n))] = n
           /\ s # <<>> => /\ Head(s) \in S /\ Tail(s) \in Seq(S) /\ Len(Tail(s)) = Len(s) - 1
                          /\ Tail(s) = <<>> => Head(s) = s[Len(s)]
                          /\ Tail(s) # <<>> => Tail(s)[Len(Tail(s))] = s[Len(s)]
  <1>1. \A n \in S : /\ Append(s, n) \in Seq(S) /\ Len(Append(s, n)) = Len(s) + 1
                     /\ Append(s, n) # <<>> /\ Append(s, n)[Len(Append(s, n))] = n
    OBVIOUS
  <1>2. ASSUME s # <<>>
        PROVE  /\ Head(s) \in S /\ Tail(s) \in Seq(S) /\ Len(Tail(s)) = Len(s) - 1
               /\ Tail(s) = <<>> => Head(s) = s[Len(s)]
               /\ Tail(s) # <<>> => Tail(s)[Len(Tail(s))] = s[Len(s)]
    <2>1. Len(s) \in Nat /\ Len(s) >= 1 /\ Head(s) = s[1]
      BY <1>2
    <2>2. Head(s) \in S /\ Tail(s) \in Seq(S) /\ Len(Tail(s)) = Len(s) - 1
      BY <1>2
    <2>3. \A i \in 1..(Len(s) - 1) : Tail(s)[i] = s[i + 1]
      BY <1>2
    <2>4. Tail(s) = <<>> => Len(s) = 1
      BY <2>1, <2>2
    <2>5. Tail(s) # <<>> => Len(s) - 1 \in 1..(Len(s) - 1)
      BY <2>1, <2>2
    <2> QED
      BY <2>1, <2>2, <2>3, <2>4, <2>5
  <1> QED
    BY <1>1, <1>2

\* The feed drops the new frame, or queues it as the last one.
LEMMA TalkFeedKeeps ==
    ASSUME TalkInv, talkEnd.phase # "down", TalkAssumption, NEW t \in Talkers, TalkFeed(t)
    PROVE  TalkInv'
  <1> DEFINE n == talker[t].fed + 1
             q == IF TalkRoom(t) THEN Append(talker[t].ch, n) ELSE talker[t].ch
             to == IF ~TalkRoom(t) /\ talker[t].codec = "passthrough" THEN "shed" ELSE "talk"
             r == [talker[t] EXCEPT !.fed = n, !.ch = q, !.pc = to]
  <1>1. talker[t].pc = "talk" /\ n \in 1..TalkFrames
    BY TalkPlaceFacts, TalkAssumption DEF TalkFeed, TalkRecord, TalkAssumption
  <1>2. TalkBecomes(t, r)
    BY DEF TalkFeed, TalkBecomes
  <1>3. q \in Seq(1..TalkFrames) /\ Len(q) <= TalkBuffer
        /\ (TalkRoom(t) => q # <<>> /\ q[Len(q)] = n)
    <2>1. talker[t].ch \in Seq(1..TalkFrames) /\ Len(talker[t].ch) <= TalkBuffer
      BY TalkPlaceFacts DEF TalkRecord, TalkOrderly, TalkQueueWhere
    <2>2. CASE TalkRoom(t)
      <3>1. q = Append(talker[t].ch, n)
        BY <2>2
      <3> HIDE DEF n, q
      <3> QED
        BY <1>1, <2>1, <2>2, <3>1, TalkAssumption DEF TalkRoom, TalkAssumption
    <2>3. CASE ~TalkRoom(t)
      BY <2>1, <2>3
    <2> QED
      BY <2>2, <2>3
  <1>4. TalkOrderly(r) /\ r.pc = to
    <2>1. r \in TalkRecord
      <3>1. to \in TalkPlaces /\ n \in 0..TalkFrames
        BY <1>1, TalkAssumption DEF TalkPlaces, TalkAssumption
      <3>2. talker[t] \in TalkRecord
        BY TalkPlaceFacts
      <3> HIDE DEF n, q, to
      <3> QED
        BY <1>3, <3>1, <3>2 DEF TalkRecord
    <2>2. /\ r.pc = to /\ r.open = talker[t].open /\ r.once = talker[t].once /\ r.ch = q
          /\ r.fed = n /\ r.codec = talker[t].codec
      BY TalkPlaceFacts DEF TalkRecord
    <2> HIDE DEF r, q
    <2> QED
      BY <1>1, <1>3, <2>1, <2>2, TalkPlaceFacts
         DEF TalkOrderly, TalkOpenWhere, TalkOnceWhere, TalkQueueWhere, TalkEarly, TalkLate
  <1> HIDE DEF r
  <1> QED
    BY <1>1, <1>2, <1>4, TalkOwnStep, TalkPlaceFacts
       DEF TalkFeed, TalkBusyAt, TalkRegistered, TalkLate

\* Shedding the oldest frame of a full channel makes room...
LEMMA TalkShedKeeps ==
    ASSUME TalkInv, talkEnd.phase # "down", TalkAssumption, NEW t \in Talkers, TalkShed(t)
    PROVE  TalkInv'
  <1> DEFINE q == IF talker[t].ch = <<>> THEN talker[t].ch ELSE Tail(talker[t].ch)
             r == [talker[t] EXCEPT !.pc = "again", !.ch = q]
  <1>1. TalkBecomes(t, r) /\ talker[t].pc = "shed"
    BY DEF TalkShed, TalkBecomes
  <1>2. q \in Seq(1..TalkFrames) /\ Len(q) < TalkBuffer
    <2> DEFINE s == talker[t].ch
    <2>1. s \in Seq(1..TalkFrames) /\ Len(s) <= TalkBuffer
      BY TalkPlaceFacts DEF TalkRecord, TalkOrderly, TalkQueueWhere
    <2>2. q = IF s = <<>> THEN s ELSE Tail(s)
      OBVIOUS
    <2> HIDE DEF s, q
    <2>3. Len(<<>>) < TalkBuffer /\ TalkBuffer \in Nat
      BY TalkAssumption DEF TalkAssumption
    <2>4. CASE s = <<>>
      BY <2>1, <2>2, <2>3, <2>4
    <2>5. CASE s # <<>>
      <3>1. q = Tail(s) /\ Len(s) \in Nat /\ Tail(s) \in Seq(1..TalkFrames)
            /\ Len(Tail(s)) = Len(s) - 1
        BY <2>1, <2>2, <2>5, TalkQueues
      <3> QED
        BY <2>1, <2>3, <3>1
    <2> QED
      BY <2>4, <2>5
  <1>3. TalkOrderly(r) /\ r.pc = "again"
    <2>1. r \in TalkRecord
      <3> HIDE DEF q
      <3>1. "again" \in TalkPlaces /\ q \in Seq(1..TalkFrames)
        BY <1>2 DEF TalkPlaces
      <3>2. talker[t] \in TalkRecord
        BY TalkPlaceFacts
      <3> QED
        BY <3>1, <3>2 DEF TalkRecord
    <2>2. /\ r.pc = "again" /\ r.open = talker[t].open /\ r.once = talker[t].once /\ r.ch = q
          /\ r.fed = talker[t].fed
      BY TalkPlaceFacts DEF TalkRecord
    <2> HIDE DEF r, q
    <2> QED
      BY <1>1, <1>2, <2>1, <2>2, TalkPlaceFacts, TalkAssumption
         DEF TalkOrderly, TalkOpenWhere, TalkOnceWhere, TalkQueueWhere, TalkEarly, TalkLate,
             TalkAssumption
  <1> HIDE DEF r
  <1> QED
    BY <1>1, <1>3, TalkOwnStep, TalkPlaceFacts
       DEF TalkShed, TalkBusyAt, TalkRegistered, TalkLate

\* ... and the second look finds it, so that the newest frame is the last one.
LEMMA TalkFeedAgainKeeps ==
    ASSUME TalkInv, talkEnd.phase # "down", TalkAssumption, NEW t \in Talkers, TalkFeedAgain(t)
    PROVE  TalkInv'
  <1> DEFINE q == TalkRetried(t)
             r == [talker[t] EXCEPT !.pc = "talk", !.ch = q]
  <1>1. TalkBecomes(t, r) /\ talker[t].pc = "again"
    BY DEF TalkFeedAgain, TalkBecomes
  <1>2. q \in Seq(1..TalkFrames) /\ Len(q) <= TalkBuffer /\ q # <<>> /\ q[Len(q)] = talker[t].fed
    <2> DEFINE s == talker[t].ch
               n == talker[t].fed
    <2>1. s \in Seq(1..TalkFrames) /\ Len(s) < TalkBuffer /\ n \in 0..TalkFrames /\ n > 0
      BY <1>1, TalkPlaceFacts DEF TalkRecord, TalkOrderly, TalkQueueWhere
    <2>2. q = Append(s, n)
      BY <2>1 DEF TalkRetried, TalkRoom
    <2> HIDE DEF s, n, q
    <2> QED
      BY <2>1, <2>2, TalkQueues, TalkAssumption DEF n, TalkAssumption
  <1>3. TalkOrderly(r) /\ r.pc = "talk"
    <2>1. r \in TalkRecord
      <3> HIDE DEF q
      <3>1. "talk" \in TalkPlaces /\ q \in Seq(1..TalkFrames)
        BY <1>2 DEF TalkPlaces
      <3>2. talker[t] \in TalkRecord
        BY TalkPlaceFacts
      <3> QED
        BY <3>1, <3>2 DEF TalkRecord
    <2>2. /\ r.pc = "talk" /\ r.open = talker[t].open /\ r.once = talker[t].once /\ r.ch = q
          /\ r.fed = talker[t].fed
      BY TalkPlaceFacts DEF TalkRecord
    <2> HIDE DEF r, q
    <2> QED
      BY <1>1, <1>2, <2>1, <2>2, TalkPlaceFacts
         DEF TalkOrderly, TalkOpenWhere, TalkOnceWhere, TalkQueueWhere, TalkEarly, TalkLate
  <1> HIDE DEF r
  <1> QED
    BY <1>1, <1>3, TalkOwnStep, TalkPlaceFacts
       DEF TalkFeedAgain, TalkBusyAt, TalkRegistered, TalkLate

\* The loop takes the oldest frame; when it was the only one queued, it has the
\* newest.
LEMMA TalkTakeKeeps ==
    ASSUME TalkInv, talkEnd.phase # "down", NEW t \in Talkers, TalkTake(t)
    PROVE  TalkInv'
  <1> DEFINE s == talker[t].ch
  <1>1. PICK loop \in BOOLEAN :
          talker' = [talker EXCEPT ![t].took = Head(s), ![t].ch = Tail(s), ![t].loop = loop]
    <2>1. PICK fails \in (IF talker[t].codec = "passthrough" THEN {talker[t].lost, FALSE}
                         ELSE {FALSE}) :
            talker' = [talker EXCEPT ![t].took = Head(s), ![t].ch = Tail(@), ![t].loop = ~fails]
      BY DEF TalkTake
    <2>2. talker' = [talker EXCEPT ![t].took = Head(s), ![t].ch = Tail(s), ![t].loop = ~fails]
      BY <2>1, TalkPlaceFacts DEF TalkInv, TalkTypeOK
    <2>3. (~fails) \in BOOLEAN
      OBVIOUS
    <2> QED
      BY <2>2, <2>3, Zenon
  <1> DEFINE r == [talker[t] EXCEPT !.took = Head(s), !.ch = Tail(s), !.loop = loop]
  <1>2. TalkBecomes(t, r) /\ s # <<>>
    BY <1>1 DEF TalkTake, TalkBecomes
  <1>3. /\ s \in Seq(1..TalkFrames) /\ Len(s) <= TalkBuffer
        /\ Head(s) \in 1..TalkFrames /\ Tail(s) \in Seq(1..TalkFrames)
        /\ Len(Tail(s)) = Len(s) - 1
    <2>1. s \in Seq(1..TalkFrames) /\ Len(s) <= TalkBuffer
      BY TalkPlaceFacts DEF TalkRecord, TalkOrderly, TalkQueueWhere
    <2> HIDE DEF s
    <2> QED
      BY <1>2, <2>1, TalkQueues
  <1>4. r \in TalkRecord
    <2>1. Head(s) \in 0..TalkFrames
      BY <1>3
    <2>2. talker[t] \in TalkRecord
      BY TalkPlaceFacts
    <2> HIDE DEF s
    <2> QED
      BY <1>3, <2>1, <2>2 DEF TalkRecord
  <1>5. /\ r.pc = talker[t].pc /\ r.open = talker[t].open /\ r.once = talker[t].once
        /\ r.ch = Tail(s) /\ r.fed = talker[t].fed /\ r.took = Head(s)
        /\ r.codec = talker[t].codec
    BY TalkPlaceFacts DEF TalkRecord
  <1>6. TalkQueueWhere(r)
    <2>1. /\ Len(s) \in Nat
          /\ Tail(s) = <<>> => Head(s) = s[Len(s)]
          /\ Tail(s) # <<>> => Tail(s)[Len(Tail(s))] = s[Len(s)]
      BY <1>2, <1>3, TalkQueues
    <2>2. /\ talker[t].pc = "again" => Len(s) < TalkBuffer
          /\ talker[t].pc \in TalkEarly \cup {"dial", "register", "ready"} => talker[t].fed = 0
          /\ talker[t].pc \in {"shed", "again"} => talker[t].fed > 0
          /\ talker[t].pc = "talk" /\ talker[t].codec = "passthrough" /\ talker[t].fed > 0 =>
               s[Len(s)] = talker[t].fed
      BY <1>2, TalkPlaceFacts DEF TalkOrderly, TalkQueueWhere
    <2>3. Len(Tail(s)) <= TalkBuffer /\ (Len(s) < TalkBuffer => Len(Tail(s)) < TalkBuffer)
      BY <1>3, <2>1, TalkAssumption DEF TalkAssumption
    <2> HIDE DEF r, s
    <2> QED
      BY <1>5, <2>1, <2>2, <2>3 DEF TalkQueueWhere
  <1>7. TalkOrderly(r)
    <2> HIDE DEF r
    <2> QED
      BY <1>4, <1>5, <1>6, TalkPlaceFacts DEF TalkOrderly, TalkOpenWhere, TalkOnceWhere
  <1> HIDE DEF r
  <1> QED
    BY <1>2, <1>5, <1>7, TalkOwnStep, TalkPlaceFacts
       DEF TalkTake, TalkOrderly, TalkOnceWhere, TalkBusyAt, TalkRegistered, TalkLate

-----------------------------------------------------------------------------
(* What the client, the camera, the pings and the loop do in the           *)
(* background, and Close.                                                  *)

\* A step that touches neither the handler's place nor its queue, and closes the
\* session no less than it was.
LEMMA TalkBackgroundKeeps ==
    ASSUME TalkInv, talkEnd.phase # "down", NEW t \in Talkers, NEW r, TalkBecomes(t, r),
           r \in TalkRecord, UNCHANGED <<talkSlot, talkEnd>>,
           r.pc = talker[t].pc, r.ch = talker[t].ch, r.fed = talker[t].fed,
           r.took = talker[t].took, r.codec = talker[t].codec,
           r.open => talker[t].open,
           r.once = talker[t].once \/ (r.once = "done" /\ ~r.open /\ talker[t].once # "idle")
    PROVE  TalkInv'
  <1>1. TalkOrderly(r)
    BY TalkPlaceFacts DEF TalkOrderly, TalkOpenWhere, TalkOnceWhere, TalkQueueWhere
  <1> QED
    BY <1>1, TalkOwnStep, TalkPlaceFacts
       DEF TalkOrderly, TalkOnceWhere, TalkBusyAt, TalkRegistered, TalkLate, TalkEarly

\* The pings, the client and the camera.
LEMMA TalkOutsideKeeps ==
    ASSUME TalkInv, talkEnd.phase # "down", NEW t \in Talkers,
           TalkPing(t) \/ TalkClientGone(t) \/ TalkCameraDrops(t)
    PROVE  TalkInv'
  <1>1. PICK ws \in {"open", "gone", "closed"}, ping \in BOOLEAN, lost \in BOOLEAN :
          /\ talker' = [talker EXCEPT ![t] =
                          [talker[t] EXCEPT !.ws = ws, !.ping = ping, !.lost = lost]]
          /\ UNCHANGED <<talkSlot, talkEnd>>
    <2>1. talker[t] \in TalkRecord /\ talker \in [Talkers -> TalkRecord]
      BY DEF TalkInv, TalkTypeOK, TalkRecord
    <2>2. /\ talker[t].ws \in {"open", "gone", "closed"} /\ talker[t].ping \in BOOLEAN
          /\ talker[t].lost \in BOOLEAN
      BY <2>1 DEF TalkRecord
    <2>3. CASE talker' = [talker EXCEPT ![t].ping = FALSE, ![t].ws = TalkHangUp(@)]
               /\ UNCHANGED <<talkSlot, talkEnd>>
      <3>1. talker' = [talker EXCEPT ![t] = [talker[t] EXCEPT !.ws = "closed", !.ping = FALSE,
                                                              !.lost = talker[t].lost]]
        BY <2>1, <2>3 DEF TalkHangUp, TalkRecord
      <3> QED
        BY <2>2, <2>3, <3>1
    <2>4. CASE talker' = [talker EXCEPT ![t].ping = FALSE] /\ UNCHANGED <<talkSlot, talkEnd>>
      <3>1. talker' = [talker EXCEPT ![t] = [talker[t] EXCEPT !.ws = talker[t].ws, !.ping = FALSE,
                                                              !.lost = talker[t].lost]]
        BY <2>1, <2>4 DEF TalkRecord
      <3> QED
        BY <2>2, <2>4, <3>1
    <2>5. CASE talker' = [talker EXCEPT ![t].ws = "gone"] /\ UNCHANGED <<talkSlot, talkEnd>>
      <3>1. talker' = [talker EXCEPT ![t] = [talker[t] EXCEPT !.ws = "gone",
                                                              !.ping = talker[t].ping,
                                                              !.lost = talker[t].lost]]
        BY <2>1, <2>5 DEF TalkRecord
      <3> QED
        BY <2>2, <2>5, <3>1
    <2>6. CASE talker' = [talker EXCEPT ![t].lost = TRUE] /\ UNCHANGED <<talkSlot, talkEnd>>
      <3>1. talker' = [talker EXCEPT ![t] = [talker[t] EXCEPT !.ws = talker[t].ws,
                                                              !.ping = talker[t].ping,
                                                              !.lost = TRUE]]
        BY <2>1, <2>6 DEF TalkRecord
      <3> QED
        BY <2>2, <2>6, <3>1
    <2> QED
      BY <2>3, <2>4, <2>5, <2>6 DEF TalkPing, TalkClientGone, TalkCameraDrops
  <1> DEFINE r == [talker[t] EXCEPT !.ws = ws, !.ping = ping, !.lost = lost]
  <1>2. TalkBecomes(t, r)
    BY <1>1 DEF TalkBecomes
  <1>3. r \in TalkRecord
    BY TalkPlaceFacts DEF TalkRecord
  <1>4. /\ r.pc = talker[t].pc /\ r.ch = talker[t].ch /\ r.fed = talker[t].fed
        /\ r.took = talker[t].took /\ r.codec = talker[t].codec /\ r.open = talker[t].open
        /\ r.once = talker[t].once
    BY TalkPlaceFacts DEF TalkRecord
  <1> HIDE DEF r
  <1> QED
    BY <1>1, <1>2, <1>3, <1>4, TalkBackgroundKeeps

\* The loop ends, for Close or because a write failed.
LEMMA TalkLoopKeeps ==
    ASSUME TalkInv, talkEnd.phase # "down", NEW t \in Talkers, TalkLoop(t)
    PROVE  TalkInv'
  <1> DEFINE r == [talker[t] EXCEPT !.loop = FALSE]
  <1>1. TalkBecomes(t, r) /\ UNCHANGED <<talkSlot, talkEnd>>
    BY DEF TalkLoop, TalkStopped, TalkTickFails, TalkBecomes
  <1>2. r \in TalkRecord
    BY TalkPlaceFacts DEF TalkRecord
  <1>3. /\ r.pc = talker[t].pc /\ r.ch = talker[t].ch /\ r.fed = talker[t].fed
        /\ r.took = talker[t].took /\ r.codec = talker[t].codec /\ r.open = talker[t].open
        /\ r.once = talker[t].once
    BY TalkPlaceFacts DEF TalkRecord
  <1> HIDE DEF r
  <1> QED
    BY <1>1, <1>2, <1>3, TalkBackgroundKeeps

\* The first caller of Close gets inside: only a registered session has callers.
LEMMA TalkBeginCloseKeeps ==
    ASSUME TalkInv, talkEnd.phase # "down", NEW t \in Talkers, TalkBeginClose(t),
           talker[t].pc \in TalkRegistered, UNCHANGED <<talkSlot, talkEnd>>
    PROVE  TalkInv'
  <1> DEFINE r == [talker[t] EXCEPT !.once = "inside", !.stop = TRUE]
  <1>1. TalkBecomes(t, r)
    BY DEF TalkBeginClose, TalkBecomes
  <1>2. TalkOrderly(r) /\ r.pc = talker[t].pc
    <2>1. r \in TalkRecord
      BY TalkPlaceFacts DEF TalkRecord
    <2>2. /\ r.pc = talker[t].pc /\ r.ch = talker[t].ch /\ r.fed = talker[t].fed
          /\ r.took = talker[t].took /\ r.codec = talker[t].codec /\ r.open = talker[t].open
          /\ r.once = "inside"
      BY TalkPlaceFacts DEF TalkRecord
    <2> HIDE DEF r
    <2> QED
      BY <2>1, <2>2, TalkPlaceFacts
         DEF TalkOrderly, TalkOpenWhere, TalkOnceWhere, TalkQueueWhere, TalkEarly, TalkLate,
             TalkRegistered
  <1> HIDE DEF r
  <1> QED
    BY <1>1, <1>2, TalkOwnStep, TalkPlaceFacts DEF TalkBusyAt, TalkRegistered, TalkLate

\* It leaves when the loop has ended and the RTSP client is closed.
LEMMA TalkFinishCloseKeeps ==
    ASSUME TalkInv, talkEnd.phase # "down", NEW t \in Talkers, TalkFinishClose(t)
    PROVE  TalkInv'
  <1> DEFINE r == [talker[t] EXCEPT !.once = "done", !.open = FALSE]
  <1>1. TalkBecomes(t, r) /\ talker[t].once = "inside" /\ UNCHANGED <<talkSlot, talkEnd>>
    BY DEF TalkFinishClose, TalkBecomes
  <1>2. r \in TalkRecord
    BY TalkPlaceFacts DEF TalkRecord
  <1>3. /\ r.pc = talker[t].pc /\ r.ch = talker[t].ch /\ r.fed = talker[t].fed
        /\ r.took = talker[t].took /\ r.codec = talker[t].codec /\ r.open = FALSE
        /\ r.once = "done"
    BY TalkPlaceFacts DEF TalkRecord
  <1> HIDE DEF r
  <1> QED
    BY <1>1, <1>2, <1>3, TalkBackgroundKeeps

\* The handler begins Close, or has waited until it was over.
LEMMA TalkCloseKeeps ==
    ASSUME TalkInv, talkEnd.phase # "down", NEW t \in Talkers, TalkClose(t)
    PROVE  TalkInv'
  <1>1. CASE TalkBeginClose(t)
    BY <1>1, TalkBeginCloseKeeps DEF TalkClose, TalkRegistered
  <1>2. CASE TalkOver(t) /\ TalkMove(t, "closing", "release")
    <2> DEFINE r == [talker[t] EXCEPT !.pc = "release"]
    <2>1. TalkBecomes(t, r) /\ talker[t].once = "done" /\ talker[t].pc = "closing"
      BY <1>2 DEF TalkOver, TalkMove, TalkBecomes
    <2>2. TalkOrderly(r) /\ r.pc = "release" /\ r.once = "done"
      <3>1. r \in TalkRecord
        <4>1. talker[t] \in TalkRecord /\ "release" \in TalkPlaces
          BY TalkPlaceFacts DEF TalkPlaces
        <4> QED BY <4>1 DEF TalkRecord
      <3>2. /\ r.pc = "release" /\ r.ch = talker[t].ch /\ r.fed = talker[t].fed
            /\ r.open = talker[t].open /\ r.once = talker[t].once
        BY TalkPlaceFacts DEF TalkRecord
      <3> HIDE DEF r
      <3> QED
        BY <2>1, <3>1, <3>2, TalkPlaceFacts
           DEF TalkOrderly, TalkOpenWhere, TalkOnceWhere, TalkQueueWhere, TalkEarly, TalkLate
    <2> HIDE DEF r
    <2> QED
      BY <2>1, <2>2, TalkOwnStep, TalkPlaceFacts
         DEF TalkClose, TalkBusyAt, TalkRegistered, TalkLate
  <1> QED
    BY <1>1, <1>2 DEF TalkClose

-----------------------------------------------------------------------------
(* What changes the slot or the shutdown.                                  *)

\* A reservation finds the slot free, and so nobody busy: the sweep has not been.
LEMMA TalkReserveKeeps ==
    ASSUME TalkInv, TalkAssumption, NEW t \in Talkers, TalkReserve(t)
    PROVE  TalkInv'
  <1> DEFINE r == [talker[t] EXCEPT !.pc = "upgrade"]
  <1>1. /\ TalkBecomes(t, r) /\ talker[t].pc = "idle" /\ talkSlot = TalkFree
        /\ talkSlot' = TalkReserved /\ talkEnd' = talkEnd /\ ~TalkSwept /\ ~TalkSwept'
        /\ talkEnd.phase # "down"
    BY DEF TalkReserve, TalkBusy, TalkMove, TalkBecomes, TalkSwept
  <1>2. TalkOrderly(r) /\ r.pc = "upgrade"
    <2>1. r \in TalkRecord
      <3>1. talker[t] \in TalkRecord /\ "upgrade" \in TalkPlaces
        BY TalkPlaceFacts DEF TalkPlaces
      <3> QED BY <3>1 DEF TalkRecord
    <2>2. /\ r.pc = "upgrade" /\ r.open = talker[t].open /\ r.once = talker[t].once
          /\ r.ch = talker[t].ch /\ r.fed = talker[t].fed
      BY TalkPlaceFacts DEF TalkRecord
    <2> HIDE DEF r
    <2> QED
      BY <1>1, <2>1, <2>2, TalkPlaceFacts
         DEF TalkOrderly, TalkOpenWhere, TalkOnceWhere, TalkQueueWhere, TalkEarly, TalkLate
  <1> HIDE DEF r
  <1>3. /\ talker'[t] = r
        /\ \A u \in Talkers : u # t => talker'[u] = talker[u]
    BY <1>1, TalkOthers DEF TalkInv
  <1>4. TalkTypeOK'
    BY <1>1, <1>2 DEF TalkInv, TalkTypeOK, TalkBecomes, TalkOrderly, TalkRecord
  <1>5. (\A u \in Talkers :
           TalkOpenWhere(talker[u]) /\ TalkOnceWhere(talker[u]) /\ TalkQueueWhere(talker[u]))'
    BY <1>2, <1>3 DEF TalkInv, TalkOrderly
  <1>6. \A u \in Talkers : ~TalkBusyAt(u)
    BY <1>1, TalkAssumption DEF TalkInv, TalkSlotWhere, TalkAssumption
  <1>7. \A u \in Talkers : TalkBusyAt(u)' <=> u = t
    BY <1>2, <1>3, <1>6, TalkPlaceFacts DEF TalkBusyAt
  <1>8. TalkSlotWhere'
    BY <1>1, <1>7, TalkAssumption DEF TalkSlotWhere, TalkAssumption
  <1>9. TalkSweptWhere'
    <2>1. talkEnd.swept = {}
      BY <1>1 DEF TalkInv, TalkSweptWhere
    <2> QED
      BY <1>1, <2>1, TalkAssumption DEF TalkSweptWhere, TalkFound, TalkSwept, TalkAssumption
  <1> QED
    BY <1>4, <1>5, <1>8, <1>9 DEF TalkInv

\* release deletes the entry, whatever it is: it can only be the handler's own.
LEMMA TalkReleaseKeeps ==
    ASSUME TalkInv, talkEnd.phase # "down", TalkAssumption, NEW t \in Talkers, TalkRelease(t)
    PROVE  TalkInv'
  <1> DEFINE r == [talker[t] EXCEPT !.pc = "returned"]
  <1>1. /\ TalkBecomes(t, r) /\ talker[t].pc = "release" /\ talkSlot' = TalkFree
        /\ talkEnd' = talkEnd /\ (TalkSwept' <=> TalkSwept)
    BY DEF TalkRelease, TalkMove, TalkBecomes, TalkSwept
  <1>2. TalkOrderly(r) /\ r.pc = "returned" /\ r.once = talker[t].once
    <2>1. r \in TalkRecord
      <3>1. talker[t] \in TalkRecord /\ "returned" \in TalkPlaces
        BY TalkPlaceFacts DEF TalkPlaces
      <3> QED BY <3>1 DEF TalkRecord
    <2>2. /\ r.pc = "returned" /\ r.open = talker[t].open /\ r.once = talker[t].once
          /\ r.ch = talker[t].ch /\ r.fed = talker[t].fed
      BY TalkPlaceFacts DEF TalkRecord
    <2> HIDE DEF r
    <2> QED
      BY <1>1, <2>1, <2>2, TalkPlaceFacts
         DEF TalkOrderly, TalkOpenWhere, TalkOnceWhere, TalkQueueWhere, TalkEarly, TalkLate
  <1> HIDE DEF r
  <1>3. /\ talker'[t] = r
        /\ \A u \in Talkers : u # t => talker'[u] = talker[u]
    BY <1>1, TalkOthers DEF TalkInv
  <1>4. TalkTypeOK'
    BY <1>1, <1>2 DEF TalkInv, TalkTypeOK, TalkBecomes, TalkOrderly, TalkRecord
  <1>5. (\A u \in Talkers :
           TalkOpenWhere(talker[u]) /\ TalkOnceWhere(talker[u]) /\ TalkQueueWhere(talker[u]))'
    BY <1>2, <1>3 DEF TalkInv, TalkOrderly
  <1>6. \A u \in Talkers : ~TalkBusyAt(u)'
    <2>1. \A u \in Talkers : TalkBusyAt(u) => u = t
      BY <1>1, TalkPlaceFacts DEF TalkBusyAt, TalkInv, TalkSlotWhere
    <2> QED
      BY <1>2, <1>3, <2>1, TalkPlaceFacts DEF TalkBusyAt
  <1>7. TalkSlotWhere'
    BY <1>1, <1>6, TalkAssumption DEF TalkSlotWhere, TalkAssumption
  <1>8. TalkSweptWhere'
    <2>1. ASSUME NEW u \in Talkers, TalkFound(u)'
          PROVE  \/ talker'[u].pc \in TalkRegistered
                 \/ talker'[u].pc \in TalkLate /\ talker'[u].once = "done"
                 \/ talker'[u].pc = "idle" /\ TalkSwept'
      <3>1. TalkFound(u)
        BY <1>1, <2>1, TalkAssumption DEF TalkFound, TalkAssumption
      <3>2. \/ talker[u].pc \in TalkRegistered
            \/ talker[u].pc \in TalkLate /\ talker[u].once = "done"
            \/ talker[u].pc = "idle" /\ TalkSwept
        BY <3>1 DEF TalkInv, TalkSweptWhere
      <3> QED
        BY <1>1, <1>2, <1>3, <3>2 DEF TalkRegistered, TalkLate
    <2>2. (~TalkSwept => talkEnd.swept = {})' /\ talkEnd'.phase # "down"
      BY <1>1 DEF TalkInv, TalkSweptWhere
    <2> QED
      BY <2>1, <2>2 DEF TalkSweptWhere
  <1> QED
    BY <1>4, <1>5, <1>7, <1>8 DEF TalkInv

\* The handler has returned, and its session is forgotten.
LEMMA TalkReturnKeeps ==
    ASSUME TalkInv, talkEnd.phase # "down", TalkAssumption, NEW t \in Talkers, TalkReturn(t)
    PROVE  TalkInv'
  <1>1. /\ TalkBecomes(t, TalkIdle) /\ talker[t].pc = "returned" /\ talkSlot' = talkSlot
        /\ talkEnd' = talkEnd /\ (TalkSwept' <=> TalkSwept)
    BY DEF TalkReturn, TalkBecomes, TalkSwept
  <1>2. TalkOrderly(TalkIdle) /\ TalkIdle.pc = "idle"
    <2>1. TalkIdle \in TalkRecord
      BY TalkAssumption DEF TalkIdle, TalkRecord, TalkPlaces, TalkAssumption
    <2>2. TalkIdle.pc = "idle" /\ ~TalkIdle.open /\ TalkIdle.once = "idle" /\ TalkIdle.ch = <<>>
          /\ TalkIdle.fed = 0
      BY DEF TalkIdle
    <2> QED
      BY <2>1, <2>2, TalkAssumption
         DEF TalkOrderly, TalkOpenWhere, TalkOnceWhere, TalkQueueWhere, TalkEarly, TalkLate,
             TalkAssumption
  <1>3. /\ talker'[t] = TalkIdle
        /\ \A u \in Talkers : u # t => talker'[u] = talker[u]
    BY <1>1, TalkOthers DEF TalkInv
  <1>4. TalkTypeOK'
    BY <1>1, <1>2 DEF TalkInv, TalkTypeOK, TalkBecomes, TalkOrderly, TalkRecord
  <1>5. (\A u \in Talkers :
           TalkOpenWhere(talker[u]) /\ TalkOnceWhere(talker[u]) /\ TalkQueueWhere(talker[u]))'
    BY <1>2, <1>3 DEF TalkInv, TalkOrderly
  <1>6. (\A u \in Talkers : TalkBusyAt(u)' <=> TalkBusyAt(u)) /\ ~TalkBusyAt(t)
    BY <1>1, <1>2, <1>3, TalkPlaceFacts DEF TalkBusyAt
  <1>7. TalkSlotWhere'
    BY <1>1, <1>6 DEF TalkInv, TalkSlotWhere
  <1>8. TalkSweptWhere'
    <2>1. ASSUME NEW u \in Talkers, TalkFound(u)'
          PROVE  \/ talker'[u].pc \in TalkRegistered
                 \/ talker'[u].pc \in TalkLate /\ talker'[u].once = "done"
                 \/ talker'[u].pc = "idle" /\ TalkSwept'
      <3>1. TalkFound(u)
        BY <1>1, <2>1 DEF TalkFound
      <3>2. \/ talker[u].pc \in TalkRegistered
            \/ talker[u].pc \in TalkLate /\ talker[u].once = "done"
            \/ talker[u].pc = "idle" /\ TalkSwept
        BY <3>1 DEF TalkInv, TalkSweptWhere
      <3>3. CASE u = t
        <4>1. t \in talkEnd.swept
          BY <1>6, <3>1, <3>3 DEF TalkFound, TalkInv, TalkSlotWhere
        <4>2. TalkSwept
          BY <4>1 DEF TalkInv, TalkSweptWhere
        <4> QED
          BY <1>1, <1>2, <1>3, <3>3, <4>2
      <3> QED
        BY <1>1, <1>3, <3>2, <3>3
    <2>2. (~TalkSwept => talkEnd.swept = {})' /\ talkEnd'.phase # "down"
      BY <1>1 DEF TalkInv, TalkSweptWhere
    <2> QED
      BY <2>1, <2>2 DEF TalkSweptWhere
  <1> QED
    BY <1>4, <1>5, <1>7, <1>8 DEF TalkInv

\* The session replaces the placeholder, or comes back after the sweep.
LEMMA TalkRegisterKeeps ==
    ASSUME TalkInv, talkEnd.phase # "down", TalkAssumption, NEW t \in Talkers, TalkRegister(t)
    PROVE  TalkInv'
  <1> DEFINE r == [talker[t] EXCEPT !.pc = "ready"]
  <1>1. /\ TalkBecomes(t, r) /\ talker[t].pc = "register" /\ talkSlot' = t
        /\ talkEnd' = talkEnd /\ (TalkSwept' <=> TalkSwept)
    BY DEF TalkRegister, TalkMove, TalkBecomes, TalkSwept
  <1>2. TalkOrderly(r) /\ r.pc = "ready"
    <2>1. r \in TalkRecord
      <3>1. talker[t] \in TalkRecord /\ "ready" \in TalkPlaces
        BY TalkPlaceFacts DEF TalkPlaces
      <3> QED BY <3>1 DEF TalkRecord
    <2>2. /\ r.pc = "ready" /\ r.open = talker[t].open /\ r.once = talker[t].once
          /\ r.ch = talker[t].ch /\ r.fed = talker[t].fed
      BY TalkPlaceFacts DEF TalkRecord
    <2> HIDE DEF r
    <2> QED
      BY <1>1, <2>1, <2>2, TalkPlaceFacts
         DEF TalkOrderly, TalkOpenWhere, TalkOnceWhere, TalkQueueWhere, TalkEarly, TalkLate
  <1> HIDE DEF r
  <1>3. /\ talker'[t] = r
        /\ \A u \in Talkers : u # t => talker'[u] = talker[u]
    BY <1>1, TalkOthers DEF TalkInv
  <1>4. TalkTypeOK'
    BY <1>1, <1>2 DEF TalkInv, TalkTypeOK, TalkBecomes, TalkOrderly, TalkRecord
  <1>5. (\A u \in Talkers :
           TalkOpenWhere(talker[u]) /\ TalkOnceWhere(talker[u]) /\ TalkQueueWhere(talker[u]))'
    BY <1>2, <1>3 DEF TalkInv, TalkOrderly
  <1>6. \A u \in Talkers : TalkBusyAt(u)' <=> u = t
    <2>1. \A u \in Talkers : TalkBusyAt(u) => u = t
      BY <1>1, TalkPlaceFacts DEF TalkBusyAt, TalkInv, TalkSlotWhere
    <2> QED
      BY <1>2, <1>3, <2>1, TalkPlaceFacts DEF TalkBusyAt
  <1>7. TalkSlotWhere'
    BY <1>1, <1>6 DEF TalkSlotWhere
  <1>8. TalkSweptWhere'
    <2>1. ASSUME NEW u \in Talkers, TalkFound(u)'
          PROVE  \/ talker'[u].pc \in TalkRegistered
                 \/ talker'[u].pc \in TalkLate /\ talker'[u].once = "done"
                 \/ talker'[u].pc = "idle" /\ TalkSwept'
      <3>1. CASE u = t
        BY <1>2, <1>3, <3>1 DEF TalkRegistered
      <3>2. CASE u # t
        <4>1. TalkFound(u)
          BY <1>1, <2>1, <3>2 DEF TalkFound
        <4>2. \/ talker[u].pc \in TalkRegistered
              \/ talker[u].pc \in TalkLate /\ talker[u].once = "done"
              \/ talker[u].pc = "idle" /\ TalkSwept
          BY <4>1 DEF TalkInv, TalkSweptWhere
        <4> QED
          BY <1>1, <1>3, <3>2, <4>2
      <3> QED
        BY <3>1, <3>2
    <2>2. (~TalkSwept => talkEnd.swept = {})' /\ talkEnd'.phase # "down"
      BY <1>1 DEF TalkInv, TalkSweptWhere
    <2> QED
      BY <2>1, <2>2 DEF TalkSweptWhere
  <1> QED
    BY <1>4, <1>5, <1>7, <1>8 DEF TalkInv

\* The shutdown begins, sweeps the slot, and ends when what it found is closed.
LEMMA TalkDrainKeeps ==
    ASSUME TalkInv, TalkDrain
    PROVE  TalkInv'
  <1>1. /\ talkSlot' = talkSlot /\ talker' = talker /\ talkEnd'.swept = talkEnd.swept
        /\ talkEnd'.phase = "drain" /\ talkEnd.phase = "up" /\ ~TalkSwept /\ ~TalkSwept'
        /\ talkEnd' \in [phase : {"up", "drain", "sweep", "down"}, swept : SUBSET Talkers]
    BY DEF TalkDrain, TalkInv, TalkTypeOK, TalkSwept
  <1>2. \A t \in Talkers : (TalkFound(t)' <=> TalkFound(t)) /\ (TalkBusyAt(t)' <=> TalkBusyAt(t))
    BY <1>1 DEF TalkFound, TalkBusyAt
  <1> QED
    BY <1>1, <1>2 DEF TalkInv, TalkTypeOK, TalkSlotWhere, TalkSweptWhere

LEMMA TalkSweepKeeps ==
    ASSUME TalkInv, TalkAssumption, TalkSweep
    PROVE  TalkInv'
  <1>1. /\ talkSlot' = TalkFree /\ talker' = talker
        /\ talkEnd'.swept = {talkSlot} \cap Talkers
        /\ talkEnd'.phase = "sweep" /\ TalkSwept'
        /\ talkEnd' \in [phase : {"up", "drain", "sweep", "down"}, swept : SUBSET Talkers]
    BY DEF TalkSweep, TalkSwept
  <1>2. \A t \in Talkers : TalkBusyAt(t)' <=> TalkBusyAt(t)
    BY <1>1 DEF TalkBusyAt
  <1>3. \A t \in Talkers : TalkFound(t)' => talkSlot = t
    BY <1>1, TalkAssumption DEF TalkFound, TalkAssumption
  <1>4. TalkSweptWhere'
    <2>1. ASSUME NEW t \in Talkers, TalkFound(t)'
          PROVE  talker'[t].pc \in TalkRegistered \cup TalkLate
                 /\ (talker'[t].pc \in TalkLate => talker'[t].once = "done")
      <3>1. TalkFound(t) /\ TalkBusyAt(t)
        BY <1>3, <2>1 DEF TalkFound, TalkInv, TalkSlotWhere
      <3> QED
        BY <1>1, <3>1, TalkPlaceFacts
           DEF TalkInv, TalkSweptWhere, TalkBusyAt, TalkLate, TalkRegistered
    <2> QED
      BY <1>1, <2>1 DEF TalkSweptWhere
  <1>5. TalkSlotWhere'
    BY <1>1, <1>2, TalkAssumption DEF TalkInv, TalkSlotWhere, TalkAssumption
  <1> QED
    BY <1>1, <1>4, <1>5 DEF TalkInv, TalkTypeOK

LEMMA TalkSweepCloseKeeps ==
    ASSUME TalkInv, NEW t \in Talkers, TalkSweepClose(t)
    PROVE  TalkInv'
  <1>1. /\ talkEnd.phase = "sweep" /\ TalkFound(t) /\ TalkBeginClose(t)
        /\ talker[t].pc # "idle" /\ talker[t].once = "idle" /\ UNCHANGED <<talkSlot, talkEnd>>
    BY DEF TalkSweepClose, TalkFound, TalkBeginClose
  <1>2. talker[t].pc \in TalkRegistered
    BY <1>1 DEF TalkInv, TalkSweptWhere
  <1> QED
    BY <1>1, <1>2, TalkBeginCloseKeeps

LEMMA TalkDownKeeps ==
    ASSUME TalkInv, TalkDown
    PROVE  TalkInv'
  <1>1. /\ talkSlot' = talkSlot /\ talker' = talker /\ talkEnd'.swept = talkEnd.swept
        /\ talkEnd'.phase = "down" /\ TalkSwept /\ TalkSwept'
        /\ talkEnd' \in [phase : {"up", "drain", "sweep", "down"}, swept : SUBSET Talkers]
    BY DEF TalkDown, TalkInv, TalkTypeOK, TalkSwept
  <1>2. \A t \in Talkers : (TalkFound(t)' <=> TalkFound(t)) /\ (TalkBusyAt(t)' <=> TalkBusyAt(t))
    BY <1>1 DEF TalkFound, TalkBusyAt
  <1>3. \A t \in talkEnd.swept : ~talker[t].open
    <2>1. ASSUME NEW t \in talkEnd.swept
          PROVE  ~talker[t].open
      <3>1. t \in Talkers /\ (talker[t].once = "done" \/ talker[t].pc = "idle")
        BY DEF TalkDown, TalkOver, TalkInv, TalkTypeOK
      <3> QED
        BY <3>1 DEF TalkInv, TalkOpenWhere, TalkOnceWhere, TalkEarly
    <2> QED
      BY <2>1
  <1> QED
    BY <1>1, <1>2, <1>3 DEF TalkInv, TalkTypeOK, TalkSlotWhere, TalkSweptWhere

-----------------------------------------------------------------------------
\* At the start the slot is free and every handler idle.
LEMMA TalkInvInit ==
    ASSUME TalkAssumption, TalkInit
    PROVE  TalkInv
  <1>1. TalkIdle \in TalkRecord
    BY TalkAssumption DEF TalkIdle, TalkRecord, TalkPlaces, TalkAssumption
  <1>2. TalkIdle.pc = "idle" /\ ~TalkIdle.open /\ TalkIdle.once = "idle" /\ TalkIdle.ch = <<>>
        /\ TalkIdle.fed = 0
    BY DEF TalkIdle
  <1>3. \A t \in Talkers : talker[t] = TalkIdle
    BY DEF TalkInit
  <1>4. TalkTypeOK
    BY <1>1 DEF TalkInit, TalkTypeOK, TalkRecord
  <1>5. \A t \in Talkers :
          TalkOpenWhere(talker[t]) /\ TalkOnceWhere(talker[t]) /\ TalkQueueWhere(talker[t])
    BY <1>2, <1>3, TalkAssumption
       DEF TalkOpenWhere, TalkOnceWhere, TalkQueueWhere, TalkEarly, TalkLate, TalkAssumption
  <1>6. \A t \in Talkers : ~TalkBusyAt(t)
    BY <1>2, <1>3 DEF TalkBusyAt, TalkBusyPlaces
  <1>7. TalkSlotWhere
    BY <1>6, TalkAssumption DEF TalkInit, TalkSlotWhere, TalkAssumption
  <1>8. TalkSweptWhere
    BY TalkAssumption DEF TalkInit, TalkSweptWhere, TalkSwept, TalkFound, TalkAssumption
  <1> QED
    BY <1>4, <1>5, <1>7, <1>8 DEF TalkInv

\* Every step keeps the invariant.
LEMMA TalkInvNext ==
    ASSUME TalkAssumption, TalkInv, [TalkNext]_talkVars
    PROVE  TalkInv'
  <1>1. ASSUME NEW t \in Talkers, talkEnd.phase # "down", TalkHandler(t)
        PROVE  TalkInv'
    BY <1>1, TalkUpgradeKeeps, TalkHandshakeKeeps, TalkDialKeeps, TalkRegisterKeeps,
       TalkReadyKeeps, TalkShedKeeps, TalkFeedAgainKeeps, TalkCloseKeeps, TalkFinishCloseKeeps,
       TalkReleaseKeeps, TalkReturnKeeps
       DEF TalkHandler
  <1>2. ASSUME NEW t \in Talkers, talkEnd.phase # "down",
               \/ TalkReserve(t) \/ TalkFeed(t) \/ TalkPing(t) \/ TalkLoop(t) \/ TalkTake(t)
               \/ TalkClientGone(t) \/ TalkCameraDrops(t) \/ TalkSweepClose(t)
        PROVE  TalkInv'
    BY <1>2, TalkReserveKeeps, TalkFeedKeeps, TalkOutsideKeeps, TalkLoopKeeps, TalkTakeKeeps,
       TalkSweepCloseKeeps
  <1>3. CASE UNCHANGED talkVars
    BY <1>3 DEF talkVars, TalkInv, TalkTypeOK, TalkSlotWhere, TalkSweptWhere, TalkBusyAt,
                TalkFound, TalkSwept
  <1> QED
    BY <1>1, <1>2, <1>3, TalkDrainKeeps, TalkSweepKeeps, TalkDownKeeps DEF TalkNext

\* TalkSafe: at most one handler has the RTSP backchannel to the camera open, the
\* slot of handleTalk belongs to the handler that will delete it and to no other,
\* CloseAllTalk leaves no session that it found online, and FeedPCM never loses the
\* newest frame of a passthrough codec.
THEOREM OneTalkerHeard == TalkSpec => []TalkSafe
  <1> USE TalkAssumption
  <1>1. TalkInit => TalkInv
    BY TalkInvInit
  <1>2. TalkInv /\ [TalkNext]_talkVars => TalkInv'
    BY TalkInvNext
  <1>3. TalkInv => TalkSafe
    <2> SUFFICES ASSUME TalkInv
                 PROVE  TalkSafe
      OBVIOUS
    <2>1. \A t \in Talkers : talker[t].open => TalkBusyAt(t)
      BY TalkPlaceFacts
         DEF TalkOrderly, TalkRecord, TalkOpenWhere, TalkEarly, TalkLate, TalkPlaces, TalkBusyAt
    <2>2. \A t, u \in Talkers : TalkBusyAt(t) /\ TalkBusyAt(u) => t = u
      BY DEF TalkInv, TalkSlotWhere
    <2>3. TalkOneTalker
      BY <2>1, <2>2 DEF TalkOneTalker, TalkOnline
    <2>4. TalkSlotHeld
      BY <2>2 DEF TalkSlotHeld, TalkInv, TalkSlotWhere, TalkBusyAt
    <2>5. TalkTornDown
      BY DEF TalkTornDown, TalkOnline, TalkInv, TalkSweptWhere
    <2>6. TalkFreshest
      BY DEF TalkFreshest, TalkInv, TalkQueueWhere
    <2> QED
      BY <2>3, <2>4, <2>5, <2>6 DEF TalkSafe
  <1> QED
    BY <1>1, <1>2, <1>3, PTL DEF TalkSpec

-----------------------------------------------------------------------------
(* LiveStream.                                                             *)

LiveSources == [n : Nat, up : BOOLEAN, sent : Nat, started : BOOLEAN, clock : Int,
                lead : {0, 1}, jumped : BOOLEAN, whole : BOOLEAN, timely : BOOLEAN]
LiveQueued == [of : Nat, kind : LiveKinds, dts : Int, span : {0, 1}]
LiveMaking == [of : SUBSET Nat, size : Nat, base : Int, span : Nat, key : BOOLEAN, frames : Nat]
LiveParts == [seq : Nat, key : BOOLEAN, of : SUBSET Nat, base : Int, span : Nat]
LiveCasts == [running : BOOLEAN, init : Nat, gop : Seq(LiveParts), bytes : Nat,
              dropped : BOOLEAN, seq : Nat, part : LiveMaking, shift : Int,
              haveShift : BOOLEAN, closed : BOOLEAN]
LiveHandles == [pc : {"idle", "prelude", "stream", "leaving"}, init : Nat, dry : BOOLEAN,
                last : Seq(LiveParts), todo : Seq(LiveParts), ch : Seq(LiveParts), open : BOOLEAN]

LiveTyped ==
    /\ source \in LiveSources /\ submitCh \in Seq(LiveQueued) /\ bc \in LiveCasts
    /\ subs \subseteq LiveViewers /\ viewer \in [LiveViewers -> LiveHandles]

\* The session's decode times may be relied on: nothing was lost, the clock did not go
\* back, and audio did not choose the shift.
LiveTimely == source.whole /\ source.timely

\* Where the video of a part ends.
LiveEnd(p) == p.base + p.span

\* What LiveFeedWhole says of a sequence of parts given under the init n.
LiveGood(s, n) ==
    /\ \A i \in 1..(Len(s) - 1) : s[i + 1].seq = s[i].seq + 1
    /\ n = source.n /\ source.whole => \A i \in 1..Len(s) : s[i].of = {n}
    /\ n = source.n /\ LiveTimely => \A i \in 1..(Len(s) - 1) : LiveEnd(s[i]) <= s[i + 1].base

\* No frame that is still to come, in the part in the making, in the queue or from the
\* camera, is before x.
LiveAhead(x, q) ==
    /\ x <= source.clock
    /\ \A i \in 1..Len(q) : LiveVideo(q[i]) => x <= q[i].dts + source.lead
LiveBefore(x, b, q) == LiveAhead(x, q) /\ (b.part.frames > 0 => x <= b.part.base)

\* What comes next continues s.
LiveFollows(s, b, q) ==
    /\ LiveGood(s, source.n)
    /\ s # <<>> => /\ s[Len(s)].seq + 1 = b.seq
                   /\ LiveTimely => LiveBefore(LiveEnd(s[Len(s)]), b, q)

\* The samples of a session whose times may be relied on, in the order of their decode
\* times.
LiveOrdered(q) ==
    /\ \A i \in 1..Len(q) :
        IF LiveVideo(q[i]) THEN /\ 0 <= q[i].dts + source.lead
                                /\ q[i].dts + q[i].span + source.lead <= source.clock
        ELSE q[i].span = 0
    /\ \A i, j \in 1..Len(q) :
        i < j /\ LiveVideo(q[i]) /\ LiveVideo(q[j]) => q[i].dts + q[i].span <= q[j].dts

\* A session that lost nothing: the queue holds its samples.
LiveQueueInv(q) ==
    /\ source.up /\ source.whole =>
        \A i \in 1..Len(q) : q[i].of = source.n /\ (LiveVideo(q[i]) => source.started)
    /\ source.up /\ LiveTimely => LiveOrdered(q)

\* Its first frame is a keyframe, which is in the queue until it is in the part in
\* the making, and that part is the first one.
LiveKeyAhead(q) ==
    source.started =>
        \E j \in 1..Len(q) : q[j].kind = "key" /\ \A k \in 1..(j - 1) : q[k].kind = "audio"
LiveKeyInv(b, q) ==
    b.running /\ source.whole =>
        /\ b.part.of \subseteq {source.n}
        /\ b.part.frames > 0 => b.part.of = {source.n}
        /\ b.seq = 0 /\ b.part.frames = 0 => LiveKeyAhead(q)
        /\ b.seq = 0 /\ b.part.frames > 0 => b.part.key
        /\ b.gop = <<>> /\ ~b.dropped => b.seq = 0
        /\ b.gop # <<>> => b.gop[1].key

\* The shift is how far the session's decode times start below zero, and it is
\* chosen from the first sample.
LiveShiftInv(b, q) ==
    b.running /\ LiveTimely =>
        /\ b.haveShift => b.shift = source.lead
        /\ ~b.haveShift =>
            /\ b.part.frames = 0
            /\ q = <<>> => ~source.started
            /\ q # <<>> => q[1].kind \in {"key", "audio"} /\ q[1].dts = -source.lead
        /\ b.part.frames = 0 => b.part.span = 0
        /\ b.part.frames > 0 => 0 <= b.part.base /\ LiveAhead(LiveEnd(b.part), q)

LiveCastInv(b, q) ==
    /\ b.running => source.up /\ b.init = source.n /\ LiveFollows(b.gop, b, q)
    /\ ~b.running => b.init = 0 /\ b.gop = <<>>
    /\ b.dropped => b.gop = <<>>
    /\ LiveQueueInv(q) /\ LiveKeyInv(b, q) /\ LiveShiftInv(b, q)

LiveSourceInv ==
    /\ source.sent <= LiveSamples
    /\ source.clock <= source.sent + IF source.jumped THEN LiveJump ELSE 0
    /\ source.timely => 0 <= source.clock
    /\ ~source.started => source.clock = 0

\* A viewer is given what follows what it was given, or is on its way out.
LiveViewerInv(v) ==
    /\ v \in subs <=> viewer[v].open
    /\ viewer[v].pc = "idle" => viewer[v] = LiveNoViewer
    /\ viewer[v].pc = "stream" => viewer[v].todo = <<>>
    /\ Len(viewer[v].last) <= 1 /\ Len(viewer[v].ch) <= LiveBehind
    /\ viewer[v].init <= source.n /\ LiveGood(LiveFeed(v), viewer[v].init)
    /\ v \in subs => bc.running /\ viewer[v].init = source.n /\ LiveFollows(LiveFeed(v), bc, submitCh)
    /\ viewer[v].pc = "prelude" /\ LiveIntact(v) /\ ~viewer[v].dry /\ viewer[v].last = <<>> =>
        /\ LiveFeed(v) # <<>> => LiveFeed(v)[1].key
        /\ LiveFeed(v) = <<>> /\ v \in subs => bc.seq = 0

LiveInv ==
    /\ LiveTyped /\ LiveSourceInv /\ LiveCastInv(bc, submitCh)
    /\ \A v \in LiveViewers : LiveViewerInv(v)

-----------------------------------------------------------------------------
(* Sequences of parts.                                                     *)

LEMMA LiveGoodOne ==
    /\ \A n : LiveGood(<<>>, n)
    /\ \A p, n : (n = source.n /\ source.whole => p.of = {n}) => LiveGood(<<p>>, n)
BY DEF LiveGood

LEMMA LiveGoodTail ==
    ASSUME NEW s \in Seq(LiveParts), s # <<>>, NEW n, LiveGood(s, n)
    PROVE  LiveGood(Tail(s), n)
<1>1. /\ Len(s) \in Nat /\ Len(s) >= 1 /\ Len(Tail(s)) = Len(s) - 1
      /\ \A i \in 1..Len(Tail(s)) : Tail(s)[i] = s[i + 1]
  OBVIOUS
<1>2. \A i \in 1..(Len(Tail(s)) - 1) :
        /\ i + 1 \in 1..(Len(s) - 1) /\ Tail(s)[i] = s[i + 1] /\ Tail(s)[i + 1] = s[(i + 1) + 1]
  BY <1>1
<1>3. \A i \in 1..Len(Tail(s)) : i + 1 \in 1..Len(s)
  BY <1>1
<1> QED BY <1>1, <1>2, <1>3 DEF LiveGood

LEMMA LiveGoodAppend ==
    ASSUME NEW s \in Seq(LiveParts), NEW p \in LiveParts, NEW n, LiveGood(s, n),
           n = source.n /\ source.whole => p.of = {n},
           s # <<>> => /\ s[Len(s)].seq + 1 = p.seq
                       /\ n = source.n /\ LiveTimely => LiveEnd(s[Len(s)]) <= p.base
    PROVE  LiveGood(Append(s, p), n)
<1> DEFINE t == Append(s, p)
<1>1. /\ Len(s) \in Nat /\ Len(t) = Len(s) + 1 /\ t[Len(t)] = p /\ (s = <<>> <=> Len(s) = 0)
      /\ \A i \in 1..Len(s) : t[i] = s[i]
  OBVIOUS
<1> HIDE DEF t
<1>2. \A i \in 1..(Len(t) - 1) :
        \/ i \in 1..(Len(s) - 1) /\ i + 1 \in 1..Len(s) /\ i \in 1..Len(s)
        \/ i = Len(s) /\ i + 1 = Len(t) /\ i \in 1..Len(s) /\ s # <<>>
  BY <1>1
<1>3. \A i \in 1..(Len(t) - 1) : t[i + 1].seq = t[i].seq + 1
  BY <1>1, <1>2 DEF LiveGood, LiveParts
<1>4. n = source.n /\ source.whole => \A i \in 1..Len(t) : t[i].of = {n}
  BY <1>1 DEF LiveGood
<1>5. n = source.n /\ LiveTimely => \A i \in 1..(Len(t) - 1) : LiveEnd(t[i]) <= t[i + 1].base
  BY <1>1, <1>2 DEF LiveGood
<1> QED BY <1>3, <1>4, <1>5 DEF LiveGood, t

\* Writing to the browser takes nothing out of the feed but what the browser already has.
LiveMoves(l, todo, ch) ==
    /\ l \o todo \o ch \in Seq(LiveParts)
    /\ todo # <<>> => <<Head(todo)>> \o Tail(todo) \o ch =
                        IF l = <<>> THEN l \o todo \o ch ELSE Tail(l \o todo \o ch)
    /\ todo = <<>> /\ ch # <<>> => <<Head(ch)>> \o todo \o Tail(ch) =
                        IF l = <<>> THEN l \o todo \o ch ELSE Tail(l \o todo \o ch)
    /\ l \o todo \o ch = <<>> => l = <<>>

LEMMA LiveFeedMoves ==
    ASSUME NEW l \in Seq(LiveParts), NEW todo \in Seq(LiveParts), NEW ch \in Seq(LiveParts),
           Len(l) <= 1
    PROVE  LiveMoves(l, todo, ch)
<1>1. l # <<>> => Tail(l) = <<>>
  <2>1. Len(l) \in Nat /\ (Len(l) = 0 <=> l = <<>>)
    OBVIOUS
  <2>2. \A x \in Seq(LiveParts) : x # <<>> => Len(Tail(x)) = Len(x) - 1 /\ Tail(x) \in Seq(LiveParts)
    OBVIOUS
  <2>3. \A x \in Seq(LiveParts) : Len(x) = 0 => x = <<>>
    OBVIOUS
  <2> QED BY <2>1, <2>2, <2>3
<1>2. \A x, y \in Seq(LiveParts) :
        /\ x \o y \in Seq(LiveParts) /\ <<>> \o y = y /\ x \o <<>> = x
        /\ x \o y = <<>> <=> x = <<>> /\ y = <<>>
        /\ \A p \in LiveParts : x \o Append(y, p) = Append(x \o y, p)
  OBVIOUS
<1>4. \A x \in Seq(LiveParts) : x # <<>> => /\ <<Head(x)>> \o Tail(x) = x /\ Tail(x) \in Seq(LiveParts)
                                            /\ Head(x) \in LiveParts
  OBVIOUS
<1>5. \A x, y \in Seq(LiveParts) : x # <<>> => Tail(x \o y) = Tail(x) \o y
  OBVIOUS
<1>6. \A y \in Seq(LiveParts) : l # <<>> => Tail(l \o y) = y
  <2>1. \A y \in Seq(LiveParts) : l # <<>> => Tail(l \o y) = Tail(l) \o y
    BY <1>5, Zenon
  <2>2. \A y \in Seq(LiveParts) : <<>> \o y = y
    BY <1>2, Zenon
  <2> QED BY <1>1, <2>1, <2>2, Zenon
<1>7. l \o todo \o ch = l \o (todo \o ch) /\ todo \o ch \in Seq(LiveParts)
  OBVIOUS
<1>8. l \o todo \o ch \in Seq(LiveParts)
  BY <1>2
<1>9. todo # <<>> => <<Head(todo)>> \o Tail(todo) \o ch =
                       IF l = <<>> THEN l \o todo \o ch ELSE Tail(l \o todo \o ch)
  <2>1. todo # <<>> => <<Head(todo)>> \o Tail(todo) \o ch = todo \o ch
    BY <1>4
  <2>2. l # <<>> => Tail(l \o todo \o ch) = todo \o ch
    BY <1>6, <1>7, Zenon
  <2> QED BY <1>2, <2>1, <2>2
<1>10. todo = <<>> /\ ch # <<>> => <<Head(ch)>> \o todo \o Tail(ch) =
                       IF l = <<>> THEN l \o todo \o ch ELSE Tail(l \o todo \o ch)
  <2>1. todo = <<>> /\ ch # <<>> => <<Head(ch)>> \o todo \o Tail(ch) = ch
    BY <1>2, <1>4
  <2>2. l # <<>> /\ todo = <<>> => Tail(l \o todo \o ch) = ch
    <3>1. todo = <<>> => todo \o ch = ch
      OBVIOUS
    <3> QED BY <1>6, <1>7, <3>1, Zenon
  <2> QED BY <1>2, <2>1, <2>2
<1>11. l \o todo \o ch = <<>> => l = <<>>
  BY <1>2
<1> QED BY <1>8, <1>9, <1>10, <1>11 DEF LiveMoves

-----------------------------------------------------------------------------
(* writeSample and flushPart, one field at a time.                         *)

LEMMA LiveAddFacts ==
    ASSUME NEW b \in LiveCasts, NEW s \in LiveQueued, NEW c, c = LiveAdd(b, s)
    PROVE  /\ c \in LiveCasts
           /\ c.running = b.running /\ c.init = b.init /\ c.gop = b.gop
           /\ c.dropped = b.dropped /\ c.seq = b.seq
           /\ c.shift = LiveShift(b, s.dts)
           /\ c.part.of = b.part.of \cup {s.of}
           /\ c.part.span = b.part.span + s.span
           /\ LiveVideo(s) => c.part.frames = b.part.frames + 1
           /\ ~LiveVideo(s) => c.part.frames = b.part.frames
           /\ LiveVideo(s) /\ b.part.frames = 0 => c.part.base = LiveShifted(c.shift, s.dts)
           /\ ~LiveVideo(s) \/ b.part.frames # 0 => c.part.base = b.part.base
<1> DEFINE sh == LiveShift(b, s.dts)
           starts == LiveVideo(s) /\ b.part.frames = 0
           p == [of |-> b.part.of \cup {s.of},
                 size |-> b.part.size + 1,
                 base |-> IF starts THEN LiveShifted(sh, s.dts) ELSE b.part.base,
                 span |-> b.part.span + s.span,
                 key |-> b.part.key \/ (starts /\ s.kind = "key"),
                 frames |-> b.part.frames + IF LiveVideo(s) THEN 1 ELSE 0]
<1>1. sh \in Int /\ LiveShifted(sh, s.dts) \in Int
  BY DEF LiveShift, LiveShifted, LiveCasts, LiveQueued
<1>2. b.part \in LiveMaking
  BY DEF LiveCasts
<1>3. p \in LiveMaking
  BY <1>1, <1>2 DEF LiveMaking, LiveQueued
<1>4. c = [b EXCEPT !.shift = sh, !.haveShift = TRUE, !.part = p]
  BY DEF LiveAdd
<1>5. /\ p.of = b.part.of \cup {s.of}
      /\ p.span = b.part.span + s.span
      /\ p.base = IF starts THEN LiveShifted(sh, s.dts) ELSE b.part.base
      /\ p.frames = b.part.frames + IF LiveVideo(s) THEN 1 ELSE 0
  OBVIOUS
<1> HIDE DEF p, sh
<1>6. /\ c \in LiveCasts
      /\ c.running = b.running /\ c.init = b.init /\ c.gop = b.gop
      /\ c.dropped = b.dropped /\ c.seq = b.seq
      /\ c.shift = sh /\ c.part = p
  BY <1>1, <1>3, <1>4 DEF LiveCasts
<1>7. b.part.frames \in Nat
  BY <1>2 DEF LiveMaking
<1> QED BY <1>5, <1>6, <1>7 DEF sh

LEMMA LiveAddCounts ==
    ASSUME NEW b \in LiveCasts, NEW s \in LiveQueued, LiveVideo(s), NEW c, c = LiveAdd(b, s)
    PROVE  c.part.frames > 0
<1>1. b.part.frames \in Nat
  BY DEF LiveCasts, LiveMaking
<1>2. c.part.frames = b.part.frames + 1
  BY LiveAddFacts
<1> QED BY <1>1, <1>2

LEMMA LiveAddBits ==
    ASSUME NEW b \in LiveCasts, NEW s \in LiveQueued, NEW c, c = LiveAdd(b, s)
    PROVE  /\ c.haveShift
           /\ LiveVideo(s) /\ b.part.frames = 0 /\ s.kind = "key" => c.part.key
           /\ ~LiveVideo(s) \/ b.part.frames # 0 => (c.part.key <=> b.part.key)
<1> DEFINE sh == LiveShift(b, s.dts)
           starts == LiveVideo(s) /\ b.part.frames = 0
           p == [of |-> b.part.of \cup {s.of},
                 size |-> b.part.size + 1,
                 base |-> IF starts THEN LiveShifted(sh, s.dts) ELSE b.part.base,
                 span |-> b.part.span + s.span,
                 key |-> b.part.key \/ (starts /\ s.kind = "key"),
                 frames |-> b.part.frames + IF LiveVideo(s) THEN 1 ELSE 0]
<1>1. sh \in Int /\ LiveShifted(sh, s.dts) \in Int
  BY DEF LiveShift, LiveShifted, LiveCasts, LiveQueued
<1>2. b.part \in LiveMaking
  BY DEF LiveCasts
<1>3. p \in LiveMaking
  BY <1>1, <1>2 DEF LiveMaking, LiveQueued
<1>4. c = [b EXCEPT !.shift = sh, !.haveShift = TRUE, !.part = p]
  BY DEF LiveAdd
<1>5. /\ p.key = (b.part.key \/ (starts /\ s.kind = "key"))
      /\ b.part.key \in BOOLEAN
  BY <1>2 DEF LiveMaking
<1> HIDE DEF p, sh
<1>6. c.haveShift = TRUE /\ c.part = p
  BY <1>4 DEF LiveCasts
<1>7. c.part.key = (b.part.key \/ (starts /\ s.kind = "key"))
  BY <1>5, <1>6
<1> HIDE DEF starts
<1>8. c.part.key <=> b.part.key \/ (starts /\ s.kind = "key")
  BY <1>7, Zenon
<1> QED BY <1>6, <1>8, Zenon DEF starts

LEMMA LiveModulo ==
    ASSUME LiveAssumption
    PROVE  /\ \A x \in Int : x % LiveWrap \in Int
           /\ \A x \in Nat : x <= LiveSamples + LiveJump => x % LiveWrap = x
<1>1. LiveWrap \in Nat /\ LiveSamples + LiveJump \in Nat /\ LiveWrap > LiveSamples + LiveJump
  BY DEF LiveAssumption
<1> QED BY <1>1

\* The part that is flushed, and the broadcaster after it.
LEMMA LiveFlushFacts ==
    ASSUME LiveAssumption, NEW b \in LiveCasts, NEW c, c = LiveFlush(b), NEW p, p = LivePartOf(b)
    PROVE  /\ c \in LiveCasts /\ p \in LiveParts
           /\ p.seq = b.seq /\ p.key = b.part.key /\ p.of = b.part.of
           /\ b.part.base \in Nat /\ b.part.base <= LiveSamples + LiveJump => p.base = b.part.base
           /\ p.span = b.part.span /\ c.part.span = 0
           /\ c.running = b.running /\ c.init = b.init /\ c.seq = b.seq + 1
           /\ c.shift = b.shift /\ c.haveShift = b.haveShift
           /\ c.part.of = {} /\ c.part.frames = 0
           /\ \/ p.key /\ c.gop = <<p>> /\ ~c.dropped
              \/ ~p.key /\ c.gop = b.gop /\ b.dropped /\ c.dropped
              \/ ~p.key /\ c.gop = <<>> /\ c.dropped
              \/ ~p.key /\ c.gop = Append(b.gop, p) /\ ~b.dropped /\ ~c.dropped
<1>1. b.part \in LiveMaking /\ b.seq \in Nat /\ b.gop \in Seq(LiveParts) /\ b.bytes \in Nat
  BY DEF LiveCasts
<1>2. p \in LiveParts /\ p.seq = b.seq /\ p.key = b.part.key /\ p.of = b.part.of
      /\ p.base = b.part.base % LiveWrap /\ p.span = b.part.span
  BY <1>1, LiveModulo DEF LivePartOf, LiveParts, LiveMaking
<1>3. b.part.base \in Nat /\ b.part.base <= LiveSamples + LiveJump => p.base = b.part.base
  BY <1>2, LiveModulo
<1> DEFINE k == LiveKeep(b, p, b.part.size)
<1>4. /\ k \in LiveCasts /\ k.running = b.running /\ k.init = b.init /\ k.seq = b.seq
      /\ k.shift = b.shift /\ k.haveShift = b.haveShift
      /\ \/ p.key /\ k.gop = <<p>> /\ ~k.dropped
         \/ ~p.key /\ k.gop = b.gop /\ b.dropped /\ k.dropped
         \/ ~p.key /\ k.gop = <<>> /\ k.dropped
         \/ ~p.key /\ k.gop = Append(b.gop, p) /\ ~b.dropped /\ ~k.dropped
  <2>1. b.part.size \in Nat /\ <<p>> \in Seq(LiveParts) /\ Append(b.gop, p) \in Seq(LiveParts)
        /\ <<>> \in Seq(LiveParts) /\ b.bytes + b.part.size \in Nat
    <3>1. p \in LiveParts /\ b.gop \in Seq(LiveParts)
      BY <1>1, <1>2
    <3>2. b.part.size \in Nat /\ b.bytes + b.part.size \in Nat
      <4>1. \A x, y \in Nat : x + y \in Nat
        OBVIOUS
      <4>2. b.part.size \in Nat
        BY <1>1 DEF LiveMaking
      <4> QED BY <1>1, <4>1, <4>2, Zenon
    <3>3. <<>> \in Seq(LiveParts)
      BY EmptySeq
    <3>4. \A y \in Seq(LiveParts) : Append(y, p) \in Seq(LiveParts)
      BY <3>1, AppendProperties
    <3>5. Append(<<>>, p) = <<p>>
      OBVIOUS
    <3>6. <<p>> \in Seq(LiveParts) /\ Append(b.gop, p) \in Seq(LiveParts)
      BY <3>1, <3>3, <3>4, <3>5, Zenon
    <3> QED BY <3>2, <3>3, <3>6
  <2>2. CASE p.key
    <3>1. k = [b EXCEPT !.gop = <<p>>, !.bytes = b.part.size, !.dropped = FALSE]
      BY <2>2 DEF LiveKeep
    <3> QED BY <2>1, <2>2, <3>1 DEF LiveCasts
  <2>3. CASE ~p.key /\ b.dropped
    BY <2>3 DEF LiveKeep
  <2>4. CASE ~p.key /\ ~b.dropped /\ k = [b EXCEPT !.gop = <<>>, !.bytes = 0, !.dropped = TRUE]
    <3>1. PICK e \in Seq(LiveParts) : e = <<>>
      BY <2>1
    <3>2. k = [b EXCEPT !.gop = e, !.bytes = 0, !.dropped = TRUE]
      BY <2>4, <3>1
    <3> HIDE DEF k
    <3>3. /\ k \in LiveCasts /\ k.running = b.running /\ k.init = b.init /\ k.seq = b.seq
          /\ k.shift = b.shift /\ k.haveShift = b.haveShift
          /\ k.gop = e /\ k.dropped = TRUE
      BY <3>2 DEF LiveCasts
    <3> QED BY <2>4, <3>1, <3>3
  <2>5. CASE ~p.key /\ ~b.dropped /\ k = [b EXCEPT !.gop = Append(b.gop, p), !.bytes = b.bytes + b.part.size]
    BY <2>1, <2>5 DEF LiveCasts
  <2> QED BY <2>2, <2>3, <2>4, <2>5 DEF LiveKeep
<1>5. c = [k EXCEPT !.seq = k.seq + 1, !.part = LiveNoPart]
  BY DEF LiveFlush
<1>6. /\ LiveNoPart \in LiveMaking /\ LiveNoPart.of = {} /\ LiveNoPart.frames = 0
      /\ LiveNoPart.span = 0
  BY DEF LiveNoPart, LiveMaking
<1> HIDE DEF k
<1>7. /\ c \in LiveCasts /\ c.seq = b.seq + 1 /\ c.part = LiveNoPart
      /\ c.running = k.running /\ c.init = k.init /\ c.shift = k.shift /\ c.haveShift = k.haveShift
      /\ c.gop = k.gop /\ c.dropped = k.dropped
  <2>1. k \in LiveCasts /\ k.seq = b.seq /\ b.seq + 1 \in Nat
    BY <1>1, <1>4
  <2>2. LiveNoPart \in LiveMaking
    BY <1>6
  <2>3. c = [k EXCEPT !.seq = b.seq + 1, !.part = LiveNoPart]
    BY <1>5, <2>1
  <2> QED BY <2>1, <2>2, <2>3 DEF LiveCasts
<1> QED BY <1>2, <1>3, <1>4, <1>6, <1>7

-----------------------------------------------------------------------------
(* What the marshaler does to a broadcaster and its queue.                 *)

\* Samples leave the queue at its head.
LEMMA LiveTail ==
    ASSUME NEW q \in Seq(LiveQueued), q # <<>>
    PROVE  /\ Head(q) = q[1] /\ q[1] \in LiveQueued /\ Tail(q) \in Seq(LiveQueued)
           /\ Len(q) \in Nat /\ Len(q) >= 1 /\ Len(Tail(q)) = Len(q) - 1
           /\ \A i \in 1..Len(Tail(q)) : Tail(q)[i] = q[i + 1] /\ i + 1 \in 1..Len(q)
           /\ \A i \in 1..Len(q) : q[i] \in LiveQueued
OBVIOUS

LEMMA LiveFlushFollows ==
    ASSUME LiveAssumption, source \in LiveSources, LiveSourceInv,
           NEW b \in LiveCasts, NEW q \in Seq(LiveQueued), LiveCastInv(b, q),
           b.running, b.part.frames > 0,
           NEW c, c = LiveFlush(b), NEW p, p = LivePartOf(b),
           NEW s \in Seq(LiveParts), LiveFollows(s, b, q)
    PROVE  LiveFollows(Append(s, p), c, q)
<1>1. /\ p \in LiveParts /\ p.seq = b.seq /\ p.of = b.part.of /\ p.span = b.part.span
      /\ c.seq = b.seq + 1 /\ c.part.frames = 0
  BY LiveFlushFacts
<1>2. source.whole => p.of = {source.n}
  BY <1>1 DEF LiveCastInv, LiveKeyInv
<1>3. LiveTimely => p.base = b.part.base /\ LiveAhead(LiveEnd(p), q)
  <2> SUFFICES ASSUME LiveTimely PROVE p.base = b.part.base /\ LiveAhead(LiveEnd(p), q)
    OBVIOUS
  <2>1. 0 <= b.part.base /\ LiveAhead(LiveEnd(b.part), q)
    BY DEF LiveCastInv, LiveShiftInv
  <2>2. /\ b.part.base \in Int /\ b.part.span \in Nat /\ source.clock \in Int /\ source.sent \in Nat
        /\ LiveSamples \in Nat /\ LiveJump \in Nat
    BY DEF LiveCasts, LiveMaking, LiveSources, LiveAssumption
  <2>3. b.part.base + b.part.span <= source.clock
    BY <2>1 DEF LiveAhead, LiveEnd
  <2>4. source.clock <= LiveSamples + LiveJump
    BY <2>2 DEF LiveSourceInv
  <2>5. b.part.base \in Nat /\ b.part.base <= LiveSamples + LiveJump
    <3>1. \A x, y, z \in Int, n \in Nat :
            0 <= x /\ x + n <= y /\ y <= z => x \in Nat /\ x <= z
      OBVIOUS
    <3>2. LiveSamples + LiveJump \in Int
      BY <2>2
    <3> QED BY <2>1, <2>2, <2>3, <2>4, <3>1, <3>2, Zenon
  <2>6. p.base = b.part.base
    BY <2>5, LiveFlushFacts
  <2> QED BY <1>1, <2>1, <2>6 DEF LiveEnd
<1>4. s # <<>> => s[Len(s)].seq + 1 = p.seq /\ (LiveTimely => LiveEnd(s[Len(s)]) <= p.base)
  BY <1>1, <1>3 DEF LiveFollows, LiveBefore
<1>5. LiveGood(Append(s, p), source.n)
  <2>1. LiveGood(s, source.n)
    BY DEF LiveFollows
  <2> QED BY <1>1, <1>2, <1>4, <2>1, LiveGoodAppend
<1>6. Append(s, p)[Len(Append(s, p))] = p
  BY <1>1
<1>7. LiveTimely => LiveBefore(LiveEnd(p), c, q)
  BY <1>1, <1>3 DEF LiveBefore
<1>8. b.seq + 1 = c.seq
  BY <1>1
<1> QED BY <1>1, <1>5, <1>6, <1>7, <1>8 DEF LiveFollows

LEMMA LiveFlushKeeps ==
    ASSUME LiveAssumption, source \in LiveSources, LiveSourceInv,
           NEW b \in LiveCasts, NEW q \in Seq(LiveQueued), LiveCastInv(b, q),
           b.running, b.part.frames > 0,
           NEW c, c = LiveFlush(b), NEW p, p = LivePartOf(b)
    PROVE  /\ c \in LiveCasts /\ p \in LiveParts /\ LiveCastInv(c, q)
           /\ c.running = b.running /\ c.part.frames = 0 /\ c.seq = b.seq + 1 /\ c.seq # 0
           /\ source.whole /\ b.seq = 0 => p.key
<1>1. /\ c \in LiveCasts /\ p \in LiveParts /\ p.key = b.part.key
      /\ c.running = b.running /\ c.init = b.init /\ c.seq = b.seq + 1
      /\ c.shift = b.shift /\ c.haveShift = b.haveShift
      /\ c.part.of = {} /\ c.part.frames = 0 /\ c.part.span = 0
  BY LiveFlushFacts
<1>2. b.seq \in Nat /\ b.gop \in Seq(LiveParts)
  BY DEF LiveCasts
<1>3. source.whole /\ b.seq = 0 => p.key
  BY <1>1 DEF LiveCastInv, LiveKeyInv
<1>4. \/ p.key /\ c.gop = <<p>> /\ ~c.dropped
      \/ ~p.key /\ c.gop = b.gop /\ b.dropped /\ c.dropped
      \/ ~p.key /\ c.gop = <<>> /\ c.dropped
      \/ ~p.key /\ c.gop = Append(b.gop, p) /\ ~b.dropped /\ ~c.dropped
  BY LiveFlushFacts
<1>5. LiveFollows(<<>>, b, q) /\ LiveFollows(<<>>, c, q) /\ LiveFollows(b.gop, b, q)
  BY LiveGoodOne DEF LiveFollows, LiveCastInv
<1>6. LiveFollows(c.gop, c, q)
  <2>1. <<>> \in Seq(LiveParts) /\ Append(<<>>, p) = <<p>>
    BY <1>1
  <2>2. LiveFollows(<<p>>, c, q)
    BY <1>5, <2>1, LiveFlushFollows
  <2>3. LiveFollows(Append(b.gop, p), c, q)
    BY <1>2, <1>5, LiveFlushFollows
  <2>4. b.dropped => b.gop = <<>>
    BY DEF LiveCastInv
  <2> QED BY <1>4, <1>5, <2>2, <2>3, <2>4
<1>7. c.dropped => c.gop = <<>>
  BY <1>1, <1>4 DEF LiveCastInv
<1>8. LiveKeyInv(c, q)
  <2>1. c.seq # 0
    BY <1>1, <1>2
  <2>2. source.whole /\ c.gop # <<>> => c.gop[1].key
    <3>1. CASE c.gop = <<p>> /\ p.key
      BY <3>1
    <3>2. CASE ~p.key /\ c.gop = Append(b.gop, p) /\ ~b.dropped
      <4>1. source.whole => b.seq # 0
        BY <1>3, <3>2
      <4>2. source.whole => b.gop # <<>> /\ b.gop[1].key
        BY <3>2, <4>1 DEF LiveCastInv, LiveKeyInv
      <4>3. b.gop # <<>> => Append(b.gop, p)[1] = b.gop[1]
        BY <1>2
      <4> QED BY <3>2, <4>2, <4>3
    <3> QED BY <1>4, <1>7, <3>1, <3>2
  <2>3. c.gop = <<>> => c.dropped
    <3>1. <<p>> # <<>> /\ Append(b.gop, p) # <<>>
      <4>1. \A x \in LiveParts, y \in Seq(LiveParts) : <<x>> # <<>> /\ Append(y, x) # <<>>
        OBVIOUS
      <4> QED BY <1>1, <1>2, <4>1
    <3> QED BY <1>4, <3>1, Zenon
  <2> QED BY <1>1, <2>1, <2>2, <2>3 DEF LiveKeyInv
<1>9. LiveShiftInv(c, q)
  BY <1>1 DEF LiveShiftInv, LiveCastInv
<1>10. c.seq # 0
  BY <1>1, <1>2
<1> QED BY <1>1, <1>3, <1>6, <1>7, <1>8, <1>9, <1>10 DEF LiveCastInv

\* The queue without its head is still in order.
LEMMA LiveQueueTail ==
    ASSUME NEW q \in Seq(LiveQueued), q # <<>>, LiveQueueInv(q) PROVE LiveQueueInv(Tail(q))
<1>1. \A i, j \in 1..Len(Tail(q)) : i < j => i + 1 < j + 1
  BY LiveTail
<1>2. \A i \in 1..Len(Tail(q)) : Tail(q)[i] = q[i + 1] /\ i + 1 \in 1..Len(q)
  BY LiveTail
<1>3. LiveOrdered(q) => LiveOrdered(Tail(q))
  BY <1>1, <1>2 DEF LiveOrdered
<1> QED BY <1>2, <1>3 DEF LiveQueueInv

\* What is said of all that is in the queue is said of all that is in its tail.
LEMMA LiveBeforeTail ==
    ASSUME NEW q \in Seq(LiveQueued), q # <<>>, NEW x
    PROVE  LiveAhead(x, q) => LiveAhead(x, Tail(q))
<1>1. \A i \in 1..Len(Tail(q)) : Tail(q)[i] = q[i + 1] /\ i + 1 \in 1..Len(q)
  BY LiveTail
<1> QED BY <1>1 DEF LiveAhead

\* The head of the queue is before the rest of it.
LEMMA LiveHeadFirst ==
    ASSUME source \in LiveSources, NEW q \in Seq(LiveQueued), q # <<>>, LiveQueueInv(q),
           source.up, LiveTimely, LiveVideo(q[1])
    PROVE  /\ 0 <= q[1].dts + source.lead
           /\ LiveAhead(q[1].dts + q[1].span + source.lead, Tail(q))
<1>1. 1 \in 1..Len(q) /\ \A i \in 1..Len(Tail(q)) : Tail(q)[i] = q[i + 1] /\ i + 1 \in 1..Len(q) /\ 1 < i + 1
  BY LiveTail
<1>2. /\ 0 <= q[1].dts + source.lead /\ q[1].dts + q[1].span + source.lead <= source.clock
      /\ \A i \in 1..Len(Tail(q)) : LiveVideo(Tail(q)[i]) => q[1].dts + q[1].span <= Tail(q)[i].dts
  BY <1>1 DEF LiveQueueInv, LiveOrdered
<1>3. source.lead \in Int /\ \A i \in 1..Len(q) : q[i].dts \in Int /\ q[i].span \in Int
  <2>1. \A i \in 1..Len(q) : q[i] \in LiveQueued
    BY LiveTail
  <2> QED BY <2>1 DEF LiveSources, LiveQueued
<1> QED BY <1>1, <1>2, <1>3 DEF LiveAhead

\* A sample that is skipped: a frame of no duration is no keyframe.
LEMMA LiveSkipKeeps ==
    ASSUME NEW b \in LiveCasts, NEW q \in Seq(LiveQueued), q # <<>>, LiveCastInv(b, q),
           ~b.running \/ LiveShort(q[1])
    PROVE  /\ LiveCastInv(b, Tail(q))
           /\ \A s : LiveFollows(s, b, q) => LiveFollows(s, b, Tail(q))
<1>1. LiveQueueInv(Tail(q))
  BY LiveQueueTail DEF LiveCastInv
<1>2. \A s : LiveFollows(s, b, q) => LiveFollows(s, b, Tail(q))
  BY LiveBeforeTail DEF LiveFollows, LiveBefore
<1>3. LiveKeyInv(b, Tail(q))
  <2>1. CASE ~b.running
    BY <2>1 DEF LiveKeyInv
  <2>2. CASE b.running /\ LiveShort(q[1])
    <3>1. source.started /\ LiveKeyAhead(q) => LiveKeyAhead(Tail(q))
      <4> SUFFICES ASSUME source.started, LiveKeyAhead(q) PROVE FALSE
        OBVIOUS
      <4>1. PICK j \in 1..Len(q) : q[j].kind = "key" /\ \A k \in 1..(j - 1) : q[k].kind = "audio"
        BY DEF LiveKeyAhead
      <4>2. j = 1 \/ 1 \in 1..(j - 1)
        BY LiveTail
      <4> QED BY <2>2, <4>1, <4>2 DEF LiveShort
    <3> QED BY <3>1 DEF LiveKeyInv, LiveKeyAhead, LiveCastInv
  <2> QED BY <2>1, <2>2
<1>4. LiveShiftInv(b, Tail(q))
  <2>1. CASE ~b.running
    BY <2>1 DEF LiveShiftInv
  <2>2. CASE b.running /\ LiveShort(q[1])
    <3>1. LiveTimely => b.haveShift
      BY <2>2 DEF LiveCastInv, LiveShiftInv, LiveShort
    <3> QED BY <3>1, LiveBeforeTail DEF LiveShiftInv, LiveCastInv
  <2> QED BY <2>1, <2>2
<1> QED BY <1>1, <1>2, <1>3, <1>4 DEF LiveCastInv

\* A sample that joins the part in the making.
LEMMA LiveAddBase ==
    ASSUME source \in LiveSources, NEW b \in LiveCasts, b.running,
           NEW q \in Seq(LiveQueued), q # <<>>, LiveCastInv(b, q), LiveTimely,
           NEW c, c = LiveAdd(b, q[1])
    PROVE  /\ c.haveShift /\ c.shift = source.lead
           /\ LiveVideo(q[1]) /\ b.part.frames = 0 => c.part.base = q[1].dts + source.lead
<1>1. /\ source.up /\ source.whole /\ LiveQueueInv(q) /\ LiveShiftInv(b, q)
      /\ source.lead \in {0, 1} /\ q[1] \in LiveQueued /\ q[1].dts \in Int /\ q[1].kind \in LiveKinds
  BY LiveTail DEF LiveCastInv, LiveTimely, LiveSources, LiveQueued
<1>2. c.haveShift /\ c.shift = LiveShift(b, q[1].dts)
  BY <1>1, LiveAddFacts, LiveAddBits
<1>3. c.shift = source.lead
  <2>1. CASE b.haveShift
    BY <1>1, <1>2, <2>1 DEF LiveShiftInv, LiveShift
  <2>2. CASE ~b.haveShift
    <3>1. q[1].dts = -source.lead
      BY <1>1, <2>2 DEF LiveShiftInv
    <3> QED BY <1>1, <1>2, <2>2, <3>1 DEF LiveShift
  <2> QED BY <2>1, <2>2
<1>4. LiveVideo(q[1]) /\ b.part.frames = 0 => c.part.base = q[1].dts + source.lead
  <2> SUFFICES ASSUME LiveVideo(q[1]), b.part.frames = 0 PROVE c.part.base = q[1].dts + source.lead
    OBVIOUS
  <2>1. c.part.base = LiveShifted(c.shift, q[1].dts)
    BY <1>1, LiveAddFacts
  <2>2. 0 <= q[1].dts + source.lead
    BY <1>1, LiveHeadFirst
  <2> QED BY <1>1, <1>3, <2>1, <2>2 DEF LiveShifted
<1> QED BY <1>2, <1>3, <1>4

LEMMA LiveAddFollows ==
    ASSUME source \in LiveSources, NEW b \in LiveCasts, b.running,
           NEW q \in Seq(LiveQueued), q # <<>>, LiveCastInv(b, q),
           NEW c, c = LiveAdd(b, q[1]), NEW s, LiveFollows(s, b, q)
    PROVE  LiveFollows(s, c, Tail(q))
<1>1. q[1] \in LiveQueued /\ c.seq = b.seq
  BY LiveTail, LiveAddFacts
<1>2. ASSUME s # <<>>, LiveTimely PROVE LiveBefore(LiveEnd(s[Len(s)]), c, Tail(q))
  <2> DEFINE x == LiveEnd(s[Len(s)])
  <2>1. LiveBefore(x, b, q)
    BY <1>2 DEF LiveFollows
  <2> HIDE DEF x
  <2>2. LiveAhead(x, q) /\ LiveAhead(x, Tail(q))
    BY <2>1, LiveBeforeTail DEF LiveBefore
  <2>3. c.part.frames > 0 => x <= c.part.base
    <3>1. CASE LiveVideo(q[1]) /\ b.part.frames = 0
      <4>1. c.part.base = q[1].dts + source.lead
        BY <1>2, <3>1, LiveAddBase
      <4>2. 1 \in 1..Len(q)
        BY LiveTail
      <4> QED BY <2>2, <3>1, <4>1, <4>2 DEF LiveAhead
    <3>2. CASE ~LiveVideo(q[1]) \/ b.part.frames # 0
      <4>1. c.part.base = b.part.base /\ (c.part.frames > 0 => b.part.frames > 0)
        <5>1. b.part.frames \in Nat
          BY DEF LiveCasts, LiveMaking
        <5> QED BY <1>1, <3>2, <5>1, LiveAddFacts
      <4> QED BY <2>1, <4>1 DEF LiveBefore
    <3> QED BY <3>1, <3>2
  <2> QED BY <2>2, <2>3 DEF LiveBefore, x
<1> QED BY <1>1, <1>2 DEF LiveFollows

LEMMA LiveAddKeeps ==
    ASSUME source \in LiveSources, NEW b \in LiveCasts, b.running,
           NEW q \in Seq(LiveQueued), q # <<>>, LiveCastInv(b, q), ~LiveShort(q[1]),
           NEW c, c = LiveAdd(b, q[1])
    PROVE  /\ c \in LiveCasts /\ c.running /\ c.seq = b.seq
           /\ LiveCastInv(c, Tail(q))
<1>1. /\ q[1] \in LiveQueued /\ b.part \in LiveMaking /\ b.part.frames \in Nat /\ b.seq \in Nat
      /\ LiveQueueInv(q) /\ LiveKeyInv(b, q) /\ LiveShiftInv(b, q) /\ source.up
  BY LiveTail DEF LiveCasts, LiveMaking, LiveCastInv
<1>2. /\ c \in LiveCasts
      /\ c.running = b.running /\ c.init = b.init /\ c.gop = b.gop
      /\ c.dropped = b.dropped /\ c.seq = b.seq
      /\ c.part.of = b.part.of \cup {q[1].of}
      /\ LiveVideo(q[1]) => c.part.frames = b.part.frames + 1
      /\ ~LiveVideo(q[1]) => c.part.frames = b.part.frames
      /\ ~LiveVideo(q[1]) \/ b.part.frames # 0 => c.part.base = b.part.base
  <2>1. q[1] \in LiveQueued
    BY <1>1
  <2>2. c \in LiveCasts /\ c.gop = b.gop /\ c.init = b.init /\ c.seq = b.seq
    BY <2>1, LiveAddFacts
  <2>3. c.dropped = b.dropped
    BY <2>1, LiveAddFacts
  <2>6. c.running = b.running
    BY <2>1, LiveAddFacts
  <2>4. c.part.of = b.part.of \cup {q[1].of}
    BY <2>1, LiveAddFacts
  <2>5. /\ LiveVideo(q[1]) => c.part.frames = b.part.frames + 1
        /\ ~LiveVideo(q[1]) => c.part.frames = b.part.frames
        /\ ~LiveVideo(q[1]) \/ b.part.frames # 0 => c.part.base = b.part.base
    BY <2>1, LiveAddFacts
  <2> QED BY <2>2, <2>3, <2>4, <2>5, <2>6
<1>7. ~LiveVideo(q[1]) \/ b.part.frames # 0 => (c.part.key <=> b.part.key)
  BY <1>1, LiveAddBits, Zenon
<1>8. ASSUME source.whole, c.part.of = {source.n}, c.part.frames # 0, c.part.key,
             c.gop = <<>> /\ ~c.dropped => c.seq = 0, c.gop # <<>> => c.gop[1].key
      PROVE  LiveKeyInv(c, Tail(q))
  <2>1. c.part.of \subseteq {source.n}
    BY <1>8
  <2> QED BY <1>8, <2>1, Zenon DEF LiveKeyInv
<1>3. LiveQueueInv(Tail(q))
  BY <1>1, LiveQueueTail
<1>4. LiveFollows(c.gop, c, Tail(q))
  BY <1>2, LiveAddFollows DEF LiveCastInv
<1>5. LiveKeyInv(c, Tail(q))
  <2> SUFFICES ASSUME source.whole PROVE LiveKeyInv(c, Tail(q))
    BY DEF LiveKeyInv
  <2>1. q[1].of = source.n
    <3>1. 1 \in 1..Len(q)
      BY LiveTail
    <3> QED BY <1>1, <3>1 DEF LiveQueueInv
  <2>2. /\ b.part.of \subseteq {source.n}
        /\ b.gop = <<>> /\ ~b.dropped => b.seq = 0
        /\ b.gop # <<>> => b.gop[1].key
    BY <1>1 DEF LiveKeyInv
  <2>3. c.part.of = {source.n}
    BY <1>2, <2>1, <2>2
  <2>4. CASE b.seq = 0 /\ b.part.frames > 0
    <3>1. b.part.key /\ b.part.frames # 0
      BY <1>1, <2>4 DEF LiveKeyInv
    <3>2. c.part.key
      BY <1>7, <3>1, Zenon
    <3>3. c.part.frames # 0
      BY <1>1, <1>2, <2>4
    <3>4. /\ c.gop = <<>> /\ ~c.dropped => c.seq = 0
          /\ c.gop # <<>> => c.gop[1].key
      BY <1>2, <2>2
    <3> QED BY <1>8, <2>3, <3>2, <3>3, <3>4, Zenon
  <2>5. CASE b.seq = 0 /\ b.part.frames = 0
    <3>1. LiveKeyAhead(q)
      BY <1>1, <2>5 DEF LiveKeyInv
    <3>2. CASE LiveVideo(q[1])
      <4>1. source.started
        <5>1. 1 \in 1..Len(q)
          BY LiveTail
        <5> QED BY <1>1, <3>2, <5>1 DEF LiveQueueInv
      <4>2. PICK j \in 1..Len(q) : q[j].kind = "key" /\ \A k \in 1..(j - 1) : q[k].kind = "audio"
        BY <3>1, <4>1 DEF LiveKeyAhead
      <4>3. j = 1 \/ 1 \in 1..(j - 1)
        BY LiveTail
      <4>4. q[1].kind = "key"
        BY <3>2, <4>2, <4>3 DEF LiveVideo
      <4>5. c.part.key
        BY <1>1, <2>5, <3>2, <4>4, LiveAddBits
      <4>6. c.part.frames # 0
        BY <1>1, <1>2, <3>2
      <4>7. /\ c.gop = <<>> /\ ~c.dropped => c.seq = 0
            /\ c.gop # <<>> => c.gop[1].key
        BY <1>2, <2>2
      <4> QED BY <1>8, <2>3, <4>5, <4>6, <4>7, Zenon
    <3>3. CASE ~LiveVideo(q[1])
      <4>1. c.part.frames = 0
        BY <1>2, <2>5, <3>3
      <4>2. LiveKeyAhead(Tail(q))
        <5> SUFFICES ASSUME source.started PROVE LiveKeyAhead(Tail(q))
          BY DEF LiveKeyAhead
        <5>1. PICK j \in 1..Len(q) : q[j].kind = "key" /\ \A k \in 1..(j - 1) : q[k].kind = "audio"
          BY <3>1 DEF LiveKeyAhead
        <5>2. j # 1
          BY <3>3, <5>1 DEF LiveVideo
        <5>3. j - 1 \in 1..Len(Tail(q)) /\ (j - 1) + 1 = j
          BY <5>2, LiveTail
        <5>4. Tail(q)[j - 1].kind = "key"
          BY <5>1, <5>3, LiveTail
        <5>5. \A k \in 1..((j - 1) - 1) : k + 1 \in 1..(j - 1) /\ k \in 1..Len(Tail(q))
          BY <5>3, LiveTail
        <5>6. \A k \in 1..((j - 1) - 1) : Tail(q)[k].kind = "audio"
          BY <5>1, <5>5, LiveTail
        <5> QED BY <5>3, <5>4, <5>6 DEF LiveKeyAhead
      <4> QED BY <1>2, <2>2, <2>3, <4>1, <4>2 DEF LiveKeyInv
    <3> QED BY <3>2, <3>3
  <2>6. CASE b.seq # 0
    BY <1>2, <2>2, <2>3, <2>6 DEF LiveKeyInv
  <2> QED BY <1>1, <2>4, <2>5, <2>6
<1>6. LiveShiftInv(c, Tail(q))
  <2> SUFFICES ASSUME LiveTimely PROVE LiveShiftInv(c, Tail(q))
    BY DEF LiveShiftInv
  <2>1. c.haveShift /\ c.shift = source.lead
    BY LiveAddBase
  <2>2. /\ c.part.span = b.part.span + q[1].span /\ b.part.span \in Nat /\ b.part.base \in Int
        /\ q[1].span \in {0, 1} /\ q[1].dts \in Int /\ source.lead \in {0, 1}
        /\ b.part.frames = 0 => b.part.span = 0
        /\ ~LiveVideo(q[1]) => q[1].span = 0
    <3>1. c.part.span = b.part.span + q[1].span
      BY <1>1, LiveAddFacts
    <3>2. ~LiveVideo(q[1]) => q[1].span = 0
      <4>1. 1 \in 1..Len(q)
        BY LiveTail
      <4> QED BY <1>1, <4>1 DEF LiveQueueInv, LiveOrdered
    <3>3. b.part.frames = 0 => b.part.span = 0
      BY <1>1 DEF LiveShiftInv
    <3> QED BY <1>1, <3>1, <3>2, <3>3 DEF LiveMaking, LiveQueued, LiveSources
  <2>3. CASE LiveVideo(q[1]) /\ b.part.frames = 0
    <3>1. c.part.base = q[1].dts + source.lead
      BY <2>3, LiveAddBase
    <3>2. LiveEnd(c.part) = q[1].dts + q[1].span + source.lead
      <4>1. LiveEnd(c.part) = (q[1].dts + source.lead) + (b.part.span + q[1].span)
        BY <2>2, <3>1 DEF LiveEnd
      <4>2. b.part.span = 0
        BY <2>2, <2>3
      <4> QED BY <2>2, <4>1, <4>2
    <3>3. 0 <= c.part.base /\ LiveAhead(LiveEnd(c.part), Tail(q)) /\ c.part.frames # 0
      BY <1>1, <1>2, <2>3, <3>1, <3>2, LiveHeadFirst
    <3> QED BY <2>1, <3>3 DEF LiveShiftInv
  <2>4. CASE LiveVideo(q[1]) /\ b.part.frames # 0
    <3>1. c.part.base = b.part.base /\ c.part.frames # 0 /\ b.part.frames > 0
      BY <1>1, <1>2, <2>4
    <3>2. 0 <= b.part.base /\ LiveAhead(LiveEnd(b.part), q)
      BY <1>1, <3>1 DEF LiveShiftInv
    <3>3. 1 \in 1..Len(q) /\ LiveAhead(q[1].dts + q[1].span + source.lead, Tail(q))
      BY <1>1, <2>4, LiveTail, LiveHeadFirst
    <3>4. LiveEnd(c.part) <= q[1].dts + q[1].span + source.lead
      BY <2>2, <2>4, <3>1, <3>2, <3>3 DEF LiveAhead, LiveEnd
    <3>5. LiveEnd(c.part) \in Int
      BY <2>2, <3>1 DEF LiveEnd
    <3>6. /\ source.clock \in Int /\ Tail(q) \in Seq(LiveQueued)
          /\ \A i \in 1..Len(Tail(q)) : Tail(q)[i].dts \in Int
      <4>1. Tail(q) \in Seq(LiveQueued)
        BY LiveTail
      <4>2. \A i \in 1..Len(Tail(q)) : Tail(q)[i] \in LiveQueued
        BY <4>1
      <4> QED BY <4>1, <4>2 DEF LiveSources, LiveQueued
    <3>7. LiveAhead(LiveEnd(c.part), Tail(q))
      BY <2>2, <3>3, <3>4, <3>5, <3>6 DEF LiveAhead
    <3> QED BY <2>1, <3>1, <3>2, <3>7 DEF LiveShiftInv
  <2>5. CASE ~LiveVideo(q[1])
    <3>1. c.part.base = b.part.base /\ c.part.frames = b.part.frames /\ c.part.span = b.part.span
      BY <1>2, <2>2, <2>5
    <3>2. LiveEnd(c.part) = LiveEnd(b.part)
      BY <3>1 DEF LiveEnd
    <3> QED BY <1>1, <2>1, <3>1, <3>2, LiveBeforeTail DEF LiveShiftInv
  <2> QED BY <2>3, <2>4, <2>5
<1> QED BY <1>2, <1>3, <1>4, <1>5, <1>6 DEF LiveCastInv

-----------------------------------------------------------------------------
(* The steps.                                                              *)

\* Where the source does not move, what was said of a broadcaster, a queue and a feed
\* still stands.
LEMMA LiveSame ==
    ASSUME source' = source, NEW c, c = bc', NEW r, r = submitCh'
    PROVE  /\ LiveCastInv(c, r) => LiveCastInv(bc, submitCh)'
           /\ \A s, n : LiveGood(s, n)' <=> LiveGood(s, n)
           /\ \A s : LiveFollows(s, c, r) => LiveFollows(s, bc, submitCh)'
<1>1. LiveTimely' = LiveTimely
  BY DEF LiveTimely
<1>2. \A s, n : LiveGood(s, n)' <=> LiveGood(s, n)
  BY <1>1 DEF LiveGood
<1>3. /\ \A x : LiveAhead(x, r) <=> LiveAhead(x, submitCh)'
      /\ \A x : LiveBefore(x, c, r) <=> LiveBefore(x, bc, submitCh)'
  BY DEF LiveAhead, LiveBefore
<1>4. \A s : LiveFollows(s, c, r) <=> LiveFollows(s, bc, submitCh)'
  BY <1>1, <1>2, <1>3 DEF LiveFollows
<1>5. LiveQueueInv(r) <=> LiveQueueInv(submitCh)'
  BY <1>1 DEF LiveQueueInv, LiveOrdered
<1>6. LiveKeyAhead(r) <=> LiveKeyAhead(submitCh)'
  BY DEF LiveKeyAhead
<1>7. LiveKeyInv(c, r) <=> LiveKeyInv(bc, submitCh)'
  BY <1>6 DEF LiveKeyInv
<1>8. LiveShiftInv(c, r) <=> LiveShiftInv(bc, submitCh)'
  BY <1>1, <1>3 DEF LiveShiftInv
<1>9. LiveCastInv(c, r) => LiveCastInv(bc, submitCh)'
  BY <1>4, <1>5, <1>7, <1>8 DEF LiveCastInv
<1> QED BY <1>2, <1>4, <1>9

LiveChained(b, q, first, full, m, p, w, o, c) ==
    /\ c \in LiveCasts /\ c.running /\ LiveCastInv(c, Tail(q))
    /\ first => p \in LiveParts
    /\ full => o \in LiveParts
    /\ source.whole /\ b.seq = 0 => /\ first => p.key
                                    /\ full /\ ~first => o.key
                                    /\ ~first /\ ~full => c.seq = 0
LiveContinued(b, q, first, full, m, p, w, o, c, f, g, h) ==
    LiveGood(f, source.n) /\ LiveGood(g, source.n) /\ LiveFollows(h, c, Tail(q))

\* What one sample does to the broadcaster, and to a feed that is sent all the parts it
\* completes: p before a keyframe, o when the part in the making is long enough.
LEMMA LiveWriteChain ==
    ASSUME LiveAssumption, source \in LiveSources, LiveSourceInv,
           NEW b \in LiveCasts, NEW q \in Seq(LiveQueued), q # <<>>, LiveCastInv(b, q),
           b.running, ~LiveShort(q[1]), b.part.frames \in Nat,
           NEW first \in BOOLEAN, NEW full \in BOOLEAN,
           first => b.part.frames > 0, full => LiveVideo(q[1]),
           NEW m, m = IF first THEN LiveFlush(b) ELSE b, NEW p, p = LivePartOf(b),
           NEW w, w = LiveAdd(m, q[1]), NEW o, o = LivePartOf(w),
           NEW c, c = IF full THEN LiveFlush(w) ELSE w
    PROVE  LiveChained(b, q, first, full, m, p, w, o, c)
<1>1. /\ m \in LiveCasts /\ LiveCastInv(m, q) /\ m.running /\ (first => p \in LiveParts)
      /\ ~first => m.seq = b.seq
  BY LiveFlushKeeps
<1>2. source.whole /\ b.seq = 0 /\ first => p.key
  BY LiveFlushKeeps, Zenon
<1>3. w \in LiveCasts /\ w.running /\ w.seq = m.seq /\ LiveCastInv(w, Tail(q))
  BY <1>1, LiveAddKeeps
<1>4. full => w.part.frames > 0
  BY <1>1, LiveTail, LiveAddCounts
<1>5. Tail(q) \in Seq(LiveQueued)
  BY LiveTail
<1>6. c \in LiveCasts /\ c.running /\ LiveCastInv(c, Tail(q)) /\ (full => o \in LiveParts)
  BY <1>3, <1>4, <1>5, LiveFlushKeeps
<1>7. source.whole /\ w.seq = 0 /\ full => o.key
  BY <1>3, <1>4, <1>5, LiveFlushKeeps, Zenon
<1>8. ~full => c.seq = w.seq
  OBVIOUS
<1>9. source.whole /\ b.seq = 0 => /\ first => p.key
                                   /\ full /\ ~first => o.key
                                   /\ ~first /\ ~full => c.seq = 0
  BY <1>1, <1>2, <1>3, <1>7, <1>8, Zenon
<1> QED BY <1>1, <1>6, <1>9, Zenon DEF LiveChained

LEMMA LiveWriteFeeds ==
    ASSUME LiveAssumption, source \in LiveSources, LiveSourceInv,
           NEW b \in LiveCasts, NEW q \in Seq(LiveQueued), q # <<>>, LiveCastInv(b, q),
           b.running, ~LiveShort(q[1]), b.part.frames \in Nat,
           NEW first \in BOOLEAN, NEW full \in BOOLEAN,
           first => b.part.frames > 0, full => LiveVideo(q[1]),
           NEW m, m = IF first THEN LiveFlush(b) ELSE b, NEW p, p = LivePartOf(b),
           NEW w, w = LiveAdd(m, q[1]), NEW o, o = LivePartOf(w),
           NEW c, c = IF full THEN LiveFlush(w) ELSE w,
           NEW f \in Seq(LiveParts), LiveFollows(f, b, q),
           NEW g, g = IF first THEN Append(f, p) ELSE f,
           NEW h, h = IF full THEN Append(g, o) ELSE g
    PROVE  LiveContinued(b, q, first, full, m, p, w, o, c, f, g, h)
<1>1. /\ m \in LiveCasts /\ LiveCastInv(m, q) /\ m.running /\ (first => p \in LiveParts)
  BY LiveFlushKeeps
<1>2. w \in LiveCasts /\ w.running /\ LiveCastInv(w, Tail(q))
  BY <1>1, LiveAddKeeps
<1>3. full => w.part.frames > 0
  BY <1>1, LiveTail, LiveAddCounts
<1>4. LiveFollows(g, m, q) /\ g \in Seq(LiveParts)
  <2>1. CASE first
    <3>1. LiveFollows(Append(f, p), LiveFlush(b), q)
      BY <2>1, LiveFlushFollows
    <3>2. Append(f, p) \in Seq(LiveParts)
      BY <1>1, <2>1
    <3> QED BY <2>1, <3>1, <3>2
  <2>2. CASE ~first
    BY <2>2
  <2> QED BY <2>1, <2>2
<1>5. LiveFollows(g, w, Tail(q))
  BY <1>1, <1>4, LiveAddFollows
<1>6. Tail(q) \in Seq(LiveQueued)
  BY LiveTail
<1>7. LiveFollows(h, c, Tail(q))
  <2>1. CASE full
    <3>1. w.part.frames > 0 /\ h = Append(g, o) /\ c = LiveFlush(w)
      BY <1>3, <2>1
    <3>2. PICK r \in Seq(LiveQueued) : r = Tail(q)
      BY <1>6
    <3>3. LiveCastInv(w, r) /\ LiveFollows(g, w, r)
      BY <1>2, <1>5, <3>2
    <3>4. LiveFollows(Append(g, o), c, r)
      BY <1>2, <1>4, <3>1, <3>3, LiveFlushFollows
    <3> QED BY <3>1, <3>2, <3>4
  <2>2. CASE ~full
    BY <1>5, <2>2
  <2> QED BY <2>1, <2>2
<1>8. LiveGood(f, source.n) /\ LiveGood(g, source.n)
  BY <1>4 DEF LiveFollows
<1> QED BY <1>7, <1>8 DEF LiveContinued

\* The parts of one sample: a has the one that a keyframe cut, if any, and d the one that
\* the sample filled, if any.  All are appended to a channel, or those there is room for.
LiveAllSent(ch, a, d) ==
    /\ a \o d \in Seq(LiveParts) /\ ch \o a \in Seq(LiveParts)
    /\ ch \o (a \o d) \in Seq(LiveParts)
    /\ ch \o (a \o d) = (ch \o a) \o d
    /\ Len(ch \o (a \o d)) = Len(ch) + Len(a \o d)

LiveSomeSent(ch, a, d, k) ==
    /\ ch \o SubSeq(a \o d, 1, k) \in {ch, ch \o a}
    /\ ch \o SubSeq(a \o d, 1, k) \in Seq(LiveParts)
    /\ Len(ch \o SubSeq(a \o d, 1, k)) = Len(ch) + k

LEMMA LiveSendsAll ==
    ASSUME NEW ch \in Seq(LiveParts), NEW a \in Seq(LiveParts), NEW d \in Seq(LiveParts)
    PROVE  LiveAllSent(ch, a, d)
<1>1. a \o d \in Seq(LiveParts) /\ ch \o a \in Seq(LiveParts)
  BY ConcatProperties
<1>2. ch \o (a \o d) \in Seq(LiveParts) /\ Len(ch \o (a \o d)) = Len(ch) + Len(a \o d)
  BY <1>1, ConcatProperties
<1>3. ch \o (a \o d) = (ch \o a) \o d
  BY ConcatAssociative
<1> QED BY <1>1, <1>2, <1>3 DEF LiveAllSent

LEMMA LiveSendsSome ==
    ASSUME NEW ch \in Seq(LiveParts), NEW a \in Seq(LiveParts), NEW d \in Seq(LiveParts),
           Len(a) <= 1, Len(d) <= 1, NEW k \in Nat, k < Len(a \o d)
    PROVE  LiveSomeSent(ch, a, d, k)
<1>1. Len(ch) \in Nat /\ Len(a) \in Nat /\ Len(d) \in Nat /\ Len(a \o d) = Len(a) + Len(d)
  BY ConcatProperties
<1>2. ch \o <<>> = ch
  BY ConcatEmptySeq
<1>3. CASE k = 0
  <2>1. SubSeq(a \o d, 1, k) = <<>>
    BY <1>3, SubSeqEmpty
  <2>2. Len(ch) = Len(ch) + k
    BY <1>1, <1>3
  <2> QED BY <1>2, <2>1, <2>2, Zenon DEF LiveSomeSent
<1>4. CASE k # 0
  <2>6. k < Len(a) + Len(d)
    BY <1>1
  <2>1. k = 1 /\ Len(a) = 1 /\ 1 \in 1..Len(a)
    <3>1. Len(a) \in Nat /\ Len(d) \in Nat
      OBVIOUS
    <3>2. \A x, y, z \in Nat : x <= 1 /\ y <= 1 /\ z < x + y /\ z # 0 => z = 1 /\ x = 1
      OBVIOUS
    <3>3. k = 1 /\ Len(a) = 1
      BY <1>4, <2>6, <3>1, <3>2, Zenon
    <3> QED BY <3>3
  <2>2. SubSeq(a \o d, 1, 1) = SubSeq(a, 1, 1)
    BY <2>1, SubSeqOfConcat1
  <2>3. SubSeq(a, 1, 1) = a
    <3>1. SubSeq(a, 1, Len(a)) = a
      BY SubSeqFull
    <3> QED BY <2>1, <3>1
  <2>4. ch \o SubSeq(a \o d, 1, k) = ch \o a
    BY <2>1, <2>2, <2>3
  <2>5. ch \o a \in Seq(LiveParts) /\ Len(ch \o a) = Len(ch) + k
    <3>1. ch \o a \in Seq(LiveParts) /\ Len(ch \o a) = Len(ch) + Len(a)
      BY ConcatProperties
    <3> QED BY <2>1, <3>1
  <2> QED BY <2>4, <2>5, Zenon DEF LiveSomeSent
<1> QED BY <1>3, <1>4

\* Fan-out, for one viewer.
LEMMA LiveFanned ==
    ASSUME LiveAssumption, LiveTyped, NEW parts \in Seq(LiveParts), LiveFanOut(parts),
           NEW v \in LiveViewers, Len(viewer[v].ch) <= LiveBehind
    PROVE  /\ subs' \subseteq subs
           /\ v \notin subs => viewer'[v] = viewer[v]
           /\ v \in subs' => /\ viewer'[v] = [viewer[v] EXCEPT !.ch = @ \o parts]
                             /\ Len(viewer[v].ch) + Len(parts) <= LiveBehind
           /\ v \in subs /\ v \notin subs' =>
                \E k \in Nat : /\ k < Len(parts) /\ Len(viewer[v].ch) + k <= LiveBehind
                               /\ viewer'[v] = [viewer[v] EXCEPT !.open = FALSE,
                                                                 !.ch = @ \o SubSeq(parts, 1, k)]
<1> DEFINE room(u) == LiveBehind - Len(viewer[u].ch)
           slow == {u \in subs : Len(parts) > room(u)}
<1>1. subs' = subs \ slow
  BY DEF LiveFanOut, LiveStays
<1>2. viewer' = [u \in LiveViewers |->
            IF u \in slow THEN [LiveCutOff(subs \ (subs \ slow))[u] EXCEPT !.ch = @ \o SubSeq(parts, 1, room(u))]
            ELSE IF u \in subs THEN [viewer[u] EXCEPT !.ch = @ \o parts]
            ELSE viewer[u]]
  BY DEF LiveFanOut, LiveStays
<1>3. viewer \in [LiveViewers -> LiveHandles] /\ viewer[v] \in LiveHandles /\ LiveBehind \in Nat
      /\ Len(viewer[v].ch) \in Nat /\ Len(parts) \in Nat
  <2>1. viewer \in [LiveViewers -> LiveHandles] /\ viewer[v] \in LiveHandles
    BY DEF LiveTyped
  <2>2. viewer[v].ch \in Seq(LiveParts)
    BY <2>1 DEF LiveHandles
  <2> QED BY <2>1, <2>2 DEF LiveAssumption
<1>4. CASE v \notin subs
  BY <1>1, <1>2, <1>4
<1>5. CASE v \in subs /\ v \notin slow
  <2>1. v \in subs' /\ viewer'[v] = [viewer[v] EXCEPT !.ch = @ \o parts]
    BY <1>1, <1>2, <1>5
  <2>2. Len(viewer[v].ch) + Len(parts) <= LiveBehind
    BY <1>3, <1>5
  <2> QED BY <1>1, <1>5, <2>1, <2>2
<1>6. CASE v \in slow
  <2>1. v \in subs /\ v \notin subs' /\ v \in subs \ (subs \ slow)
    BY <1>1, <1>6
  <2>2. room(v) \in Nat /\ room(v) < Len(parts) /\ Len(viewer[v].ch) + room(v) <= LiveBehind
    BY <1>3, <1>6
  <2>3. LiveCutOff(subs \ (subs \ slow))[v] = [viewer[v] EXCEPT !.open = FALSE]
    BY <2>1 DEF LiveCutOff
  <2>4. viewer'[v] = [[viewer[v] EXCEPT !.open = FALSE] EXCEPT !.ch = @ \o SubSeq(parts, 1, room(v))]
    BY <1>2, <1>6, <2>3
  <2>5. viewer'[v] = [viewer[v] EXCEPT !.open = FALSE, !.ch = @ \o SubSeq(parts, 1, room(v))]
    BY <2>4
  <2> QED BY <1>1, <2>1, <2>2, <2>5
<1> QED BY <1>1, <1>4, <1>5, <1>6

\* What a viewer has of the parts of one sample: w is its handler, and f becomes F.
LiveGiven(v, w, f, F, a, d) ==
    /\ subs' \subseteq subs
    /\ v \notin subs => w = viewer[v] /\ F = f
    /\ w \in LiveHandles /\ Len(w.ch) <= LiveBehind
    /\ w.pc = viewer[v].pc /\ w.init = viewer[v].init /\ w.dry = viewer[v].dry
    /\ w.last = viewer[v].last /\ w.todo = viewer[v].todo
    /\ v \in subs' => w.open = viewer[v].open /\ F = (f \o a) \o d
    /\ v \in subs /\ v \notin subs' => w.open = FALSE /\ F \in {f, f \o a}

LiveTold(v, w, a, d) ==
    /\ subs' \subseteq subs
    /\ v \notin subs => w = viewer[v]
    /\ w \in LiveHandles /\ Len(w.ch) <= LiveBehind
    /\ w.pc = viewer[v].pc /\ w.init = viewer[v].init /\ w.dry = viewer[v].dry
    /\ w.last = viewer[v].last /\ w.todo = viewer[v].todo
    /\ v \in subs' => w.open = viewer[v].open /\ w.ch = (viewer[v].ch \o a) \o d
    /\ v \in subs /\ v \notin subs' =>
         w.open = FALSE /\ w.ch \in {viewer[v].ch, viewer[v].ch \o a}

LEMMA LiveFannedFeed ==
    ASSUME LiveAssumption, LiveTyped, NEW a \in Seq(LiveParts), NEW d \in Seq(LiveParts),
           Len(a) <= 1, Len(d) <= 1, LiveFanOut(a \o d),
           NEW v \in LiveViewers, Len(viewer[v].ch) <= LiveBehind, NEW w, w = viewer'[v]
    PROVE  LiveTold(v, w, a, d)
<1>1. PICK u \in LiveHandles : u = viewer[v]
  BY DEF LiveTyped
<1>2. PICK ch \in Seq(LiveParts) : ch = u.ch
  BY DEF LiveHandles
<1>0. LiveAllSent(ch, a, d)
  BY LiveSendsAll
<1>3. PICK parts \in Seq(LiveParts) : parts = a \o d
  BY <1>0 DEF LiveAllSent
<1>4. /\ subs' \subseteq subs
      /\ v \notin subs => w = u
      /\ v \in subs' => /\ w = [u EXCEPT !.ch = ch \o parts]
                        /\ Len(ch) + Len(parts) <= LiveBehind
      /\ v \in subs /\ v \notin subs' =>
           \E k \in Nat : /\ k < Len(parts) /\ Len(ch) + k <= LiveBehind
                          /\ w = [u EXCEPT !.open = FALSE, !.ch = ch \o SubSeq(parts, 1, k)]
  <2>1. LiveFanOut(parts)
    BY <1>3, Zenon
  <2>2. /\ subs' \subseteq subs
        /\ v \notin subs => viewer'[v] = viewer[v]
        /\ v \in subs' => /\ viewer'[v] = [viewer[v] EXCEPT !.ch = @ \o parts]
                          /\ Len(viewer[v].ch) + Len(parts) <= LiveBehind
        /\ v \in subs /\ v \notin subs' =>
             \E k \in Nat : /\ k < Len(parts) /\ Len(viewer[v].ch) + k <= LiveBehind
                            /\ viewer'[v] = [viewer[v] EXCEPT !.open = FALSE,
                                                              !.ch = @ \o SubSeq(parts, 1, k)]
    BY <2>1, LiveFanned
  <2> QED BY <1>1, <1>2, <2>2
<1>5. Len(u.ch) <= LiveBehind
  BY <1>1
<1>6. CASE v \notin subs
  <2>1. w = u /\ v \notin subs'
    BY <1>4, <1>6
  <2> QED BY <1>1, <1>4, <1>5, <1>6, <2>1 DEF LiveTold
<1>7. CASE v \in subs'
  <2>1. PICK x \in Seq(LiveParts) : x = ch \o parts
    BY <1>0, <1>3, Zenon DEF LiveAllSent
  <2>2. x = (ch \o a) \o d /\ Len(x) = Len(ch) + Len(parts)
    <3>1. x = ch \o (a \o d) /\ Len(parts) = Len(a \o d)
      BY <1>3, <2>1, Zenon
    <3>2. ch \o (a \o d) = (ch \o a) \o d /\ Len(ch \o (a \o d)) = Len(ch) + Len(a \o d)
      BY <1>0, Zenon DEF LiveAllSent
    <3> QED BY <3>1, <3>2, Zenon
  <2>3. w = [u EXCEPT !.ch = x] /\ Len(x) <= LiveBehind /\ v \in subs
    BY <1>4, <1>7, <2>1, <2>2
  <2>4. /\ w \in LiveHandles /\ w.ch = x /\ w.open = u.open
        /\ w.pc = u.pc /\ w.init = u.init /\ w.dry = u.dry /\ w.last = u.last /\ w.todo = u.todo
    BY <2>3 DEF LiveHandles
  <2> QED BY <1>1, <1>2, <1>4, <1>7, <2>2, <2>3, <2>4 DEF LiveTold
<1>8. CASE v \in subs /\ v \notin subs'
  <2>1. PICK k \in Nat : /\ k < Len(parts) /\ Len(ch) + k <= LiveBehind
                         /\ w = [u EXCEPT !.open = FALSE, !.ch = ch \o SubSeq(parts, 1, k)]
    BY <1>4, <1>8
  <2>2. PICK z : z = ch \o SubSeq(parts, 1, k)
    OBVIOUS
  <2>3. z \in {ch, ch \o a} /\ z \in Seq(LiveParts) /\ Len(z) = Len(ch) + k
    <3>1. k < Len(a \o d) /\ z = ch \o SubSeq(a \o d, 1, k)
      BY <1>3, <2>1, <2>2, Zenon
    <3>2. LiveSomeSent(ch, a, d, k)
      BY <3>1, LiveSendsSome
    <3> QED BY <3>1, <3>2, Zenon DEF LiveSomeSent
  <2>4. w = [u EXCEPT !.open = FALSE, !.ch = z]
    BY <2>1, <2>2
  <2>5. /\ w \in LiveHandles /\ w.ch = z /\ w.open = FALSE
        /\ w.pc = u.pc /\ w.init = u.init /\ w.dry = u.dry /\ w.last = u.last /\ w.todo = u.todo
    BY <2>3, <2>4 DEF LiveHandles
  <2> QED BY <1>1, <1>2, <1>4, <1>8, <2>1, <2>3, <2>5 DEF LiveTold
<1> QED BY <1>6, <1>7, <1>8

LiveGrows(x, ch, a, d) ==
    /\ x \o ch \in Seq(LiveParts)
    /\ x \o (ch \o a) = (x \o ch) \o a
    /\ x \o ((ch \o a) \o d) = ((x \o ch) \o a) \o d

LEMMA LiveFeedGrows ==
    ASSUME NEW x \in Seq(LiveParts), NEW ch \in Seq(LiveParts), NEW a \in Seq(LiveParts),
           NEW d \in Seq(LiveParts)
    PROVE  LiveGrows(x, ch, a, d)
<1>1. x \o ch \in Seq(LiveParts) /\ ch \o a \in Seq(LiveParts)
  BY ConcatProperties
<1>2. x \o (ch \o a) = (x \o ch) \o a
  BY ConcatAssociative
<1>3. x \o ((ch \o a) \o d) = (x \o (ch \o a)) \o d
  BY <1>1, ConcatAssociative
<1>4. x \o ((ch \o a) \o d) = ((x \o ch) \o a) \o d
  BY <1>2, <1>3, Zenon
<1> QED BY <1>1, <1>2, <1>4, Zenon DEF LiveGrows

LEMMA LiveFannedGiven ==
    ASSUME LiveAssumption, LiveTyped, NEW a \in Seq(LiveParts), NEW d \in Seq(LiveParts),
           Len(a) <= 1, Len(d) <= 1, LiveFanOut(a \o d),
           NEW v \in LiveViewers, Len(viewer[v].ch) <= LiveBehind,
           NEW w, w = viewer'[v], NEW f, f = LiveFeed(v),
           NEW F, F = w.last \o w.todo \o w.ch
    PROVE  LiveGiven(v, w, f, F, a, d) /\ f \in Seq(LiveParts)
<1>1. /\ subs' \subseteq subs
      /\ v \notin subs => w = viewer[v]
      /\ w \in LiveHandles /\ Len(w.ch) <= LiveBehind
      /\ w.pc = viewer[v].pc /\ w.init = viewer[v].init /\ w.dry = viewer[v].dry
      /\ w.last = viewer[v].last /\ w.todo = viewer[v].todo
      /\ v \in subs' => w.open = viewer[v].open /\ w.ch = (viewer[v].ch \o a) \o d
      /\ v \in subs /\ v \notin subs' =>
           w.open = FALSE /\ w.ch \in {viewer[v].ch, viewer[v].ch \o a}
  <2>1. LiveTold(v, w, a, d)
    BY LiveFannedFeed
  <2> QED BY <2>1 DEF LiveTold
<1>2. PICK x \in Seq(LiveParts), ch \in Seq(LiveParts) :
        x = viewer[v].last \o viewer[v].todo /\ ch = viewer[v].ch
  BY ConcatProperties DEF LiveTyped, LiveHandles
<1>3. f = x \o ch /\ F = x \o w.ch
  BY <1>1, <1>2 DEF LiveFeed
<1>4. /\ x \o ch \in Seq(LiveParts)
      /\ x \o (ch \o a) = (x \o ch) \o a
      /\ x \o ((ch \o a) \o d) = ((x \o ch) \o a) \o d
  <2>1. LiveGrows(x, ch, a, d)
    BY LiveFeedGrows
  <2> QED BY <2>1 DEF LiveGrows
<1>5. v \notin subs => F = f
  BY <1>1, <1>2, <1>3
<1>6. v \in subs' => F = (f \o a) \o d
  BY <1>1, <1>2, <1>3, <1>4
<1>7. v \in subs /\ v \notin subs' => F \in {f, f \o a}
  BY <1>1, <1>2, <1>3, <1>4
<1> QED BY <1>1, <1>3, <1>4, <1>5, <1>6, <1>7 DEF LiveGiven

\* The parts a and d continue a feed, and the first of them starts with a keyframe when it
\* is the session's first.
LiveCarries(a, d, c, r) ==
    /\ bc.running /\ c.running
    /\ \A f \in Seq(LiveParts) : LiveFollows(f, bc, submitCh) =>
         /\ LiveGood(f, source.n) /\ LiveGood(f \o a, source.n)
         /\ LiveFollows((f \o a) \o d, c, r)
    /\ source.whole /\ bc.seq = 0 => /\ a # <<>> => a[1].key
                                     /\ a = <<>> /\ d # <<>> => d[1].key
                                     /\ a = <<>> /\ d = <<>> => c.seq = 0

\* A viewer, when a sample has been written: a and d are the parts it completed.
LEMMA LiveWriteViewer ==
    ASSUME NEW a \in Seq(LiveParts), NEW d \in Seq(LiveParts), source' = source,
           NEW c, c = bc', NEW r, r = submitCh', LiveCarries(a, d, c, r),
           NEW v \in LiveViewers, LiveViewerInv(v),
           NEW w, w = viewer'[v], NEW f \in Seq(LiveParts), f = LiveFeed(v),
           NEW F, F = w.last \o w.todo \o w.ch, LiveGiven(v, w, f, F, a, d)
    PROVE  LiveViewerInv(v)'
<1>4. /\ subs' \subseteq subs
      /\ v \notin subs => w = viewer[v]
      /\ w \in LiveHandles /\ Len(w.ch) <= LiveBehind
      /\ w.pc = viewer[v].pc /\ w.init = viewer[v].init /\ w.dry = viewer[v].dry
      /\ w.last = viewer[v].last /\ w.todo = viewer[v].todo
      /\ v \in subs' => w.open = viewer[v].open
      /\ v \in subs /\ v \notin subs' => w.open = FALSE
  BY DEF LiveGiven
<1>5. /\ v \notin subs => F = f
      /\ v \in subs' => F = (f \o a) \o d
      /\ v \in subs /\ v \notin subs' => F \in {f, f \o a}
  BY DEF LiveGiven
<1>6. v \in subs' <=> w.open
  <2>1. v \in subs <=> viewer[v].open
    BY DEF LiveViewerInv
  <2>2. CASE v \notin subs
    <3>1. ~viewer[v].open /\ v \notin subs'
      BY <1>4, <2>1, <2>2
    <3> QED BY <1>4, <2>2, <3>1, Zenon
  <2>3. CASE v \in subs'
    <3>1. viewer[v].open
      BY <1>4, <2>1, <2>3
    <3> QED BY <1>4, <2>3, <3>1, Zenon
  <2>4. CASE v \in subs /\ v \notin subs'
    BY <1>4, <2>4
  <2> QED BY <2>2, <2>3, <2>4
<1>7. w.pc = "idle" => w = LiveNoViewer
  <2> SUFFICES ASSUME w.pc = "idle" PROVE w = LiveNoViewer
    OBVIOUS
  <2>1. viewer[v] = LiveNoViewer
    BY <1>4 DEF LiveViewerInv
  <2>2. v \notin subs
    BY <2>1 DEF LiveViewerInv, LiveNoViewer
  <2> QED BY <1>4, <2>1, <2>2
<1>8. v \in subs => /\ viewer[v].init = source.n /\ LiveFollows(f, bc, submitCh)
                    /\ LiveGood(f, source.n) /\ LiveGood(f \o a, source.n)
                    /\ LiveFollows((f \o a) \o d, c, r)
  BY <1>5 DEF LiveViewerInv, LiveCarries
<1>9. LiveGood(F, w.init) /\ w.init <= source.n
  <2>1. viewer[v].init <= source.n /\ LiveGood(f, viewer[v].init)
    BY DEF LiveViewerInv
  <2>2. CASE v \notin subs
    BY <1>4, <1>5, <2>1, <2>2
  <2>3. CASE v \in subs'
    BY <1>4, <1>5, <1>8, <2>1, <2>3 DEF LiveFollows
  <2>4. CASE v \in subs /\ v \notin subs'
    BY <1>4, <1>5, <1>8, <2>1, <2>4
  <2> QED BY <2>2, <2>3, <2>4
<1>10. v \in subs' => c.running /\ w.init = source.n /\ LiveFollows(F, c, r)
  BY <1>4, <1>5, <1>8 DEF LiveCarries
<1>11. ASSUME w.pc = "prelude", w.init = source.n /\ source.whole, ~w.dry, w.last = <<>>
       PROVE  /\ F # <<>> => F[1].key
              /\ F = <<>> /\ v \in subs' => c.seq = 0
  <2>1. /\ f # <<>> => f[1].key
        /\ f = <<>> /\ v \in subs => bc.seq = 0
    BY <1>4, <1>11 DEF LiveViewerInv, LiveIntact
  <2>2. CASE v \notin subs
    BY <1>4, <1>5, <2>1, <2>2
  <2>3. CASE v \in subs /\ f # <<>>
    <3>1. \A x, y \in Seq(LiveParts) : x # <<>> =>
             x \o y \in Seq(LiveParts) /\ (x \o y)[1] = x[1] /\ x \o y # <<>>
      <4> SUFFICES ASSUME NEW x \in Seq(LiveParts), NEW y \in Seq(LiveParts), x # <<>>
                   PROVE  x \o y \in Seq(LiveParts) /\ (x \o y)[1] = x[1] /\ x \o y # <<>>
        OBVIOUS
      <4>1. Len(x) \in Nat /\ Len(x) >= 1 /\ Len(y) \in Nat /\ 1 \in 1..(Len(x) + Len(y))
        OBVIOUS
      <4>2. x \o y \in Seq(LiveParts) /\ (x \o y)[1] = x[1]
        BY <4>1, ConcatProperties
      <4>3. x \o y # <<>>
        BY ConcatEqualIffEmpty
      <4> QED BY <4>2, <4>3
    <3>2. f \o a \in Seq(LiveParts) /\ (f \o a)[1] = f[1] /\ f \o a # <<>>
      BY <1>5, <2>3, <3>1
    <3>3. ((f \o a) \o d)[1] = f[1] /\ (f \o a) \o d # <<>>
      BY <3>1, <3>2
    <3>4. F[1] = f[1] /\ F # <<>>
      BY <1>4, <1>5, <2>3, <3>2, <3>3
    <3> QED BY <2>1, <2>3, <3>4, Zenon
  <2>4. CASE v \in subs /\ f = <<>>
    <3>1. f \o a = a /\ a \o <<>> = a /\ <<>> \o d = d
      BY <2>4, ConcatEmptySeq
    <3>2. /\ a # <<>> => a[1].key
          /\ a = <<>> /\ d # <<>> => d[1].key
          /\ a = <<>> /\ d = <<>> => c.seq = 0
      BY <1>11, <2>1, <2>4 DEF LiveCarries
    <3>3. F = a \o d \/ (F = <<>> /\ v \notin subs') \/ (F = a /\ v \notin subs')
      BY <1>4, <1>5, <2>4, <3>1
    <3>4. CASE a = <<>>
      <4>1. F = d \/ (F = <<>> /\ v \notin subs')
        BY <3>1, <3>3, <3>4
      <4> QED BY <3>2, <3>4, <4>1
    <3>5. CASE a # <<>>
      <4>1. Len(a) \in Nat /\ Len(a) >= 1 /\ Len(d) \in Nat /\ 1 \in 1..(Len(a) + Len(d))
        BY <3>5
      <4>2. (a \o d)[1] = a[1] /\ a \o d # <<>>
        BY <3>5, <4>1, ConcatProperties, ConcatEqualIffEmpty
      <4>3. F # <<>> => F[1] = a[1]
        BY <3>3, <4>2
      <4>4. ~(F = <<>> /\ v \in subs')
        BY <3>3, <4>2
      <4> QED BY <3>2, <3>5, <4>3, <4>4, Zenon
    <3> QED BY <3>4, <3>5
  <2> QED BY <2>2, <2>3, <2>4
<1>12. w.pc = "stream" => w.todo = <<>>
  BY <1>4 DEF LiveViewerInv
<1>13. Len(w.last) <= 1 /\ Len(w.ch) <= LiveBehind
  BY <1>4 DEF LiveViewerInv
<1>14. LiveGood(F, w.init)' /\ w.init <= source.n' /\ (v \in subs' => w.init = source.n')
  BY <1>9, <1>10, LiveSame
<1>15. v \in subs' => LiveFollows(F, bc, submitCh)'
  BY <1>10, LiveSame
<1> QED BY <1>4, <1>6, <1>7, <1>10, <1>11, <1>12, <1>13, <1>14, <1>15
        DEF LiveViewerInv, LiveFeed, LiveIntact

LiveWrote(first, full, m, p, w, o, c, a, d) ==
    /\ a \in Seq(LiveParts) /\ d \in Seq(LiveParts) /\ Len(a) <= 1 /\ Len(d) <= 1
    /\ c \in LiveCasts /\ LiveCastInv(c, Tail(submitCh))
    /\ LiveCarries(a, d, c, Tail(submitCh))

\* What writeSample makes of the broadcaster, and of the feeds it extends.
LEMMA LiveWriteCarries ==
    ASSUME LiveAssumption, LiveTyped, LiveSourceInv, LiveCastInv(bc, submitCh), bc.running,
           submitCh # <<>>, ~LiveShort(submitCh[1]),
           NEW first \in BOOLEAN, first = LiveBoundary(submitCh[1]),
           NEW full \in BOOLEAN, full => LiveVideo(submitCh[1]),
           NEW m, m = IF first THEN LiveFlush(bc) ELSE bc, NEW p, p = LivePartOf(bc),
           NEW w, w = LiveAdd(m, submitCh[1]), NEW o, o = LivePartOf(w),
           NEW c, c = IF full THEN LiveFlush(w) ELSE w,
           NEW a, a = IF first THEN <<p>> ELSE <<>>, NEW d, d = IF full THEN <<o>> ELSE <<>>
    PROVE  LiveWrote(first, full, m, p, w, o, c, a, d)
<1>1. PICK b \in LiveCasts, q \in Seq(LiveQueued) : b = bc /\ q = submitCh
  BY DEF LiveTyped
<1>2. /\ source \in LiveSources /\ q # <<>> /\ LiveCastInv(b, q) /\ b.running
      /\ ~LiveShort(q[1]) /\ b.part.frames \in Nat
  BY <1>1 DEF LiveTyped, LiveCasts, LiveMaking
<1>3. first => b.part.frames > 0
  BY <1>1 DEF LiveBoundary
<1>4. LiveChained(b, q, first, full, m, p, w, o, c)
  BY <1>1, <1>2, <1>3, LiveWriteChain
<1>5. /\ c \in LiveCasts /\ c.running /\ LiveCastInv(c, Tail(q))
      /\ first => p \in LiveParts
      /\ full => o \in LiveParts
  BY <1>4 DEF LiveChained
<1>6. /\ a \in Seq(LiveParts) /\ d \in Seq(LiveParts) /\ Len(a) <= 1 /\ Len(d) <= 1
  BY <1>5
<1>7. ASSUME NEW f \in Seq(LiveParts), LiveFollows(f, b, q)
      PROVE  /\ LiveGood(f, source.n) /\ LiveGood(f \o a, source.n)
             /\ LiveFollows((f \o a) \o d, c, Tail(q))
  <2>1. PICK g : g = IF first THEN Append(f, p) ELSE f
    OBVIOUS
  <2>2. PICK h : h = IF full THEN Append(g, o) ELSE g
    OBVIOUS
  <2>3. LiveContinued(b, q, first, full, m, p, w, o, c, f, g, h)
    BY <1>1, <1>2, <1>3, <1>7, <2>1, <2>2, LiveWriteFeeds
  <2>4. \A z \in Seq(LiveParts) : /\ z \o <<>> = z
                                  /\ \A x \in LiveParts : /\ z \o <<x>> = Append(z, x)
                                                          /\ Append(z, x) \in Seq(LiveParts)
    OBVIOUS
  <2>5. g = f \o a /\ g \in Seq(LiveParts)
    BY <1>5, <2>1, <2>4
  <2>6. h = g \o d
    BY <1>5, <2>2, <2>4, <2>5
  <2> QED BY <2>3, <2>5, <2>6 DEF LiveContinued
<1>8. source.whole /\ bc.seq = 0 => /\ a # <<>> => a[1].key
                                    /\ a = <<>> /\ d # <<>> => d[1].key
                                    /\ a = <<>> /\ d = <<>> => c.seq = 0
  <2> SUFFICES ASSUME source.whole, bc.seq = 0
               PROVE  /\ a # <<>> => a[1].key
                      /\ a = <<>> /\ d # <<>> => d[1].key
                      /\ a = <<>> /\ d = <<>> => c.seq = 0
    OBVIOUS
  <2>1. /\ first => p.key
        /\ full /\ ~first => o.key
        /\ ~first /\ ~full => c.seq = 0
    BY <1>1, <1>4 DEF LiveChained
  <2>2. /\ a # <<>> => first /\ a[1] = p
        /\ d # <<>> => full /\ d[1] = o
        /\ a = <<>> => ~first
        /\ d = <<>> => ~full
    OBVIOUS
  <2> QED BY <2>1, <2>2, Zenon
<1> QED BY <1>1, <1>5, <1>6, <1>7, <1>8 DEF LiveCarries, LiveWrote

\* A step that leaves a viewer's handler and the source alone, and does not break off its feed.
LEMMA LiveViewerStays ==
    ASSUME source' = source, NEW v \in LiveViewers, LiveViewerInv(v), viewer'[v] = viewer[v],
           v \in subs' <=> v \in subs,
           NEW c, c = bc', NEW r, r = submitCh', c.running = bc.running, c.seq = bc.seq,
           NEW f, f = LiveFeed(v), LiveFollows(f, bc, submitCh) => LiveFollows(f, c, r)
    PROVE  LiveViewerInv(v)'
<1>1. LiveGood(f, viewer[v].init)' /\ (v \in subs => LiveFollows(f, bc, submitCh)')
  BY LiveSame DEF LiveViewerInv
<1> QED BY <1>1 DEF LiveViewerInv, LiveFeed, LiveIntact

LEMMA LiveSkippedKeeps ==
    ASSUME LiveInv, LiveWriteSample, LiveSkips(Head(submitCh)) PROVE LiveInv'
<1>1. PICK q \in Seq(LiveQueued) : q = submitCh
  BY DEF LiveInv, LiveTyped
<1>2. PICK r \in Seq(LiveQueued) : r = submitCh' /\ r = Tail(q)
  BY <1>1, LiveTail DEF LiveWriteSample
<1>3. /\ q # <<>> /\ UNCHANGED <<source, bc, subs, viewer>> /\ bc \in LiveCasts /\ LiveCastInv(bc, q)
      /\ ~bc.running \/ LiveShort(q[1])
  <2>1. q # <<>> /\ Head(q) = q[1]
    BY <1>1, LiveTail DEF LiveWriteSample
  <2> QED BY <1>1, <2>1 DEF LiveWriteSample, LiveSkips, LiveInv, LiveTyped
<1>4. PICK c : c = bc'
  OBVIOUS
<1>5. /\ LiveCastInv(c, r)
      /\ \A s : LiveFollows(s, bc, q) => LiveFollows(s, c, r)
  BY <1>2, <1>3, <1>4, LiveSkipKeeps
<1>6. LiveCastInv(bc, submitCh)'
  BY <1>2, <1>3, <1>4, <1>5, LiveSame
<1>7. ASSUME NEW v \in LiveViewers PROVE LiveViewerInv(v)'
  <2>1. LiveViewerInv(v) /\ viewer'[v] = viewer[v] /\ (v \in subs' <=> v \in subs)
        /\ c.running = bc.running /\ c.seq = bc.seq /\ source' = source
    BY <1>3, <1>4 DEF LiveInv
  <2>2. PICK f : f = LiveFeed(v)
    OBVIOUS
  <2>3. LiveFollows(f, bc, submitCh) => LiveFollows(f, c, r)
    BY <1>1, <1>5
  <2> QED BY <1>2, <1>4, <2>1, <2>2, <2>3, LiveViewerStays
<1>8. LiveTyped' /\ LiveSourceInv'
  BY <1>2, <1>3 DEF LiveInv, LiveTyped, LiveSourceInv
<1> QED BY <1>6, <1>7, <1>8 DEF LiveInv

LEMMA LiveWrittenKeeps ==
    ASSUME LiveAssumption, LiveInv, LiveWriteSample, ~LiveSkips(Head(submitCh)) PROVE LiveInv'
<1>1. PICK s : s = submitCh[1]
  OBVIOUS
<1>2. /\ submitCh # <<>> /\ s = Head(submitCh) /\ submitCh' = Tail(submitCh) /\ source' = source
      /\ bc.running /\ ~LiveShort(s) /\ submitCh' \in Seq(LiveQueued)
  <2>1. submitCh \in Seq(LiveQueued) /\ submitCh # <<>>
    BY DEF LiveInv, LiveTyped, LiveWriteSample
  <2> QED BY <1>1, <2>1, LiveTail DEF LiveWriteSample, LiveSkips
<1>3. PICK first \in BOOLEAN : first = LiveBoundary(s)
  BY DEF LiveBoundary
<1>4. PICK m : m = IF first THEN LiveFlush(bc) ELSE bc
  OBVIOUS
<1>5. PICK p : p = LivePartOf(bc)
  OBVIOUS
<1>6. PICK w : w = LiveAdd(m, s)
  OBVIOUS
<1>7. PICK o : o = LivePartOf(w)
  OBVIOUS
<1>8. PICK full \in BOOLEAN : full = (LiveVideo(s) /\ w.part.span >= LivePartLength)
  BY DEF LiveVideo
<1>9. PICK c : c = IF full THEN LiveFlush(w) ELSE w
  OBVIOUS
<1>10. PICK a : a = IF first THEN <<p>> ELSE <<>>
  OBVIOUS
<1>11. PICK d : d = IF full THEN <<o>> ELSE <<>>
  OBVIOUS
<1>12. /\ a \in Seq(LiveParts) /\ d \in Seq(LiveParts) /\ Len(a) <= 1 /\ Len(d) <= 1
       /\ c \in LiveCasts /\ LiveCastInv(c, Tail(submitCh))
       /\ LiveCarries(a, d, c, Tail(submitCh))
  <2>1. full => LiveVideo(submitCh[1])
    BY <1>1, <1>8
  <2>2. LiveTyped /\ LiveSourceInv /\ LiveCastInv(bc, submitCh)
    BY DEF LiveInv
  <2>3. LiveWrote(first, full, m, p, w, o, c, a, d)
    BY <1>1, <1>2, <1>3, <1>4, <1>5, <1>6, <1>7, <1>9, <1>10, <1>11, <2>1, <2>2, LiveWriteCarries
  <2> QED BY <2>3 DEF LiveWrote
<1>13. c = bc' /\ LiveFanOut(a \o d)
  BY <1>2, <1>3, <1>4, <1>5, <1>6, <1>7, <1>8, <1>9, <1>10, <1>11, Zenon DEF LiveWriteSample
<1>14. LiveCastInv(bc, submitCh)'
  BY <1>2, <1>12, <1>13, LiveSame
<1>15. ASSUME NEW v \in LiveViewers PROVE LiveViewerInv(v)' /\ viewer'[v] \in LiveHandles
  <2>1. LiveTyped /\ LiveViewerInv(v) /\ Len(viewer[v].ch) <= LiveBehind
    BY DEF LiveInv, LiveViewerInv
  <2>2. PICK u : u = viewer'[v]
    OBVIOUS
  <2>3. PICK f : f = LiveFeed(v)
    OBVIOUS
  <2>4. PICK F : F = u.last \o u.todo \o u.ch
    OBVIOUS
  <2>5. LiveGiven(v, u, f, F, a, d) /\ f \in Seq(LiveParts)
    BY <1>12, <1>13, <2>1, <2>2, <2>3, <2>4, LiveFannedGiven
  <2>6. u \in LiveHandles
    BY <2>5 DEF LiveGiven
  <2>7. PICK r : r = submitCh' /\ LiveCarries(a, d, c, r)
    BY <1>2, <1>12
  <2>8. LiveViewerInv(v)'
    BY <1>2, <1>12, <1>13, <2>1, <2>2, <2>3, <2>4, <2>5, <2>7, LiveWriteViewer
  <2> QED BY <2>2, <2>6, <2>8
<1>16. subs' \subseteq subs /\ viewer' = [v \in LiveViewers |-> viewer'[v]]
  BY <1>13 DEF LiveFanOut, LiveStays
<1>17. viewer' \in [LiveViewers -> LiveHandles]
  BY <1>15, <1>16
<1>18. LiveTyped' /\ LiveSourceInv'
  BY <1>2, <1>12, <1>13, <1>16, <1>17 DEF LiveInv, LiveTyped, LiveSourceInv
<1> QED BY <1>14, <1>15, <1>18 DEF LiveInv

\* A step of one viewer leaves the others as they were.
LEMMA LiveViewersOnly ==
    ASSUME LiveInv, UNCHANGED <<source, submitCh, bc>>, NEW v \in LiveViewers,
           NEW w \in LiveHandles, viewer' = [viewer EXCEPT ![v] = w], subs' \subseteq LiveViewers,
           \A u \in LiveViewers : u # v => (u \in subs' <=> u \in subs),
           LiveViewerInv(v)'
    PROVE  LiveInv'
<1>1. LiveTyped' /\ LiveSourceInv'
  BY DEF LiveInv, LiveTyped, LiveSourceInv
<1>2. LiveCastInv(bc, submitCh)'
  <2>1. PICK c : c = bc'
    OBVIOUS
  <2>2. PICK r : r = submitCh'
    OBVIOUS
  <2>3. LiveCastInv(c, r)
    BY <2>1, <2>2 DEF LiveInv
  <2> QED BY <2>1, <2>2, <2>3, LiveSame
<1>3. ASSUME NEW u \in LiveViewers PROVE LiveViewerInv(u)'
  <2>1. CASE u # v
    <3>1. LiveViewerInv(u) /\ viewer'[u] = viewer[u] /\ (u \in subs' <=> u \in subs)
      BY <2>1 DEF LiveInv, LiveTyped
    <3>2. PICK c : c = bc'
      OBVIOUS
    <3>3. PICK r : r = submitCh'
      OBVIOUS
    <3>4. PICK f : f = LiveFeed(u)
      OBVIOUS
    <3>5. c.running = bc.running /\ c.seq = bc.seq
          /\ (LiveFollows(f, bc, submitCh) => LiveFollows(f, c, r))
      BY <3>2, <3>3
    <3> QED BY <3>1, <3>2, <3>3, <3>4, <3>5, LiveViewerStays
  <2> QED BY <2>1
<1> QED BY <1>1, <1>2, <1>3 DEF LiveInv

LEMMA LiveFollowsTail ==
    ASSUME NEW s \in Seq(LiveParts), s # <<>>, NEW b, NEW q, LiveFollows(s, b, q)
    PROVE  LiveFollows(Tail(s), b, q)
<1>1. /\ Len(s) \in Nat /\ Len(s) >= 1 /\ Tail(s) \in Seq(LiveParts) /\ Len(Tail(s)) = Len(s) - 1
      /\ \A i \in 1..Len(Tail(s)) : Tail(s)[i] = s[i + 1]
      /\ Tail(s) # <<>> => Len(Tail(s)) >= 1
  OBVIOUS
<1>2. Tail(s) # <<>> => Tail(s)[Len(Tail(s))] = s[Len(s)]
  <2> SUFFICES ASSUME Tail(s) # <<>> PROVE Tail(s)[Len(Tail(s))] = s[Len(s)]
    OBVIOUS
  <2>1. Len(Tail(s)) \in 1..Len(Tail(s)) /\ Len(Tail(s)) + 1 = Len(s)
    BY <1>1
  <2> QED BY <1>1, <2>1
<1>3. LiveGood(s, source.n)
  BY DEF LiveFollows
<1>4. LiveGood(Tail(s), source.n)
  BY <1>3, LiveGoodTail
<1> QED BY <1>2, <1>4 DEF LiveFollows

\* The handler writes the head of its feed: last is what it wrote, todo and ch what is left.
LEMMA LiveWritesOne ==
    ASSUME LiveAssumption, LiveInv, UNCHANGED <<source, submitCh, bc, subs>>, NEW v \in LiveViewers,
           viewer[v].pc \in {"prelude", "stream"},
           NEW w \in LiveHandles, viewer' = [viewer EXCEPT ![v] = w],
           w.pc = viewer[v].pc, w.init = viewer[v].init, w.open = viewer[v].open,
           w.pc = "stream" => w.todo = <<>>, w.last # <<>>, Len(w.last) <= 1,
           Len(w.ch) <= Len(viewer[v].ch),
           w.last \o w.todo \o w.ch =
               IF viewer[v].last = <<>> THEN LiveFeed(v) ELSE Tail(LiveFeed(v)),
           LiveFeed(v) \in Seq(LiveParts), LiveFeed(v) = <<>> => viewer[v].last = <<>>
    PROVE  LiveInv'
<1>1. PICK f \in Seq(LiveParts) : f = LiveFeed(v)
  OBVIOUS
<1>2. PICK g : g = w.last \o w.todo \o w.ch
  OBVIOUS
<1>3. g = f \/ (f # <<>> /\ g = Tail(f))
  BY <1>1, <1>2
<1>4. viewer'[v] = w /\ LiveViewerInv(v)
  BY DEF LiveInv, LiveTyped
<1>5. LiveGood(f, w.init) /\ (v \in subs => LiveFollows(f, bc, submitCh))
  BY <1>1, <1>4 DEF LiveViewerInv
<1>6. LiveGood(g, w.init) /\ (v \in subs => LiveFollows(g, bc, submitCh))
  BY <1>3, <1>5, LiveGoodTail, LiveFollowsTail
<1>7. LiveGood(g, w.init)' /\ (v \in subs => LiveFollows(g, bc, submitCh)')
  <2>1. PICK c : c = bc'
    OBVIOUS
  <2>2. PICK r : r = submitCh'
    OBVIOUS
  <2>3. v \in subs => LiveFollows(g, c, r)
    BY <1>6, <2>1, <2>2
  <2> QED BY <1>6, <2>1, <2>2, <2>3, LiveSame
<1>8. Len(w.ch) <= LiveBehind
  <2>1. viewer[v].ch \in Seq(LiveParts) /\ w.ch \in Seq(LiveParts)
    BY DEF LiveInv, LiveTyped, LiveHandles
  <2>2. Len(viewer[v].ch) <= LiveBehind
    BY <1>4 DEF LiveViewerInv
  <2>3. LiveBehind \in Nat /\ Len(viewer[v].ch) \in Nat /\ Len(w.ch) \in Nat
    BY <2>1 DEF LiveAssumption
  <2> QED BY <2>2, <2>3
<1>9. LiveViewerInv(v)'
  BY <1>2, <1>4, <1>7, <1>8 DEF LiveViewerInv, LiveFeed, LiveIntact
<1>10. subs' \subseteq LiveViewers
  BY DEF LiveInv, LiveTyped
<1> QED BY <1>9, <1>10, LiveViewersOnly

LEMMA LivePreludeKeeps ==
    ASSUME LiveAssumption, LiveInv, NEW v \in LiveViewers, LiveWritePrelude(v) PROVE LiveInv'
<1>1. PICK u \in LiveHandles : u = viewer[v]
  BY DEF LiveInv, LiveTyped
<1>2. /\ u.pc = "prelude" /\ u.last \in Seq(LiveParts) /\ u.todo \in Seq(LiveParts)
      /\ u.ch \in Seq(LiveParts) /\ Len(u.last) <= 1
      /\ UNCHANGED <<source, submitCh, bc, subs>> /\ LiveViewerInv(v)
      /\ viewer \in [LiveViewers -> LiveHandles]
  BY <1>1 DEF LiveInv, LiveTyped, LiveViewerInv, LiveWritePrelude, LiveHandles
<1>3. CASE u.todo = <<>>
  <2>1. PICK w : w = [u EXCEPT !.pc = "stream"]
    OBVIOUS
  <2>2. viewer' = [viewer EXCEPT ![v] = w]
    BY <1>1, <1>3, <2>1 DEF LiveWritePrelude
  <2>3. /\ w \in LiveHandles /\ w.pc = "stream" /\ w.init = u.init /\ w.open = u.open
        /\ w.last = u.last /\ w.todo = u.todo /\ w.ch = u.ch
    BY <2>1 DEF LiveHandles
  <2>4. viewer'[v] = w
    BY <1>2, <2>2
  <2>5. PICK f : f = LiveFeed(v)
    OBVIOUS
  <2>6. f = w.last \o w.todo \o w.ch
    BY <1>1, <2>3, <2>5 DEF LiveFeed
  <2>7. LiveGood(f, w.init)' /\ (v \in subs => LiveFollows(f, bc, submitCh)')
    <3>1. PICK c : c = bc'
      OBVIOUS
    <3>2. PICK r : r = submitCh'
      OBVIOUS
    <3>3. LiveGood(f, w.init) /\ (v \in subs => LiveFollows(f, c, r))
      BY <1>1, <1>2, <2>3, <2>5, <3>1, <3>2 DEF LiveViewerInv
    <3> QED BY <1>2, <3>1, <3>2, <3>3, LiveSame
  <2>8. LiveViewerInv(v)'
    BY <1>1, <1>2, <1>3, <2>3, <2>4, <2>6, <2>7 DEF LiveViewerInv, LiveFeed, LiveIntact
  <2>9. subs' \subseteq LiveViewers
    BY <1>2 DEF LiveInv, LiveTyped
  <2> QED BY <1>2, <2>2, <2>3, <2>8, <2>9, LiveViewersOnly
<1>4. CASE u.todo # <<>>
  <2>1. PICK l \in Seq(LiveParts), t \in Seq(LiveParts) : l = <<Head(u.todo)>> /\ t = Tail(u.todo)
    <3>1. Head(u.todo) \in LiveParts /\ Tail(u.todo) \in Seq(LiveParts)
      BY <1>2, <1>4, HeadTailProperties
    <3>2. <<Head(u.todo)>> \in Seq(LiveParts)
      BY <3>1
    <3> QED BY <3>1, <3>2
  <2>2. PICK w : w = [u EXCEPT !.last = l, !.todo = t]
    OBVIOUS
  <2>3. viewer' = [viewer EXCEPT ![v] = w]
    BY <1>1, <1>4, <2>1, <2>2 DEF LiveWritePrelude
  <2>4. /\ w \in LiveHandles /\ w.pc = u.pc /\ w.init = u.init /\ w.open = u.open
        /\ w.last = l /\ w.todo = t /\ w.ch = u.ch
    BY <2>2 DEF LiveHandles
  <2>5. l # <<>> /\ Len(l) <= 1
    BY <2>1
  <2>6. PICK f : f = LiveFeed(v)
    OBVIOUS
  <2>7. f = u.last \o u.todo \o u.ch
    BY <1>1, <2>6 DEF LiveFeed
  <2>8. /\ f \in Seq(LiveParts)
        /\ <<Head(u.todo)>> \o Tail(u.todo) \o u.ch = IF u.last = <<>> THEN f ELSE Tail(f)
        /\ f = <<>> => u.last = <<>>
    <3>1. LiveMoves(u.last, u.todo, u.ch)
      BY <1>2, LiveFeedMoves
    <3> QED BY <1>4, <2>7, <3>1 DEF LiveMoves
  <2>9. w.last \o w.todo \o w.ch = IF u.last = <<>> THEN f ELSE Tail(f)
    BY <2>1, <2>4, <2>8
  <2>10. Len(w.ch) <= Len(viewer[v].ch)
    BY <1>1, <1>2, <2>4
  <2>11. viewer[v].pc \in {"prelude", "stream"} /\ ~(w.pc = "stream")
    BY <1>1, <1>2, <2>4
  <2> QED BY <1>1, <1>2, <2>3, <2>4, <2>5, <2>6, <2>8, <2>9, <2>10, <2>11, LiveWritesOne
<1> QED BY <1>3, <1>4

LEMMA LiveReceiveKeeps ==
    ASSUME LiveAssumption, LiveInv, NEW v \in LiveViewers, LiveReceive(v) PROVE LiveInv'
<1>1. PICK u \in LiveHandles : u = viewer[v]
  BY DEF LiveInv, LiveTyped
<1>2. /\ u.pc = "stream" /\ u.last \in Seq(LiveParts) /\ u.todo = <<>> /\ u.todo \in Seq(LiveParts)
      /\ u.ch \in Seq(LiveParts) /\ u.ch # <<>> /\ Len(u.last) <= 1
      /\ UNCHANGED <<source, submitCh, bc, subs>>
  BY <1>1 DEF LiveInv, LiveTyped, LiveViewerInv, LiveReceive, LiveHandles
<1>3. PICK l \in Seq(LiveParts), t \in Seq(LiveParts) : l = <<Head(u.ch)>> /\ t = Tail(u.ch)
  <2>1. Head(u.ch) \in LiveParts /\ Tail(u.ch) \in Seq(LiveParts)
    BY <1>2, HeadTailProperties
  <2>2. <<Head(u.ch)>> \in Seq(LiveParts)
    BY <2>1
  <2> QED BY <2>1, <2>2
<1>4. PICK w : w = [u EXCEPT !.last = l, !.ch = t]
  OBVIOUS
<1>5. viewer' = [viewer EXCEPT ![v] = w]
  BY <1>1, <1>3, <1>4 DEF LiveReceive
<1>6. /\ w \in LiveHandles /\ w.pc = u.pc /\ w.init = u.init /\ w.open = u.open
      /\ w.last = l /\ w.todo = u.todo /\ w.ch = t
  BY <1>4 DEF LiveHandles
<1>7. l # <<>> /\ Len(l) <= 1
  BY <1>3
<1>8. PICK f : f = LiveFeed(v)
  OBVIOUS
<1>9. f = u.last \o u.todo \o u.ch
  BY <1>1, <1>8 DEF LiveFeed
<1>10. /\ f \in Seq(LiveParts)
       /\ <<Head(u.ch)>> \o u.todo \o Tail(u.ch) = IF u.last = <<>> THEN f ELSE Tail(f)
       /\ f = <<>> => u.last = <<>>
  <2>1. LiveMoves(u.last, u.todo, u.ch)
    BY <1>2, LiveFeedMoves
  <2> QED BY <1>2, <1>9, <2>1 DEF LiveMoves
<1>11. w.last \o w.todo \o w.ch = IF u.last = <<>> THEN f ELSE Tail(f)
  BY <1>3, <1>6, <1>10
<1>12. Len(w.ch) <= Len(viewer[v].ch)
  BY <1>1, <1>2, <1>3, <1>6
<1>13. viewer[v].pc \in {"prelude", "stream"} /\ w.todo = <<>>
  BY <1>1, <1>2, <1>6
<1> QED BY <1>1, <1>2, <1>5, <1>6, <1>7, <1>8, <1>10, <1>11, <1>12, <1>13, LiveWritesOne

LEMMA LiveOpenKeeps ==
    ASSUME LiveAssumption, LiveInv, NEW v \in LiveViewers, LiveOpen(v) PROVE LiveInv'
<1>1. /\ UNCHANGED <<source, submitCh, bc>> /\ bc.running /\ subs' = subs \cup {v}
      /\ bc \in LiveCasts /\ bc.gop \in Seq(LiveParts) /\ bc.dropped \in BOOLEAN
      /\ bc.init = source.n /\ source.n \in Nat
      /\ LiveFollows(bc.gop, bc, submitCh)
      /\ source.whole => /\ bc.gop = <<>> /\ ~bc.dropped => bc.seq = 0
                         /\ bc.gop # <<>> => bc.gop[1].key
  BY DEF LiveInv, LiveTyped, LiveCasts, LiveSources, LiveOpen, LiveCastInv, LiveKeyInv
<1>2. PICK e \in Seq(LiveParts) : e = <<>>
  <2>1. <<>> \in Seq(LiveParts)
    OBVIOUS
  <2> QED BY <2>1
<1>3. PICK w : w = [pc |-> "prelude", init |-> bc.init, dry |-> bc.dropped,
                    last |-> e, todo |-> bc.gop, ch |-> e, open |-> TRUE]
  OBVIOUS
<1>4. /\ w \in LiveHandles /\ w.pc = "prelude" /\ w.init = source.n /\ w.dry = bc.dropped
      /\ w.last = e /\ w.todo = bc.gop /\ w.ch = e /\ w.open = TRUE
  BY <1>1, <1>2, <1>3 DEF LiveHandles
<1>5. viewer' = [viewer EXCEPT ![v] = w] /\ viewer'[v] = w
  BY <1>2, <1>3 DEF LiveOpen, LiveInv, LiveTyped
<1>6. w.last \o w.todo \o w.ch = bc.gop
  BY <1>1, <1>2, <1>4, ConcatEmptySeq
<1>7. PICK f : f = bc.gop
  OBVIOUS
<1>8. LiveGood(f, source.n)' /\ LiveFollows(f, bc, submitCh)'
  <2>1. PICK c : c = bc'
    OBVIOUS
  <2>2. PICK r : r = submitCh'
    OBVIOUS
  <2>3. LiveFollows(f, c, r) /\ LiveGood(f, source.n)
    BY <1>1, <1>7, <2>1, <2>2 DEF LiveFollows
  <2>4. source' = source
    BY <1>1
  <2>5. LiveGood(f, source.n)'
    BY <2>3, <2>4 DEF LiveGood, LiveTimely
  <2> QED BY <2>1, <2>2, <2>3, <2>4, <2>5, LiveSame
<1>9. Len(e) = 0 /\ 0 <= 1 /\ 0 <= LiveBehind
  BY <1>2 DEF LiveAssumption
<1>12. /\ f # <<>> /\ source.whole /\ ~w.dry => f[1].key
       /\ f = <<>> /\ source.whole /\ ~w.dry => bc'.seq = 0
  BY <1>1, <1>4, <1>7
<1>13. v \in subs' /\ bc'.running /\ source' = source /\ w.open /\ w.init <= source.n
  BY <1>1, <1>4
<1>14. w.last \o w.todo \o w.ch = f /\ Len(w.last) <= 1 /\ Len(w.ch) <= LiveBehind
  BY <1>4, <1>6, <1>7, <1>9
<1>10. LiveViewerInv(v)'
  BY <1>4, <1>5, <1>8, <1>12, <1>13, <1>14 DEF LiveViewerInv, LiveFeed, LiveIntact
<1>11. subs' \subseteq LiveViewers /\ \A u \in LiveViewers : u # v => (u \in subs' <=> u \in subs)
  BY <1>1 DEF LiveInv, LiveTyped
<1> QED BY <1>1, <1>4, <1>5, <1>10, <1>11, LiveViewersOnly

LEMMA LiveLeaveKeeps ==
    ASSUME LiveAssumption, LiveInv, NEW v \in LiveViewers, LiveLeave(v) PROVE LiveInv'
<1>1. PICK u \in LiveHandles : u = viewer[v]
  BY DEF LiveInv, LiveTyped
<1>2. /\ UNCHANGED <<source, submitCh, bc, subs>> /\ LiveViewerInv(v) /\ u.pc \in {"prelude", "stream"}
      /\ viewer \in [LiveViewers -> LiveHandles] /\ subs' \subseteq LiveViewers
  BY <1>1 DEF LiveInv, LiveTyped, LiveLeave
<1>3. PICK w : w = [u EXCEPT !.pc = "leaving"]
  OBVIOUS
<1>4. viewer' = [viewer EXCEPT ![v] = w] /\ viewer'[v] = w
  BY <1>1, <1>2, <1>3 DEF LiveLeave
<1>5. /\ w \in LiveHandles /\ w.pc = "leaving" /\ w.init = u.init /\ w.open = u.open
      /\ w.last = u.last /\ w.todo = u.todo /\ w.ch = u.ch
  BY <1>3 DEF LiveHandles
<1>6. PICK f : f = LiveFeed(v)
  OBVIOUS
<1>7. f = w.last \o w.todo \o w.ch
  BY <1>1, <1>5, <1>6 DEF LiveFeed
<1>8. LiveGood(f, w.init)' /\ (v \in subs => LiveFollows(f, bc, submitCh)')
  <2>1. PICK c : c = bc'
    OBVIOUS
  <2>2. PICK r : r = submitCh'
    OBVIOUS
  <2>3. LiveGood(f, w.init) /\ (v \in subs => LiveFollows(f, c, r))
    BY <1>1, <1>2, <1>5, <1>6, <2>1, <2>2 DEF LiveViewerInv
  <2> QED BY <1>2, <2>1, <2>2, <2>3, LiveSame
<1>9. LiveViewerInv(v)'
  BY <1>1, <1>2, <1>4, <1>5, <1>7, <1>8 DEF LiveViewerInv, LiveFeed, LiveIntact
<1> QED BY <1>2, <1>4, <1>5, <1>9, LiveViewersOnly

LEMMA LiveUnregisterKeeps ==
    ASSUME LiveAssumption, LiveInv, NEW v \in LiveViewers, LiveUnregister(v) PROVE LiveInv'
<1>1. PICK w : w = LiveNoViewer
  OBVIOUS
<1>2. PICK e \in Seq(LiveParts) : e = <<>>
  <2>1. <<>> \in Seq(LiveParts)
    OBVIOUS
  <2> QED BY <2>1
<1>3. w = [pc |-> "idle", init |-> 0, dry |-> FALSE, last |-> e, todo |-> e, ch |-> e, open |-> FALSE]
  BY <1>1, <1>2 DEF LiveNoViewer
<1>4. /\ w \in LiveHandles /\ w.pc = "idle" /\ w.init = 0 /\ ~w.open
      /\ w.last = e /\ w.todo = e /\ w.ch = e
  BY <1>3 DEF LiveHandles
<1>5. /\ UNCHANGED <<source, submitCh, bc>> /\ subs' = subs \ {v}
      /\ viewer \in [LiveViewers -> LiveHandles] /\ subs \subseteq LiveViewers /\ source.n \in Nat
      /\ viewer' = [viewer EXCEPT ![v] = w] /\ viewer'[v] = w
  BY <1>1 DEF LiveInv, LiveTyped, LiveUnregister, LiveSources
<1>6. w.last \o w.todo \o w.ch = e
  BY <1>2, <1>4, ConcatEmptySeq
<1>7. LiveGood(e, w.init)'
  <2>1. LiveGood(e, w.init)
    BY <1>2, LiveGoodOne
  <2> QED BY <1>5, <2>1 DEF LiveGood, LiveTimely
<1>8. Len(e) = 0 /\ Len(e) <= 1 /\ Len(e) <= LiveBehind /\ w.init <= source.n
  BY <1>2, <1>4, <1>5 DEF LiveAssumption
<1>9. LiveViewerInv(v)'
  BY <1>1, <1>4, <1>5, <1>6, <1>7, <1>8 DEF LiveViewerInv, LiveFeed, LiveIntact
<1>10. subs' \subseteq LiveViewers /\ \A u \in LiveViewers : u # v => (u \in subs' <=> u \in subs)
  BY <1>5
<1> QED BY <1>4, <1>5, <1>9, <1>10, LiveViewersOnly

\* Every viewer is let go: what it has on its way still stands, if the source's session does.
LEMMA LiveCutKeeps ==
    ASSUME LiveInv, NEW v \in LiveViewers, viewer' = LiveCutOff(subs), subs' = {},
           source' \in LiveSources,
           \/ source'.n = source.n /\ source'.whole = source.whole /\ source'.timely = source.timely
           \/ source'.n = source.n + 1
    PROVE  LiveViewerInv(v)' /\ viewer'[v] \in LiveHandles
<1>1. PICK u \in LiveHandles : u = viewer[v]
  BY DEF LiveInv, LiveTyped
<1>2. PICK w : w = viewer'[v]
  OBVIOUS
<1>3. LiveViewerInv(v) /\ subs \subseteq LiveViewers /\ u.init \in Nat /\ u.open \in BOOLEAN
      /\ source.n \in Nat /\ u.init <= source.n
  BY <1>1 DEF LiveInv, LiveTyped, LiveHandles, LiveViewerInv, LiveSources
<1>4. w = IF v \in subs THEN [u EXCEPT !.open = FALSE] ELSE u
  BY <1>1, <1>2 DEF LiveCutOff
<1>5. /\ w \in LiveHandles /\ w.pc = u.pc /\ w.init = u.init /\ w.dry = u.dry
      /\ w.last = u.last /\ w.todo = u.todo /\ w.ch = u.ch /\ w.open = FALSE
  <2>1. CASE v \in subs
    BY <1>4, <2>1 DEF LiveHandles
  <2>2. CASE v \notin subs
    <3>1. u.open = FALSE
      BY <1>1, <1>3, <2>2 DEF LiveViewerInv
    <3> QED BY <1>4, <2>2, <3>1
  <2> QED BY <2>1, <2>2
<1>6. PICK f : f = LiveFeed(v)
  OBVIOUS
<1>7. f = w.last \o w.todo \o w.ch
  BY <1>1, <1>5, <1>6 DEF LiveFeed
<1>8. LiveGood(f, u.init)
  BY <1>1, <1>3, <1>6 DEF LiveViewerInv
<1>9. LiveGood(f, w.init)' /\ w.init <= source'.n
  <2>1. CASE source'.n = source.n + 1
    <3>1. w.init # source'.n /\ w.init <= source'.n
      BY <1>3, <1>5, <2>1
    <3> QED BY <1>8, <3>1 DEF LiveGood
  <2>2. CASE source'.n = source.n /\ source'.whole = source.whole /\ source'.timely = source.timely
    <3>1. LiveTimely' = LiveTimely
      BY <2>2 DEF LiveTimely
    <3> QED BY <1>3, <1>5, <1>8, <2>2, <3>1 DEF LiveGood
  <2> QED BY <2>1, <2>2
<1>10. w.pc = "idle" => w = LiveNoViewer
  <2>1. w.pc = "idle" => u = LiveNoViewer
    BY <1>1, <1>3, <1>5 DEF LiveViewerInv
  <2>2. u = LiveNoViewer => v \notin subs
    BY <1>1, <1>3 DEF LiveViewerInv, LiveNoViewer
  <2> QED BY <1>4, <2>1, <2>2
<1>11. w.pc = "prelude" /\ w.init = source'.n /\ source'.whole /\ ~w.dry /\ w.last = <<>> =>
          (f # <<>> => f[1].key)
  <2>1. CASE source'.n = source.n + 1
    BY <1>3, <1>5, <2>1
  <2>2. CASE source'.n = source.n /\ source'.whole = source.whole
    BY <1>1, <1>3, <1>5, <1>6, <2>2 DEF LiveViewerInv, LiveIntact
  <2> QED BY <2>1, <2>2
<1>12. (w.pc = "stream" => w.todo = <<>>) /\ Len(w.last) <= 1 /\ Len(w.ch) <= LiveBehind
  BY <1>1, <1>3, <1>5 DEF LiveViewerInv
<1>13. v \notin subs'
  OBVIOUS
<1> QED BY <1>2, <1>5, <1>7, <1>9, <1>10, <1>11, <1>12, <1>13
        DEF LiveViewerInv, LiveFeed, LiveIntact

LEMMA LiveDarkFacts ==
    ASSUME bc \in LiveCasts, NEW c, c = LiveDark
    PROVE  c \in LiveCasts /\ ~c.running /\ c.init = 0 /\ c.gop = <<>> /\ ~c.dropped
<1>1. PICK e \in Seq(LiveParts) : e = <<>>
  <2>1. <<>> \in Seq(LiveParts)
    OBVIOUS
  <2> QED BY <2>1
<1>2. c = [bc EXCEPT !.running = FALSE, !.init = 0, !.gop = e, !.bytes = 0, !.dropped = FALSE]
  BY <1>1 DEF LiveDark
<1>3. c \in LiveCasts /\ c.running = FALSE /\ c.init = 0 /\ c.gop = e /\ c.dropped = FALSE
  <2>1. c.running = FALSE /\ c.init = 0
    BY <1>2 DEF LiveCasts
  <2>2. c.gop = e /\ c.dropped = FALSE
    BY <1>2 DEF LiveCasts
  <2>3. c \in LiveCasts
    <3>1. /\ bc.seq \in Nat /\ bc.part \in LiveMaking /\ bc.shift \in Int
          /\ bc.haveShift \in BOOLEAN /\ bc.closed \in BOOLEAN
      BY DEF LiveCasts
    <3>2. c = [running |-> FALSE, init |-> 0, gop |-> e, bytes |-> 0, dropped |-> FALSE,
               seq |-> bc.seq, part |-> bc.part, shift |-> bc.shift,
               haveShift |-> bc.haveShift, closed |-> bc.closed]
      BY <1>2 DEF LiveCasts
    <3> QED BY <3>1, <3>2 DEF LiveCasts
  <2> QED BY <2>1, <2>2, <2>3
<1> QED BY <1>1, <1>3

\* Of a broadcaster that does not run, between two sessions, nothing else is asked.
LEMMA LiveDarkKeeps ==
    ASSUME NEW c, c = bc', ~c.running, c.init = 0, c.gop = <<>>, ~source'.up
    PROVE  LiveCastInv(bc, submitCh)'
BY DEF LiveCastInv, LiveQueueInv, LiveKeyInv, LiveShiftInv

LEMMA LiveLostKeeps ==
    ASSUME LiveAssumption, LiveInv, LiveLost PROVE LiveInv'
<1>1. /\ source \in LiveSources /\ bc \in LiveCasts /\ viewer' = LiveCutOff(subs) /\ subs' = {}
      /\ submitCh' = submitCh /\ submitCh \in Seq(LiveQueued) /\ source.sent <= LiveSamples
      /\ source' = [source EXCEPT !.up = FALSE, !.started = FALSE, !.clock = 0, !.lead = 0,
                                  !.jumped = FALSE]
  BY DEF LiveInv, LiveTyped, LiveLost, LiveSourceInv
<1>2. /\ source' \in LiveSources /\ ~source'.up /\ source'.sent = source.sent /\ source'.clock = 0
      /\ source'.n = source.n /\ source'.whole = source.whole /\ source'.timely = source.timely
      /\ ~source'.jumped /\ source.sent \in Nat
  <2>1. /\ source.n \in Nat /\ source.sent \in Nat /\ source.whole \in BOOLEAN
        /\ source.timely \in BOOLEAN
    BY <1>1 DEF LiveSources
  <2>2. source' = [n |-> source.n, up |-> FALSE, sent |-> source.sent, started |-> FALSE, clock |-> 0,
                   lead |-> 0, jumped |-> FALSE, whole |-> source.whole, timely |-> source.timely]
    BY <1>1 DEF LiveSources
  <2>3. source' \in LiveSources
    BY <2>1, <2>2 DEF LiveSources
  <2> QED BY <2>1, <2>2, <2>3
<1>3. PICK c : c = bc'
  OBVIOUS
<1>4. c \in LiveCasts /\ ~c.running /\ c.init = 0 /\ c.gop = <<>>
  BY <1>1, <1>3, LiveDarkFacts DEF LiveLost
<1>5. LiveCastInv(bc, submitCh)'
  BY <1>2, <1>3, <1>4, LiveDarkKeeps
<1>6. ASSUME NEW v \in LiveViewers PROVE LiveViewerInv(v)' /\ viewer'[v] \in LiveHandles
  BY <1>1, <1>2, LiveCutKeeps
<1>7. viewer' \in [LiveViewers -> LiveHandles]
  BY <1>1, <1>6 DEF LiveCutOff
<1>8. LiveTyped' /\ LiveSourceInv'
  BY <1>1, <1>2, <1>3, <1>4, <1>7 DEF LiveTyped, LiveSourceInv
<1> QED BY <1>5, <1>6, <1>8 DEF LiveInv

LEMMA LiveRemoveKeeps ==
    ASSUME LiveAssumption, LiveInv, LiveRemove PROVE LiveInv'
<1>1. /\ source \in LiveSources /\ bc \in LiveCasts /\ viewer' = LiveCutOff(subs) /\ subs' = {}
      /\ submitCh' = submitCh /\ submitCh \in Seq(LiveQueued) /\ source' = source /\ ~source'.up
  BY DEF LiveInv, LiveTyped, LiveRemove
<1>2. PICK k : k = LiveDark
  OBVIOUS
<1>3. k \in LiveCasts /\ ~k.running /\ k.init = 0 /\ k.gop = <<>>
  BY <1>1, <1>2, LiveDarkFacts
<1>4. PICK c : c = bc'
  OBVIOUS
<1>5. c = [k EXCEPT !.closed = TRUE]
  BY <1>2, <1>4 DEF LiveRemove
<1>6. c \in LiveCasts /\ c.running = k.running /\ c.init = 0 /\ c.gop = k.gop
  BY <1>3, <1>5 DEF LiveCasts
<1>7. LiveCastInv(bc, submitCh)'
  BY <1>1, <1>3, <1>4, <1>6, LiveDarkKeeps
<1>8. ASSUME NEW v \in LiveViewers PROVE LiveViewerInv(v)' /\ viewer'[v] \in LiveHandles
  BY <1>1, LiveCutKeeps
<1>9. viewer' \in [LiveViewers -> LiveHandles]
  BY <1>1, <1>8 DEF LiveCutOff
<1>10. LiveTyped' /\ LiveSourceInv'
  BY <1>1, <1>4, <1>6, <1>9 DEF LiveInv, LiveTyped, LiveSourceInv
<1> QED BY <1>7, <1>8, <1>10 DEF LiveInv

LEMMA LiveConnectKeeps ==
    ASSUME LiveAssumption, LiveInv, LiveConnect PROVE LiveInv'
<1>1. PICK lead \in {0, 1} :
        source' = [LiveNoSource EXCEPT !.n = source.n + 1, !.up = TRUE, !.lead = lead,
                                       !.sent = source.sent, !.whole = (submitCh = <<>>)]
  BY DEF LiveConnect
<1>2. /\ source \in LiveSources /\ bc \in LiveCasts /\ ~source.up /\ source.n \in Nat
      /\ submitCh' = submitCh /\ submitCh \in Seq(LiveQueued) /\ source.sent <= LiveSamples
      /\ ~bc.running /\ subs \subseteq LiveViewers /\ viewer \in [LiveViewers -> LiveHandles]
      /\ bc.init = 0 /\ bc.gop = <<>> /\ (bc.dropped => bc.gop = <<>>) /\ source.sent \in Nat
  BY DEF LiveInv, LiveTyped, LiveConnect, LiveCastInv, LiveSources, LiveSourceInv
<1>3. /\ source' \in LiveSources /\ source'.up /\ source'.sent = source.sent /\ source'.clock = 0
      /\ source'.n = source.n + 1 /\ ~source'.started /\ ~source'.jumped
      /\ source'.whole => submitCh = <<>>
  <2>1. /\ source'.up /\ source'.sent = source.sent /\ source'.clock = 0
        /\ source'.started = FALSE /\ source'.jumped = FALSE
    BY <1>1 DEF LiveNoSource
  <2>2. source'.n = source.n + 1 /\ source'.whole = (submitCh = <<>>)
    BY <1>1 DEF LiveNoSource
  <2>3. source' \in LiveSources
    <3>1. PICK whole \in BOOLEAN : whole = (submitCh = <<>>)
      OBVIOUS
    <3>2. source' = [n |-> source.n + 1, up |-> TRUE, sent |-> source.sent, started |-> FALSE,
                     clock |-> 0, lead |-> lead, jumped |-> FALSE, whole |-> whole, timely |-> TRUE]
      BY <1>1, <3>1 DEF LiveNoSource
    <3> QED BY <1>2, <3>2 DEF LiveSources
  <2> QED BY <2>1, <2>2, <2>3
<1>4. subs = {}
  BY <1>2 DEF LiveInv, LiveViewerInv
<1>5. viewer' = LiveCutOff(subs) /\ subs' = {}
  <2>1. CASE UNCHANGED <<viewer, subs>>
    <3>1. LiveCutOff({}) = viewer
      BY <1>2 DEF LiveCutOff
    <3> QED BY <1>4, <2>1, <3>1
  <2> QED BY <2>1 DEF LiveConnect
<1>6. ASSUME NEW v \in LiveViewers PROVE LiveViewerInv(v)' /\ viewer'[v] \in LiveHandles
  BY <1>3, <1>5, LiveCutKeeps
<1>7. viewer' \in [LiveViewers -> LiveHandles]
  BY <1>5, <1>6 DEF LiveCutOff
<1>8. PICK c : c = bc'
  OBVIOUS
<1>9. PICK e \in Seq(LiveParts) : e = <<>>
  <2>1. <<>> \in Seq(LiveParts)
    OBVIOUS
  <2> QED BY <2>1
<1>10. c \in LiveCasts /\ LiveCastInv(bc, submitCh)'
  <2>1. CASE bc' = [bc EXCEPT !.shift = 0, !.haveShift = FALSE]
    <3>1. /\ c \in LiveCasts /\ c.running = bc.running /\ c.init = bc.init /\ c.gop = bc.gop
          /\ c.dropped = bc.dropped
      <4>1. c \in LiveCasts
        <5>1. /\ bc.seq \in Nat /\ bc.part \in LiveMaking /\ bc.running \in BOOLEAN /\ bc.init \in Nat
              /\ bc.gop \in Seq(LiveParts) /\ bc.bytes \in Nat /\ bc.dropped \in BOOLEAN
              /\ bc.closed \in BOOLEAN
          BY <1>2 DEF LiveCasts
        <5>2. c = [running |-> bc.running, init |-> bc.init, gop |-> bc.gop, bytes |-> bc.bytes,
                   dropped |-> bc.dropped, seq |-> bc.seq, part |-> bc.part, shift |-> 0,
                   haveShift |-> FALSE, closed |-> bc.closed]
          BY <1>2, <1>8, <2>1 DEF LiveCasts
        <5> QED BY <5>1, <5>2 DEF LiveCasts
      <4>2. c.running = bc.running /\ c.init = bc.init
        BY <1>2, <1>8, <2>1 DEF LiveCasts
      <4>3. c.gop = bc.gop /\ c.dropped = bc.dropped
        BY <1>2, <1>8, <2>1 DEF LiveCasts
      <4> QED BY <4>1, <4>2, <4>3
    <3>2. LiveQueueInv(submitCh)'
      <4>1. source'.whole => Len(submitCh) = 0
        BY <1>3
      <4> QED BY <1>2, <1>3, <4>1 DEF LiveQueueInv, LiveOrdered, LiveTimely
    <3> QED BY <1>2, <1>8, <3>1, <3>2 DEF LiveCastInv, LiveKeyInv, LiveShiftInv
  <2>2. CASE bc' = [LiveFresh EXCEPT !.running = TRUE, !.init = source.n + 1]
    <3>1. c = [running |-> TRUE, init |-> source.n + 1, gop |-> e, bytes |-> 0, dropped |-> FALSE,
               seq |-> 0, part |-> LiveNoPart, shift |-> 0, haveShift |-> FALSE, closed |-> FALSE]
      BY <1>8, <1>9, <2>2 DEF LiveFresh, LiveStopped
    <3>2. /\ LiveNoPart \in LiveMaking /\ LiveNoPart.of = {} /\ LiveNoPart.frames = 0
          /\ LiveNoPart.span = 0
      BY DEF LiveNoPart, LiveMaking
    <3>3. /\ c \in LiveCasts /\ c.running /\ c.init = source'.n /\ c.gop = e /\ c.dropped = FALSE
          /\ c.seq = 0 /\ c.haveShift = FALSE /\ c.part = LiveNoPart
      <4>1. source.n + 1 \in Nat /\ source.n + 1 = source'.n
        BY <1>2, <1>3 DEF LiveSources
      <4>2. c \in LiveCasts
        BY <3>1, <3>2, <4>1 DEF LiveCasts
      <4>3. /\ c.running /\ c.init = source.n + 1 /\ c.gop = e /\ c.dropped = FALSE
            /\ c.seq = 0 /\ c.haveShift = FALSE /\ c.part = LiveNoPart
        BY <3>1
      <4> QED BY <4>1, <4>2, <4>3
    <3>4. source'.whole => Len(submitCh) = 0 /\ submitCh = <<>>
      BY <1>3
    <3>5. LiveQueueInv(submitCh)'
      BY <1>2, <3>4 DEF LiveQueueInv, LiveOrdered, LiveTimely
    <3>6. LiveKeyInv(bc, submitCh)'
      <4>1. LiveKeyAhead(submitCh)'
        BY <1>3 DEF LiveKeyAhead
      <4> QED BY <1>8, <1>9, <3>2, <3>3, <4>1 DEF LiveKeyInv
    <3>7. LiveShiftInv(bc, submitCh)'
      BY <1>2, <1>3, <1>8, <3>2, <3>3, <3>4 DEF LiveShiftInv, LiveTimely
    <3>8. LiveFollows(e, bc, submitCh)'
      BY <1>9 DEF LiveFollows, LiveGood
    <3> QED BY <1>3, <1>8, <3>3, <3>5, <3>6, <3>7, <3>8 DEF LiveCastInv
  <2> QED BY <2>1, <2>2 DEF LiveConnect
<1>11. LiveTyped' /\ LiveSourceInv'
  BY <1>2, <1>3, <1>5, <1>7, <1>8, <1>10 DEF LiveTyped, LiveSourceInv
<1> QED BY <1>6, <1>10, <1>11 DEF LiveInv

\* A sample that is submitted: r is the queue with it.
LiveSubmits(kind, smp, r) ==
    /\ kind \in LiveKinds /\ (~source.started => kind \in {"key", "audio"})
    /\ smp \in LiveQueued /\ smp.of = source.n /\ smp.kind = kind
    /\ kind = "audio" => smp.span = 0
    /\ smp.dts = IF kind = "audio" THEN source.clock ELSE source.clock - source.lead
    /\ r \in Seq(LiveQueued)
    /\ source' \in LiveSources /\ source.up /\ source'.up /\ source'.n = source.n
    /\ source'.lead = source.lead /\ source'.sent = source.sent + 1
    /\ source'.jumped = source.jumped /\ source.sent < LiveSamples
    /\ source'.clock = source.clock + smp.span
    /\ source'.started = (source.started \/ kind # "audio")
    /\ source'.timely => source.timely /\ (source.started \/ source.lead = 0 \/ kind # "audio")
    /\ source'.whole => /\ source.whole
                        /\ Len(r) = Len(submitCh) + 1 /\ r[Len(r)] = smp
                        /\ \A i \in 1..Len(submitCh) : r[i] = submitCh[i]

LEMMA LiveSubmitFacts ==
    ASSUME LiveAssumption, LiveTyped, LiveSubmit
    PROVE  \E kind, smp, r : r = submitCh' /\ LiveSubmits(kind, smp, r)
<1>1. PICK kind \in LiveKinds, span \in {0, 1} :
        /\ ~source.started => kind \in {"key", "audio"}
        /\ kind = "audio" => span = 0
        /\ LET dts == IF kind = "audio" THEN source.clock ELSE source.clock - source.lead
               sample == [of |-> source.n, kind |-> kind, dts |-> dts, span |-> span]
           IN /\ submitCh' = IF LiveFits THEN Append(submitCh, sample) ELSE submitCh
              /\ source' = [source EXCEPT
                    !.sent = @ + 1, !.whole = @ /\ LiveFits, !.clock = @ + span,
                    !.started = @ \/ kind # "audio",
                    !.timely = @ /\ (source.started \/ source.lead = 0 \/ kind # "audio")]
  BY DEF LiveSubmit
<1>2. PICK smp : smp = [of |-> source.n, kind |-> kind,
                        dts |-> IF kind = "audio" THEN source.clock ELSE source.clock - source.lead,
                        span |-> span]
  OBVIOUS
<1>3. PICK r : r = submitCh'
  OBVIOUS
<1>4. /\ source.n \in Nat /\ source.up \in BOOLEAN /\ source.sent \in Nat /\ source.clock \in Int
      /\ source.lead \in {0, 1} /\ source.whole \in BOOLEAN /\ source.timely \in BOOLEAN
      /\ source.started \in BOOLEAN /\ source.jumped \in BOOLEAN
      /\ source \in LiveSources /\ submitCh \in Seq(LiveQueued)
  BY DEF LiveTyped, LiveSources
<1>5. /\ smp \in LiveQueued /\ smp.of = source.n /\ smp.kind = kind /\ smp.span = span
      /\ smp.dts = IF kind = "audio" THEN source.clock ELSE source.clock - source.lead
  BY <1>2, <1>4 DEF LiveQueued
<1>6. PICK fits \in BOOLEAN : fits = LiveFits
  <2>1. LiveFits \in BOOLEAN
    BY SMT DEF LiveFits
  <2> QED BY <2>1, Zenon
<1>7. PICK whole \in BOOLEAN, started \in BOOLEAN, timely \in BOOLEAN :
        /\ whole = (source.whole /\ fits) /\ started = (source.started \/ kind # "audio")
        /\ timely = (source.timely /\ (source.started \/ source.lead = 0 \/ kind # "audio"))
  <2>1. /\ (source.whole /\ fits) \in BOOLEAN
        /\ (source.started \/ kind # "audio") \in BOOLEAN
        /\ (source.timely /\ (source.started \/ source.lead = 0 \/ kind # "audio")) \in BOOLEAN
    OBVIOUS
  <2> QED BY <2>1, Zenon
<1>8. r = IF fits THEN Append(submitCh, smp) ELSE submitCh
  BY <1>1, <1>2, <1>3, <1>6
<1>9. r \in Seq(LiveQueued)
  BY <1>4, <1>5, <1>8
<1>10. source' = [n |-> source.n, up |-> source.up, sent |-> source.sent + 1, started |-> started,
                  clock |-> source.clock + span, lead |-> source.lead, jumped |-> source.jumped,
                  whole |-> whole, timely |-> timely]
  BY <1>1, <1>4, <1>6, <1>7 DEF LiveSources
<1>11. source' \in LiveSources
  BY <1>4, <1>10 DEF LiveSources
<1>12. source.up /\ source.sent < LiveSamples
  BY DEF LiveSubmit
<1>13. /\ source'.up /\ source'.n = source.n /\ source'.lead = source.lead
       /\ source'.sent = source.sent + 1 /\ source'.jumped = source.jumped
  BY <1>10, <1>12
<1>14. /\ source'.clock = source.clock + smp.span /\ source'.started = started
       /\ source'.whole = whole /\ source'.timely = timely
  BY <1>5, <1>10
<1>15. source'.whole => source.whole /\ fits
  BY <1>7, <1>14
<1>16. fits => /\ Len(r) = Len(submitCh) + 1 /\ r[Len(r)] = smp
               /\ \A i \in 1..Len(submitCh) : r[i] = submitCh[i]
  BY <1>4, <1>5, <1>8
<1>17. /\ kind \in LiveKinds /\ (~source.started => kind \in {"key", "audio"})
       /\ kind = "audio" => smp.span = 0
       /\ source \in LiveSources /\ source.up \in BOOLEAN
  BY <1>1, <1>4, <1>5, Zenon
<1>18. source'.whole => /\ source.whole
                        /\ Len(r) = Len(submitCh) + 1 /\ r[Len(r)] = smp
                        /\ \A i \in 1..Len(submitCh) : r[i] = submitCh[i]
  BY <1>15, <1>16, Zenon
<1>19. source'.started = (source.started \/ kind # "audio")
  BY <1>7, <1>14, Zenon
<1>20. source'.timely => source.timely /\ (source.started \/ source.lead = 0 \/ kind # "audio")
  BY <1>7, <1>14, Zenon
<1>21. LiveSubmits(kind, smp, r)
  BY <1>5, <1>9, <1>11, <1>12, <1>13, <1>14, <1>17, <1>18, <1>19, <1>20, Zenon DEF LiveSubmits
<1> QED BY <1>3, <1>21, Zenon

\* The clock has not gone back, and the session is still the one it was.
LiveGoesOn ==
    /\ source.clock \in Int /\ source'.clock \in Int /\ source.clock <= source'.clock
    /\ source'.n = source.n /\ source'.lead = source.lead /\ (source'.whole => source.whole)
    /\ source'.timely => source.timely

LEMMA LiveSubmitGoesOn ==
    ASSUME LiveTyped, NEW kind, NEW smp, NEW r, LiveSubmits(kind, smp, r)
    PROVE  LiveGoesOn
<1>1. source.clock \in Int /\ smp.span \in {0, 1} /\ source'.clock = source.clock + smp.span
  BY DEF LiveTyped, LiveSources, LiveSubmits, LiveQueued
<1>2. source.clock \in Int /\ source'.clock \in Int /\ source.clock <= source'.clock
  BY <1>1
<1> QED BY <1>2 DEF LiveSubmits, LiveGoesOn

\* The queue is as it was, or has one sample more, which ends where the clock stands now.
LiveQueueGrows(r) ==
    /\ Len(r) \in Nat /\ Len(submitCh) \in Nat
    /\ \A i \in 1..Len(r) :
        \/ i \in 1..Len(submitCh) /\ r[i] = submitCh[i]
        \/ /\ i = Len(r) /\ i = Len(submitCh) + 1
           /\ LiveVideo(r[i]) => r[i].dts + source.lead = source.clock

LEMMA LiveSubmitGrows ==
    ASSUME LiveTyped, NEW kind, NEW smp, NEW r, LiveSubmits(kind, smp, r), source'.whole
    PROVE  LiveQueueGrows(r)
<1>1. /\ Len(r) = Len(submitCh) + 1 /\ r[Len(r)] = smp
      /\ \A i \in 1..Len(submitCh) : r[i] = submitCh[i]
      /\ smp.dts = IF kind = "audio" THEN source.clock ELSE source.clock - source.lead
      /\ smp.kind = kind
  BY DEF LiveSubmits
<1>2. Len(submitCh) \in Nat /\ Len(r) \in Nat /\ source.clock \in Int /\ source.lead \in Int
  BY DEF LiveTyped, LiveSubmits, LiveSources
<1>3. LiveVideo(smp) => smp.dts + source.lead = source.clock
  BY <1>1, <1>2 DEF LiveVideo
<1>4. \A i \in 1..Len(r) : i \in 1..Len(submitCh) \/ i = Len(r)
  BY <1>1, <1>2
<1> QED BY <1>1, <1>2, <1>3, <1>4 DEF LiveQueueGrows

\* What was ahead still is, and what followed still does.
LEMMA LiveStillAhead ==
    ASSUME LiveGoesOn, NEW r, r = submitCh', LiveTimely' => LiveQueueGrows(r), bc' = bc
    PROVE  /\ LiveTimely' => LiveTimely
           /\ \A s, n : LiveGood(s, n) => LiveGood(s, n)'
           /\ LiveTimely' => \A x \in Int : LiveAhead(x, submitCh) => LiveAhead(x, submitCh)'
           /\ \A s \in Seq(LiveParts) :
                LiveFollows(s, bc, submitCh) => LiveFollows(s, bc, submitCh)'
<1>1. LiveTimely' => LiveTimely
  BY DEF LiveTimely, LiveGoesOn
<1>2. \A s, n : LiveGood(s, n) => LiveGood(s, n)'
  BY <1>1 DEF LiveGood, LiveGoesOn
<1>3. ASSUME LiveTimely', NEW x \in Int, LiveAhead(x, submitCh) PROVE LiveAhead(x, submitCh)'
  <2>1. x <= source.clock /\ x <= source'.clock
    BY <1>3 DEF LiveAhead, LiveGoesOn
  <2>2. \A i \in 1..Len(r) : LiveVideo(r[i]) => x <= r[i].dts + source.lead
    BY <1>3, <2>1 DEF LiveAhead, LiveQueueGrows
  <2> QED BY <2>1, <2>2 DEF LiveAhead, LiveVideo, LiveGoesOn
<1>4. ASSUME NEW s \in Seq(LiveParts), LiveFollows(s, bc, submitCh)
      PROVE  LiveFollows(s, bc, submitCh)'
  <2>1. s # <<>> => LiveEnd(s[Len(s)]) \in Int
    <3>1. s # <<>> => s[Len(s)] \in LiveParts
      OBVIOUS
    <3> QED BY <3>1 DEF LiveParts, LiveEnd
  <2>2. LiveGood(s, source.n)'
    BY <1>2, <1>4 DEF LiveFollows, LiveGoesOn
  <2>3. s # <<>> => s[Len(s)].seq + 1 = bc'.seq
    BY <1>4 DEF LiveFollows
  <2>4. s # <<>> /\ LiveTimely' => LiveBefore(LiveEnd(s[Len(s)]), bc, submitCh)'
    BY <1>1, <1>3, <1>4, <2>1 DEF LiveFollows, LiveBefore
  <2> QED BY <2>2, <2>3, <2>4 DEF LiveFollows
<1> QED BY <1>1, <1>2, <1>3, <1>4

\* The queue, the first keyframe and the shift with the sample that is submitted.
LEMMA LiveSubmitOrder ==
    ASSUME LiveTyped, LiveSourceInv, LiveOrdered(submitCh), source.timely,
           NEW kind, NEW smp, NEW r, r = submitCh', LiveSubmits(kind, smp, r), source'.whole
    PROVE  LiveOrdered(submitCh)'
<1>1. /\ Len(r) = Len(submitCh) + 1 /\ r[Len(r)] = smp
      /\ \A i \in 1..Len(submitCh) : r[i] = submitCh[i]
      /\ source'.lead = source.lead /\ source'.clock = source.clock + smp.span
      /\ smp.kind = kind /\ (kind = "audio" => smp.span = 0)
      /\ smp.dts = IF kind = "audio" THEN source.clock ELSE source.clock - source.lead
  BY DEF LiveSubmits
<1>2. /\ source.clock \in Int /\ source.lead \in Int /\ Len(submitCh) \in Nat
      /\ smp.dts \in Int /\ smp.span \in {0, 1} /\ 0 <= source.clock
      /\ \A i \in 1..Len(submitCh) : submitCh[i].dts \in Int /\ submitCh[i].span \in {0, 1}
  <2>1. \A i \in 1..Len(submitCh) : submitCh[i] \in LiveQueued
    BY DEF LiveTyped
  <2>2. \A i \in 1..Len(submitCh) : submitCh[i].dts \in Int /\ submitCh[i].span \in {0, 1}
    BY <2>1 DEF LiveQueued
  <2>3. smp.dts \in Int /\ smp.span \in {0, 1}
    BY DEF LiveSubmits, LiveQueued
  <2>4. Len(submitCh) \in Nat
    BY DEF LiveTyped
  <2>5. source.clock \in Int /\ source.lead \in Int /\ 0 <= source.clock
    BY DEF LiveTyped, LiveSources, LiveSourceInv
  <2> QED BY <2>2, <2>3, <2>4, <2>5
<1>3. \A i \in 1..Len(r) : i \in 1..Len(submitCh) \/ i = Len(r)
  BY <1>1, <1>2
<1>4. LiveVideo(smp) => smp.dts + source.lead = source.clock
  BY <1>1, <1>2 DEF LiveVideo
<1>5. \A i \in 1..Len(submitCh) :
        IF LiveVideo(submitCh[i])
        THEN /\ 0 <= submitCh[i].dts + source.lead
             /\ submitCh[i].dts + submitCh[i].span + source.lead <= source.clock
        ELSE submitCh[i].span = 0
  BY DEF LiveOrdered
<1>6. \A i, j \in 1..Len(submitCh) :
        i < j /\ LiveVideo(submitCh[i]) /\ LiveVideo(submitCh[j]) =>
            submitCh[i].dts + submitCh[i].span <= submitCh[j].dts
  BY DEF LiveOrdered
<1>7. ASSUME NEW i \in 1..Len(r)
      PROVE  IF LiveVideo(r[i])
             THEN /\ 0 <= r[i].dts + source'.lead
                  /\ r[i].dts + r[i].span + source'.lead <= source'.clock
             ELSE r[i].span = 0
  <2>1. CASE i \in 1..Len(submitCh)
    BY <1>1, <1>2, <1>5, <2>1
  <2>2. CASE i = Len(r)
    BY <1>1, <1>2, <1>4, <2>2 DEF LiveVideo
  <2> QED BY <1>3, <2>1, <2>2
<1>8. ASSUME NEW i \in 1..Len(r), NEW j \in 1..Len(r), i < j, LiveVideo(r[i]), LiveVideo(r[j])
      PROVE  r[i].dts + r[i].span <= r[j].dts
  <2>1. i \in 1..Len(submitCh) /\ r[i] = submitCh[i]
    BY <1>1, <1>2, <1>8
  <2>2. CASE j \in 1..Len(submitCh)
    BY <1>1, <1>6, <1>8, <2>1, <2>2
  <2>3. CASE j = Len(r)
    <3>1. /\ submitCh[i].dts + submitCh[i].span + source.lead <= source.clock
          /\ submitCh[i].dts \in Int /\ submitCh[i].span \in Int
      BY <1>2, <1>5, <1>8, <2>1
    <3>2. smp.dts + source.lead = source.clock /\ r[j] = smp
      BY <1>1, <1>4, <1>8, <2>3
    <3> QED BY <1>2, <2>1, <3>1, <3>2
  <2> QED BY <1>3, <2>2, <2>3
<1> QED BY <1>7, <1>8 DEF LiveOrdered, LiveVideo

LEMMA LiveSubmitQueue ==
    ASSUME LiveTyped, LiveSourceInv, LiveQueueInv(submitCh), NEW kind, NEW smp, NEW r,
           r = submitCh', LiveSubmits(kind, smp, r)
    PROVE  LiveQueueInv(submitCh)'
<1> SUFFICES ASSUME source'.whole PROVE LiveQueueInv(submitCh)'
  BY DEF LiveQueueInv, LiveTimely
<1>1. /\ Len(r) = Len(submitCh) + 1 /\ r[Len(r)] = smp /\ source.whole /\ source.up
      /\ \A i \in 1..Len(submitCh) : r[i] = submitCh[i]
      /\ source'.n = source.n /\ smp.of = source.n /\ smp.kind = kind
      /\ source'.started = (source.started \/ kind # "audio")
      /\ source'.timely => source.timely
  BY DEF LiveSubmits
<1>2. \A i \in 1..Len(r) : i \in 1..Len(submitCh) \/ i = Len(r)
  <2>1. Len(submitCh) \in Nat
    BY DEF LiveTyped
  <2> QED BY <1>1, <2>1
<1>3. \A i \in 1..Len(submitCh) :
        submitCh[i].of = source.n /\ (LiveVideo(submitCh[i]) => source.started)
  BY <1>1 DEF LiveQueueInv
<1>4. \A i \in 1..Len(r) : r[i].of = source'.n /\ (LiveVideo(r[i]) => source'.started)
  BY <1>1, <1>2, <1>3 DEF LiveVideo
<1>5. LiveTimely' => LiveOrdered(submitCh)'
  <2> SUFFICES ASSUME LiveTimely' PROVE LiveOrdered(submitCh)'
    OBVIOUS
  <2>1. source.timely /\ LiveOrdered(submitCh)
    BY <1>1 DEF LiveTimely, LiveQueueInv
  <2> QED BY <2>1, LiveSubmitOrder
<1> QED BY <1>4, <1>5 DEF LiveQueueInv, LiveVideo

LEMMA LiveSubmitKey ==
    ASSUME LiveTyped, LiveQueueInv(submitCh), LiveKeyInv(bc, submitCh), bc' = bc,
           NEW kind, NEW smp, NEW r, r = submitCh', LiveSubmits(kind, smp, r)
    PROVE  LiveKeyInv(bc, submitCh)'
<1> SUFFICES ASSUME source'.whole, bc.running PROVE LiveKeyInv(bc, submitCh)'
  BY DEF LiveKeyInv
<1>1. /\ Len(r) = Len(submitCh) + 1 /\ r[Len(r)] = smp /\ source.whole /\ source.up
      /\ \A i \in 1..Len(submitCh) : r[i] = submitCh[i]
      /\ source'.n = source.n /\ smp.kind = kind
  BY DEF LiveSubmits
<1>2. /\ Len(submitCh) \in Nat
      /\ source'.started = (source.started \/ kind # "audio")
      /\ ~source.started => kind \in {"key", "audio"}
  BY DEF LiveTyped, LiveSubmits
<1>3. ASSUME LiveKeyAhead(submitCh) PROVE LiveKeyAhead(submitCh)'
  <2>1. CASE source.started
    <3>1. PICK j \in 1..Len(submitCh) :
            submitCh[j].kind = "key" /\ \A k \in 1..(j - 1) : submitCh[k].kind = "audio"
      BY <1>3, <2>1 DEF LiveKeyAhead
    <3>2. /\ j \in 1..Len(r) /\ r[j].kind = "key"
          /\ \A k \in 1..(j - 1) : k \in 1..Len(submitCh) /\ r[k].kind = "audio"
      BY <1>1, <1>2, <3>1
    <3> QED BY <3>2 DEF LiveKeyAhead
  <2>2. CASE ~source.started /\ source'.started
    <3>1. smp.kind = "key"
      BY <1>1, <1>2, <2>2
    <3>2. \A k \in 1..Len(submitCh) : submitCh[k].kind = "audio"
      BY <1>1, <2>2 DEF LiveQueueInv, LiveVideo
    <3>3. Len(r) \in 1..Len(r) /\ r[Len(r)].kind = "key" /\ Len(r) - 1 = Len(submitCh)
      BY <1>1, <1>2, <3>1
    <3>4. \A k \in 1..(Len(r) - 1) : r[k].kind = "audio"
      BY <1>1, <3>2, <3>3
    <3> QED BY <3>3, <3>4 DEF LiveKeyAhead
  <2> QED BY <1>2, <2>1, <2>2 DEF LiveKeyAhead
<1> QED BY <1>1, <1>3 DEF LiveKeyInv

LEMMA LiveSubmitShift ==
    ASSUME LiveTyped, LiveSourceInv, LiveShiftInv(bc, submitCh), bc' = bc,
           NEW kind, NEW smp, NEW r, r = submitCh', LiveSubmits(kind, smp, r),
           LiveTimely' => /\ LiveTimely
                          /\ \A x \in Int : LiveAhead(x, submitCh) => LiveAhead(x, submitCh)'
    PROVE  LiveShiftInv(bc, submitCh)'
<1> SUFFICES ASSUME LiveTimely', bc.running PROVE LiveShiftInv(bc, submitCh)'
  BY DEF LiveShiftInv
<1>1. LiveTimely /\ source'.whole /\ source'.timely
  BY DEF LiveTimely
<1>2. /\ Len(r) = Len(submitCh) + 1 /\ r[Len(r)] = smp
      /\ \A i \in 1..Len(submitCh) : r[i] = submitCh[i]
      /\ source'.lead = source.lead /\ smp.kind = kind
      /\ ~source.started => kind \in {"key", "audio"} /\ source.clock = 0
      /\ smp.dts = IF kind = "audio" THEN source.clock ELSE source.clock - source.lead
      /\ source.started \/ source.lead = 0 \/ kind # "audio"
  BY <1>1 DEF LiveSubmits, LiveSourceInv
<1>3. /\ Len(submitCh) \in Nat /\ (submitCh = <<>> <=> Len(submitCh) = 0)
      /\ r \in Seq(LiveQueued) /\ bc.part.base \in Int /\ bc.part.span \in Nat
      /\ source.lead \in {0, 1}
  <2>1. submitCh \in Seq(LiveQueued) /\ r \in Seq(LiveQueued)
    BY DEF LiveTyped, LiveSubmits
  <2>2. Len(submitCh) \in Nat /\ (submitCh = <<>> <=> Len(submitCh) = 0)
    BY <2>1
  <2> QED BY <2>1, <2>2 DEF LiveTyped, LiveCasts, LiveMaking, LiveSources
<1>4. bc.haveShift => bc.shift = source'.lead
  BY <1>1, <1>2 DEF LiveShiftInv
<1>5. bc.part.frames = 0 => bc.part.span = 0
  BY <1>1 DEF LiveShiftInv
<1>6. bc.part.frames > 0 => 0 <= bc.part.base /\ LiveAhead(LiveEnd(bc.part), submitCh)'
  BY <1>1, <1>3 DEF LiveShiftInv, LiveEnd
<1>7. ASSUME ~bc.haveShift
      PROVE  /\ bc.part.frames = 0 /\ r # <<>>
             /\ r[1].kind \in {"key", "audio"} /\ r[1].dts = -source'.lead
  <2>1. /\ bc.part.frames = 0 /\ (submitCh = <<>> => ~source.started)
        /\ submitCh # <<>> => submitCh[1].kind \in {"key", "audio"} /\ submitCh[1].dts = -source.lead
    BY <1>1, <1>7 DEF LiveShiftInv
  <2>2. r # <<>>
    BY <1>2, <1>3
  <2>3. CASE submitCh = <<>>
    <3>1. r[1] = smp /\ ~source.started
      BY <1>2, <1>3, <2>1, <2>3
    <3> QED BY <1>2, <1>3, <2>1, <2>2, <3>1
  <2>4. CASE submitCh # <<>>
    <3>1. r[1] = submitCh[1]
      BY <1>2, <1>3, <2>4
    <3> QED BY <1>2, <2>1, <2>2, <2>4, <3>1
  <2> QED BY <2>3, <2>4
<1>8. r = submitCh' /\ bc' = bc
  OBVIOUS
<1> QED BY <1>4, <1>5, <1>6, <1>7, <1>8 DEF LiveShiftInv

\* The viewers, when nothing but the source and its queue has moved.
LEMMA LiveViewersWatch ==
    ASSUME LiveInv, bc' = bc, subs' = subs, viewer' = viewer, LiveGoesOn,
           \A s, n : LiveGood(s, n) => LiveGood(s, n)',
           \A s \in Seq(LiveParts) : LiveFollows(s, bc, submitCh) => LiveFollows(s, bc, submitCh)',
           NEW v \in LiveViewers
    PROVE  LiveViewerInv(v)'
<1>1. LiveViewerInv(v) /\ viewer[v] \in LiveHandles
  BY DEF LiveInv, LiveTyped
<1>2. LiveFeed(v) \in Seq(LiveParts) /\ LiveFeed(v)' = LiveFeed(v)
  <2>1. /\ viewer[v].last \in Seq(LiveParts) /\ viewer[v].todo \in Seq(LiveParts)
        /\ viewer[v].ch \in Seq(LiveParts)
    BY <1>1 DEF LiveHandles
  <2> QED BY <2>1 DEF LiveFeed
<1>3. LiveGood(LiveFeed(v), viewer[v].init)'
  BY <1>1, <1>2 DEF LiveViewerInv
<1>4. v \in subs => LiveFollows(LiveFeed(v), bc, submitCh)'
  BY <1>1, <1>2 DEF LiveViewerInv
<1>5. LiveIntact(v)' => LiveIntact(v)
  BY DEF LiveIntact, LiveGoesOn
<1> QED BY <1>1, <1>2, <1>3, <1>4, <1>5 DEF LiveViewerInv, LiveGoesOn

\* A sample that is submitted leaves the broadcaster and the viewers alone.
LEMMA LiveSubmitKeeps ==
    ASSUME LiveAssumption, LiveInv, LiveSubmit PROVE LiveInv'
<1>1. /\ LiveTyped /\ LiveSourceInv /\ LiveCastInv(bc, submitCh) /\ LiveQueueInv(submitCh)
      /\ LiveKeyInv(bc, submitCh) /\ LiveShiftInv(bc, submitCh)
  BY DEF LiveInv, LiveCastInv
<1>2. bc' = bc /\ subs' = subs /\ viewer' = viewer
  BY DEF LiveSubmit
<1>3. PICK kind, smp, r : r = submitCh' /\ LiveSubmits(kind, smp, r)
  BY <1>1, LiveSubmitFacts
<1>4. LiveGoesOn /\ (LiveTimely' => LiveQueueGrows(r))
  BY <1>1, <1>3, LiveSubmitGoesOn, LiveSubmitGrows DEF LiveTimely
<1>5. /\ LiveTimely' => LiveTimely
      /\ LiveTimely' => \A x \in Int : LiveAhead(x, submitCh) => LiveAhead(x, submitCh)'
      /\ \A s, n : LiveGood(s, n) => LiveGood(s, n)'
      /\ \A s \in Seq(LiveParts) : LiveFollows(s, bc, submitCh) => LiveFollows(s, bc, submitCh)'
  BY <1>2, <1>3, <1>4, LiveStillAhead
<1>6. LiveQueueInv(submitCh)' /\ LiveKeyInv(bc, submitCh)' /\ LiveShiftInv(bc, submitCh)'
  BY <1>1, <1>2, <1>3, <1>5, LiveSubmitQueue, LiveSubmitKey, LiveSubmitShift
<1>7. /\ source'.n = source.n /\ source'.up /\ source.up
      /\ source' \in LiveSources /\ submitCh' \in Seq(LiveQueued)
  BY <1>3 DEF LiveSubmits
<1>8. LiveTyped'
  BY <1>1, <1>2, <1>7 DEF LiveTyped
<1>9. LiveSourceInv'
  <2>1. /\ source'.sent = source.sent + 1 /\ source.sent < LiveSamples
        /\ source'.clock = source.clock + smp.span /\ smp.span \in {0, 1}
        /\ source'.jumped = source.jumped /\ (source'.timely => source.timely)
        /\ source'.started = (source.started \/ kind # "audio")
        /\ kind = "audio" => smp.span = 0
    BY <1>3 DEF LiveSubmits, LiveQueued
  <2>2. source.sent \in Nat /\ source.clock \in Int /\ LiveSamples \in Nat /\ LiveJump \in Nat
    BY <1>1 DEF LiveTyped, LiveSources, LiveAssumption
  <2>3. source'.sent <= LiveSamples
    BY <2>1, <2>2
  <2>4. source'.clock <= source'.sent + IF source'.jumped THEN LiveJump ELSE 0
    <3>1. source.clock <= source.sent + IF source.jumped THEN LiveJump ELSE 0
      BY <1>1 DEF LiveSourceInv
    <3>2. CASE source.jumped
      BY <2>1, <2>2, <3>1, <3>2
    <3>3. CASE ~source.jumped
      BY <2>1, <2>2, <3>1, <3>3
    <3> QED BY <3>2, <3>3
  <2>5. source'.timely => 0 <= source'.clock
    BY <1>1, <2>1, <2>2 DEF LiveSourceInv
  <2>6. ASSUME ~source'.started PROVE source'.clock = 0
    <3>1. kind = "audio" /\ ~source.started
      BY <2>1, <2>6
    <3>2. source.clock = 0 /\ smp.span = 0
      BY <1>1, <2>1, <3>1 DEF LiveSourceInv
    <3> QED BY <2>1, <3>2
  <2> QED BY <2>3, <2>4, <2>5, <2>6 DEF LiveSourceInv
<1>10. LiveCastInv(bc, submitCh)'
  <2>1. bc.running => bc'.init = source'.n /\ LiveFollows(bc.gop, bc, submitCh)'
    <3>1. bc.gop \in Seq(LiveParts)
      BY <1>1 DEF LiveTyped, LiveCasts
    <3> QED BY <1>1, <1>2, <1>5, <1>7, <3>1 DEF LiveCastInv
  <2> QED BY <1>1, <1>2, <1>6, <1>7, <2>1 DEF LiveCastInv
<1>11. \A v \in LiveViewers : LiveViewerInv(v)'
  BY <1>2, <1>4, <1>5, LiveViewersWatch
<1> QED BY <1>8, <1>9, <1>10, <1>11 DEF LiveInv

\* A clock that jumps ahead, or a session whose times are no longer relied on.
LEMMA LiveResyncKeeps ==
    ASSUME LiveAssumption, LiveInv, LiveResync PROVE LiveInv'
<1>1. /\ LiveTyped /\ LiveSourceInv /\ LiveCastInv(bc, submitCh) /\ LiveQueueInv(submitCh)
      /\ LiveKeyInv(bc, submitCh) /\ LiveShiftInv(bc, submitCh)
      /\ bc' = bc /\ subs' = subs /\ viewer' = viewer /\ submitCh' = submitCh
  BY DEF LiveInv, LiveCastInv, LiveResync
<1>2. PICK clock \in {source.clock - LiveJump, source.clock + LiveJump} :
        source' = [source EXCEPT !.clock = clock, !.jumped = TRUE,
                                 !.timely = @ /\ clock >= source.clock]
  BY DEF LiveResync
<1>3. source \in LiveSources /\ LiveJump \in Nat /\ source.clock \in Int /\ source.sent \in Nat
  BY <1>1 DEF LiveTyped, LiveSources, LiveAssumption
<1>4. clock \in Int /\ clock <= source.clock + LiveJump
  BY <1>3
<1>5. PICK timely \in BOOLEAN : timely = (source.timely /\ clock >= source.clock)
  <2>1. (source.timely /\ clock >= source.clock) \in BOOLEAN
    OBVIOUS
  <2> QED BY <2>1, Zenon
<1>6. /\ source' \in LiveSources /\ source'.n = source.n /\ source'.up = source.up
      /\ source'.sent = source.sent /\ source'.started = source.started /\ source'.clock = clock
      /\ source'.lead = source.lead /\ source'.jumped /\ source'.whole = source.whole
      /\ source'.timely = timely
  BY <1>2, <1>3, <1>4, <1>5 DEF LiveSources
<1>7. source'.timely => source.timely /\ clock >= source.clock
  BY <1>5, <1>6
<1>8. LiveTyped' /\ LiveSourceInv'
  <2>1. LiveTyped'
    BY <1>1, <1>6 DEF LiveTyped
  <2>2. source.started /\ ~source.jumped
    BY DEF LiveResync
  <2> QED BY <1>1, <1>3, <1>4, <1>6, <1>7, <2>1, <2>2 DEF LiveSourceInv
<1>9. LiveKeyInv(bc, submitCh)'
  BY <1>1, <1>6 DEF LiveKeyInv, LiveKeyAhead
<1>10. CASE source'.timely
  <2>1. LiveGoesOn
    BY <1>3, <1>4, <1>6, <1>7, <1>10 DEF LiveGoesOn
  <2>2. PICK r : r = submitCh'
    OBVIOUS
  <2>3. LiveQueueGrows(r)
    BY <1>1, <2>2 DEF LiveQueueGrows, LiveTyped
  <2>4. /\ LiveTimely' => LiveTimely
        /\ LiveTimely' => \A x \in Int : LiveAhead(x, submitCh) => LiveAhead(x, submitCh)'
        /\ \A s, n : LiveGood(s, n) => LiveGood(s, n)'
        /\ \A s \in Seq(LiveParts) : LiveFollows(s, bc, submitCh) => LiveFollows(s, bc, submitCh)'
    BY <1>1, <2>1, <2>2, <2>3, LiveStillAhead
  <2>5. LiveOrdered(submitCh) => LiveOrdered(submitCh)'
    <3>1. \A i \in 1..Len(submitCh) :
            submitCh[i].dts + submitCh[i].span + source.lead <= source.clock =>
                submitCh[i].dts + submitCh[i].span + source.lead <= clock
      <4>1. \A i \in 1..Len(submitCh) : submitCh[i] \in LiveQueued
        BY <1>1 DEF LiveTyped
      <4>2. \A i \in 1..Len(submitCh) : submitCh[i].dts \in Int /\ submitCh[i].span \in {0, 1}
        BY <4>1 DEF LiveQueued
      <4>3. source.lead \in {0, 1}
        BY <1>3 DEF LiveSources
      <4>4. \A x, y, z, c \in Int : x + y + z <= c /\ c <= clock => x + y + z <= clock
        BY <1>4
      <4>5. source.lead \in Int /\ \A i \in 1..Len(submitCh) : submitCh[i].span \in Int
        BY <4>2, <4>3
      <4>6. source.clock <= clock
        BY <1>3, <1>4, <1>7, <1>10
      <4>7. TAKE i \in 1..Len(submitCh)
      <4>8. submitCh[i].dts \in Int /\ submitCh[i].span \in Int
        BY <4>2, <4>5
      <4> QED BY <1>3, <4>4, <4>5, <4>6, <4>8
    <3> QED BY <1>1, <1>6, <3>1 DEF LiveOrdered
  <2>6. LiveQueueInv(submitCh)'
    BY <1>1, <1>6, <2>4, <2>5 DEF LiveQueueInv
  <2>7. bc.part.base \in Int /\ bc.part.span \in Nat /\ bc.gop \in Seq(LiveParts)
    BY <1>1 DEF LiveTyped, LiveCasts, LiveMaking
  <2>8. LiveShiftInv(bc, submitCh)'
    <3> SUFFICES ASSUME bc.running, LiveTimely' PROVE LiveShiftInv(bc, submitCh)'
      BY <1>1 DEF LiveShiftInv
    <3>1. bc.part.frames > 0 => 0 <= bc.part.base /\ LiveAhead(LiveEnd(bc.part), submitCh)'
      BY <1>1, <2>4, <2>7 DEF LiveShiftInv, LiveEnd
    <3>2. /\ bc.haveShift => bc.shift = source.lead
          /\ ~bc.haveShift =>
              /\ bc.part.frames = 0
              /\ submitCh = <<>> => ~source.started
              /\ submitCh # <<>> => /\ submitCh[1].kind \in {"key", "audio"}
                                    /\ submitCh[1].dts = -source.lead
          /\ bc.part.frames = 0 => bc.part.span = 0
      BY <1>1, <2>4 DEF LiveShiftInv
    <3> QED BY <1>1, <1>6, <3>1, <3>2 DEF LiveShiftInv
  <2>9. bc.running => LiveFollows(bc.gop, bc, submitCh)'
    BY <1>1, <2>4, <2>7 DEF LiveCastInv
  <2>10. LiveCastInv(bc, submitCh)'
    BY <1>1, <1>6, <1>9, <2>6, <2>8, <2>9 DEF LiveCastInv
  <2>11. \A v \in LiveViewers : LiveViewerInv(v)'
    BY <1>1, <2>1, <2>4, LiveViewersWatch
  <2> QED BY <1>8, <2>10, <2>11 DEF LiveInv
<1>11. CASE ~source'.timely
  <2>1. ~LiveTimely'
    BY <1>11 DEF LiveTimely
  <2>2. \A s, n : LiveGood(s, n) => LiveGood(s, n)'
    BY <1>6, <2>1 DEF LiveGood
  <2>3. \A s : LiveFollows(s, bc, submitCh) => LiveFollows(s, bc, submitCh)'
    BY <1>1, <1>6, <2>1, <2>2 DEF LiveFollows
  <2>4. LiveQueueInv(submitCh)' /\ LiveShiftInv(bc, submitCh)'
    BY <1>1, <1>6, <2>1 DEF LiveQueueInv, LiveShiftInv
  <2>5. LiveCastInv(bc, submitCh)'
    BY <1>1, <1>6, <1>9, <2>3, <2>4 DEF LiveCastInv
  <2>6. ASSUME NEW v \in LiveViewers PROVE LiveViewerInv(v)'
    <3>1. LiveViewerInv(v)
      BY DEF LiveInv
    <3>2. LiveGood(LiveFeed(v), viewer[v].init)' /\ (v \in subs => LiveFollows(LiveFeed(v), bc, submitCh)')
      BY <1>1, <2>2, <2>3, <3>1 DEF LiveViewerInv, LiveFeed
    <3> QED BY <1>1, <1>6, <3>1, <3>2 DEF LiveViewerInv, LiveFeed, LiveIntact
  <2> QED BY <1>8, <2>5, <2>6 DEF LiveInv
<1> QED BY <1>10, <1>11

LEMMA LiveInvInit ==
    ASSUME LiveAssumption, LiveInit PROVE LiveInv
<1>1. PICK e \in Seq(LiveParts) : e = <<>>
  <2>1. <<>> \in Seq(LiveParts)
    OBVIOUS
  <2> QED BY <2>1
<1>2. /\ source = [n |-> 0, up |-> FALSE, sent |-> 0, started |-> FALSE, clock |-> 0, lead |-> 0,
                   jumped |-> FALSE, whole |-> TRUE, timely |-> TRUE]
      /\ source \in LiveSources
  BY DEF LiveInit, LiveNoSource, LiveSources
<1>3. submitCh = <<>> /\ submitCh \in Seq(LiveQueued) /\ subs = {}
  BY DEF LiveInit
<1>4. /\ bc \in LiveCasts /\ bc.running = FALSE /\ bc.init = 0 /\ bc.gop = <<>> /\ bc.dropped = FALSE
  <2>1. bc = [running |-> FALSE, init |-> 0, gop |-> e, bytes |-> 0, dropped |-> FALSE,
              seq |-> 0, part |-> LiveNoPart, shift |-> 0, haveShift |-> FALSE, closed |-> FALSE]
    BY <1>1 DEF LiveInit, LiveStopped
  <2>2. LiveNoPart \in LiveMaking
    BY DEF LiveNoPart, LiveMaking
  <2> QED BY <1>1, <2>1, <2>2 DEF LiveCasts
<1>5. ASSUME NEW v \in LiveViewers
      PROVE  /\ viewer[v] = [pc |-> "idle", init |-> 0, dry |-> FALSE, last |-> e, todo |-> e,
                             ch |-> e, open |-> FALSE]
             /\ viewer[v] \in LiveHandles
  <2>1. viewer[v] = [pc |-> "idle", init |-> 0, dry |-> FALSE, last |-> e, todo |-> e,
                     ch |-> e, open |-> FALSE]
    BY <1>1, <1>5 DEF LiveInit, LiveNoViewer
  <2> QED BY <2>1 DEF LiveHandles
<1>6. LiveTyped
  <2>1. viewer \in [LiveViewers -> LiveHandles]
    BY <1>5 DEF LiveInit
  <2> QED BY <1>2, <1>3, <1>4, <2>1 DEF LiveTyped
<1>7. LiveSourceInv
  BY <1>2 DEF LiveSourceInv, LiveAssumption
<1>8. LiveCastInv(bc, submitCh)
  BY <1>2, <1>4 DEF LiveCastInv, LiveQueueInv, LiveKeyInv, LiveShiftInv
<1>9. ASSUME NEW v \in LiveViewers PROVE LiveViewerInv(v)
  <2>1. e \o e \o e = <<>> /\ Len(e) = 0
    BY <1>1
  <2>2. LiveFeed(v) = <<>>
    BY <1>5, <1>9, <2>1 DEF LiveFeed
  <2>3. LiveGood(LiveFeed(v), viewer[v].init)
    BY <2>2, LiveGoodOne
  <2>4. viewer[v] = LiveNoViewer
    BY <1>9 DEF LiveInit
  <2> QED BY <1>2, <1>3, <1>5, <1>9, <2>1, <2>3, <2>4 DEF LiveViewerInv, LiveAssumption
<1> QED BY <1>6, <1>7, <1>8, <1>9 DEF LiveInv

LEMMA LiveStutters ==
    ASSUME LiveInv, UNCHANGED liveVars PROVE LiveInv'
<1>1. UNCHANGED <<source, submitCh, bc, subs, viewer>>
  BY DEF liveVars
<1>2. LiveTyped' /\ LiveSourceInv'
  BY <1>1 DEF LiveInv, LiveTyped, LiveSourceInv
<1>3. PICK c : c = bc'
  OBVIOUS
<1>4. PICK r : r = submitCh'
  OBVIOUS
<1>5. LiveCastInv(bc, submitCh)'
  <2>1. LiveCastInv(c, r)
    BY <1>1, <1>3, <1>4 DEF LiveInv
  <2> QED BY <1>1, <1>3, <1>4, <2>1, LiveSame
<1>6. ASSUME NEW v \in LiveViewers PROVE LiveViewerInv(v)'
  <2>1. LiveViewerInv(v) /\ viewer'[v] = viewer[v] /\ (v \in subs' <=> v \in subs)
    BY <1>1 DEF LiveInv
  <2>2. PICK f : f = LiveFeed(v)
    OBVIOUS
  <2>3. /\ c.running = bc.running /\ c.seq = bc.seq
        /\ LiveFollows(f, bc, submitCh) => LiveFollows(f, c, r)
    BY <1>1, <1>3, <1>4
  <2> QED BY <1>1, <1>3, <1>4, <2>1, <2>2, <2>3, LiveViewerStays
<1> QED BY <1>2, <1>5, <1>6 DEF LiveInv

LEMMA LiveInvNext ==
    ASSUME LiveAssumption, LiveInv, [LiveNext]_liveVars PROVE LiveInv'
<1>1. CASE LiveConnect
  BY <1>1, LiveConnectKeeps
<1>2. CASE LiveSubmit
  BY <1>2, LiveSubmitKeeps
<1>3. CASE LiveLost
  BY <1>3, LiveLostKeeps
<1>4. CASE LiveRemove
  BY <1>4, LiveRemoveKeeps
<1>5. CASE LiveWriteSample
  BY <1>5, LiveSkippedKeeps, LiveWrittenKeeps
<1>6. ASSUME NEW v \in LiveViewers, LiveOpen(v) \/ LiveLeave(v) \/ LiveHandler(v) PROVE LiveInv'
  <2>1. \/ LiveOpen(v) \/ LiveLeave(v) \/ LiveWritePrelude(v) \/ LiveReceive(v) \/ LiveUnregister(v)
    BY <1>6 DEF LiveHandler, LiveEnds
  <2> QED
    BY <2>1, LiveOpenKeeps, LiveLeaveKeeps, LivePreludeKeeps, LiveReceiveKeeps, LiveUnregisterKeeps
<1>7. CASE LiveResync
  BY <1>7, LiveResyncKeeps
<1>8. CASE UNCHANGED liveVars
  BY <1>8, LiveStutters
<1> QED BY <1>1, <1>2, <1>3, <1>4, <1>5, <1>6, <1>7, <1>8 DEF LiveNext

\* A viewer's own part of LiveInv is what LiveFeedWhole says of it.
LEMMA LiveInvWhole ==
    ASSUME LiveInv PROVE LiveFeedWhole
<1>1. \A v \in LiveViewers : LiveViewerInv(v)
  BY DEF LiveInv
<1>2. LiveRegistered
  BY <1>1 DEF LiveViewerInv, LiveRegistered
<1>3. LiveNoGap
  BY <1>1 DEF LiveViewerInv, LiveNoGap, LiveGood
<1>4. LiveOneSession
  <2> SUFFICES ASSUME NEW v \in LiveViewers, LiveIntact(v), NEW i \in DOMAIN LiveFeed(v)
               PROVE  LiveFeed(v)[i].of = {viewer[v].init}
    BY DEF LiveOneSession
  <2>1. LiveFeed(v) \in Seq(LiveParts)
    <3>1. viewer[v] \in LiveHandles
      BY DEF LiveInv, LiveTyped
    <3> QED BY <3>1 DEF LiveFeed, LiveHandles
  <2>2. LiveGood(LiveFeed(v), viewer[v].init)
    BY <1>1 DEF LiveViewerInv
  <2>3. i \in 1..Len(LiveFeed(v))
    BY <2>1
  <2> QED BY <2>2, <2>3 DEF LiveGood, LiveIntact
<1>5. LiveStartsOnKey
  BY <1>1 DEF LiveViewerInv, LiveStartsOnKey
<1>6. LiveTimesGrow
  BY <1>1 DEF LiveViewerInv, LiveTimesGrow, LiveGood, LiveEnd, LiveIntact, LiveTimely
<1> QED BY <1>2, <1>3, <1>4, <1>5, <1>6 DEF LiveFeedWhole

\* LiveFeedWhole: whatever the recorder submits and however slowly the browsers read,
\* HandleStream gives every viewer the init and GOP it registered with and then the
\* parts that writeSample fans out, without a seam: no part missing or twice, none of
\* another session, a keyframe first, and none that overlaps the next, whichever
\* frames recTrack.write stalled and however far the clock jumped ahead, unless it
\* went back or audio overtook the first keyframe; and its channel is open exactly
\* as long as it is in Broadcaster.subs.
THEOREM LiveFedWhole == LiveSpec => []LiveFeedWhole
  <1> USE LiveAssumption
  <1>1. LiveInit => LiveInv
    BY LiveInvInit
  <1>2. LiveInv /\ [LiveNext]_liveVars => LiveInv'
    BY LiveInvNext
  <1>3. LiveInv => LiveFeedWhole
    BY LiveInvWhole
  <1> QED BY <1>1, <1>2, <1>3, PTL DEF LiveSpec

-----------------------------------------------------------------------------
(* SamplePath: the inductive invariant.                                    *)

\* What the Recorder holds.
PathSamples == [dts : Int, ntp : Int, key : BOOLEAN, n : Nat]
PathSegments == [start : Int, ntp : Int, video : BOOLEAN, end : Int, last : Nat]
PathNotes == [video : BOOLEAN, key : BOOLEAN, n : Nat, after : Nat, drift : Int]
PathRecorders ==
    [next : [PathTracks -> PathSamples \cup {PathNone}],
     anchor : [PathTracks -> PathSamples \cup {PathNone}],
     lastDuration : [PathTracks -> Int], seg : PathSegments \cup {PathNone}, resync : BOOLEAN,
     hasVideo : BOOLEAN, started : BOOLEAN, reordering : BOOLEAN, extractor : BOOLEAN,
     stamp : Int \cup {PathNone}, pictured : Int]

PathCameras == [off : Int, jumped : BOOLEAN, sent : Nat, heard : BOOLEAN, faults : Nat]

PathTyped ==
    /\ pathNow \in Nat
    /\ pathCamera \in PathCameras
    /\ path \in PathRecorders
    /\ pathWrote \in PathNotes \cup {PathNone}

\* videoDecodeTime takes nothing but a keyframe next.
PathNeedsKey(p) == IF p.reordering THEN ~p.extractor ELSE ~p.started

\* The picture s can follow what is in the segment.
PathFollows(seg, s) ==
    seg # PathNone /\ seg.video =>
        s # PathNone /\ s.dts >= seg.start /\ (s.key \/ seg.last = s.n - 1)

\* The pending picture can follow what is in the segment, and, until something was
\* cut, the first segment begins with a keyframe.
PathSound(p) ==
    /\ PathFollows(p.seg, p.next["video"])
    /\ p.next["video"] # PathNone =>
           p.hasVideo /\ (p.seg = PathNone /\ ~p.resync => p.next["video"].key)

\* The pending picture is the camera's last one, unless the next one to be taken is
\* a keyframe.
PathLatest(p, sent) ==
    PathNeedsKey(p) \/ (p.next["video"] # PathNone /\ p.next["video"].n = sent)

\* Until the camera's clock jumps, decode times are the times of arrival, or a
\* little earlier.
PathNear(ntp, dts) == 0 <= ntp - dts /\ ntp - dts <= 2
PathTimely(p, now) ==
    /\ \A t \in PathTracks :
           p.next[t] # PathNone => PathNear(p.next[t].ntp, p.next[t].dts) /\ p.next[t].ntp <= now
    /\ p.seg # PathNone => PathNear(p.seg.ntp, p.seg.start)

\* Without audio a segment starts with the pending picture, or where the anchor of
\* the video says.
PathAnchored(p) ==
    /\ p.anchor["video"] # PathNone
    /\ \/ /\ p.next["video"] # PathNone
          /\ p.seg.start = p.next["video"].dts /\ p.seg.ntp = p.next["video"].ntp
       \/ ~PathDrifted(p.anchor["video"], [dts |-> p.seg.start, ntp |-> p.seg.ntp])
PathAlone(p) ==
    /\ p.next["audio"] = PathNone
    /\ p.seg # PathNone => PathAnchored(p)

PathInv ==
    /\ PathTyped
    /\ PathSound(path)
    /\ PathLatest(path, pathCamera.sent)
    /\ ~pathCamera.jumped => pathCamera.off = 0 /\ PathTimely(path, pathNow)
    /\ ~pathCamera.heard => PathAlone(path)
    /\ PathFaithful

-----------------------------------------------------------------------------
(* The helpers of write.                                                   *)

LEMMA PathTwoTracks ==
    /\ PathTracks = {"video", "audio"} /\ "video" \in PathTracks /\ "audio" \in PathTracks
    /\ PathOther("video") = "audio" /\ PathOther("audio") = "video"
    /\ PathIsVideo("video") /\ ~PathIsVideo("audio")
  BY DEF PathTracks, PathOther, PathIsVideo

\* nextSegmentStartingPos returns a pending sample, if there is one.
LEMMA PathOldestPends ==
    ASSUME NEW p \in PathRecorders, NEW t \in PathTracks, p.next[t] # PathNone
    PROVE  \E u \in PathTracks : p.next[u] # PathNone /\ PathOldest(p) = p.next[u]
<1> DEFINE pending == {p.next[u] : u \in PathTracks} \ {PathNone}
           near == {s \in pending : \A o \in pending : o.dts - s.dts <= PathBack}
<1>1. /\ pending \subseteq PathSamples
      /\ \A s \in pending : \E u \in PathTracks : p.next[u] # PathNone /\ s = p.next[u]
  BY DEF PathRecorders
<1>2. \A s \in pending : s.dts \in Int
  BY <1>1 DEF PathSamples
<1>3. PICK v \in PathTracks : v # t /\ PathTracks = {t, v}
  BY PathTwoTracks
<1>4. \E s \in near : \A o \in near : s.dts <= o.dts
  <2>1. CASE p.next[v] = PathNone
    <3>1. pending = {p.next[t]}
      BY <1>3, <2>1
    <3> DEFINE a == p.next[t]
    <3>2. a.dts \in Int /\ a.dts - a.dts <= PathBack
      BY <3>1, <1>2, PathAssumption
    <3>3. near = {a}
      BY <3>1, <3>2
    <3> HIDE DEF near, pending, a
    <3> QED BY <3>3, <3>2
  <2>2. CASE p.next[v] # PathNone
    <3>1. pending = {p.next[t], p.next[v]}
      BY <1>3, <2>2
    <3> DEFINE a == p.next[t]
               b == p.next[v]
    <3>2. a.dts \in Int /\ b.dts \in Int /\ PathBack \in Nat
      BY <3>1, <1>2, PathAssumption
    <3>3. /\ a \in near <=> a.dts - a.dts <= PathBack /\ b.dts - a.dts <= PathBack
          /\ b \in near <=> a.dts - b.dts <= PathBack /\ b.dts - b.dts <= PathBack
      BY <3>1
    <3>4. near \subseteq {a, b}
      BY <3>1
    <3>5. a \in near \/ b \in near
      BY <3>2, <3>3
    <3> HIDE DEF near, pending, a, b
    <3>6. CASE a \in near /\ (b \in near => a.dts <= b.dts)
      BY <3>6, <3>4, <3>2
    <3>7. CASE b \in near /\ (a \in near => b.dts <= a.dts)
      BY <3>7, <3>4, <3>2
    <3> QED BY <3>2, <3>5, <3>6, <3>7
  <2> QED BY <2>1, <2>2
<1>5. PathOldest(p) \in near
  BY <1>4 DEF PathOldest
<1>6. PathOldest(p) \in pending
  BY <1>5
<1> HIDE DEF pending, near
<1> QED BY <1>1, <1>6

\* segmentStart returns the sample or the other track's pending one.
LEMMA PathStartPends ==
    ASSUME NEW p \in PathRecorders, NEW t \in PathTracks, NEW s \in PathSamples
    PROVE  /\ PathStart(p, t, s) \in PathSamples
           /\ PathStart(p, t, s).dts <= s.dts
           /\ \/ PathStart(p, t, s) = s
              \/ /\ p.next[PathOther(t)] # PathNone
                 /\ PathStart(p, t, s) = p.next[PathOther(t)]
  BY PathAssumption, PathTwoTracks DEF PathStart, PathRecorders, PathSamples

\* The segment that a sample goes to is the open one or one that starts with it.
PathJoins(p, t, s) ==
    /\ p.seg # PathNone
    /\ PathTarget(p, t, s) = p.seg
    /\ s.dts >= p.seg.start
    /\ PathIsVideo(t) /\ ~p.seg.video => s.key
PathBegins(p, t, s) ==
    /\ PathTarget(p, t, s) = PathSegment(PathStart(p, t, s))
    /\ p.seg = PathNone => PathOpens(p, t, s)
    /\ p.seg # PathNone => s.key

LEMMA PathTargets ==
    ASSUME NEW p \in PathRecorders, NEW t \in PathTracks, NEW s \in PathSamples
    PROVE  \/ /\ PathTarget(p, t, s) = PathNone
              /\ p.seg = PathNone => p.resync
              /\ p.seg # PathNone /\ p.seg.video => s.dts < p.seg.start
           \/ PathJoins(p, t, s)
           \/ PathBegins(p, t, s)
<1>1. CASE p.seg = PathNone
  BY <1>1 DEF PathTarget, PathBegins, PathOpens
<1>2. CASE p.seg # PathNone
  <2>1. p.seg \in PathSegments
    BY <1>2 DEF PathRecorders
  <2>2. p.seg.start \in Int /\ s.dts \in Int
    BY <2>1 DEF PathSegments, PathSamples
  <2> QED BY <1>2, <2>2 DEF PathTarget, PathJoins, PathBegins
<1> QED BY <1>1, <1>2

-----------------------------------------------------------------------------
(* PathStore: what becomes of a sample that has left the lookahead.        *)

LEMMA PathSegmentFields ==
    ASSUME NEW s \in PathSamples
    PROVE  /\ PathSegment(s) \in PathSegments /\ PathSegment(s) # PathNone
           /\ PathSegment(s).start = s.dts /\ PathSegment(s).ntp = s.ntp
           /\ ~PathSegment(s).video /\ PathSegment(s).last = 0
<1>1. PathSegment(s) \in PathSegments
  BY DEF PathSegment, PathSegments, PathSamples
<1>2. PathSegment(s) # PathNone
  BY <1>1, PathAssumption DEF PathSegments
<1> QED BY <1>1, <1>2 DEF PathSegment

LEMMA PathTargetTyped ==
    ASSUME NEW p \in PathRecorders, NEW t \in PathTracks, NEW s \in PathSamples
    PROVE  PathTarget(p, t, s) \in PathSegments \cup {PathNone}
<1>1. PathSegment(PathStart(p, t, s)) \in PathSegments
  BY PathStartPends, PathSegmentFields
<1> QED BY <1>1 DEF PathTarget, PathRecorders

LEMMA PathAddFields ==
    ASSUME NEW seg \in PathSegments, NEW t \in PathTracks, NEW s \in PathSamples, NEW duration \in Int
    PROVE  /\ PathAdd(seg, t, s, duration) \in PathSegments
           /\ PathAdd(seg, t, s, duration).start = seg.start
           /\ PathAdd(seg, t, s, duration).ntp = seg.ntp
           /\ PathIsVideo(t) =>
                  PathAdd(seg, t, s, duration).video /\ PathAdd(seg, t, s, duration).last = s.n
           /\ ~PathIsVideo(t) => PathAdd(seg, t, s, duration) = seg
<1>1. PathMax(seg.end, s.dts + duration) \in Int
  BY DEF PathMax, PathSegments, PathSamples
<1> QED BY <1>1 DEF PathAdd, PathSegments, PathSamples

LEMMA PathNoteFields ==
    ASSUME NEW seg \in PathSegments, NEW t \in PathTracks, NEW s \in PathSamples
    PROVE  /\ PathNote(seg, t, s) \in PathNotes
           /\ PathNote(seg, t, s).video = PathIsVideo(t) /\ PathNote(seg, t, s).key = s.key
           /\ PathNote(seg, t, s).n = s.n /\ PathNote(seg, t, s).after = seg.last
           /\ PathNote(seg, t, s).drift = (seg.ntp - seg.start) - (s.ntp - s.dts)
<1>1. PathIsVideo(t) \in BOOLEAN
  BY DEF PathIsVideo
<1>2. /\ seg.ntp \in Int /\ seg.start \in Int /\ seg.last \in Nat
      /\ s.ntp \in Int /\ s.dts \in Int /\ s.n \in Nat /\ s.key \in BOOLEAN
  BY DEF PathSegments, PathSamples
<1>3. (seg.ntp + (s.dts - seg.start)) - s.ntp = (seg.ntp - seg.start) - (s.ntp - s.dts)
  BY <1>2
<1> QED BY <1>1, <1>2, <1>3 DEF PathNote, PathNotes

\* The Recorder after a sample was written: its segment is cut, goes on, or gives way
\* to one that starts with a pending sample.
PathGoesOn(p, t, s, resync, seg) ==
    /\ pathWrote' = PathNote(PathTarget(p, t, s), t, s)
    /\ \/ seg = PathNone /\ resync
       \/ \E duration \in Int : seg = PathAdd(PathTarget(p, t, s), t, s, duration)
       \/ \E u \in PathTracks : p.next[u] # PathNone /\ seg = PathSegment(p.next[u])

\* The Recorder after PathStore.
PathStored(p, t, s, resync, seg) ==
    \/ /\ PathTarget(p, t, s) = PathNone
       /\ pathWrote' = pathWrote /\ resync = p.resync /\ seg = p.seg
    \/ /\ pathWrote' = pathWrote /\ resync /\ seg = PathNone
    \/ /\ PathTarget(p, t, s) # PathNone
       /\ PathGoesOn(p, t, s, resync, seg)

PathOutcome(p, t, s) ==
    \E resync \in BOOLEAN, seg \in PathSegments \cup {PathNone} :
        /\ path' = [p EXCEPT !.resync = resync, !.seg = seg]
        /\ PathStored(p, t, s, resync, seg)

LEMMA PathSets ==
    ASSUME NEW p \in PathRecorders, NEW resync \in BOOLEAN, NEW seg \in PathSegments \cup {PathNone}
    PROVE  [p EXCEPT !.resync = resync, !.seg = seg] \in PathRecorders
  BY DEF PathRecorders

LEMMA PathStores ==
    ASSUME NEW p \in PathRecorders, NEW t \in PathTracks, NEW s \in PathSamples,
           NEW duration \in Int, NEW gap \in BOOLEAN, NEW fails \in BOOLEAN,
           p.next[t] # PathNone, PathStore(p, t, s, duration, gap, fails)
    PROVE  PathOutcome(p, t, s)
<1> SUFFICES \E resync \in BOOLEAN, seg \in PathSegments \cup {PathNone} :
                 /\ path' = [p EXCEPT !.resync = resync, !.seg = seg]
                 /\ PathStored(p, t, s, resync, seg)
  BY DEF PathOutcome
<1> DEFINE target == PathTarget(p, t, s)
           added == PathAdd(target, t, s, duration)
           kept == p.resync /\ ~(p.seg = PathNone /\ p.hasVideo)
           opened == [p EXCEPT !.resync = @ /\ ~(p.seg = PathNone /\ p.hasVideo), !.seg = added]
<1>1. target \in PathSegments \cup {PathNone} /\ kept \in BOOLEAN /\ p.resync \in BOOLEAN
  BY PathTargetTyped DEF PathRecorders
<1>2. CASE target = PathNone
  <2>1. path' = p /\ pathWrote' = pathWrote
    BY <1>2 DEF PathStore
  <2>2. /\ p = [p EXCEPT !.resync = p.resync, !.seg = p.seg]
        /\ p.seg \in PathSegments \cup {PathNone}
    BY DEF PathRecorders
  <2> QED BY <1>1, <1>2, <2>1, <2>2 DEF PathStored
<1>3. CASE target # PathNone /\ fails
  <2>1. path' = [p EXCEPT !.seg = PathNone, !.resync = TRUE] /\ pathWrote' = pathWrote
    BY <1>3 DEF PathStore, PathCut
  <2>2. path' = [p EXCEPT !.resync = TRUE, !.seg = PathNone]
    BY <2>1 DEF PathRecorders
  <2> QED BY <2>1, <2>2 DEF PathStored
<1>4. CASE target # PathNone /\ ~fails
  <2>1. path' = PathAfter(opened, t, s, gap) /\ pathWrote' = PathNote(target, t, s)
    BY <1>4 DEF PathStore
  <2>2. added \in PathSegments
    BY <1>1, <1>4, PathAddFields
  <2>3. opened = [p EXCEPT !.resync = kept, !.seg = added]
    BY DEF PathRecorders
  <2>4. opened \in PathRecorders /\ opened.next = p.next
    BY <1>1, <2>2, <2>3, PathSets DEF PathRecorders
  <2>5. CASE path' = PathCut(opened)
    <3>1. path' = [p EXCEPT !.resync = TRUE, !.seg = PathNone]
      BY <2>5, <2>3 DEF PathCut, PathRecorders
    <3> QED BY <1>4, <2>1, <3>1 DEF PathStored, PathGoesOn
  <2>6. CASE path' = opened
    BY <1>1, <1>4, <2>1, <2>2, <2>3, <2>6 DEF PathStored, PathGoesOn
  <2>7. CASE path' = [opened EXCEPT !.seg = PathSegment(PathOldest(opened))]
    <3>1. PICK u \in PathTracks : p.next[u] # PathNone /\ PathOldest(opened) = p.next[u]
      BY <2>4, PathOldestPends
    <3>2. p.next[u] \in PathSamples
      BY <3>1 DEF PathRecorders
    <3>3. PathSegment(p.next[u]) \in PathSegments
      BY <3>2, PathSegmentFields
    <3>4. path' = [p EXCEPT !.resync = kept, !.seg = PathSegment(p.next[u])]
      BY <2>7, <2>3, <3>1 DEF PathRecorders
    <3> QED BY <1>1, <1>4, <2>1, <3>1, <3>3, <3>4 DEF PathStored, PathGoesOn
  <2> QED BY <2>1, <2>5, <2>6, <2>7 DEF PathAfter
<1> QED BY <1>2, <1>3, <1>4

-----------------------------------------------------------------------------
(* PathWrite: what becomes of a new sample and of the one that waited.     *)

\* r is q with the new sample waiting, its track apart from what write decides.
PathHolds(q, t, new, r) ==
    /\ r \in PathRecorders
    /\ r.next = [q.next EXCEPT ![t] = new]
    /\ r.hasVideo <=> (q.hasVideo \/ PathIsVideo(t))
    /\ r.started = q.started /\ r.reordering = q.reordering /\ r.extractor = q.extractor

\* The new sample with a decode time that does not go back.
PathLater(s, new, next) ==
    /\ next \in PathSamples
    /\ next.n = new.n /\ next.key = new.key /\ next.ntp = new.ntp
    /\ next.dts >= s.dts
    /\ next = new \/ (next.dts = s.dts /\ new.dts < s.dts)

\* The first sample of a track, or the first one after its clock was set back.
PathFirst(q, t, new) ==
    /\ q.next[t] = PathNone
    /\ PathHolds(q, t, new, path')
    /\ path'.anchor = q.anchor /\ path'.seg = q.seg /\ path'.resync = q.resync
    /\ pathWrote' = pathWrote

\* The sample that waited has drifted from the wall clock.
PathRestarts(q, t, new) ==
    /\ q.next[t] # PathNone
    /\ PathHolds(q, t, new, path')
    /\ path'.anchor = [q.anchor EXCEPT ![t] = q.next[t]]
    /\ path'.seg = PathNone /\ path'.resync
    /\ pathWrote' = pathWrote

\* The sample that waited is stored, by a Recorder p that has the new one waiting.
PathPasses(q, t, new, p, next) ==
    /\ q.next[t] # PathNone
    /\ PathLater(q.next[t], new, next)
    /\ PathHolds(q, t, next, p)
    /\ p.seg = q.seg /\ p.resync = q.resync
    /\ p.anchor[t] # PathNone /\ ~PathDrifted(p.anchor[t], q.next[t])
    /\ \/ p.anchor = q.anchor
       \/ q.anchor[t] = PathNone /\ p.anchor = [q.anchor EXCEPT ![t] = q.next[t]]
    /\ PathHolds(q, t, next, path')
    /\ path'.anchor = p.anchor
    /\ PathStored(p, t, q.next[t], path'.resync, path'.seg)

LEMMA PathSpanTyped ==
    ASSUME NEW p \in PathRecorders, NEW t \in PathTracks, NEW s \in PathSamples, NEW next \in PathSamples
    PROVE  PathSpan(p, t, s, next) \in Int /\ PathUsual(p, t) \in Int
  BY DEF PathSpan, PathUsual, PathRecorders, PathSamples

LEMMA PathWrites ==
    ASSUME NEW q \in PathRecorders, NEW t \in PathTracks, NEW new \in PathSamples,
           NEW fails \in BOOLEAN, PathWrite(q, t, new, fails)
    PROVE  \/ PathFirst(q, t, new)
           \/ PathRestarts(q, t, new)
           \/ \E p \in PathRecorders, next \in PathSamples : PathPasses(q, t, new, p, next)
<1> DEFINE s == q.next[t]
           waiting == [q EXCEPT !.next[t] = new, !.hasVideo = @ \/ PathIsVideo(t)]
           anchored == IF waiting.anchor[t] = PathNone THEN [waiting EXCEPT !.anchor[t] = s] ELSE waiting
           next == IF new.dts < s.dts THEN [new EXCEPT !.dts = s.dts] ELSE new
           span == PathSpan(anchored, t, s, next)
           gap == span > PathGap
           duration == IF gap THEN PathUsual(anchored, t) ELSE span
           p == [anchored EXCEPT !.next[t] = next, !.lastDuration[t] = duration]
<1>1. PathIsVideo(t) \in BOOLEAN
  BY DEF PathIsVideo
<1>2. /\ PathHolds(q, t, new, waiting)
      /\ waiting.anchor = q.anchor /\ waiting.seg = q.seg /\ waiting.resync = q.resync
  BY <1>1 DEF PathHolds, PathRecorders
<1>3. CASE s = PathNone
  <2>1. path' = waiting /\ pathWrote' = pathWrote
    BY <1>3 DEF PathWrite
  <2> QED BY <1>2, <1>3, <2>1 DEF PathFirst
<1>4. ASSUME s # PathNone
      PROVE  /\ s \in PathSamples
             /\ PathHolds(q, t, new, anchored)
             /\ anchored.seg = q.seg /\ anchored.resync = q.resync
             /\ anchored.anchor[t] # PathNone
             /\ \/ anchored.anchor = q.anchor
                \/ q.anchor[t] = PathNone /\ anchored.anchor = [q.anchor EXCEPT ![t] = s]
  <2>1. s \in PathSamples
    BY <1>4 DEF PathRecorders
  <2>2. CASE q.anchor[t] # PathNone
    <3>1. anchored = waiting
      BY <1>2, <2>2
    <3> QED BY <1>2, <2>1, <2>2, <3>1
  <2>3. CASE q.anchor[t] = PathNone
    <3>1. anchored = [waiting EXCEPT !.anchor[t] = s]
      BY <1>2, <2>3
    <3>2. waiting \in PathRecorders
      BY <1>2 DEF PathHolds
    <3> HIDE DEF waiting, anchored
    <3>3. /\ anchored \in PathRecorders
          /\ anchored.next = waiting.next /\ anchored.hasVideo = waiting.hasVideo
          /\ anchored.started = waiting.started /\ anchored.reordering = waiting.reordering
          /\ anchored.extractor = waiting.extractor
          /\ anchored.seg = waiting.seg /\ anchored.resync = waiting.resync
          /\ anchored.anchor = [waiting.anchor EXCEPT ![t] = s]
          /\ anchored.anchor[t] = s
      BY <2>1, <3>1, <3>2 DEF PathRecorders
    <3> QED BY <1>2, <1>4, <2>1, <2>3, <3>3 DEF PathHolds
  <2> QED BY <2>2, <2>3
<1>5. CASE s # PathNone /\ PathDrifted(anchored.anchor[t], s)
  <2>1. path' = [PathResync(anchored) EXCEPT !.anchor[t] = s] /\ pathWrote' = pathWrote
    BY <1>5 DEF PathWrite
  <2>2. anchored \in PathRecorders /\ s \in PathSamples
    BY <1>4, <1>5 DEF PathHolds
  <2>3. [anchored.anchor EXCEPT ![t] = s] = [q.anchor EXCEPT ![t] = s]
    BY <1>4, <1>5
  <2> HIDE DEF anchored
  <2>4. /\ path' \in PathRecorders
        /\ path'.next = anchored.next /\ path'.hasVideo = anchored.hasVideo
        /\ path'.started = anchored.started /\ path'.reordering = anchored.reordering
        /\ path'.extractor = anchored.extractor
        /\ path'.seg = PathNone /\ path'.resync
        /\ path'.anchor = [anchored.anchor EXCEPT ![t] = s]
    BY <2>1, <2>2 DEF PathResync, PathCut, PathRecorders
  <2> QED BY <1>4, <1>5, <2>1, <2>3, <2>4 DEF PathRestarts, PathHolds
<1>6. CASE s # PathNone /\ ~PathDrifted(anchored.anchor[t], s)
  <2>1. PathStore(p, t, s, duration, gap, fails)
    BY <1>6 DEF PathWrite
  <2>2. anchored \in PathRecorders /\ s \in PathSamples
    BY <1>4, <1>6 DEF PathHolds
  <2>3. next \in PathSamples /\ PathLater(s, new, next)
    BY <2>2 DEF PathLater, PathSamples
  <2>4. span \in Int /\ duration \in Int /\ gap \in BOOLEAN
    BY <2>2, <2>3, PathSpanTyped
  <2> HIDE DEF duration, span, next
  <2>5. /\ p \in PathRecorders
        /\ p.next = [anchored.next EXCEPT ![t] = next]
        /\ p.hasVideo = anchored.hasVideo /\ p.started = anchored.started
        /\ p.reordering = anchored.reordering /\ p.extractor = anchored.extractor
        /\ p.seg = anchored.seg /\ p.resync = anchored.resync /\ p.anchor = anchored.anchor
    <3> HIDE DEF anchored
    <3> QED BY <2>2, <2>3, <2>4 DEF PathRecorders
  <2>6. p.next = [q.next EXCEPT ![t] = next] /\ p.next[t] = next /\ next # PathNone
    <3>1. anchored.next = [q.next EXCEPT ![t] = new]
      BY <1>4, <1>6 DEF PathHolds
    <3>2. p.next = [q.next EXCEPT ![t] = next]
      <4> HIDE DEF p
      <4> QED BY <2>5, <3>1
    <3>3. q.next \in [PathTracks -> PathSamples \cup {PathNone}]
      BY DEF PathRecorders
    <3>4. next # PathNone
      BY <2>3, PathAssumption DEF PathSamples
    <3> QED BY <3>2, <3>3, <3>4
  <2> HIDE DEF p, gap
  <2>7. PathOutcome(p, t, s)
    <3>1. p \in PathRecorders /\ p.next[t] # PathNone
      BY <2>5, <2>6
    <3> HIDE DEF s, anchored, waiting
    <3> QED BY <2>1, <2>2, <2>4, <3>1, PathStores
  <2>8. PICK resync \in BOOLEAN, seg \in PathSegments \cup {PathNone} :
            /\ path' = [p EXCEPT !.resync = resync, !.seg = seg]
            /\ PathStored(p, t, s, resync, seg)
    BY <2>7 DEF PathOutcome
  <2>14. PathHolds(q, t, next, p)
    BY <1>4, <1>6, <2>5, <2>6 DEF PathHolds
  <2>9. /\ path' \in PathRecorders /\ path'.next = p.next /\ path'.hasVideo = p.hasVideo
        /\ path'.started = p.started /\ path'.reordering = p.reordering
        /\ path'.extractor = p.extractor /\ path'.anchor = p.anchor
        /\ path'.resync = resync /\ path'.seg = seg
    BY <2>5, <2>8 DEF PathRecorders
  <2>10. PathHolds(q, t, next, path')
    BY <2>14, <2>9 DEF PathHolds
  <2>11. PathStored(p, t, s, path'.resync, path'.seg)
    BY <2>8, <2>9
  <2> HIDE DEF anchored
  <2>12. PathPasses(q, t, new, p, next)
    BY <1>4, <1>6, <2>3, <2>5, <2>14, <2>9, <2>10, <2>11 DEF PathPasses
  <2> QED BY <2>3, <2>5, <2>12
<1> QED BY <1>3, <1>5, <1>6

-----------------------------------------------------------------------------
(* Each segment can be decoded.                                            *)

PathDecodes(w) == w.video => w.key \/ w.after = w.n - 1

\* The new sample, if it is a picture, follows the one that waits, unless it is a
\* keyframe.
PathInOrder(q, t, new) ==
    PathIsVideo(t) => new.key \/ (q.next["video"] # PathNone /\ new.n = q.next["video"].n + 1)

\* What write leaves behind.
PathWriteSound ==
    /\ path' \in PathRecorders
    /\ PathSound(path')
    /\ pathWrote' = pathWrote \/ (pathWrote' \in PathNotes /\ PathDecodes(pathWrote'))

LEMMA PathSamplesAre ==
    ASSUME NEW q \in PathRecorders, NEW t \in PathTracks, q.next[t] # PathNone
    PROVE  /\ q.next[t] \in PathSamples
           /\ q.next[t].dts \in Int /\ q.next[t].ntp \in Int
           /\ q.next[t].n \in Nat /\ q.next[t].key \in BOOLEAN
<1>1. q.next[t] \in PathSamples
  BY DEF PathRecorders
<1> QED BY <1>1 DEF PathSamples

LEMMA PathNextUpdate ==
    ASSUME NEW q \in PathRecorders, NEW t \in PathTracks, NEW new, NEW r, PathHolds(q, t, new, r)
    PROVE  /\ r.next[t] = new
           /\ \A u \in PathTracks : u # t => r.next[u] = q.next[u]
           /\ r.hasVideo <=> (q.hasVideo \/ PathIsVideo(t))
           /\ r \in PathRecorders
  BY DEF PathHolds, PathRecorders

LEMMA PathPassesSound ==
    ASSUME NEW q \in PathRecorders, NEW t \in PathTracks, NEW new \in PathSamples,
           NEW p \in PathRecorders, NEW next \in PathSamples,
           PathPasses(q, t, new, p, next), PathSound(q), PathInOrder(q, t, new)
    PROVE  PathWriteSound
<1> DEFINE s == q.next[t]
           target == PathTarget(p, t, s)
           seg == path'.seg
<1>1. /\ s \in PathSamples /\ s # PathNone /\ s.dts \in Int /\ s.n \in Nat /\ s.key \in BOOLEAN
      /\ next # PathNone /\ next.dts \in Int /\ next.n \in Nat /\ next.key \in BOOLEAN
  BY PathSamplesAre, PathAssumption DEF PathPasses, PathSamples
<1>2. /\ p.seg = q.seg /\ p.resync = q.resync
      /\ p.next[t] = next /\ path'.next[t] = next
      /\ \A u \in PathTracks : u # t => p.next[u] = q.next[u] /\ path'.next[u] = q.next[u]
      /\ p.hasVideo <=> (q.hasVideo \/ PathIsVideo(t))
      /\ path'.hasVideo <=> (q.hasVideo \/ PathIsVideo(t))
      /\ path' \in PathRecorders
  <2>1. p.seg = q.seg /\ p.resync = q.resync /\ PathHolds(q, t, next, p) /\ PathHolds(q, t, next, path')
    BY DEF PathPasses
  <2> QED BY <2>1, PathNextUpdate
<1>3. /\ next.dts >= s.dts /\ next.n = new.n /\ next.key = new.key
  BY DEF PathPasses, PathLater
<1>4. PathStored(p, t, s, path'.resync, seg)
  BY DEF PathPasses
<1>5. \/ target = PathNone /\ (p.seg = PathNone => p.resync)
          /\ (p.seg # PathNone /\ p.seg.video => s.dts < p.seg.start)
      \/ PathJoins(p, t, s)
      \/ PathBegins(p, t, s)
  BY <1>1, PathTargets
<1>6. p.seg # PathNone => p.seg \in PathSegments /\ p.seg.start \in Int
  BY DEF PathRecorders, PathSegments
<1>7. target \in PathSegments \cup {PathNone}
  BY <1>1, PathTargetTyped
<1>8. \A u \in PathTracks :
          p.next[u] # PathNone =>
              PathSegment(p.next[u]) # PathNone /\ ~PathSegment(p.next[u]).video
  BY PathSamplesAre, PathSegmentFields
<1>9. PathBegins(p, t, s) => /\ target \in PathSegments /\ target # PathNone
                             /\ ~target.video /\ target.start \in Int /\ target.start <= s.dts
  <2>1. PathStart(p, t, s) \in PathSamples /\ PathStart(p, t, s).dts <= s.dts
    BY <1>1, PathStartPends
  <2> QED BY <2>1, PathSegmentFields DEF PathBegins, PathSamples
<1>10. PathJoins(p, t, s) => /\ target \in PathSegments /\ target # PathNone /\ target = p.seg
                             /\ target.start \in Int /\ target.start <= s.dts
  BY <1>1, <1>6 DEF PathJoins
<1>11. ASSUME target # PathNone, NEW duration \in Int
       PROVE  /\ PathAdd(target, t, s, duration) # PathNone
              /\ PathAdd(target, t, s, duration).start = target.start
              /\ PathIsVideo(t) =>
                     PathAdd(target, t, s, duration).video /\ PathAdd(target, t, s, duration).last = s.n
              /\ ~PathIsVideo(t) => PathAdd(target, t, s, duration) = target
  <2>1. PathAdd(target, t, s, duration) \in PathSegments
    BY <1>1, <1>7, <1>11, PathAddFields
  <2>2. PathAdd(target, t, s, duration) # PathNone
    BY <2>1, PathAssumption DEF PathSegments
  <2> QED BY <1>1, <1>7, <1>11, <2>2, PathAddFields
<1>12. CASE PathIsVideo(t)
  <2>1. t = "video" /\ p.hasVideo /\ path'.hasVideo
    BY <1>2, <1>12 DEF PathIsVideo
  <2>2. /\ PathFollows(p.seg, s)
        /\ p.seg = PathNone /\ ~p.resync => s.key
        /\ next.key \/ next.n = s.n + 1
    BY <1>1, <1>2, <1>3, <1>12, <2>1 DEF PathSound, PathInOrder
  <2>3. CASE target = PathNone /\ pathWrote' = pathWrote /\ path'.resync = p.resync /\ seg = p.seg
    <3>1. (seg = PathNone => path'.resync) /\ (seg # PathNone => ~seg.video)
      BY <1>1, <1>5, <1>6, <1>9, <1>10, <2>2, <2>3 DEF PathFollows
    <3> QED BY <1>2, <2>1, <2>3, <3>1 DEF PathWriteSound, PathSound, PathFollows
  <2>4. CASE pathWrote' = pathWrote /\ path'.resync /\ seg = PathNone
    BY <1>2, <2>1, <2>4 DEF PathWriteSound, PathSound, PathFollows
  <2>5. CASE target # PathNone /\ PathGoesOn(p, t, s, path'.resync, seg)
    <3>1. s.key \/ target.last = s.n - 1
      BY <1>1, <1>5, <1>9, <1>10, <1>12, <2>1, <2>2, <2>5
         DEF PathFollows, PathJoins, PathBegins, PathOpens
    <3>2. pathWrote' \in PathNotes /\ PathDecodes(pathWrote')
      <4>1. pathWrote' = PathNote(target, t, s) /\ target \in PathSegments
        BY <1>7, <2>5 DEF PathGoesOn
      <4> HIDE DEF target, s
      <4> QED BY <1>1, <3>1, <4>1, PathNoteFields DEF PathDecodes
    <3>3. /\ PathFollows(seg, next)
          /\ seg # PathNone \/ path'.resync
      <4>1. CASE seg = PathNone /\ path'.resync
        BY <4>1 DEF PathFollows
      <4>2. ASSUME NEW duration \in Int, seg = PathAdd(target, t, s, duration)
            PROVE  PathFollows(seg, next) /\ seg # PathNone
        <5>1. seg.start <= s.dts /\ seg.start \in Int
          BY <1>5, <1>9, <1>10, <1>11, <2>5, <4>2
        <5>2. seg.last = s.n /\ seg # PathNone
          BY <1>11, <1>12, <2>5, <4>2
        <5> HIDE DEF seg, s
        <5> QED BY <1>1, <1>3, <2>2, <5>1, <5>2 DEF PathFollows
      <4>3. ASSUME NEW u \in PathTracks, p.next[u] # PathNone, seg = PathSegment(p.next[u])
            PROVE  PathFollows(seg, next) /\ seg # PathNone
        BY <1>8, <4>3 DEF PathFollows
      <4> QED BY <2>5, <4>1, <4>2, <4>3 DEF PathGoesOn
    <3> QED BY <1>2, <2>1, <3>2, <3>3 DEF PathWriteSound, PathSound
  <2> QED BY <1>4, <2>3, <2>4, <2>5 DEF PathStored
<1>13. CASE ~PathIsVideo(t)
  <2>1. t = "audio" /\ path'.next["video"] = q.next["video"] /\ (path'.hasVideo <=> q.hasVideo)
    BY <1>2, <1>13, PathTwoTracks
  <2>2. CASE target = PathNone /\ pathWrote' = pathWrote /\ path'.resync = p.resync /\ seg = p.seg
    BY <1>2, <2>1, <2>2 DEF PathWriteSound, PathSound
  <2>3. CASE pathWrote' = pathWrote /\ path'.resync /\ seg = PathNone
    BY <1>2, <2>1, <2>3 DEF PathWriteSound, PathSound, PathFollows
  <2>4. CASE target # PathNone /\ PathGoesOn(p, t, s, path'.resync, seg)
    <3>1. pathWrote' \in PathNotes /\ PathDecodes(pathWrote')
      <4>1. pathWrote' = PathNote(target, t, s) /\ target \in PathSegments
        BY <1>7, <2>4 DEF PathGoesOn
      <4> HIDE DEF target, s
      <4> QED BY <1>1, <1>13, <4>1, PathNoteFields DEF PathDecodes
    <3>2. /\ seg # PathNone => ~seg.video \/ seg = q.seg
          /\ seg # PathNone \/ path'.resync
      <4>1. CASE seg = PathNone /\ path'.resync
        BY <4>1
      <4>2. ASSUME NEW duration \in Int, seg = PathAdd(target, t, s, duration)
            PROVE  seg # PathNone /\ (~seg.video \/ seg = q.seg)
        <5>1. seg = target
          BY <1>11, <1>13, <2>4, <4>2
        <5> QED BY <1>2, <1>5, <1>9, <1>10, <2>4, <5>1
      <4>3. ASSUME NEW u \in PathTracks, p.next[u] # PathNone, seg = PathSegment(p.next[u])
            PROVE  seg # PathNone /\ ~seg.video
        BY <1>8, <4>3
      <4> QED BY <2>4, <4>1, <4>2, <4>3 DEF PathGoesOn
    <3> QED BY <1>2, <2>1, <3>1, <3>2 DEF PathWriteSound, PathSound, PathFollows
  <2> QED BY <1>4, <2>2, <2>3, <2>4 DEF PathStored
<1> QED BY <1>12, <1>13

LEMMA PathWritesSound ==
    ASSUME NEW q \in PathRecorders, NEW t \in PathTracks, NEW new \in PathSamples,
           NEW fails \in BOOLEAN, PathWrite(q, t, new, fails),
           PathSound(q), PathInOrder(q, t, new)
    PROVE  PathWriteSound
<1>1. CASE PathFirst(q, t, new)
  <2>1. /\ path' \in PathRecorders /\ path'.next[t] = new
        /\ \A u \in PathTracks : u # t => path'.next[u] = q.next[u]
        /\ path'.hasVideo <=> (q.hasVideo \/ PathIsVideo(t))
        /\ path'.seg = q.seg /\ path'.resync = q.resync /\ pathWrote' = pathWrote
        /\ q.next[t] = PathNone
    <3>1. PathHolds(q, t, new, path')
      BY <1>1 DEF PathFirst
    <3> QED BY <1>1, <3>1, PathNextUpdate DEF PathFirst
  <2>2. CASE t = "video"
    <3>1. PathIsVideo(t) /\ new.key
      BY <2>1, <2>2 DEF PathIsVideo, PathInOrder
    <3> QED BY <2>1, <2>2, <3>1 DEF PathWriteSound, PathSound, PathFollows
  <2>3. CASE t = "audio"
    BY <2>1, <2>3, PathTwoTracks DEF PathWriteSound, PathSound
  <2> QED BY <2>2, <2>3, PathTwoTracks
<1>2. CASE PathRestarts(q, t, new)
  <2>1. /\ path' \in PathRecorders /\ path'.next[t] = new
        /\ \A u \in PathTracks : u # t => path'.next[u] = q.next[u]
        /\ path'.hasVideo <=> (q.hasVideo \/ PathIsVideo(t))
        /\ path'.seg = PathNone /\ path'.resync /\ pathWrote' = pathWrote
    <3>1. PathHolds(q, t, new, path')
      BY <1>2 DEF PathRestarts
    <3> QED BY <1>2, <3>1, PathNextUpdate DEF PathRestarts
  <2>2. CASE t = "video"
    BY <2>1, <2>2, PathTwoTracks DEF PathWriteSound, PathSound, PathFollows
  <2>3. CASE t = "audio"
    BY <2>1, <2>3, PathTwoTracks DEF PathWriteSound, PathSound, PathFollows
  <2> QED BY <2>2, <2>3, PathTwoTracks
<1> QED BY <1>1, <1>2, PathWrites, PathPassesSound

-----------------------------------------------------------------------------
(* A sample's place in its segment tells its time.                         *)

PathWithin(d, bound) == d <= bound /\ -d <= bound

\* What write leaves behind, before the camera's clock jumps.
PathWriteTimely(now) ==
    /\ PathTimely(path', now)
    /\ pathWrote' = pathWrote \/ PathWithin(pathWrote'.drift, 2)

LEMMA PathTimelyTarget ==
    ASSUME NEW p \in PathRecorders, NEW t \in PathTracks, NEW s \in PathSamples, NEW now \in Int,
           PathTimely(p, now), PathNear(s.ntp, s.dts), PathTarget(p, t, s) # PathNone
    PROVE  PathNear(PathTarget(p, t, s).ntp, PathTarget(p, t, s).start)
<1>1. CASE PathJoins(p, t, s)
  BY <1>1 DEF PathJoins, PathTimely
<1>2. CASE PathBegins(p, t, s)
  <2>1. /\ PathStart(p, t, s) \in PathSamples
        /\ PathNear(PathStart(p, t, s).ntp, PathStart(p, t, s).dts)
    BY PathStartPends, PathTwoTracks DEF PathTimely
  <2> QED BY <1>2, <2>1, PathSegmentFields DEF PathBegins
<1> QED BY <1>1, <1>2, PathTargets

LEMMA PathPassesTimely ==
    ASSUME NEW q \in PathRecorders, NEW t \in PathTracks, NEW new \in PathSamples, NEW now \in Int,
           NEW p \in PathRecorders, NEW next \in PathSamples,
           PathPasses(q, t, new, p, next), PathTimely(q, now),
           PathNear(new.ntp, new.dts), new.ntp = now
    PROVE  PathWriteTimely(now)
<1> DEFINE s == q.next[t]
           target == PathTarget(p, t, s)
           seg == path'.seg
<1>1. s \in PathSamples /\ s.dts \in Int /\ s.ntp \in Int /\ s # PathNone
  BY PathSamplesAre DEF PathPasses
<1>2. next.dts \in Int /\ next.ntp \in Int /\ new.dts \in Int /\ new.ntp \in Int
  BY DEF PathSamples
<1>3. PathNear(s.ntp, s.dts) /\ s.ntp <= now
  BY <1>1 DEF PathTimely
<1>4. PathNear(next.ntp, next.dts) /\ next.ntp <= now
  <2>1. PathLater(s, new, next)
    BY DEF PathPasses
  <2> HIDE DEF s
  <2> QED BY <1>1, <1>2, <1>3, <2>1 DEF PathLater, PathNear
<1>5. /\ p.seg = q.seg /\ p.next[t] = next /\ path'.next[t] = next
      /\ \A u \in PathTracks : u # t => p.next[u] = q.next[u] /\ path'.next[u] = q.next[u]
  <2>1. p.seg = q.seg /\ PathHolds(q, t, next, p) /\ PathHolds(q, t, next, path')
    BY DEF PathPasses
  <2> QED BY <2>1, PathNextUpdate
<1>6. PathTimely(p, now)
  BY <1>4, <1>5 DEF PathTimely
<1>7. PathStored(p, t, s, path'.resync, seg)
  BY DEF PathPasses
<1>8. target # PathNone => /\ target \in PathSegments /\ PathNear(target.ntp, target.start)
                           /\ target.ntp \in Int /\ target.start \in Int
  <2>1. target \in PathSegments \cup {PathNone}
    BY <1>1, PathTargetTyped
  <2>2. target # PathNone => PathNear(target.ntp, target.start)
    BY <1>1, <1>3, <1>6, PathTimelyTarget
  <2> HIDE DEF target
  <2> QED BY <2>1, <2>2 DEF PathSegments
<1>9. seg # PathNone => PathNear(seg.ntp, seg.start)
  <2>1. CASE seg = p.seg
    BY <1>6, <2>1 DEF PathTimely
  <2>2. CASE target # PathNone /\ PathGoesOn(p, t, s, path'.resync, seg)
    <3>1. ASSUME NEW duration \in Int, seg = PathAdd(target, t, s, duration)
          PROVE  PathNear(seg.ntp, seg.start)
      <4>1. seg.ntp = target.ntp /\ seg.start = target.start
        BY <1>1, <1>8, <2>2, <3>1, PathAddFields
      <4> HIDE DEF seg, target
      <4> QED BY <1>8, <2>2, <4>1
    <3>2. ASSUME NEW u \in PathTracks, p.next[u] # PathNone, seg = PathSegment(p.next[u])
          PROVE  PathNear(seg.ntp, seg.start)
      <4>1. seg.ntp = p.next[u].ntp /\ seg.start = p.next[u].dts
        BY <3>2, PathSamplesAre, PathSegmentFields
      <4> HIDE DEF seg
      <4> QED BY <1>6, <3>2, <4>1 DEF PathTimely
    <3> HIDE DEF seg
    <3> QED BY <2>2, <3>1, <3>2 DEF PathGoesOn
  <2> QED BY <1>7, <2>1, <2>2 DEF PathStored
<1>10. PathTimely(path', now)
  BY <1>4, <1>5, <1>6, <1>9 DEF PathTimely
<1>11. pathWrote' = pathWrote \/ PathWithin(pathWrote'.drift, 2)
  <2>1. CASE pathWrote' = pathWrote
    BY <2>1
  <2>2. CASE target # PathNone /\ PathGoesOn(p, t, s, path'.resync, seg)
    <3>1. pathWrote'.drift = (target.ntp - target.start) - (s.ntp - s.dts)
      BY <1>1, <1>8, <2>2, PathNoteFields DEF PathGoesOn
    <3> HIDE DEF s, target, seg
    <3> QED BY <1>1, <1>3, <1>8, <2>2, <3>1 DEF PathNear, PathWithin
  <2> QED BY <1>7, <2>1, <2>2 DEF PathStored
<1> QED BY <1>10, <1>11 DEF PathWriteTimely

LEMMA PathWritesTimely ==
    ASSUME NEW q \in PathRecorders, NEW t \in PathTracks, NEW new \in PathSamples, NEW now \in Int,
           NEW fails \in BOOLEAN, PathWrite(q, t, new, fails),
           PathTimely(q, now), PathNear(new.ntp, new.dts), new.ntp = now
    PROVE  PathWriteTimely(now)
<1>1. CASE PathFirst(q, t, new) \/ PathRestarts(q, t, new)
  <2>1. /\ PathHolds(q, t, new, path')
        /\ path'.seg = q.seg \/ path'.seg = PathNone
        /\ pathWrote' = pathWrote
    BY <1>1 DEF PathFirst, PathRestarts
  <2>2. path'.next[t] = new /\ \A u \in PathTracks : u # t => path'.next[u] = q.next[u]
    BY <2>1, PathNextUpdate
  <2>3. new.ntp \in Int
    BY DEF PathSamples
  <2> QED BY <2>1, <2>2, <2>3 DEF PathWriteTimely, PathTimely
<1> QED BY <1>1, PathWrites, PathPassesTimely

LEMMA PathDriftWithin ==
    ASSUME NEW a, NEW x, a.ntp \in Int, a.dts \in Int, x.ntp \in Int, x.dts \in Int
    PROVE  PathDrifted(a, x) <=> ~PathWithin((x.ntp - x.dts) - (a.ntp - a.dts), PathGap)
  BY PathAssumption DEF PathDrifted, PathWithin

\* Segment and sample, each close to the anchor.
LEMMA PathWithinTwice ==
    ASSUME NEW a \in Int, NEW x \in Int, NEW y \in Int,
           PathWithin(x - a, PathGap), PathWithin(y - a, PathGap)
    PROVE  PathWithin(x - y, 2 * PathGap)
  BY PathAssumption DEF PathWithin

\* What write leaves behind of the video of a camera without audio.
PathWriteAlone ==
    /\ PathAlone(path')
    /\ pathWrote' = pathWrote \/ PathWithin(pathWrote'.drift, 2 * PathGap)

PathClose(a, seg) == PathWithin((seg.ntp - seg.start) - (a.ntp - a.dts), PathGap)

LEMMA PathPassesAlone ==
    ASSUME NEW q \in PathRecorders, NEW new \in PathSamples,
           NEW p \in PathRecorders, NEW next \in PathSamples,
           PathPasses(q, "video", new, p, next), PathAlone(q)
    PROVE  PathWriteAlone
<1> DEFINE s == q.next["video"]
           a == p.anchor["video"]
           target == PathTarget(p, "video", s)
           seg == path'.seg
<1>1. s \in PathSamples /\ s.dts \in Int /\ s.ntp \in Int /\ s # PathNone
  BY PathSamplesAre, PathTwoTracks DEF PathPasses
<1>2. a # PathNone /\ a.ntp \in Int /\ a.dts \in Int /\ path'.anchor = p.anchor
  BY PathTwoTracks DEF PathPasses, PathRecorders, PathSamples
<1>3. PathWithin((s.ntp - s.dts) - (a.ntp - a.dts), PathGap)
  <2>1. ~PathDrifted(a, s)
    BY DEF PathPasses
  <2> HIDE DEF s, a
  <2> QED BY <1>1, <1>2, <2>1, PathDriftWithin
<1>4. /\ p.seg = q.seg /\ p.next["video"] = next /\ path'.next["video"] = next
      /\ p.next["audio"] = PathNone /\ path'.next["audio"] = PathNone
  <2>1. p.seg = q.seg /\ PathHolds(q, "video", next, p) /\ PathHolds(q, "video", next, path')
    BY DEF PathPasses
  <2> QED BY <2>1, PathNextUpdate, PathTwoTracks DEF PathAlone
<1>5. next # PathNone
  BY PathAssumption DEF PathSamples
<1>6. p.seg # PathNone => p.seg.ntp \in Int /\ p.seg.start \in Int
  BY DEF PathRecorders, PathSegments
<1>7. p.seg # PathNone => PathClose(a, p.seg)
  <2> HAVE p.seg # PathNone
  <2>1. PathAnchored(q)
    BY <1>4 DEF PathAlone
  <2>2. q.anchor["video"] = a
    BY <2>1 DEF PathAnchored, PathPasses
  <2>3. CASE q.seg.start = s.dts /\ q.seg.ntp = s.ntp
    <3>1. p.seg.start = s.dts /\ p.seg.ntp = s.ntp
      BY <1>4, <2>3
    <3> HIDE DEF s, a
    <3> QED BY <1>3, <3>1 DEF PathClose
  <2>4. CASE ~PathDrifted(q.anchor["video"], [dts |-> q.seg.start, ntp |-> q.seg.ntp])
    <3> DEFINE x == [dts |-> p.seg.start, ntp |-> p.seg.ntp]
    <3>1. ~PathDrifted(a, x)
      BY <1>4, <2>2, <2>4
    <3>2. x.dts = p.seg.start /\ x.ntp = p.seg.ntp
      OBVIOUS
    <3> HIDE DEF x, a
    <3>3. PathWithin((x.ntp - x.dts) - (a.ntp - a.dts), PathGap)
      BY <1>2, <1>6, <3>1, <3>2, PathDriftWithin
    <3> QED BY <3>2, <3>3 DEF PathClose
  <2> QED BY <2>1, <2>3, <2>4 DEF PathAnchored
<1>8. PathStored(p, "video", s, path'.resync, seg)
  BY DEF PathPasses
<1>9. target # PathNone => /\ target \in PathSegments /\ PathClose(a, target)
                           /\ target.ntp \in Int /\ target.start \in Int
  <2>1. target \in PathSegments \cup {PathNone}
    BY <1>1, PathTargetTyped, PathTwoTracks
  <2>2. ASSUME PathJoins(p, "video", s) PROVE PathClose(a, target)
    BY <1>7, <2>2 DEF PathJoins
  <2>3. ASSUME PathBegins(p, "video", s) PROVE PathClose(a, target)
    <3>1. PathStart(p, "video", s) = s
      BY <1>1, <1>4, PathStartPends, PathTwoTracks
    <3>2. target.ntp = s.ntp /\ target.start = s.dts
      BY <1>1, <2>3, <3>1, PathSegmentFields DEF PathBegins
    <3> HIDE DEF s, a, target
    <3> QED BY <1>3, <3>2 DEF PathClose
  <2>4. target = PathNone \/ PathJoins(p, "video", s) \/ PathBegins(p, "video", s)
    BY <1>1, PathTargets, PathTwoTracks
  <2> HIDE DEF target
  <2> QED BY <2>1, <2>2, <2>3, <2>4 DEF PathSegments
<1>10. ASSUME seg # PathNone, seg.ntp \in Int, seg.start \in Int, PathClose(a, seg)
       PROVE  PathAnchored(path')
  <2> DEFINE x == [dts |-> seg.start, ntp |-> seg.ntp]
  <2>1. x.dts = seg.start /\ x.ntp = seg.ntp
    OBVIOUS
  <2>2. ~PathDrifted(a, x)
    <3> HIDE DEF x, a, seg
    <3>1. PathWithin((x.ntp - x.dts) - (a.ntp - a.dts), PathGap)
      BY <1>10, <2>1 DEF PathClose
    <3> QED BY <1>2, <1>10, <2>1, <3>1, PathDriftWithin
  <2> QED BY <1>2, <2>2 DEF PathAnchored
<1>11. seg # PathNone => PathAnchored(path')
  <2>1. CASE seg = p.seg
    BY <1>6, <1>7, <1>10, <2>1
  <2>2. CASE target # PathNone /\ PathGoesOn(p, "video", s, path'.resync, seg)
    <3>1. ASSUME NEW duration \in Int, seg = PathAdd(target, "video", s, duration), seg # PathNone
          PROVE  PathAnchored(path')
      <4>1. seg.ntp = target.ntp /\ seg.start = target.start
        <5>1. target \in PathSegments
          BY <1>9, <2>2
        <5>2. PICK t \in PathTracks : t = "video"
          BY PathTwoTracks
        <5>3. seg = PathAdd(target, t, s, duration)
          BY <3>1, <5>2
        <5>4. s \in PathSamples
          BY <1>1
        <5> HIDE DEF seg, target, s
        <5>5. /\ PathAdd(target, t, s, duration).ntp = target.ntp
              /\ PathAdd(target, t, s, duration).start = target.start
          BY <5>1, <5>4, PathAddFields
        <5> QED BY <5>3, <5>5
      <4>2. PathClose(a, seg)
        BY <1>9, <2>2, <4>1 DEF PathClose
      <4> QED BY <1>9, <1>10, <2>2, <3>1, <4>1, <4>2
    <3>2. ASSUME NEW u \in PathTracks, p.next[u] # PathNone, seg = PathSegment(p.next[u])
          PROVE  PathAnchored(path')
      <4>1. u = "video"
        BY <1>4, <3>2, PathTwoTracks
      <4>2. seg.ntp = next.ntp /\ seg.start = next.dts
        BY <1>4, <3>2, <4>1, PathSegmentFields
      <4> QED BY <1>2, <1>4, <1>5, <4>2 DEF PathAnchored
    <3> HIDE DEF seg
    <3> QED BY <2>2, <3>1, <3>2 DEF PathGoesOn
  <2> QED BY <1>8, <2>1, <2>2 DEF PathStored
<1>12. pathWrote' = pathWrote \/ PathWithin(pathWrote'.drift, 2 * PathGap)
  <2>1. CASE pathWrote' = pathWrote
    BY <2>1
  <2>2. CASE target # PathNone /\ PathGoesOn(p, "video", s, path'.resync, seg)
    <3>1. pathWrote'.drift = (target.ntp - target.start) - (s.ntp - s.dts)
      BY <1>1, <1>9, <2>2, PathNoteFields, PathTwoTracks DEF PathGoesOn
    <3>2. PathClose(a, target) /\ target.ntp \in Int /\ target.start \in Int
      BY <1>9, <2>2
    <3> HIDE DEF s, a, target
    <3>3. /\ a.ntp - a.dts \in Int /\ target.ntp - target.start \in Int /\ s.ntp - s.dts \in Int
      BY <1>1, <1>2, <3>2
    <3>4. PathWithin((target.ntp - target.start) - (s.ntp - s.dts), 2 * PathGap)
      BY <1>3, <3>2, <3>3, PathWithinTwice DEF PathClose
    <3> QED BY <3>1, <3>4
  <2> QED BY <1>8, <2>1, <2>2 DEF PathStored
<1> QED BY <1>4, <1>11, <1>12 DEF PathWriteAlone, PathAlone

LEMMA PathWritesAlone ==
    ASSUME NEW q \in PathRecorders, NEW new \in PathSamples,
           NEW fails \in BOOLEAN, PathWrite(q, "video", new, fails), PathAlone(q)
    PROVE  PathWriteAlone
<1>1. CASE PathFirst(q, "video", new)
  <2>1. /\ PathHolds(q, "video", new, path')
        /\ path'.seg = q.seg /\ path'.anchor = q.anchor
        /\ pathWrote' = pathWrote /\ q.next["video"] = PathNone
    BY <1>1 DEF PathFirst
  <2>2. path'.next["audio"] = PathNone
    BY <2>1, PathNextUpdate, PathTwoTracks DEF PathAlone
  <2>3. q.seg # PathNone => PathAnchored(path')
    BY <2>1 DEF PathAlone, PathAnchored
  <2> QED BY <2>1, <2>2, <2>3 DEF PathWriteAlone, PathAlone
<1>2. CASE PathRestarts(q, "video", new)
  <2>1. PathHolds(q, "video", new, path') /\ path'.seg = PathNone /\ pathWrote' = pathWrote
    BY <1>2 DEF PathRestarts
  <2>2. path'.next["audio"] = PathNone
    BY <2>1, PathNextUpdate, PathTwoTracks DEF PathAlone
  <2> QED BY <2>1, <2>2 DEF PathWriteAlone, PathAlone
<1> QED BY <1>1, <1>2, PathWrites, PathPassesAlone, PathTwoTracks

-----------------------------------------------------------------------------
(* videoDecodeTime.                                                        *)

\* The tracks are as before, or the clock was set back and the video starts anew.
PathAsBefore(p, q) ==
    /\ q \in PathRecorders
    /\ q.next = p.next /\ q.anchor = p.anchor /\ q.seg = p.seg
    /\ q.resync = p.resync /\ q.hasVideo = p.hasVideo
PathAnew(p, q) ==
    /\ q \in PathRecorders
    /\ q.next = [p.next EXCEPT !["video"] = PathNone]
    /\ q.seg = PathNone /\ q.resync /\ q.hasVideo = p.hasVideo

\* A picture that is no keyframe is kept only if the one before it was; after a
\* picture that is dropped only a keyframe is kept.
PathTaken(p, key, r) ==
    /\ PathAsBefore(p, r.p) \/ PathAnew(p, r.p)
    /\ r.kept => key \/ (~PathNeedsKey(p) /\ PathAsBefore(p, r.p))
    /\ ~r.kept => PathNeedsKey(r.p)

LEMMA PathSetBackIs ==
    ASSUME NEW p \in PathRecorders
    PROVE  /\ PathSetBack(p) \in PathRecorders
           /\ PathAnew(p, PathSetBack(p))
           /\ PathSetBack(p).reordering = p.reordering
<1> DEFINE c == PathCut(p)
           q == [c EXCEPT !.next["video"] = PathNone, !.anchor["video"] = PathNone]
<1>1. /\ c \in PathRecorders /\ c.next = p.next /\ c.anchor = p.anchor
      /\ c.seg = PathNone /\ c.resync /\ c.hasVideo = p.hasVideo /\ c.reordering = p.reordering
  BY DEF PathCut, PathRecorders
<1>2. PathSetBack(p) = q
  BY DEF PathSetBack
<1> HIDE DEF c
<1>3. /\ q \in PathRecorders /\ q.next = [c.next EXCEPT !["video"] = PathNone]
      /\ q.seg = c.seg /\ q.resync = c.resync /\ q.hasVideo = c.hasVideo
      /\ q.reordering = c.reordering
  BY <1>1, PathTwoTracks DEF PathRecorders
<1> HIDE DEF q
<1> QED BY <1>1, <1>2, <1>3 DEF PathAnew

LEMMA PathFromPTSTakes ==
    ASSUME NEW p \in PathRecorders, ~p.reordering, NEW pts \in Int, NEW key \in BOOLEAN
    PROVE  PathTaken(p, key, PathFromPTS(p, pts, key))
<1> DEFINE r == PathFromPTS(p, pts, key)
           b == PathSetBack(p)
           back == IF p.stamp = PathNone THEN 0 ELSE p.stamp - pts
<1> SUFFICES PathTaken(p, key, r)
  OBVIOUS
<1>1. b \in PathRecorders /\ PathAnew(p, b) /\ ~b.reordering
  BY PathSetBackIs
<1>2. CASE ~p.started /\ ~key
  <2>1. r.kept = FALSE /\ r.p = p
    BY <1>2 DEF PathFromPTS, PathDropped
  <2> HIDE DEF r
  <2> QED BY <1>2, <2>1 DEF PathTaken, PathAsBefore, PathNeedsKey
<1>3. CASE (p.started \/ key) /\ back > PathBack /\ key
  <2> DEFINE q == [b EXCEPT !.stamp = pts, !.started = TRUE]
  <2>1. r.kept = TRUE /\ r.p = q
    BY <1>3 DEF PathFromPTS, PathKept
  <2> HIDE DEF r, b
  <2>2. /\ q \in PathRecorders /\ q.next = b.next /\ q.seg = b.seg
        /\ q.resync = b.resync /\ q.hasVideo = b.hasVideo
    BY <1>1 DEF PathRecorders
  <2> QED BY <1>1, <1>3, <2>1, <2>2 DEF PathTaken, PathAnew
<1>4. CASE (p.started \/ key) /\ back > PathBack /\ ~key
  <2> DEFINE q == [b EXCEPT !.stamp = PathNone, !.started = FALSE]
  <2>1. r.kept = FALSE /\ r.p = q
    BY <1>4 DEF PathFromPTS, PathDropped
  <2> HIDE DEF r, b
  <2>2. /\ q \in PathRecorders /\ q.next = b.next /\ q.seg = b.seg
        /\ q.resync = b.resync /\ q.hasVideo = b.hasVideo
        /\ ~q.started /\ q.reordering = b.reordering
    BY <1>1 DEF PathRecorders
  <2> QED BY <1>1, <2>1, <2>2 DEF PathTaken, PathAnew, PathNeedsKey
<1>5. CASE (p.started \/ key) /\ ~(back > PathBack) /\ back > 0
  <2> DEFINE q == [p EXCEPT !.reordering = TRUE, !.extractor = FALSE, !.started = TRUE]
  <2>1. r.kept = FALSE /\ r.p = q
    BY <1>5 DEF PathFromPTS, PathDropped
  <2> HIDE DEF r
  <2>2. /\ q \in PathRecorders /\ q.next = p.next /\ q.seg = p.seg /\ q.anchor = p.anchor
        /\ q.resync = p.resync /\ q.hasVideo = p.hasVideo
        /\ q.reordering /\ ~q.extractor
    BY DEF PathRecorders
  <2> QED BY <2>1, <2>2 DEF PathTaken, PathAsBefore, PathNeedsKey
<1>6. CASE (p.started \/ key) /\ ~(back > PathBack) /\ ~(back > 0)
  <2> DEFINE q == [p EXCEPT !.stamp = pts, !.started = TRUE]
  <2>1. r.kept = TRUE /\ r.p = q
    BY <1>6 DEF PathFromPTS, PathKept
  <2> HIDE DEF r
  <2>2. /\ q \in PathRecorders /\ q.next = p.next /\ q.seg = p.seg /\ q.anchor = p.anchor
        /\ q.resync = p.resync /\ q.hasVideo = p.hasVideo
    BY DEF PathRecorders
  <2> QED BY <1>6, <2>1, <2>2 DEF PathTaken, PathAsBefore, PathNeedsKey
<1> QED BY <1>2, <1>3, <1>4, <1>5, <1>6

LEMMA PathFromExtractorTakes ==
    ASSUME NEW p \in PathRecorders, p.reordering, NEW key \in BOOLEAN, NEW fails \in BOOLEAN
    PROVE  PathTaken(p, key, PathFromExtractor(p, key, fails))
<1> DEFINE r == PathFromExtractor(p, key, fails)
           q == [p EXCEPT !.extractor = TRUE, !.started = TRUE]
           l == [q EXCEPT !.extractor = FALSE]
<1> SUFFICES PathTaken(p, key, r)
  OBVIOUS
<1>1. CASE ~p.extractor /\ ~key
  <2>1. r.kept = FALSE /\ r.p = p
    BY <1>1 DEF PathFromExtractor, PathDropped
  <2> HIDE DEF r
  <2> QED BY <1>1, <2>1 DEF PathTaken, PathAsBefore, PathNeedsKey
<1>2. /\ q \in PathRecorders /\ q.next = p.next /\ q.seg = p.seg /\ q.anchor = p.anchor
      /\ q.resync = p.resync /\ q.hasVideo = p.hasVideo /\ q.reordering = p.reordering
  BY DEF PathRecorders
<1>3. CASE (p.extractor \/ key) /\ fails
  <2>1. r.kept = FALSE /\ r.p = l
    BY <1>3 DEF PathFromExtractor, PathDropped, PathLost
  <2> HIDE DEF r, q
  <2>2. /\ l \in PathRecorders /\ l.next = q.next /\ l.seg = q.seg /\ l.anchor = q.anchor
        /\ l.resync = q.resync /\ l.hasVideo = q.hasVideo /\ l.reordering = q.reordering
        /\ ~l.extractor
    BY <1>2 DEF PathRecorders
  <2> HIDE DEF l
  <2> QED BY <1>2, <2>1, <2>2 DEF PathTaken, PathAsBefore, PathNeedsKey
<1>4. CASE (p.extractor \/ key) /\ ~fails
  <2>1. r.kept = TRUE /\ r.p = q
    BY <1>4 DEF PathFromExtractor, PathKept
  <2> HIDE DEF r, q
  <2> QED BY <1>2, <1>4, <2>1 DEF PathTaken, PathAsBefore, PathNeedsKey
<1> QED BY <1>1, <1>3, <1>4

\* What holds of the tracks still holds when videoDecodeTime is done with them.
LEMMA PathTakenKeeps ==
    ASSUME NEW p \in PathRecorders, NEW q, PathAsBefore(p, q) \/ PathAnew(p, q)
    PROVE  /\ q \in PathRecorders
           /\ PathSound(p) => PathSound(q)
           /\ \A now \in Int : PathTimely(p, now) => PathTimely(q, now)
           /\ PathAlone(p) => PathAlone(q)
<1>1. CASE PathAsBefore(p, q)
  BY <1>1 DEF PathAsBefore, PathSound, PathTimely, PathAlone, PathAnchored
<1>2. CASE PathAnew(p, q)
  <2>1. /\ q \in PathRecorders /\ q.next["video"] = PathNone /\ q.next["audio"] = p.next["audio"]
        /\ q.seg = PathNone
    BY <1>2, PathTwoTracks DEF PathAnew, PathRecorders
  <2> QED BY <2>1, PathTwoTracks DEF PathSound, PathFollows, PathTimely, PathAlone
<1> QED BY <1>1, <1>2

-----------------------------------------------------------------------------
(* The steps.                                                              *)

\* Whatever write does, the new sample waits, and the other track is left alone.
LEMMA PathWritesHold ==
    ASSUME NEW q \in PathRecorders, NEW t \in PathTracks, NEW new \in PathSamples,
           NEW fails \in BOOLEAN, PathWrite(q, t, new, fails)
    PROVE  /\ path'.next[t] # PathNone /\ path'.next[t].n = new.n
           /\ \A u \in PathTracks : u # t => path'.next[u] = q.next[u]
           /\ path'.started = q.started /\ path'.reordering = q.reordering
           /\ path'.extractor = q.extractor
<1>1. ASSUME NEW next \in PathSamples, next.n = new.n, PathHolds(q, t, next, path')
      PROVE  /\ path'.next[t] # PathNone /\ path'.next[t].n = new.n
             /\ \A u \in PathTracks : u # t => path'.next[u] = q.next[u]
             /\ path'.started = q.started /\ path'.reordering = q.reordering
             /\ path'.extractor = q.extractor
  <2>1. next # PathNone
    BY PathAssumption DEF PathSamples
  <2>2. path'.next[t] = next /\ \A u \in PathTracks : u # t => path'.next[u] = q.next[u]
    BY <1>1, PathNextUpdate
  <2> QED BY <1>1, <2>1, <2>2 DEF PathHolds
<1>2. CASE PathFirst(q, t, new) \/ PathRestarts(q, t, new)
  <2>1. PathHolds(q, t, new, path')
    BY <1>2 DEF PathFirst, PathRestarts
  <2> QED BY <1>1, <2>1
<1>3. ASSUME NEW p \in PathRecorders, NEW next \in PathSamples, PathPasses(q, t, new, p, next)
      PROVE  next.n = new.n /\ PathHolds(q, t, next, path')
  BY <1>3 DEF PathPasses, PathLater
<1> QED BY <1>1, <1>2, <1>3, PathWrites

\* PathFaithful after a step that wrote nothing, or something as it should be.
LEMMA PathFaithfulKept ==
    ASSUME PathTyped, PathFaithful,
           pathCamera.jumped => pathCamera'.jumped, pathCamera.heard => pathCamera'.heard,
           \/ pathWrote' = pathWrote
           \/ /\ pathWrote' \in PathNotes /\ PathDecodes(pathWrote')
              /\ ~(pathCamera'.heard /\ pathCamera'.jumped) =>
                     PathWithin(pathWrote'.drift, 2 * PathGap)
    PROVE  PathFaithful'
<1>1. CASE pathWrote' = pathWrote
  BY <1>1 DEF PathFaithful, PathDecodable, PathTimesTrue
<1>2. CASE /\ PathDecodes(pathWrote')
           /\ ~(pathCamera'.heard /\ pathCamera'.jumped) =>
                  PathWithin(pathWrote'.drift, 2 * PathGap)
  <2>1. PathDecodable'
    BY <1>2 DEF PathDecodable, PathDecodes
  <2>2. PathTimesTrue'
    BY <1>2 DEF PathTimesTrue, PathWithin
  <2> QED BY <2>1, <2>2 DEF PathFaithful
<1> QED BY <1>1, <1>2

\* Two ticks are within the tolerance.
LEMMA PathTwice ==
    ASSUME PathWriteTimely(pathNow), pathWrote' # pathWrote, pathWrote' \in PathNotes
    PROVE  PathWithin(pathWrote'.drift, 2 * PathGap)
<1>1. pathWrote'.drift \in Int /\ PathWithin(pathWrote'.drift, 2)
  BY DEF PathWriteTimely, PathNotes
<1> QED BY <1>1, PathAssumption DEF PathWithin

LEMMA PathTimelyOn ==
    ASSUME NEW p \in PathRecorders, NEW now \in Int, PathTimely(p, now)
    PROVE  PathTimely(p, now + 1)
<1>1. \A t \in PathTracks : p.next[t] # PathNone => p.next[t].ntp \in Int
  BY PathSamplesAre
<1> QED BY <1>1 DEF PathTimely

LEMMA PathFaultyIs ==
    ASSUME PathTyped, NEW fault \in BOOLEAN
    PROVE  /\ PathFaulty(fault) \in PathCameras
           /\ PathFaulty(fault).off = pathCamera.off /\ PathFaulty(fault).jumped = pathCamera.jumped
           /\ PathFaulty(fault).sent = pathCamera.sent /\ PathFaulty(fault).heard = pathCamera.heard
<1> DEFINE faults == IF fault THEN pathCamera.faults + 1 ELSE pathCamera.faults
<1>1. faults \in Nat /\ pathCamera \in PathCameras
  BY DEF PathTyped, PathCameras
<1>2. PathFaulty(fault) = [pathCamera EXCEPT !.faults = faults]
  BY DEF PathFaulty
<1> HIDE DEF faults
<1> QED BY <1>1, <1>2 DEF PathCameras

LEMMA PathAudioKeeps ==
    ASSUME PathInv, PathAudioArrives PROVE PathInv'
<1> DEFINE new == [dts |-> PathAt, ntp |-> pathNow, key |-> TRUE, n |-> 0]
<1>1. PICK fails \in BOOLEAN :
          /\ pathCamera' = [PathFaulty(fails) EXCEPT !.heard = TRUE]
          /\ IF path.started \/ PathAudioOnly(path)
             THEN PathWrite(path, "audio", new, fails)
             ELSE UNCHANGED <<path, pathWrote>>
  BY DEF PathAudioArrives
<1>2. /\ pathCamera' \in PathCameras
      /\ pathCamera'.off = pathCamera.off /\ pathCamera'.jumped = pathCamera.jumped
      /\ pathCamera'.sent = pathCamera.sent /\ pathCamera'.heard
  <2>1. PathTyped
    BY DEF PathInv
  <2> QED BY <1>1, <2>1, PathFaultyIs DEF PathCameras
<1>3. pathNow' = pathNow + 1 /\ pathNow \in Nat /\ pathNow' \in Nat
  BY DEF PathAudioArrives, PathClock, PathInv, PathTyped
<1>4. PathTyped /\ path \in PathRecorders /\ PathFaithful /\ PathSound(path)
  BY DEF PathInv, PathTyped
<1>5. CASE UNCHANGED <<path, pathWrote>>
  <2>1. PathTyped'
    BY <1>2, <1>3, <1>4, <1>5 DEF PathTyped
  <2>2. PathFaithful'
    BY <1>2, <1>4, <1>5, PathFaithfulKept
  <2>3. ~pathCamera'.jumped => pathCamera'.off = 0 /\ PathTimely(path', pathNow')
    BY <1>2, <1>3, <1>4, <1>5, PathTimelyOn DEF PathInv
  <2>4. PathSound(path') /\ PathLatest(path', pathCamera'.sent)
    BY <1>2, <1>5 DEF PathInv
  <2> QED BY <1>2, <2>1, <2>2, <2>3, <2>4 DEF PathInv
<1>6. CASE PathWrite(path, "audio", new, fails)
  <2>1. new \in PathSamples /\ new.ntp = pathNow /\ new.dts = pathNow + pathCamera.off
    BY <1>3, <1>4 DEF PathTyped, PathAt, PathSamples, PathCameras
  <2> HIDE DEF new
  <2>2. PathInOrder(path, "audio", new)
    BY PathTwoTracks DEF PathInOrder
  <2>3. PathWriteSound
    BY <1>4, <1>6, <2>1, <2>2, PathWritesSound, PathTwoTracks
  <2>4. ASSUME ~pathCamera.jumped PROVE PathWriteTimely(pathNow)
    <3>1. pathCamera.off = 0 /\ PathTimely(path, pathNow)
      BY <2>4 DEF PathInv
    <3>2. PathNear(new.ntp, new.dts)
      BY <1>3, <2>1, <3>1 DEF PathNear
    <3> QED BY <1>3, <1>4, <1>6, <2>1, <3>1, <3>2, PathWritesTimely, PathTwoTracks
  <2>5. path' \in PathRecorders /\ PathSound(path')
    BY <2>3 DEF PathWriteSound
  <2>6. PathLatest(path', pathCamera'.sent)
    <3>1. /\ path'.next["video"] = path.next["video"]
          /\ path'.started = path.started /\ path'.reordering = path.reordering
          /\ path'.extractor = path.extractor
      BY <1>4, <1>6, <2>1, PathWritesHold, PathTwoTracks
    <3> QED BY <1>2, <3>1 DEF PathInv, PathLatest, PathNeedsKey
  <2>7. PathTyped'
    BY <1>2, <1>3, <1>4, <2>3 DEF PathTyped, PathWriteSound
  <2>8. ~pathCamera'.jumped => pathCamera'.off = 0 /\ PathTimely(path', pathNow')
    BY <1>2, <1>3, <2>4, <2>5, PathTimelyOn DEF PathInv, PathWriteTimely
  <2>9. PathFaithful'
    <3>1. CASE pathWrote' = pathWrote
      BY <1>2, <1>4, <3>1, PathFaithfulKept
    <3>2. CASE pathWrote' # pathWrote
      <4>1. pathWrote' \in PathNotes /\ PathDecodes(pathWrote')
        BY <2>3, <3>2 DEF PathWriteSound
      <4>2. ~(pathCamera'.heard /\ pathCamera'.jumped) => PathWithin(pathWrote'.drift, 2 * PathGap)
        BY <1>2, <2>4, <3>2, <4>1, PathTwice
      <4> QED BY <1>2, <1>4, <4>1, <4>2, PathFaithfulKept
    <3> QED BY <3>1, <3>2
  <2> QED BY <1>2, <2>5, <2>6, <2>7, <2>8, <2>9 DEF PathInv
<1> QED BY <1>1, <1>5, <1>6

LEMMA PathVideoKeeps ==
    ASSUME PathInv, PathVideoArrives PROVE PathInv'
<1>1. PICK key \in BOOLEAN, extracts \in BOOLEAN, fails \in BOOLEAN, early \in {0, 2} :
          PathPicture(key, early, extracts, fails)
  BY DEF PathVideoArrives
<1> DEFINE seen == [path EXCEPT !.pictured = pathNow]
           n == pathCamera.sent + 1
           dts == IF path.reordering THEN PathAt ELSE PathAt - early
           new == [dts |-> dts, ntp |-> pathNow, key |-> key, n |-> n]
           r == IF path.reordering THEN PathFromExtractor(seen, key, ~extracts)
                ELSE PathFromPTS(seen, PathAt - early, key)
           wrong == fails \/ ~extracts
<1>2. PathTyped /\ path \in PathRecorders /\ PathFaithful
  BY DEF PathInv, PathTyped
<1>3. pathNow' = pathNow + 1 /\ pathNow \in Nat /\ pathNow' \in Nat
  BY <1>2 DEF PathVideoArrives, PathClock, PathTyped
<1>4. /\ PathAt = pathNow + pathCamera.off /\ PathAt \in Int /\ n \in Nat
      /\ pathCamera.off \in Int
  BY <1>2, <1>3 DEF PathTyped, PathAt, PathCameras
<1>5. /\ pathCamera' \in PathCameras
      /\ pathCamera'.off = pathCamera.off /\ pathCamera'.jumped = pathCamera.jumped
      /\ pathCamera'.sent = n /\ pathCamera'.heard = pathCamera.heard
  <2>1. pathCamera' = [PathFaulty(wrong) EXCEPT !.sent = n]
    BY <1>1 DEF PathPicture
  <2>2. wrong \in BOOLEAN
    OBVIOUS
  <2> HIDE DEF wrong, n
  <2>3. /\ PathFaulty(wrong) \in PathCameras
        /\ PathFaulty(wrong).off = pathCamera.off /\ PathFaulty(wrong).jumped = pathCamera.jumped
        /\ PathFaulty(wrong).heard = pathCamera.heard
    BY <1>2, <2>2, PathFaultyIs
  <2> QED BY <1>4, <2>1, <2>3 DEF PathCameras
<1>6. IF r.kept THEN PathWrite(r.p, "video", new, fails) ELSE path' = r.p /\ UNCHANGED pathWrote
  <2>1. [[dts |-> PathAt, ntp |-> pathNow, key |-> key, n |-> n] EXCEPT !.dts = dts] = new
    OBVIOUS
  <2> QED BY <1>1, <2>1 DEF PathPicture
<1>7. /\ seen \in PathRecorders /\ PathAsBefore(path, seen)
      /\ seen.reordering = path.reordering /\ (PathNeedsKey(seen) <=> PathNeedsKey(path))
  BY <1>2, <1>3 DEF PathRecorders, PathAsBefore, PathNeedsKey
<1>8. PathTaken(seen, key, r)
  <2> HIDE DEF seen
  <2>1. PathAt - early \in Int
    BY <1>4
  <2>2. CASE path.reordering
    <3>1. r = PathFromExtractor(seen, key, ~extracts) /\ (~extracts) \in BOOLEAN
      BY <2>2
    <3> HIDE DEF r
    <3> QED BY <1>7, <2>2, <3>1, PathFromExtractorTakes
  <2>3. CASE ~path.reordering
    <3>1. r = PathFromPTS(seen, PathAt - early, key)
      BY <2>3
    <3> HIDE DEF r
    <3> QED BY <1>7, <2>1, <2>3, <3>1, PathFromPTSTakes
  <2> QED BY <2>2, <2>3
<1>9. /\ new \in PathSamples /\ new.ntp = pathNow /\ new.key = key /\ new.n = n
      /\ new.dts = pathNow + pathCamera.off \/ new.dts = pathNow + pathCamera.off - 2
  BY <1>3, <1>4 DEF PathSamples
<1> HIDE DEF seen, new, r, n
<1>10. /\ PathSound(seen)
       /\ ~pathCamera.jumped => pathCamera.off = 0 /\ PathTimely(seen, pathNow)
       /\ ~pathCamera.heard => PathAlone(seen)
       /\ PathLatest(seen, pathCamera.sent)
  <2>1. PathLatest(seen, pathCamera.sent)
    BY <1>7 DEF PathInv, PathLatest, PathAsBefore
  <2> QED BY <1>2, <1>3, <1>7, <2>1, PathTakenKeeps DEF PathInv
<1>11. /\ r.p \in PathRecorders /\ PathSound(r.p)
       /\ ~pathCamera.jumped => PathTimely(r.p, pathNow)
       /\ ~pathCamera.heard => PathAlone(r.p)
  BY <1>3, <1>7, <1>8, <1>10, PathTakenKeeps DEF PathTaken
<1>12. CASE ~r.kept
  <2>1. path' = r.p /\ pathWrote' = pathWrote /\ PathNeedsKey(r.p)
    BY <1>6, <1>8, <1>12 DEF PathTaken
  <2>2. PathTyped'
    BY <1>2, <1>3, <1>5, <1>11, <2>1 DEF PathTyped
  <2>3. PathFaithful'
    BY <1>2, <1>5, <2>1, PathFaithfulKept
  <2>4. ~pathCamera'.jumped => pathCamera'.off = 0 /\ PathTimely(path', pathNow')
    BY <1>3, <1>5, <1>10, <1>11, <2>1, PathTimelyOn
  <2> QED BY <1>5, <1>11, <2>1, <2>2, <2>3, <2>4 DEF PathInv, PathLatest
<1>13. CASE r.kept
  <2>1. PathWrite(r.p, "video", new, fails)
    BY <1>6, <1>13
  <2>2. PathInOrder(r.p, "video", new)
    <3>1. CASE key
      BY <1>9, <3>1 DEF PathInOrder
    <3>2. CASE ~PathNeedsKey(seen) /\ PathAsBefore(seen, r.p)
      <4>1. /\ seen.next["video"] # PathNone /\ seen.next["video"].n = pathCamera.sent
            /\ r.p.next = seen.next
        BY <1>10, <3>2 DEF PathLatest, PathAsBefore
      <4> QED BY <1>9, <4>1 DEF PathInOrder, n
    <3> QED BY <1>8, <1>13, <3>1, <3>2 DEF PathTaken
  <2>3. PathWriteSound
    BY <1>9, <1>11, <2>1, <2>2, PathWritesSound, PathTwoTracks
  <2>4. ASSUME ~pathCamera.jumped PROVE PathWriteTimely(pathNow)
    <3>1. pathCamera.off = 0 /\ PathTimely(r.p, pathNow)
      BY <1>10, <1>11, <2>4
    <3>2. PathNear(new.ntp, new.dts)
      BY <1>3, <1>9, <3>1 DEF PathNear
    <3> QED BY <1>3, <1>9, <1>11, <2>1, <3>1, <3>2, PathWritesTimely, PathTwoTracks
  <2>5. ASSUME ~pathCamera.heard PROVE PathWriteAlone
    BY <1>9, <1>11, <2>1, <2>5, PathWritesAlone
  <2>6. path' \in PathRecorders /\ PathSound(path')
    BY <2>3 DEF PathWriteSound
  <2>7. PathLatest(path', pathCamera'.sent)
    <3>1. path'.next["video"] # PathNone /\ path'.next["video"].n = new.n
      BY <1>9, <1>11, <2>1, PathWritesHold, PathTwoTracks
    <3> QED BY <1>5, <1>9, <3>1 DEF PathLatest
  <2>8. PathTyped'
    BY <1>2, <1>3, <1>5, <2>3 DEF PathTyped, PathWriteSound
  <2>9. ~pathCamera'.jumped => pathCamera'.off = 0 /\ PathTimely(path', pathNow')
    BY <1>3, <1>5, <1>10, <2>4, <2>6, PathTimelyOn DEF PathWriteTimely
  <2>10. ~pathCamera'.heard => PathAlone(path')
    BY <1>5, <2>5 DEF PathWriteAlone
  <2>11. PathFaithful'
    <3>1. CASE pathWrote' = pathWrote
      BY <1>2, <1>5, <3>1, PathFaithfulKept
    <3>2. CASE pathWrote' # pathWrote
      <4>1. pathWrote' \in PathNotes /\ PathDecodes(pathWrote')
        BY <2>3, <3>2 DEF PathWriteSound
      <4>2. ~pathCamera'.jumped => PathWithin(pathWrote'.drift, 2 * PathGap)
        BY <1>5, <2>4, <3>2, <4>1, PathTwice
      <4>3. ~pathCamera'.heard => PathWithin(pathWrote'.drift, 2 * PathGap)
        BY <1>5, <2>5, <3>2 DEF PathWriteAlone
      <4> QED BY <1>2, <1>5, <4>1, <4>2, <4>3, PathFaithfulKept
    <3> QED BY <3>1, <3>2
  <2> QED BY <2>6, <2>7, <2>8, <2>9, <2>10, <2>11 DEF PathInv
<1> QED BY <1>12, <1>13

LEMMA PathElseKeeps ==
    ASSUME PathInv, PathSilence \/ PathJump \/ UNCHANGED pathVars PROVE PathInv'
<1>1. PathTyped /\ path \in PathRecorders /\ PathFaithful /\ pathNow \in Nat
  BY DEF PathInv, PathTyped
<1>2. path' = path /\ pathWrote' = pathWrote
  BY DEF PathSilence, PathJump, pathVars
<1>3. CASE PathSilence
  <2>1. pathNow' = pathNow + 1 /\ pathCamera' = pathCamera
    BY <1>3 DEF PathSilence, PathClock
  <2>2. PathFaithful'
    BY <1>1, <1>2, <2>1, PathFaithfulKept
  <2> QED BY <1>1, <1>2, <2>1, <2>2, PathTimelyOn DEF PathInv, PathTyped
<1>4. CASE PathJump
  <2>1. PICK d \in PathJumps \cup {-e : e \in PathJumps} :
            pathCamera' = [pathCamera EXCEPT !.off = pathCamera.off + d, !.jumped = TRUE]
    BY <1>4 DEF PathJump
  <2> DEFINE off == pathCamera.off + d
  <2>5. pathCamera \in PathCameras /\ off \in Int
    <3>1. d \in Int
      BY PathAssumption
    <3>2. pathCamera \in PathCameras /\ pathCamera.off \in Int
      BY <1>1 DEF PathTyped, PathCameras
    <3> QED BY <3>1, <3>2
  <2>2. pathNow' = pathNow
    BY <1>4 DEF PathJump
  <2>3. /\ pathCamera' \in PathCameras /\ pathCamera'.jumped
        /\ pathCamera'.sent = pathCamera.sent /\ pathCamera'.heard = pathCamera.heard
    <3>1. pathCamera' = [pathCamera EXCEPT !.off = off, !.jumped = TRUE]
      BY <2>1
    <3> HIDE DEF off
    <3> QED BY <2>5, <3>1 DEF PathCameras
  <2>4. PathFaithful'
    BY <1>1, <1>2, <2>3, PathFaithfulKept
  <2> QED BY <1>1, <1>2, <2>2, <2>3, <2>4 DEF PathInv, PathTyped
<1>5. CASE UNCHANGED pathVars
  <2>1. pathNow' = pathNow /\ pathCamera' = pathCamera
    BY <1>5 DEF pathVars
  <2>2. PathFaithful'
    BY <1>1, <1>2, <2>1, PathFaithfulKept
  <2> QED BY <1>1, <1>2, <2>1, <2>2 DEF PathInv, PathTyped
<1> QED BY <1>3, <1>4, <1>5

LEMMA PathStarts == PathInit => PathInv
<1> SUFFICES ASSUME PathInit PROVE PathInv
  OBVIOUS
<1>1. PICK reordering \in BOOLEAN : path = PathFresh(reordering)
  BY DEF PathInit
<1>2. path \in PathRecorders
  BY <1>1, PathTwoTracks DEF PathFresh, PathRecorders
<1>3. path.seg = PathNone /\ \A t \in PathTracks : path.next[t] = PathNone
  BY <1>1 DEF PathFresh
<1>4. PathNeedsKey(path)
  BY <1>1 DEF PathFresh, PathNeedsKey
<1>5. PathTyped /\ pathCamera.off = 0
  BY <1>2 DEF PathInit, PathTyped, PathCameras
<1>6. PathFaithful
  BY DEF PathInit, PathFaithful, PathDecodable, PathTimesTrue
<1> QED BY <1>3, <1>4, <1>5, <1>6, PathTwoTracks
        DEF PathInv, PathSound, PathFollows, PathLatest, PathTimely, PathAlone

\* PathFaithful: whatever order videoDecodeTime, wireAudio and write meet samples,
\* clocks that jump and disks that fail in, every picture in a segment is a keyframe or
\* comes right after the one before it, and the place of a sample in its segment tells
\* when it arrived to within twice ntpDriftTolerance (with the exception that
\* PathTimesTrue makes of a camera with audio whose clock has jumped).
THEOREM SegmentsFaithful == PathSpec => []PathFaithful
<1>1. PathInit => PathInv
  BY PathStarts
<1>2. PathInv /\ [PathNext]_pathVars => PathInv'
  BY PathVideoKeeps, PathAudioKeeps, PathElseKeeps DEF PathNext
<1>3. PathInv => PathFaithful
  BY DEF PathInv
<1> QED BY <1>1, <1>2, <1>3, PTL DEF PathSpec
=============================================================================
