---------------------------- MODULE TalkSession ----------------------------
(***************************************************************************)
(* Push-to-talk to one camera: handleTalk and CloseAllTalk                 *)
(* (server/handlers_talk.go) and backchannel.Session                       *)
(* (backchannel/session.go).                                               *)
(*                                                                         *)
(* Each client's WebSocket handler reserves the camera's only slot, opens  *)
(* the RTSP backchannel and feeds a send loop.  The client, the camera and *)
(* the shutdown of the process may end the session at any step, and two    *)
(* owners may close it.                                                    *)
(*                                                                         *)
(* Every name here starts with Talk or talk.  Audio is the number of a     *)
(* frame; resampling and encoding are left out.                            *)
(***************************************************************************)
EXTENDS Integers, Sequences, FiniteSets

CONSTANTS
    Talkers,      \* the handlers of clients
    TalkFree,     \* no entry for the camera in a.talk
    TalkReserved, \* the nil placeholder
    TalkBuffer,   \* capacity of a session's audio channel
    TalkFrames    \* frames that a client sends in one session

ASSUME TalkAssumption ==
    /\ TalkFree \notin Talkers /\ TalkReserved \notin Talkers /\ TalkFree # TalkReserved
    /\ TalkBuffer \in Nat \ {0} /\ TalkFrames \in Nat

VARIABLES
    talkSlot, \* a.talk[id]: free, reserved, or the handler whose session it holds
    talker,   \* each handler with its session
    talkEnd   \* the shutdown: its phase and the sessions CloseAllTalk took

talkVars == <<talkSlot, talker, talkEnd>>

\* pc: the handler's place.  ws: its socket, "gone" when the client is.  ping: the
\* goroutine that pings.  open: the RTSP connection.  loop: the send loop runs.
\* stop and once are the session's; once is "idle", "inside" or "done".  lost: the
\* camera has dropped the session.  ch: frames for the send loop; fed and took:
\* the last frame that was fed, and that the loop received.
TalkIdle == [pc |-> "idle", ws |-> "open", ping |-> FALSE, codec |-> "g711", open |-> FALSE,
             loop |-> FALSE, stop |-> FALSE, once |-> "idle", lost |-> FALSE,
             ch |-> <<>>, fed |-> 0, took |-> 0]

TalkInit ==
    /\ talkSlot = TalkFree
    /\ talker = [t \in Talkers |-> TalkIdle]
    /\ talkEnd = [phase |-> "up", swept |-> {}]

\* A camera without a backchannel: nothing ever moves.
TalkOff ==
    /\ talkSlot = TalkFree
    /\ talker = [t \in Talkers |-> TalkIdle]
    /\ talkEnd = [phase |-> "down", swept |-> {}]

TalkMove(t, from, to) == talker[t].pc = from /\ talker' = [talker EXCEPT ![t].pc = to]

-----------------------------------------------------------------------------
(* handleTalk.                                                             *)

\* 409 when the camera has an entry, be it only the placeholder.
FaultyTalkBusy == talkSlot \in Talkers
TalkBusy == talkSlot # TalkFree

TalkReserve(t) ==
    /\ talkEnd.phase = "up" /\ ~TalkBusy
    /\ TalkMove(t, "idle", "upgrade")
    /\ talkSlot' = TalkReserved
    /\ UNCHANGED talkEnd

\* release deletes the entry, whatever it is.
TalkRelease(t) ==
    /\ TalkMove(t, "release", "returned")
    /\ talkSlot' = TalkFree
    /\ UNCHANGED talkEnd

\* The handler has returned, and the socket is closed.
TalkReturn(t) ==
    /\ talker[t].pc = "returned"
    /\ talker' = [talker EXCEPT ![t] = TalkIdle]
    /\ UNCHANGED <<talkSlot, talkEnd>>

TalkUpgrade(t) ==
    /\ \/ TalkMove(t, "upgrade", "handshake")
       \/ TalkMove(t, "upgrade", "release")
    /\ UNCHANGED <<talkSlot, talkEnd>>

\* The first message picks the codec, or is late, malformed or asks for a rate
\* that cannot be resampled.
TalkHandshake(t) ==
    /\ \/ TalkMove(t, "handshake", "release")
       \/ /\ talker[t].pc = "handshake" /\ talker[t].ws = "open"
          /\ \E codec \in {"g711", "passthrough"} :
                talker' = [talker EXCEPT ![t].pc = "dial", ![t].codec = codec, ![t].open = TRUE]
    /\ UNCHANGED <<talkSlot, talkEnd>>

\* Dial: an error or the deadline closes the client that it opened.
TalkDialFails(t) ==
    /\ talker[t].pc = "dial"
    /\ talker' = [talker EXCEPT ![t].pc = "release", ![t].open = FALSE]
    /\ UNCHANGED <<talkSlot, talkEnd>>

TalkDials(t) ==
    /\ talker[t].pc = "dial"
    /\ talker' = [talker EXCEPT ![t].pc = "register", ![t].loop = TRUE]
    /\ UNCHANGED <<talkSlot, talkEnd>>

TalkRegister(t) ==
    /\ TalkMove(t, "register", "ready")
    /\ talkSlot' = t
    /\ UNCHANGED talkEnd

\* The client is told, and the goroutine that pings starts.
TalkReady(t) ==
    /\ talker[t].pc = "ready"
    /\ \/ talker' = [talker EXCEPT ![t].pc = "talk", ![t].ping = TRUE]
       \/ talker[t].ws # "open" /\ talker' = [talker EXCEPT ![t].pc = "closing"]
    /\ UNCHANGED <<talkSlot, talkEnd>>

\* A read fails: the socket is closed, or the client is gone and the deadline that
\* pongs and audio extend has passed.  pingDone is closed on the way out.
TalkReadFails(t) ==
    /\ talker[t].pc = "talk" /\ talker[t].ws # "open"
    /\ talker' = [talker EXCEPT ![t].pc = "closing", ![t].ping = FALSE]
    /\ UNCHANGED <<talkSlot, talkEnd>>

\* FeedPCM drops the new frame when the channel is full, the other codecs look for
\* room once more after they have shed the oldest one.
TalkRoom(t) == Len(talker[t].ch) < TalkBuffer
TalkFeed(t) ==
    /\ talker[t].pc = "talk" /\ talker[t].ws = "open" /\ talker[t].fed < TalkFrames
    /\ LET n == talker[t].fed + 1 IN
        talker' = [talker EXCEPT
            ![t].fed = n,
            ![t].ch = IF TalkRoom(t) THEN Append(@, n) ELSE @,
            ![t].pc = IF ~TalkRoom(t) /\ talker[t].codec = "passthrough" THEN "shed" ELSE "talk"]
    /\ UNCHANGED <<talkSlot, talkEnd>>

TalkShed(t) ==
    /\ talker[t].pc = "shed"
    /\ talker' = [talker EXCEPT ![t].pc = "again",
                                ![t].ch = IF @ = <<>> THEN @ ELSE Tail(@)]
    /\ UNCHANGED <<talkSlot, talkEnd>>

\* (The faulty form sheds the oldest frame and forgets the new one.)
FaultyTalkRetried(t) == talker[t].ch
TalkRetried(t) == IF TalkRoom(t) THEN Append(talker[t].ch, talker[t].fed) ELSE talker[t].ch

TalkFeedAgain(t) ==
    /\ talker[t].pc = "again"
    /\ talker' = [talker EXCEPT ![t].pc = "talk", ![t].ch = TalkRetried(t)]
    /\ UNCHANGED <<talkSlot, talkEnd>>

\* The goroutine that pings: it closes the socket when the session is done (the
\* faulty form only tells the client), and gives up on a client that is gone.
FaultyTalkHangUp(ws) == ws
TalkHangUp(ws) == "closed"

TalkPing(t) ==
    /\ talker[t].ping
    /\ \/ ~talker[t].loop /\ talker' = [talker EXCEPT ![t].ping = FALSE, ![t].ws = TalkHangUp(@)]
       \/ talker[t].ws = "gone" /\ talker' = [talker EXCEPT ![t].ping = FALSE]
    /\ UNCHANGED <<talkSlot, talkEnd>>

-----------------------------------------------------------------------------
(* backchannel.Session: the send loop, and Close.                          *)

\* Each of the select's ready cases may be taken.  G.711 sends a frame on every
\* tick; the other codecs only what they are given.  A write fails only after the
\* camera dropped the session, though not necessarily at once.
TalkStopped(t) ==
    /\ talker[t].loop /\ talker[t].stop
    /\ talker' = [talker EXCEPT ![t].loop = FALSE]
    /\ UNCHANGED <<talkSlot, talkEnd>>

TalkTake(t) ==
    /\ talker[t].loop /\ talker[t].ch # <<>>
    /\ \E fails \in (IF talker[t].codec = "passthrough" THEN {talker[t].lost, FALSE} ELSE {FALSE}) :
        talker' = [talker EXCEPT ![t].took = Head(talker[t].ch), ![t].ch = Tail(@),
                                 ![t].loop = ~fails]
    /\ UNCHANGED <<talkSlot, talkEnd>>

TalkTickFails(t) ==
    /\ talker[t].loop /\ talker[t].codec = "g711" /\ talker[t].lost
    /\ talker' = [talker EXCEPT ![t].loop = FALSE]
    /\ UNCHANGED <<talkSlot, talkEnd>>

\* Close: the first caller stops the loop, waits for its end and tears the RTSP
\* session down; a later one waits until the first has finished.
TalkBeginClose(t) ==
    /\ talker[t].once = "idle"
    /\ talker' = [talker EXCEPT ![t].once = "inside", ![t].stop = TRUE]

TalkFinishClose(t) ==
    /\ talker[t].once = "inside" /\ ~talker[t].loop
    /\ talker' = [talker EXCEPT ![t].once = "done", ![t].open = FALSE]
    /\ UNCHANGED <<talkSlot, talkEnd>>

\* (The faulty form is a flag instead of sync.Once: the second caller does not
\* wait.)
FaultyTalkOver(t) == talker[t].once # "idle"
TalkOver(t) == talker[t].once = "done"

TalkClose(t) ==
    /\ talker[t].pc = "closing"
    /\ \/ TalkBeginClose(t)
       \/ TalkOver(t) /\ TalkMove(t, "closing", "release")
    /\ UNCHANGED <<talkSlot, talkEnd>>

-----------------------------------------------------------------------------
(* The client, the camera, and the shutdown of the process.                *)

TalkClientGone(t) ==
    /\ talker[t].pc \in {"handshake", "dial", "register", "ready", "talk"}
    /\ talker[t].ws = "open"
    /\ talker' = [talker EXCEPT ![t].ws = "gone"]
    /\ UNCHANGED <<talkSlot, talkEnd>>

TalkCameraDrops(t) ==
    /\ talker[t].loop /\ ~talker[t].lost
    /\ talker' = [talker EXCEPT ![t].lost = TRUE]
    /\ UNCHANGED <<talkSlot, talkEnd>>

\* srv.Shutdown accepts no request any more and waits for the handlers that are
\* not hijacked.
TalkDrain ==
    /\ talkEnd.phase = "up"
    /\ talkEnd' = [talkEnd EXCEPT !.phase = "drain"]
    /\ UNCHANGED <<talkSlot, talker>>

\* CloseAllTalk takes the sessions and deletes every entry under talkMu...
TalkSweep ==
    /\ talkEnd.phase = "drain" /\ \A t \in Talkers : talker[t].pc # "upgrade"
    /\ talkEnd' = [phase |-> "sweep", swept |-> {talkSlot} \cap Talkers]
    /\ talkSlot' = TalkFree
    /\ UNCHANGED talker

\* ... and closes each of them.
TalkSweepClose(t) ==
    /\ talkEnd.phase = "sweep" /\ t \in talkEnd.swept /\ talker[t].pc # "idle"
    /\ TalkBeginClose(t)
    /\ UNCHANGED <<talkSlot, talkEnd>>

TalkDown ==
    /\ talkEnd.phase = "sweep" /\ \A t \in talkEnd.swept : TalkOver(t) \/ talker[t].pc = "idle"
    /\ talkEnd' = [talkEnd EXCEPT !.phase = "down"]
    /\ UNCHANGED <<talkSlot, talker>>

TalkHandler(t) ==
    \/ TalkUpgrade(t) \/ TalkHandshake(t) \/ TalkDialFails(t) \/ TalkDials(t) \/ TalkRegister(t)
    \/ TalkReady(t) \/ TalkReadFails(t) \/ TalkShed(t) \/ TalkFeedAgain(t) \/ TalkClose(t)
    \/ TalkFinishClose(t) \/ TalkRelease(t) \/ TalkReturn(t)
TalkLoop(t) == TalkStopped(t) \/ TalkTickFails(t)

\* The process ends with the shutdown.
TalkNext ==
    /\ talkEnd.phase # "down"
    /\ \/ \E t \in Talkers :
            \/ TalkReserve(t) \/ TalkFeed(t) \/ TalkHandler(t) \/ TalkPing(t)
            \/ TalkLoop(t) \/ TalkTake(t)
            \/ TalkClientGone(t) \/ TalkCameraDrops(t) \/ TalkSweepClose(t)
       \/ TalkDrain \/ TalkSweep \/ TalkDown

TalkSpec == TalkInit /\ [][TalkNext]_talkVars

\* The handlers and the goroutines of a session run until the process ends.
TalkFairness ==
    \A t \in Talkers :
        /\ WF_talkVars(talkEnd.phase # "down" /\ TalkHandler(t))
        /\ WF_talkVars(talkEnd.phase # "down" /\ TalkPing(t))
        /\ WF_talkVars(talkEnd.phase # "down" /\ TalkLoop(t))

TalkFairSpec == TalkSpec /\ TalkFairness

-----------------------------------------------------------------------------
TalkPlaces == {"idle", "upgrade", "handshake", "dial", "register", "ready", "talk", "shed",
               "again", "closing", "release", "returned"}
TalkTypeOK ==
    /\ talkSlot \in Talkers \cup {TalkFree, TalkReserved}
    /\ talker \in [Talkers -> [pc : TalkPlaces, ws : {"open", "gone", "closed"},
                               ping : BOOLEAN, codec : {"g711", "passthrough"}, open : BOOLEAN,
                               loop : BOOLEAN, stop : BOOLEAN, once : {"idle", "inside", "done"},
                               lost : BOOLEAN, ch : Seq(1..TalkFrames), fed : 0..TalkFrames,
                               took : 0..TalkFrames]]
    /\ talkEnd \in [phase : {"up", "drain", "sweep", "down"}, swept : SUBSET Talkers]

\* At most one handler has an RTSP backchannel to the camera open, counting the
\* one that it is still dialing, also while CloseAllTalk deletes the entries.
TalkOnline(t) == talker[t].open
TalkOneTalker == \A t, u \in Talkers : TalkOnline(t) /\ TalkOnline(u) => t = u

\* The entry of the camera belongs to a handler that will delete it, and no other
\* handler is past its reservation: the slot does not leak.
TalkBusyPlaces == TalkPlaces \ {"idle", "returned"}
TalkSlotHeld ==
    /\ talkSlot # TalkFree => \E t \in Talkers : talker[t].pc \in TalkBusyPlaces
    /\ \A t, u \in Talkers :
        talker[t].pc \in TalkBusyPlaces /\ talker[u].pc \in TalkBusyPlaces => t = u

\* When CloseAllTalk returns, every session that it found has been torn down on
\* the camera, whoever closed it first.
TalkTornDown ==
    talkEnd.phase = "down" => \A t \in talkEnd.swept : ~TalkOnline(t)

\* A passthrough codec never loses the newest frame: it is the last one queued, or
\* the send loop has it.
TalkFreshest ==
    \A t \in Talkers :
        talker[t].pc = "talk" /\ talker[t].codec = "passthrough" /\ talker[t].fed > 0 =>
            \/ talker[t].took = talker[t].fed
            \/ talker[t].ch # <<>> /\ talker[t].ch[Len(talker[t].ch)] = talker[t].fed

\* One talker at a time on the camera, through Close, release and the shutdown,
\* and what it says is as fresh as the channel allows.
TalkSafe == TalkOneTalker /\ TalkSlotHeld /\ TalkTornDown /\ TalkFreshest

\* The handler of a client that is gone returns, and so does that of a G.711
\* session that the camera dropped: neither leaves the camera's slot taken.
TalkDoomed(t) ==
    /\ talker[t].pc # "idle"
    /\ \/ talker[t].ws = "gone"
       \/ talker[t].codec = "g711" /\ talker[t].lost
TalkReleased ==
    \A t \in Talkers :
        TalkDoomed(t) ~> (talker[t].pc = "idle" \/ talkEnd.phase = "down")
=============================================================================
