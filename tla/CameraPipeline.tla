--------------------------- MODULE CameraPipeline ---------------------------
(***************************************************************************)
(* The pipelines of one camera id in the media engine.  A pipeline is a    *)
(* camCtrl with its recorder and its retry loop: the loop parks while the  *)
(* camera is private, otherwise it connects to the camera, publishes the   *)
(* source to the relay, records and, when the session ends, tears it down  *)
(* and reconnects.  Two callers work on it from other goroutines: a        *)
(* privacy toggle (the privacy endpoint or the scheduler) and a camera     *)
(* handler that creates, updates or deletes the camera.  Both reach the    *)
(* recorder through Close, which runs beside a Start that may be at any    *)
(* of its steps.                                                           *)
(*                                                                         *)
(* A session is one RTSP client.  Pipelines and sessions are numbered, and *)
(* a number is used again once nothing refers to it, so the model bounds   *)
(* neither reconnections nor operations.                                   *)
(*                                                                         *)
(* Operators named Faulty... are seeded faults, each a plausible bug in    *)
(* the definition after it.  No action uses them; they show that the       *)
(* properties can fail.                                                    *)
(***************************************************************************)

CONSTANTS
    Pipes,          \* numbers of pipelines
    Sessions,       \* numbers of RTSP clients
    None,           \* no pipeline or no client: a nil pointer
    Operations,     \* what callers do: subset of Ops
    Panics          \* callers whose Close may come between a client's publication and
                    \* its Start; any other Close comes before or after the two

ASSUME PointersAssumption == None \notin Pipes \cup Sessions

ASSUME OperationsAssumption ==
    /\ Operations \subseteq {"privacy", "create", "update", "disable", "delete"}
    /\ Panics \subseteq {"toggle", "handler"}

VARIABLES
    ctrl,       \* Engine.ctrls[id]: the supervised pipeline, or None
    paused,     \* pipeline -> camCtrl.paused
    woken,      \* pipeline -> the resumeCh its parked loop holds has been closed
    cancelled,  \* pipeline -> camCtx is cancelled
    loop,       \* pipeline -> where its retry loop and rec.Start are
    client,     \* pipeline -> Recorder.client
    session,    \* pipeline -> the client of the Start in progress (its local c)
    segment,    \* pipeline -> currentSegment is open
    relayed,    \* pipeline -> SetSource succeeded for the Start in progress
    abandoned,  \* pipeline -> the open segment is one that a failed PLAY left (history)
    conn,       \* session -> "new", "open", "playing" or "closed"
    relay,      \* the session the relay serves for the camera, or None
    op,         \* who holds the camera's privacy op lock, or "free"
    call        \* caller -> the operation it is performing

pipeline == <<paused, woken, cancelled>>
recorder == <<client, session, segment, relayed, abandoned>>
vars == <<ctrl, pipeline, loop, recorder, conn, relay, op, call>>

Callers == {"toggle", "handler"}

\* The steps of the retry loop and of the rec.Start inside it.
Connecting == {"dial", "describe", "publish", "setup", "check", "play", "answer"}
Steps == Connecting \cup
    {"absent", "top", "parked", "resumed", "start", "live", "finalize",
     "lost", "release", "ended", "backoff", "exited"}

\* A call: its program point, the operation, the pipeline and the client it
\* holds a pointer to, the pause it applies and the privacy it found.
Ops == {"none", "privacy", "create", "update", "disable", "delete"}
Points == {"idle", "lock", "lookup", "set", "cancel", "grab", "close", "finalize",
           "wait", "clear", "add"}
Calls == [at : Points, op : Ops, pipe : Pipes \cup {None},
          client : Sessions \cup {None}, on : BOOLEAN, private : BOOLEAN]
NoCall == [at |-> "idle", op |-> "none", pipe |-> None, client |-> None,
           on |-> FALSE, private |-> FALSE]

Init ==
    /\ ctrl = None /\ relay = None /\ op = "free"
    /\ paused = [p \in Pipes |-> FALSE]
    /\ woken = [p \in Pipes |-> FALSE]
    /\ cancelled = [p \in Pipes |-> FALSE]
    /\ loop = [p \in Pipes |-> "absent"]
    /\ client = [p \in Pipes |-> None]
    /\ session = [p \in Pipes |-> None]
    /\ segment = [p \in Pipes |-> FALSE]
    /\ relayed = [p \in Pipes |-> FALSE]
    /\ abandoned = [p \in Pipes |-> FALSE]
    /\ conn = [s \in Sessions |-> "closed"]
    /\ call = [c \in Callers |-> NoCall]

-----------------------------------------------------------------------------
(* The retry loop.                                                         *)

Goto(p, step) == loop' = [loop EXCEPT ![p] = step]

\* waitWhilePaused: the flag and the channel are read under one lock.
Park(p) ==
    /\ loop[p] = "top"
    /\ Goto(p, IF paused[p] THEN "parked" ELSE "resumed")
    /\ UNCHANGED <<ctrl, pipeline, recorder, conn, relay, op, call>>

\* The select of waitWhilePaused; a woken loop looks at the flag again.
Unpark(p) ==
    /\ loop[p] = "parked"
    /\ \/ cancelled[p] /\ Goto(p, "resumed")
       \/ woken[p] /\ Goto(p, "top")
    /\ woken' = [woken EXCEPT ![p] = FALSE]
    /\ UNCHANGED <<ctrl, paused, cancelled, recorder, conn, relay, op, call>>

Leave(p) ==
    /\ loop[p] = "resumed"
    /\ Goto(p, IF cancelled[p] THEN "exited" ELSE "start")
    /\ UNCHANGED <<ctrl, pipeline, recorder, conn, relay, op, call>>

\* A client nothing points to any more, or one never made.
Unreferenced(s) ==
    /\ relay # s
    /\ \A p \in Pipes : client[p] # s /\ session[p] # s
    /\ \A c \in Callers : call[c].client # s
    /\ conn[s] = "closed"

FreshClient == CHOOSE s \in Sessions : Unreferenced(s)

\* Start resets the connection state and publishes the client before dialing.
PublishClient(p) ==
    /\ loop[p] = "start"
    /\ \E s \in Sessions :
        /\ Unreferenced(s) /\ s = FreshClient
        /\ conn' = [conn EXCEPT ![s] = "new"]
        /\ client' = [client EXCEPT ![p] = s]
        /\ session' = [session EXCEPT ![p] = s]
    /\ segment' = [segment EXCEPT ![p] = FALSE]
    /\ relayed' = [relayed EXCEPT ![p] = FALSE]
    /\ abandoned' = [abandoned EXCEPT ![p] = FALSE]
    /\ Goto(p, "dial")
    /\ UNCHANGED <<ctrl, pipeline, relay, op, call>>

\* client.Start; one that fails is withdrawn, since closing it would panic.
Dial(p) ==
    /\ loop[p] = "dial"
    /\ \/ /\ conn' = [conn EXCEPT ![session[p]] = "open"]
          /\ Goto(p, "describe")
          /\ UNCHANGED client
       \/ /\ conn' = [conn EXCEPT ![session[p]] = "closed"]
          /\ client' = [client EXCEPT ![p] = None]
          /\ Goto(p, "ended")
    /\ UNCHANGED <<ctrl, pipeline, session, segment, relayed, abandoned, relay, op, call>>

\* DESCRIBE and the search for a video track: nothing is published yet, so a
\* failure only releases the session.
Describe(p) ==
    /\ loop[p] = "describe"
    /\ \/ conn[session[p]] = "open" /\ Goto(p, "publish")
       \/ Goto(p, "release")
    /\ UNCHANGED <<ctrl, pipeline, recorder, conn, relay, op, call>>

\* OnSource: the relay replaces whatever it served; a refusal is logged and
\* the session goes on without it.
PublishSource(p) ==
    /\ loop[p] = "publish"
    /\ \E ok \in BOOLEAN :
        /\ relay' = IF ok THEN session[p] ELSE None
        /\ relayed' = [relayed EXCEPT ![p] = ok]
    /\ Goto(p, "setup")
    /\ UNCHANGED <<ctrl, pipeline, client, session, segment, abandoned, conn, op, call>>

Setup(p) ==
    /\ loop[p] = "setup"
    /\ \/ conn[session[p]] = "open" /\ Goto(p, "check")
       \/ Goto(p, "lost")
    /\ UNCHANGED <<ctrl, pipeline, recorder, conn, relay, op, call>>

\* Faults: the last check looks at the pause only, at the cancellation only.
FaultyStopPause(p) == cancelled[p]
FaultyStopCancel(p) == paused[p]

ShouldStop(p) == paused[p] \/ cancelled[p]

\* The last check before going live.
Check(p) ==
    /\ loop[p] = "check"
    /\ \/ /\ ShouldStop(p)
          /\ conn' = [conn EXCEPT ![session[p]] = "closed"]
          /\ Goto(p, "lost")
       \/ /\ ~ShouldStop(p)
          /\ Goto(p, "play")
          /\ UNCHANGED conn
    /\ UNCHANGED <<ctrl, pipeline, recorder, relay, op, call>>

\* PLAY is sent.  From here on the camera may send: the packet callbacks are
\* registered, and the client listens before it asks.
Play(p) ==
    /\ loop[p] = "play"
    /\ IF conn[session[p]] = "open"
       THEN conn' = [conn EXCEPT ![session[p]] = "playing"] /\ Goto(p, "answer")
       ELSE Goto(p, "lost") /\ UNCHANGED conn
    /\ UNCHANGED <<ctrl, pipeline, recorder, relay, op, call>>

\* The answer to PLAY.  A failure (a refusal, a timeout, a connection that has
\* gone) ends the Start at once: the packets stop, and a segment that they
\* opened is left as it is.
Answered(p) ==
    /\ loop[p] = "answer"
    /\ \/ /\ conn[session[p]] = "playing"
          /\ Goto(p, "live")
          /\ UNCHANGED <<abandoned, conn>>
       \/ /\ abandoned' = [abandoned EXCEPT ![p] = segment[p]]
          /\ conn' = [conn EXCEPT ![session[p]] = IF @ = "playing" THEN "open" ELSE @]
          /\ Goto(p, "lost")
    /\ UNCHANGED <<ctrl, pipeline, client, session, segment, relayed, relay, op, call>>

\* The session's packets reach the callbacks.
Streams(p) == loop[p] \in {"answer", "live"} /\ conn[session[p]] = "playing"

\* A packet opens a segment when none is open.
Packet(p) ==
    /\ Streams(p)
    /\ ~segment[p]
    /\ segment' = [segment EXCEPT ![p] = TRUE]
    /\ UNCHANGED <<ctrl, pipeline, loop, client, session, relayed, abandoned>>
    /\ UNCHANGED <<conn, relay, op, call>>

\* The camera drops the connection, or the watchdog closes it.
SourceEnds(p) ==
    /\ Streams(p)
    /\ conn' = [conn EXCEPT ![session[p]] = "closed"]
    /\ UNCHANGED <<ctrl, pipeline, loop, recorder, relay, op, call>>

WaitReturns(p) ==
    /\ loop[p] = "live" /\ conn[session[p]] = "closed"
    /\ Goto(p, "finalize")
    /\ UNCHANGED <<ctrl, pipeline, recorder, conn, relay, op, call>>

\* Fault: the disconnect leaves the segment in progress open.
FaultyFinalize(p) ==
    /\ loop[p] = "finalize"
    /\ Goto(p, "lost")
    /\ UNCHANGED <<ctrl, pipeline, recorder, conn, relay, op, call>>

Finalize(p) ==
    /\ loop[p] = "finalize"
    /\ segment' = [segment EXCEPT ![p] = FALSE]
    /\ Goto(p, "lost")
    /\ UNCHANGED <<ctrl, pipeline, client, session, relayed, abandoned>>
    /\ UNCHANGED <<conn, relay, op, call>>

\* The deferred OnSourceLost runs before the deferred Close of the client.
\* ClearSource drops the camera's stream whoever published it.
SourceLost(p) ==
    /\ loop[p] = "lost"
    /\ relay' = None
    /\ Goto(p, "release")
    /\ UNCHANGED <<ctrl, pipeline, recorder, conn, op, call>>

\* Fault: only the paths that reached PLAY close the client.
FaultyRelease(p) ==
    /\ loop[p] = "release"
    /\ Goto(p, "ended")
    /\ session' = [session EXCEPT ![p] = None]
    /\ UNCHANGED <<ctrl, pipeline, client, segment, relayed, abandoned>>
    /\ UNCHANGED <<conn, relay, op, call>>

Release(p) ==
    /\ loop[p] = "release"
    /\ conn' = [conn EXCEPT ![session[p]] = "closed"]
    /\ Goto(p, "ended")
    /\ UNCHANGED <<ctrl, pipeline, recorder, relay, op, call>>

\* A paused loop goes back to park, any other waits before reconnecting.
EndStart(p) ==
    /\ loop[p] = "ended"
    /\ session' = [session EXCEPT ![p] = None]
    /\ Goto(p, IF paused[p] THEN "top" ELSE "backoff")
    /\ UNCHANGED <<ctrl, pipeline, client, segment, relayed, abandoned>>
    /\ UNCHANGED <<conn, relay, op, call>>

Backoff(p) ==
    /\ loop[p] = "backoff"
    /\ \/ cancelled[p] /\ Goto(p, "exited")
       \/ Goto(p, "top")
    /\ UNCHANGED <<ctrl, pipeline, recorder, conn, relay, op, call>>

Loop(p) ==
    \/ Park(p) \/ Unpark(p) \/ Leave(p) \/ PublishClient(p) \/ Dial(p)
    \/ Describe(p) \/ PublishSource(p) \/ Setup(p) \/ Check(p) \/ Play(p)
    \/ Answered(p) \/ WaitReturns(p) \/ Finalize(p) \/ SourceLost(p) \/ Release(p)
    \/ EndStart(p) \/ Backoff(p)

-----------------------------------------------------------------------------
(* Recorder.Close, called by a toggle or by RemoveCamera.                  *)

At(c, point) == call[c].at = point
Move(c, point) == call' = [call EXCEPT ![c].at = point]

\* Fault: the call returns with the op lock held.
FaultyReturn(c) == call' = [call EXCEPT ![c] = NoCall] /\ UNCHANGED op

\* The call returns; the lock it holds is released with it.
Return(c) ==
    /\ call' = [call EXCEPT ![c] = NoCall]
    /\ op' = IF op = c THEN "free" ELSE op

Grab(c) ==
    /\ At(c, "grab")
    /\ call' = [call EXCEPT ![c].client = client[call[c].pipe], ![c].at = "close"]
    /\ UNCHANGED <<ctrl, pipeline, loop, recorder, conn, relay, op>>

\* client.Close ends the session and returns once no callback runs any more.
CloseClient(c) ==
    /\ At(c, "close")
    /\ IF call[c].client = None
       THEN UNCHANGED conn
       ELSE /\ conn[call[c].client] # "new"
            /\ conn' = [conn EXCEPT ![call[c].client] = "closed"]
    /\ call' = [call EXCEPT ![c].client = None, ![c].at = "finalize"]
    /\ UNCHANGED <<ctrl, pipeline, loop, recorder, relay, op>>

\* Close of a client that has not been started panics.  net/http (and the
\* scheduler) recovers: a toggle unlocks by defer, while the update handler
\* unlocks at its end and so leaves the op lock held.
ClosePanics(c) ==
    /\ c \in Panics
    /\ At(c, "close") /\ call[c].client # None /\ conn[call[c].client] = "new"
    /\ call' = [call EXCEPT ![c] = NoCall]
    /\ op' = IF c = "toggle" THEN "free" ELSE op
    /\ UNCHANGED <<ctrl, pipeline, loop, recorder, conn, relay>>

CloseSegment(c) ==
    /\ At(c, "finalize")
    /\ segment' = [segment EXCEPT ![call[c].pipe] = FALSE]
    /\ abandoned' = [abandoned EXCEPT ![call[c].pipe] = FALSE]
    /\ IF c = "handler" /\ cancelled[call[c].pipe]
       THEN Move(c, "wait") /\ UNCHANGED op
       ELSE Return(c)
    /\ UNCHANGED <<ctrl, pipeline, loop, client, session, relayed, conn, relay>>

-----------------------------------------------------------------------------
(* SetPrivacy.                                                             *)

RequestToggle(on) ==
    /\ "privacy" \in Operations /\ At("toggle", "idle")
    /\ call' = [call EXCEPT !["toggle"] =
                    [NoCall EXCEPT !.at = "lock", !.op = "privacy", !.on = on]]
    /\ UNCHANGED <<ctrl, pipeline, loop, recorder, conn, relay, op>>

\* The toggle takes the camera's op lock.
LockToggle ==
    /\ At("toggle", "lock") /\ op = "free"
    /\ op' = "toggle"
    /\ Move("toggle", "lookup")
    /\ UNCHANGED <<ctrl, pipeline, loop, recorder, conn, relay>>

\* SetPrivacy reads the pipeline under mu; a camera that has none is ignored.
Lookup ==
    /\ At("toggle", "lookup")
    /\ \/ /\ ctrl = None
          /\ Return("toggle")
       \/ /\ ctrl # None
          /\ call' = [call EXCEPT !["toggle"].pipe = ctrl, !["toggle"].at = "set"]
          /\ UNCHANGED op
    /\ UNCHANGED <<ctrl, pipeline, loop, recorder, conn, relay>>

\* Fault: resumeCh is replaced before it is closed, so nobody waits on it.
FaultyWake(p) == woken[p]

\* Fault: a resume is remembered for a loop that does not wait.
FaultyWakeAll(p) == TRUE

\* Closing resumeCh wakes the loop if it waits on it.
Wake(p) == woken[p] \/ loop[p] = "parked"

\* setPaused; only a change to paused closes the recorder.
SetPaused(c) ==
    /\ At(c, "set")
    /\ \E p \in {call[c].pipe}, on \in {call[c].on} :
        /\ paused' = [paused EXCEPT ![p] = on]
        /\ woken' = [woken EXCEPT ![p] = IF paused[p] /\ ~on THEN Wake(p) ELSE @]
        /\ IF on /\ ~paused[p]
           THEN Move(c, "grab") /\ UNCHANGED op
           ELSE Return(c)
    /\ UNCHANGED <<ctrl, cancelled, loop, recorder, conn, relay>>

-----------------------------------------------------------------------------
(* The camera handlers, one at a time (camMutateMu).                       *)

\* Create, and an update that leaves the camera enabled, add a pipeline; an
\* update holds the op lock throughout and notes whether the camera was
\* private, which implies that its pipeline is paused.  Delete holds no lock
\* a toggle takes.  RemoveCamera drops the pipeline from ctrls first.
BeginHandler ==
    /\ At("handler", "idle")
    /\ \E o \in Operations \ {"privacy"}, private \in BOOLEAN :
        /\ o \in {"update", "disable"} => op = "free"
        /\ o = "create" => ctrl = None
        /\ private => o = "update" /\ ctrl # None /\ paused[ctrl]
        /\ op' = IF o \in {"update", "disable"} THEN "handler" ELSE op
        /\ call' = [call EXCEPT !["handler"] =
                [NoCall EXCEPT !.op = o, !.pipe = ctrl, !.private = private,
                               !.at = IF ctrl = None THEN "add" ELSE "cancel"]]
    /\ ctrl' = None
    /\ UNCHANGED <<pipeline, loop, recorder, conn, relay>>

Cancel ==
    /\ At("handler", "cancel")
    /\ cancelled' = [cancelled EXCEPT ![call["handler"].pipe] = TRUE]
    /\ Move("handler", "grab")
    /\ UNCHANGED <<ctrl, paused, woken, loop, recorder, conn, relay, op>>

\* Faults: RemoveCamera does not wait for the retry loop, or only for its
\* session to end.
FaultyExited(p) == loop[p] # "absent"
FaultyEnded(p) == ~(session[p] # None /\ conn[session[p]] \in {"open", "playing"})

Exited(p) == loop[p] = "exited"

\* RemoveCamera waits for the loop, and with it for the last OnSourceLost.
Wait ==
    /\ At("handler", "wait")
    /\ Exited(call["handler"].pipe)
    /\ Move("handler", "clear")
    /\ UNCHANGED <<ctrl, pipeline, loop, recorder, conn, relay, op>>

ClearSource ==
    /\ At("handler", "clear")
    /\ relay' = None
    /\ call' = [call EXCEPT !["handler"].pipe = None, !["handler"].at = "add"]
    /\ UNCHANGED <<ctrl, pipeline, loop, recorder, conn, op>>

\* A pipeline whose loop has gone and that nothing points to.
FreePipe(p) ==
    /\ loop[p] \in {"absent", "exited"}
    /\ \A c \in Callers : call[c].pipe # p

FreshPipe == CHOOSE p \in Pipes : FreePipe(p)

\* AddCamera; a disabled or deleted camera gets no pipeline.  An update of a
\* private camera then pauses the new pipeline, which starts unpaused.
AddCamera ==
    /\ At("handler", "add")
    /\ IF call["handler"].op \in {"create", "update"}
       THEN \E p \in Pipes :
            /\ FreePipe(p) /\ p = FreshPipe
            /\ ctrl' = p
            /\ loop' = [loop EXCEPT ![p] = "top"]
            /\ paused' = [paused EXCEPT ![p] = FALSE]
            /\ woken' = [woken EXCEPT ![p] = FALSE]
            /\ cancelled' = [cancelled EXCEPT ![p] = FALSE]
            /\ client' = [client EXCEPT ![p] = None]
            /\ segment' = [segment EXCEPT ![p] = FALSE]
            /\ relayed' = [relayed EXCEPT ![p] = FALSE]
            /\ abandoned' = [abandoned EXCEPT ![p] = FALSE]
            /\ IF call["handler"].private
               THEN /\ call' = [call EXCEPT !["handler"].pipe = p,
                                !["handler"].on = TRUE, !["handler"].at = "set"]
                    /\ UNCHANGED op
               ELSE Return("handler")
       ELSE /\ Return("handler")
            /\ UNCHANGED <<ctrl, loop, pipeline, client, segment, relayed, abandoned>>
    /\ UNCHANGED <<session, conn, relay>>

Caller(c) ==
    Grab(c) \/ CloseClient(c) \/ ClosePanics(c) \/ CloseSegment(c) \/ SetPaused(c)
Toggle == LockToggle \/ Lookup \/ Caller("toggle")
Handler == Cancel \/ Wait \/ ClearSource \/ AddCamera \/ Caller("handler")

Next ==
    \/ \E p \in Pipes : Loop(p) \/ Packet(p) \/ SourceEnds(p)
    \/ Toggle \/ \E on \in BOOLEAN : RequestToggle(on)
    \/ Handler \/ BeginHandler

Spec == Init /\ [][Next]_vars

\* The goroutines run; requests come when they come.
Fairness ==
    /\ \A p \in Pipes : WF_vars(Loop(p))
    /\ SF_vars(LockToggle) /\ WF_vars(Toggle) /\ WF_vars(Handler)

FairSpec == Spec /\ Fairness

\* The camera answers: a request that is tried for ever succeeds some time.
Reachable ==
    /\ SF_vars(\E p \in Pipes : Dial(p) /\ loop'[p] = "describe")
    /\ SF_vars(\E p \in Pipes : Describe(p) /\ loop'[p] = "publish")
    /\ SF_vars(\E p \in Pipes : Setup(p) /\ loop'[p] = "check")
    /\ SF_vars(\E p \in Pipes : Answered(p) /\ loop'[p] = "live")

-----------------------------------------------------------------------------
(* Properties.                                                             *)

\* Every variable has its type, and only a parked loop holds a channel that
\* a resume has closed.
TypeOK ==
    /\ \A p \in Pipes : woken[p] => loop[p] = "parked"
    /\ ctrl \in Pipes \cup {None} /\ relay \in Sessions \cup {None}
    /\ op \in Callers \cup {"free"}
    /\ paused \in [Pipes -> BOOLEAN] /\ woken \in [Pipes -> BOOLEAN]
    /\ cancelled \in [Pipes -> BOOLEAN] /\ relayed \in [Pipes -> BOOLEAN]
    /\ abandoned \in [Pipes -> BOOLEAN]
    /\ loop \in [Pipes -> Steps]
    /\ client \in [Pipes -> Sessions \cup {None}]
    /\ session \in [Pipes -> Sessions \cup {None}]
    /\ segment \in [Pipes -> BOOLEAN]
    /\ conn \in [Sessions -> {"new", "open", "playing", "closed"}]
    /\ call \in [Callers -> Calls]

Playing(p) == session[p] # None /\ conn[session[p]] = "playing"
Closing(p) == \E c \in Callers : call[c].pipe = p /\ call[c].at \in {"grab", "close", "finalize"}

\* Once SetPrivacy(id, true) has returned, and until privacy is turned off,
\* the camera sends nothing to the server and no segment is open: a connect
\* that Close could not reach stops at its ShouldStop check.
PausedIsSilent ==
    \A p \in Pipes : paused[p] /\ ~Closing(p) => ~Playing(p) /\ ~segment[p]

\* Start's reset of currentSegment forgets an open segment, which then stays
\* unfinished on disk and out of the index, only when packets opened it under
\* a PLAY that failed: Start returns there without finalizing it.  However
\* else a session ends, the segment was finalized before.
ResetForgetsNothing ==
    \A p \in Pipes : loop[p] = "start" /\ segment[p] => abandoned[p]

\* The camera never has two of the server's sessions at once, neither from
\* successive Starts of one loop nor from the pipelines before and after an
\* update.
OneSession ==
    \A s, t \in Sessions :
        conn[s] \in {"open", "playing"} /\ conn[t] \in {"open", "playing"} => s = t

\* The relay serves the session that is playing (a late ClearSource of an old
\* pipeline does not take it down) and no session that has been torn down.
RelayFollowsSession ==
    /\ \A p \in Pipes : Playing(p) /\ relayed[p] => relay = session[p]
    /\ relay # None => \E p \in Pipes :
           /\ session[p] = relay
           /\ loop[p] \in {"setup", "check", "play", "answer", "live", "finalize", "lost"}

\* When RemoveCamera has returned nothing of the pipeline is left: its loop
\* has exited, its session is closed and its segment finalized.
RemovedIsGone ==
    \A p \in Pipes :
        p # ctrl /\ ~(call["handler"].pipe = p) =>
            /\ loop[p] \in {"absent", "exited"}
            /\ ~segment[p] /\ ~Playing(p)

\* At most one session with the camera, and the relay's readers are served by it
\* and by no other, whatever a pipeline that is being replaced still does; and a
\* pipeline that was removed does nothing any more.
OneSessionServed == OneSession /\ RelayFollowsSession /\ RemovedIsGone

\* The pipeline that stands for the camera: the supervised one, and the one
\* being removed until RemoveCamera has cleared it.
Current == IF ctrl # None THEN ctrl ELSE call["handler"].pipe

Pausing(p) ==
    \E c \in Callers : call[c].pipe = p /\ call[c].on /\ call[c].at \in {"grab", "close", "finalize"}

Contract == INSTANCE CameraContract WITH
    mode <- IF Current = None THEN "absent"
            ELSE IF paused[Current] /\ ~Pausing(Current) THEN "paused" ELSE "armed",
    streaming <- \E p \in Pipes : Playing(p)

\* The pipelines implement the engine's promise: no session plays once a
\* pause or a removal has returned.
Implements == Contract!Spec

\* RemoveCamera returns: Close and the cancellation unblock every step of the
\* loop, so the handlers do not depend on the ten second bound.
RemoveReturns == At("handler", "wait") ~> At("handler", "idle")

\* A privacy toggle gets the op lock and returns.
ToggleReturns == At("toggle", "lock") ~> At("toggle", "idle")

\* No call of the engine waits for ever on a pipeline, its lock or its loop.
CallsReturn == RemoveReturns /\ ToggleReturns

\* A camera that answers and is neither private nor removed goes live.
Recovers == Reachable =>
    \A p \in Pipes : (ctrl = p /\ ~paused[p]) ~> (Playing(p) \/ paused[p] \/ ctrl # p)

\* The doc comment of Recorder.Close: safe to call "concurrently with a Start
\* that is still connecting", though closing a client that has not been
\* started panics.
CloseIsSafe ==
    \A c \in Callers : At(c, "close") /\ call[c].client # None =>
        conn[call[c].client] # "new"

=============================================================================
