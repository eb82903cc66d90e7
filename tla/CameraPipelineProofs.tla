----------------------- MODULE CameraPipelineProofs -----------------------
(***************************************************************************)
(* Proofs about CameraPipeline, for any number of pipelines and sessions   *)
(* and whatever is asked of them: the safety invariants of the runs, and   *)
(* that the pipelines implement CameraContract.  Only what depends on      *)
(* RemoveCamera coming to its end excludes a panic inside it.              *)
(***************************************************************************)
EXTENDS CameraPipeline, TLAPS

\* A Start is in progress.
Starting(p) == loop[p] \in Connecting \cup {"live", "finalize", "lost", "release", "ended"}

\* What the connection of a Start can be, by the step the Start is at.
Possible(step) ==
    CASE step = "dial" -> {"new"}
      [] step \in {"describe", "publish", "setup", "check", "play", "lost", "release"} ->
             {"open", "closed"}
      [] step \in {"answer", "live"} -> {"playing", "closed"}
      [] OTHER -> {"closed"}

\* The session of a Start, and of no other.
SessionsOwned ==
    /\ \A p \in Pipes : session[p] # None <=> Starting(p)
    /\ \A p \in Pipes : Starting(p) => conn[session[p]] \in Possible(loop[p])
    /\ \A p, q \in Pipes : session[p] # None /\ session[p] = session[q] => p = q
    /\ \A s \in Sessions : conn[s] # "closed" => \E p \in Pipes : session[p] = s

\* A pointer to a client outlives its Start, but the client is then nobody else's.
ClientsOwned ==
    /\ \A p \in Pipes : Starting(p) /\ loop[p] # "ended" => client[p] = session[p]
    /\ \A p, q \in Pipes : client[p] # None /\ client[p] = session[q] => p = q
    /\ \A c \in Callers : call[c].client # None =>
           /\ call[c].at = "close"
           /\ \A q \in Pipes : session[q] = call[c].client => q = call[c].pipe
    /\ \A c \in Callers : call[c].at \in {"set", "cancel", "grab", "close", "finalize", "wait", "clear"} =>
           call[c].pipe \in Pipes

\* A segment is open only while its session runs or ends, or until the next Start when
\* a failed PLAY has left it.
SegmentOfSession ==
    \A p \in Pipes : segment[p] =>
        \/ loop[p] \in {"answer", "live", "finalize"}
        \/ abandoned[p] /\ loop[p] \notin Connecting \cup {"absent"}

\* A pause that has not closed the session yet: it has not read the client, or it has
\* read the session's.
Reaches(c, p) ==
    /\ call[c].pipe = p /\ call[c].on
    /\ (call[c].at = "grab" \/ (call[c].at = "close" /\ call[c].client = session[p]))

\* A paused pipeline that passed the last check before it was paused is reached.
PausesReach ==
    \A p \in Pipes : paused[p] =>
        /\ loop[p] \in {"play", "answer", "live"} /\ conn[session[p]] # "closed" =>
               \E c \in Callers : Reaches(c, p)
        /\ segment[p] => Pausing(p)

\* What the handler holds.
Held == call["handler"]

\* The supervised pipeline, the one the handler removes, and the phases of the handler.
HandlerPhases ==
    /\ Held.at \in {"idle", "add"} => Held.pipe = None
    /\ Held.at \in {"cancel", "wait", "clear", "add"} => ctrl = None
    /\ Held.at \in {"set", "grab", "close", "finalize"} =>
           \/ ctrl = None /\ Held.at # "set" /\ cancelled[Held.pipe] /\ ~Held.on
           \/ ctrl = Held.pipe /\ Held.on
    /\ Held.at \in {"cancel", "wait", "clear"} => ~Held.on
    /\ Held.at = "clear" => loop[Held.pipe] = "exited"
    /\ Held.at \notin {"lock", "lookup"}
    /\ ctrl # None => ~cancelled[ctrl]

\* A cancelled pipeline that passed the last check before it was cancelled is reached.
CancelsReach ==
    \A p \in Pipes : cancelled[p] /\ loop[p] \in {"play", "answer", "live"} /\ conn[session[p]] # "closed" =>
        /\ Held.pipe = p
        /\ (Held.at = "grab" \/ (Held.at = "close" /\ Held.client = session[p]))

\* Any other pipeline than the current one has ended or is about to.
OneCurrent ==
    \A p \in Pipes : p # Current => loop[p] \in {"absent", "exited"} \/ cancelled[p]

\* It has ended, unless a panic cut its removal short.
OneActive == \A p \in Pipes : p # Current => loop[p] \in {"absent", "exited"}

\* The relay serves the session of the Start that published it.
RelayOwned ==
    /\ \A p \in Pipes :
           relayed[p] /\ loop[p] \in {"setup", "check", "play", "answer", "live", "finalize", "lost"} =>
               relay = session[p]
    /\ relay # None => \E p \in Pipes :
           /\ session[p] = relay
           /\ loop[p] \in {"setup", "check", "play", "answer", "live", "finalize", "lost"}

\* A cancelled pipeline keeps a segment only until the Close that follows the
\* cancellation, and a loop exits only when it is cancelled.
RemovedClosed ==
    \A p \in Pipes :
        /\ loop[p] = "exited" => cancelled[p]
        /\ cancelled[p] /\ segment[p] =>
               Held.pipe = p /\ Held.at \in {"grab", "close", "finalize"}

SessionInv == TypeOK /\ SessionsOwned /\ ClientsOwned /\ SegmentOfSession /\ PausesReach
CurrentInv == HandlerPhases /\ CancelsReach /\ OneCurrent
ServedInv == OneActive /\ RelayOwned /\ RemovedClosed
-----------------------------------------------------------------------------
(* What a step of a caller does to the calls.                              *)

\* A call that moves on keeps what it holds.
LEMMA CallMoves ==
    ASSUME call \in [Callers -> Calls], NEW c \in Callers, NEW point \in Points, Move(c, point)
    PROVE  /\ call' \in [Callers -> Calls]
           /\ call'[c].at = point
           /\ call'[c].pipe = call[c].pipe /\ call'[c].client = call[c].client
           /\ call'[c].on = call[c].on /\ call'[c].op = call[c].op
           /\ \A d \in Callers : d # c => call'[d] = call[d]
<1>1. call[c] \in Calls /\ call' = [call EXCEPT ![c] = [call[c] EXCEPT !.at = point]]
  BY DEF Move
<1>2. [call[c] EXCEPT !.at = point] \in Calls
  BY <1>1 DEF Calls
<1>3. call'[c] = [call[c] EXCEPT !.at = point]
  BY <1>1
<1> QED
  BY <1>1, <1>2, <1>3 DEF Calls

\* A call that returns holds nothing any more.
LEMMA CallReturns ==
    ASSUME call \in [Callers -> Calls], NEW c \in Callers, call' = [call EXCEPT ![c] = NoCall]
    PROVE  /\ call' \in [Callers -> Calls]
           /\ call'[c].at = "idle" /\ call'[c].pipe = None /\ call'[c].client = None
           /\ call'[c].on = FALSE
           /\ \A d \in Callers : d # c => call'[d] = call[d]
<1>1. NoCall \in Calls
  BY DEF NoCall, Calls, Points, Ops
<1> QED
  BY <1>1 DEF NoCall


\* A call that moves on with another client.
LEMMA CallHoldsClient ==
    ASSUME call \in [Callers -> Calls], NEW c \in Callers, NEW point \in Points,
           NEW s \in Sessions \cup {None},
           call' = [call EXCEPT ![c].client = s, ![c].at = point]
    PROVE  /\ call' \in [Callers -> Calls]
           /\ call'[c].at = point
           /\ call'[c].pipe = call[c].pipe /\ call'[c].client = s
           /\ call'[c].on = call[c].on /\ call'[c].op = call[c].op
           /\ \A d \in Callers : d # c => call'[d] = call[d]
<1>1. call[c] \in Calls /\ call' = [call EXCEPT ![c] = [call[c] EXCEPT !.client = s, !.at = point]]
  OBVIOUS
<1>2. [call[c] EXCEPT !.client = s, !.at = point] \in Calls
  BY <1>1 DEF Calls
<1>3. call'[c] = [call[c] EXCEPT !.client = s, !.at = point]
  BY <1>1
<1> QED
  BY <1>1, <1>2, <1>3 DEF Calls

\* A call that moves on with another pipeline.
LEMMA CallHoldsPipe ==
    ASSUME call \in [Callers -> Calls], NEW c \in Callers, NEW point \in Points,
           NEW p \in Pipes \cup {None},
           call' = [call EXCEPT ![c].pipe = p, ![c].at = point]
    PROVE  /\ call' \in [Callers -> Calls]
           /\ call'[c].at = point
           /\ call'[c].pipe = p /\ call'[c].client = call[c].client
           /\ call'[c].on = call[c].on /\ call'[c].op = call[c].op
           /\ \A d \in Callers : d # c => call'[d] = call[d]
<1>1. call[c] \in Calls /\ call' = [call EXCEPT ![c] = [call[c] EXCEPT !.pipe = p, !.at = point]]
  OBVIOUS
<1>2. [call[c] EXCEPT !.pipe = p, !.at = point] \in Calls
  BY <1>1 DEF Calls
<1>3. call'[c] = [call[c] EXCEPT !.pipe = p, !.at = point]
  BY <1>1
<1> QED
  BY <1>1, <1>2, <1>3 DEF Calls

\* A privacy request holds nothing yet.
LEMMA CallRequests ==
    ASSUME call \in [Callers -> Calls], NEW on \in BOOLEAN, RequestToggle(on)
    PROVE  /\ call' \in [Callers -> Calls]
           /\ call'["toggle"].at = "lock" /\ call'["toggle"].pipe = None
           /\ call'["toggle"].client = None /\ call'["handler"] = call["handler"]
<1>1. [NoCall EXCEPT !.at = "lock", !.op = "privacy", !.on = on] \in Calls
  BY DEF NoCall, Calls, Points, Ops
<1>2. call'["toggle"] = [NoCall EXCEPT !.at = "lock", !.op = "privacy", !.on = on]
  BY DEF RequestToggle, Callers
<1> QED
  BY <1>1, <1>2 DEF RequestToggle, Callers, NoCall

\* A handler begins with the pipeline it takes out of the map.
LEMMA CallBegins ==
    ASSUME TypeOK, BeginHandler
    PROVE  /\ call' \in [Callers -> Calls] /\ op' \in Callers \cup {"free"}
           /\ call'["handler"].at = IF ctrl = None THEN "add" ELSE "cancel"
           /\ call'["handler"].pipe = ctrl /\ call'["handler"].client = None
           /\ call'["handler"].on = FALSE /\ call'["toggle"] = call["toggle"]
<1>1. PICK o \in Operations \ {"privacy"}, private \in BOOLEAN :
          /\ op' = IF o \in {"update", "disable"} THEN "handler" ELSE op
          /\ call' = [call EXCEPT !["handler"] =
                 [NoCall EXCEPT !.op = o, !.pipe = ctrl, !.private = private,
                                !.at = IF ctrl = None THEN "add" ELSE "cancel"]]
  BY DEF BeginHandler
<1> DEFINE h == [NoCall EXCEPT !.op = o, !.pipe = ctrl, !.private = private,
                               !.at = IF ctrl = None THEN "add" ELSE "cancel"]
<1>2. o \in Ops
  BY OperationsAssumption DEF Ops
<1>3. h \in Calls
  BY <1>2 DEF NoCall, Calls, Points, TypeOK
<1>4. /\ h.at = IF ctrl = None THEN "add" ELSE "cancel"
      /\ h.pipe = ctrl /\ h.client = None /\ h.on = FALSE
  BY DEF NoCall
<1>5. call' = [call EXCEPT !["handler"] = h]
  BY <1>1
<1> HIDE DEF h
<1> QED
  <2>1. op' \in Callers \cup {"free"}
    BY <1>1 DEF Callers, TypeOK
  <2>2. call' \in [Callers -> Calls] /\ call'["handler"] = h /\ call'["toggle"] = call["toggle"]
    BY <1>3, <1>5 DEF Callers, TypeOK
  <2> QED
    BY <1>4, <2>1, <2>2

\* An update of a private camera goes on to pause the pipeline it has added; any
\* other handler returns.
LEMMA CallAdds ==
    ASSUME TypeOK, AddCamera
    PROVE  /\ call' \in [Callers -> Calls] /\ op' \in Callers \cup {"free"}
           /\ call'["toggle"] = call["toggle"]
           /\ call'["handler"].client \in {None, call["handler"].client}
           /\ \/ /\ call'["handler"].at = "idle" /\ call'["handler"].pipe = None
                 /\ call'["handler"].on = FALSE
              \/ /\ call'["handler"].at = "set" /\ call'["handler"].pipe = ctrl'
                 /\ call'["handler"].on = TRUE /\ ctrl' \in Pipes
<1> DEFINE h == [call["handler"] EXCEPT !.pipe = ctrl', !.on = TRUE, !.at = "set"]
<1>1. CASE Return("handler")
  BY <1>1, CallReturns DEF Return, TypeOK, Callers
<1>2. CASE ctrl' \in Pipes /\ call' = [call EXCEPT !["handler"] = h] /\ UNCHANGED op
  <2>1. call["handler"] \in Calls
    BY DEF TypeOK, Callers
  <2>2. h \in Calls
    BY <1>2, <2>1 DEF Calls, Points
  <2>3. h.at = "set" /\ h.pipe = ctrl' /\ h.on = TRUE /\ h.client = call["handler"].client
    BY <2>1 DEF Calls
  <2> HIDE DEF h
  <2> QED
    BY <1>2, <2>2, <2>3 DEF TypeOK, Callers
<1>3. Return("handler") \/ (ctrl' \in Pipes /\ call' = [call EXCEPT !["handler"] = h] /\ UNCHANGED op)
  BY DEF AddCamera
<1> QED
  BY <1>1, <1>2, <1>3

-----------------------------------------------------------------------------
(* Every variable keeps its type.                                          *)

LEMMA TypeInit == Init => TypeOK
  BY DEF Init, TypeOK, Callers, Calls, NoCall, Points, Ops, Steps

\* The retry loops touch the functions of the pipelines and the connections.
LEMMA TypeLoop ==
    ASSUME TypeOK, NEW p \in Pipes, Loop(p) \/ Packet(p) \/ SourceEnds(p)
    PROVE  TypeOK'
<1> USE DEF TypeOK, Goto, Steps, Connecting
<1>1. CASE Park(p) \/ Leave(p) \/ Describe(p) \/ Setup(p) \/ WaitReturns(p) \/ Backoff(p)
  BY <1>1 DEF Park, Leave, Describe, Setup, WaitReturns, Backoff, pipeline, recorder
<1>2. CASE Unpark(p)
  BY <1>2 DEF Unpark, recorder
<1>3. CASE PublishClient(p)
  BY <1>3 DEF PublishClient, pipeline
<1>4. CASE Dial(p)
  BY <1>4 DEF Dial, pipeline
<1>5. CASE PublishSource(p)
  BY <1>5 DEF PublishSource, pipeline
<1>6. CASE Check(p) \/ Play(p) \/ Release(p)
  BY <1>6 DEF Check, Play, Release, pipeline, recorder
<1>7. CASE Finalize(p) \/ EndStart(p)
  BY <1>7 DEF Finalize, EndStart, pipeline
<1>8. CASE SourceLost(p)
  BY <1>8 DEF SourceLost, pipeline, recorder
<1>9. CASE Packet(p)
  BY <1>9 DEF Packet, pipeline
<1>10. CASE SourceEnds(p)
  BY <1>10 DEF SourceEnds, pipeline, recorder
<1>11. CASE Answered(p)
  BY <1>11 DEF Answered, pipeline
<1> QED
  BY <1>1, <1>2, <1>3, <1>4, <1>5, <1>6, <1>7, <1>8, <1>9, <1>10, <1>11 DEF Loop

\* The callers move from point to point and hold a pipeline and a client.
LEMMA TypeCaller ==
    ASSUME TypeOK, NEW c \in Callers, Caller(c)
    PROVE  TypeOK'
<1> USE DEF TypeOK, At
<1> DEFINE id == call[c].pipe
<1>1. call[c] \in Calls
  BY DEF TypeOK
<1>2. CASE Grab(c)
  <2>1. call' \in [Callers -> Calls]
    BY <1>1, <1>2 DEF Grab, Calls, Points
  <2> QED
    BY <1>2, <2>1 DEF Grab, pipeline, recorder
<1>3. CASE CloseClient(c)
  <2>1. call' \in [Callers -> Calls]
    BY <1>1, <1>3 DEF CloseClient, Calls, Points
  <2> QED
    BY <1>3, <2>1 DEF CloseClient, pipeline, recorder
<1>4. CASE ClosePanics(c)
  <2>1. call' \in [Callers -> Calls]
    BY <1>4, CallReturns DEF ClosePanics
  <2> QED
    BY <1>4, <2>1 DEF ClosePanics, pipeline, recorder
<1>5. CASE CloseSegment(c)
  <2>1. call' \in [Callers -> Calls]
    BY <1>5, CallReturns, CallMoves DEF CloseSegment, Return, Points
  <2>2. op' \in Callers \cup {"free"}
    BY <1>5 DEF CloseSegment, Return
  <2> QED
    BY <1>5, <2>1, <2>2 DEF CloseSegment, pipeline
<1>6. CASE SetPaused(c)
  <2>1. call' \in [Callers -> Calls]
    BY <1>6, CallReturns, CallMoves DEF SetPaused, Return, Points
  <2>2. op' \in Callers \cup {"free"}
    BY <1>6 DEF SetPaused, Return
  <2>3. paused' \in [Pipes -> BOOLEAN]
    BY <1>1, <1>6 DEF SetPaused, Calls
  <2>4. /\ woken' \in [Pipes -> BOOLEAN]
        /\ \A p \in Pipes : woken'[p] => loop'[p] = "parked"
    <3> DEFINE p == call[c].pipe
    <3>1. woken' = [woken EXCEPT ![p] = IF paused[p] /\ ~call[c].on THEN Wake(p) ELSE @]
      BY <1>6 DEF SetPaused
    <3>2. UNCHANGED loop
      BY <1>6 DEF SetPaused
    <3>3. Wake(p) \in BOOLEAN /\ call[c].on \in BOOLEAN /\ (p \in Pipes /\ Wake(p) => woken[p] \/ loop[p] = "parked")
      BY <1>1 DEF Wake, Calls
    <3> HIDE DEF p
    <3> QED
      BY <3>1, <3>2, <3>3
  <2> QED
    BY <1>6, <2>1, <2>2, <2>3, <2>4 DEF SetPaused, recorder
<1> QED
  BY <1>2, <1>3, <1>4, <1>5, <1>6 DEF Caller

LEMMA TypeToggle ==
    ASSUME TypeOK, LockToggle \/ Lookup \/ \E on \in BOOLEAN : RequestToggle(on)
    PROVE  TypeOK'
<1> USE DEF TypeOK
<1>1. "toggle" \in Callers /\ call["toggle"] \in Calls
  BY DEF Callers
<1>2. call' \in [Callers -> Calls]
  <2>1. CASE LockToggle
    BY <1>1, <2>1, CallMoves DEF LockToggle, Points
  <2>2. CASE Lookup
    BY <1>1, <2>2, CallReturns, CallHoldsPipe DEF Lookup, Return, Points
  <2>3. ASSUME NEW on \in BOOLEAN, RequestToggle(on)
        PROVE  call' \in [Callers -> Calls]
    BY <2>3, CallRequests
  <2> QED
    BY <2>1, <2>2, <2>3
<1>3. op' \in Callers \cup {"free"}
  BY <1>1 DEF LockToggle, Lookup, RequestToggle, Return
<1> QED
  BY <1>2, <1>3 DEF LockToggle, Lookup, RequestToggle, pipeline, recorder

LEMMA TypeHandler ==
    ASSUME TypeOK, BeginHandler \/ Cancel \/ Wait \/ ClearSource \/ AddCamera
    PROVE  TypeOK'
<1> USE DEF TypeOK
<1>1. "handler" \in Callers /\ call["handler"] \in Calls
  BY DEF Callers
<1>2. CASE BeginHandler
  <2>1. call' \in [Callers -> Calls] /\ op' \in Callers \cup {"free"}
    BY <1>2, CallBegins DEF TypeOK
  <2> QED
    BY <1>1, <1>2, <2>1 DEF BeginHandler, pipeline, recorder
<1>3. CASE Cancel \/ Wait
  <2>1. call' \in [Callers -> Calls]
    BY <1>1, <1>3, CallMoves DEF Cancel, Wait, Points
  <2> QED
    BY <1>1, <1>3, <2>1 DEF Cancel, Wait, pipeline, recorder
<1>4. CASE ClearSource
  <2>1. call' \in [Callers -> Calls]
    BY <1>1, <1>4, CallHoldsPipe DEF ClearSource, Points
  <2> QED
    BY <1>1, <1>4, <2>1 DEF ClearSource, pipeline, recorder
<1>5. CASE AddCamera
  <2>1. call' \in [Callers -> Calls] /\ op' \in Callers \cup {"free"}
    BY <1>5, CallAdds DEF TypeOK
  <2>2. UNCHANGED <<session, conn, relay>>
    BY <1>5 DEF AddCamera
  <2>3. CASE UNCHANGED <<ctrl, loop, pipeline, client, segment, relayed, abandoned>>
    BY <2>1, <2>2, <2>3 DEF pipeline
  <2>4. ASSUME NEW p \in Pipes,
               /\ ctrl' = p
               /\ loop' = [loop EXCEPT ![p] = "top"]
               /\ paused' = [paused EXCEPT ![p] = FALSE]
               /\ woken' = [woken EXCEPT ![p] = FALSE]
               /\ cancelled' = [cancelled EXCEPT ![p] = FALSE]
               /\ client' = [client EXCEPT ![p] = None]
               /\ segment' = [segment EXCEPT ![p] = FALSE]
               /\ relayed' = [relayed EXCEPT ![p] = FALSE]
               /\ abandoned' = [abandoned EXCEPT ![p] = FALSE]
        PROVE  TypeOK'
    BY <2>1, <2>2, <2>4 DEF Steps
  <2> QED
    BY <1>5, <2>3, <2>4 DEF AddCamera
<1> QED
  BY <1>2, <1>3, <1>4, <1>5

-----------------------------------------------------------------------------
(* Sessions, clients and segments.                                         *)

\* The inductive invariant holds at the start.
LEMMA SessionInit == Init => SessionInv
<1> SUFFICES ASSUME Init PROVE SessionInv
  OBVIOUS
<1>1. TypeOK
  BY TypeInit
<1>2. SessionsOwned
  BY PointersAssumption DEF Init, SessionsOwned, Starting, Connecting
<1>3. ClientsOwned
  BY DEF Init, ClientsOwned, Starting, Connecting, NoCall, Callers
<1>4. SegmentOfSession /\ PausesReach
  BY DEF Init, SegmentOfSession, PausesReach
<1> QED
  BY <1>1, <1>2, <1>3, <1>4 DEF SessionInv

\* A step of a retry loop changes what its own pipeline holds.
LEMMA SessionLoop ==
    ASSUME SessionInv, NEW p \in Pipes, Loop(p) \/ Packet(p) \/ SourceEnds(p)
    PROVE  SessionInv'
<1> USE DEF Goto, Starting, Connecting, Possible, pipeline, recorder
<1>1. TypeOK /\ SessionsOwned /\ ClientsOwned /\ SegmentOfSession /\ PausesReach
  BY DEF SessionInv
<1>2. TypeOK' /\ call' = call /\ paused' = paused /\ \A c \in Callers : call[c] \in Calls
  <2>1. call' = call /\ paused' = paused
    BY
    DEF Loop, Park, Unpark, Leave, Backoff, Describe, Setup, WaitReturns, PublishClient,
        Unreferenced, Dial, PublishSource, Check, Play, Answered, Finalize, SourceLost, Release,
        EndStart, Packet, SourceEnds, Streams
  <2> QED
    BY <1>1, <2>1, TypeLoop DEF TypeOK
<1>3. CASE Park(p) \/ Unpark(p) \/ Leave(p) \/ Backoff(p)
  <2>1. SessionsOwned'
    BY <1>1, <1>2, <1>3, PointersAssumption
    DEF Park, Unpark, Leave, Backoff, TypeOK, SessionsOwned
  <2>2. ClientsOwned'
    BY <1>1, <1>2, <1>3, PointersAssumption
    DEF Park, Unpark, Leave, Backoff, TypeOK, SessionsOwned, ClientsOwned
  <2>3. SegmentOfSession'
    BY <1>1, <1>3 DEF Park, Unpark, Leave, Backoff, TypeOK, SegmentOfSession
  <2>4. PausesReach'
    BY <1>1, <1>2, <1>3
    DEF Park, Unpark, Leave, Backoff, TypeOK, SegmentOfSession, SessionsOwned, PausesReach,
        Reaches, Pausing, ShouldStop
  <2> QED
    BY <1>2, <2>1, <2>2, <2>3, <2>4 DEF SessionInv
<1>4. CASE Describe(p) \/ Setup(p) \/ WaitReturns(p)
  <2>1. SessionsOwned'
    BY <1>1, <1>2, <1>4, PointersAssumption
    DEF Describe, Setup, WaitReturns, TypeOK, SessionsOwned
  <2>2. ClientsOwned'
    BY <1>1, <1>2, <1>4, PointersAssumption
    DEF Describe, Setup, WaitReturns, TypeOK, SessionsOwned, ClientsOwned
  <2>3. SegmentOfSession'
    BY <1>1, <1>4 DEF Describe, Setup, WaitReturns, TypeOK, SegmentOfSession
  <2>4. PausesReach'
    BY <1>1, <1>2, <1>4
    DEF Describe, Setup, WaitReturns, TypeOK, SegmentOfSession, SessionsOwned, PausesReach,
        Reaches, Pausing, ShouldStop
  <2> QED
    BY <1>2, <2>1, <2>2, <2>3, <2>4 DEF SessionInv
<1>5. CASE PublishClient(p)
  <2>1. SessionsOwned'
    BY <1>1, <1>2, <1>5, PointersAssumption
    DEF PublishClient, Unreferenced, TypeOK, SessionsOwned
  <2>2. ClientsOwned'
    BY <1>1, <1>2, <1>5, PointersAssumption
    DEF PublishClient, Unreferenced, TypeOK, SessionsOwned, ClientsOwned
  <2>3. SegmentOfSession'
    BY <1>1, <1>5 DEF PublishClient, Unreferenced, TypeOK, SegmentOfSession
  <2>4. PausesReach'
    BY <1>1, <1>2, <1>5
    DEF PublishClient, Unreferenced, TypeOK, SegmentOfSession, SessionsOwned, PausesReach,
        Reaches, Pausing, ShouldStop
  <2> QED
    BY <1>2, <2>1, <2>2, <2>3, <2>4 DEF SessionInv
<1>6. CASE Dial(p)
  <2>1. SessionsOwned'
    BY <1>1, <1>2, <1>6, PointersAssumption DEF Dial, TypeOK, SessionsOwned
  <2>2. ClientsOwned'
    BY <1>1, <1>2, <1>6, PointersAssumption DEF Dial, TypeOK, SessionsOwned, ClientsOwned
  <2>3. SegmentOfSession'
    BY <1>1, <1>6 DEF Dial, TypeOK, SegmentOfSession
  <2>4. PausesReach'
    BY <1>1, <1>2, <1>6
    DEF Dial, TypeOK, SegmentOfSession, SessionsOwned, PausesReach, Reaches, Pausing, ShouldStop
  <2> QED
    BY <1>2, <2>1, <2>2, <2>3, <2>4 DEF SessionInv
<1>7. CASE PublishSource(p)
  <2>1. SessionsOwned'
    BY <1>1, <1>2, <1>7, PointersAssumption DEF PublishSource, TypeOK, SessionsOwned
  <2>2. ClientsOwned'
    BY <1>1, <1>2, <1>7, PointersAssumption
    DEF PublishSource, TypeOK, SessionsOwned, ClientsOwned
  <2>3. SegmentOfSession'
    BY <1>1, <1>7 DEF PublishSource, TypeOK, SegmentOfSession
  <2>4. PausesReach'
    BY <1>1, <1>2, <1>7
    DEF PublishSource, TypeOK, SegmentOfSession, SessionsOwned, PausesReach, Reaches, Pausing,
        ShouldStop
  <2> QED
    BY <1>2, <2>1, <2>2, <2>3, <2>4 DEF SessionInv
<1>8. CASE Check(p) \/ Play(p)
  <2>1. SessionsOwned'
    BY <1>1, <1>2, <1>8, PointersAssumption DEF Check, Play, TypeOK, SessionsOwned
  <2>2. ClientsOwned'
    BY <1>1, <1>2, <1>8, PointersAssumption DEF Check, Play, TypeOK, SessionsOwned, ClientsOwned
  <2>3. SegmentOfSession'
    BY <1>1, <1>8 DEF Check, Play, TypeOK, SegmentOfSession
  <2>4. PausesReach'
    BY <1>1, <1>2, <1>8
    DEF Check, Play, TypeOK, SegmentOfSession, SessionsOwned, PausesReach, Reaches, Pausing,
        ShouldStop
  <2> QED
    BY <1>2, <2>1, <2>2, <2>3, <2>4 DEF SessionInv
<1>9. CASE Finalize(p) \/ SourceLost(p)
  <2>1. SessionsOwned'
    BY <1>1, <1>2, <1>9, PointersAssumption DEF Finalize, SourceLost, TypeOK, SessionsOwned
  <2>2. ClientsOwned'
    BY <1>1, <1>2, <1>9, PointersAssumption
    DEF Finalize, SourceLost, TypeOK, SessionsOwned, ClientsOwned
  <2>3. SegmentOfSession'
    BY <1>1, <1>9 DEF Finalize, SourceLost, TypeOK, SegmentOfSession
  <2>4. PausesReach'
    BY <1>1, <1>2, <1>9
    DEF Finalize, SourceLost, TypeOK, SegmentOfSession, SessionsOwned, PausesReach, Reaches,
        Pausing, ShouldStop
  <2> QED
    BY <1>2, <2>1, <2>2, <2>3, <2>4 DEF SessionInv
<1>10. CASE Release(p)
  <2>1. SessionsOwned'
    BY <1>1, <1>2, <1>10, PointersAssumption DEF Release, TypeOK, SessionsOwned
  <2>2. ClientsOwned'
    BY <1>1, <1>2, <1>10, PointersAssumption DEF Release, TypeOK, SessionsOwned, ClientsOwned
  <2>3. SegmentOfSession'
    BY <1>1, <1>10 DEF Release, TypeOK, SegmentOfSession
  <2>4. PausesReach'
    BY <1>1, <1>2, <1>10
    DEF Release, TypeOK, SegmentOfSession, SessionsOwned, PausesReach, Reaches, Pausing,
        ShouldStop
  <2> QED
    BY <1>2, <2>1, <2>2, <2>3, <2>4 DEF SessionInv
<1>11. CASE EndStart(p)
  <2>1. SessionsOwned'
    BY <1>1, <1>2, <1>11, PointersAssumption DEF EndStart, TypeOK, SessionsOwned
  <2>2. ClientsOwned'
    BY <1>1, <1>2, <1>11, PointersAssumption DEF EndStart, TypeOK, SessionsOwned, ClientsOwned
  <2>3. SegmentOfSession'
    BY <1>1, <1>11 DEF EndStart, TypeOK, SegmentOfSession
  <2>4. PausesReach'
    BY <1>1, <1>2, <1>11
    DEF EndStart, TypeOK, SegmentOfSession, SessionsOwned, PausesReach, Reaches, Pausing,
        ShouldStop
  <2> QED
    BY <1>2, <2>1, <2>2, <2>3, <2>4 DEF SessionInv
<1>12. CASE Packet(p)
  <2>1. SessionsOwned'
    BY <1>1, <1>2, <1>12, PointersAssumption DEF Packet, Streams, TypeOK, SessionsOwned
  <2>2. ClientsOwned'
    BY <1>1, <1>2, <1>12, PointersAssumption DEF Packet, Streams, TypeOK, SessionsOwned, ClientsOwned
  <2>3. SegmentOfSession'
    BY <1>1, <1>12 DEF Packet, Streams, TypeOK, SegmentOfSession
  <2>4. PausesReach'
    BY <1>1, <1>2, <1>12
    DEF Packet, Streams, TypeOK, SegmentOfSession, SessionsOwned, PausesReach, Reaches, Pausing,
        ShouldStop
  <2> QED
    BY <1>2, <2>1, <2>2, <2>3, <2>4 DEF SessionInv
<1>13. CASE SourceEnds(p)
  <2>1. SessionsOwned'
    BY <1>1, <1>2, <1>13, PointersAssumption DEF SourceEnds, Streams, TypeOK, SessionsOwned
  <2>2. ClientsOwned'
    BY <1>1, <1>2, <1>13, PointersAssumption DEF SourceEnds, Streams, TypeOK, SessionsOwned, ClientsOwned
  <2>3. SegmentOfSession'
    BY <1>1, <1>13 DEF SourceEnds, Streams, TypeOK, SegmentOfSession
  <2>4. PausesReach'
    BY <1>1, <1>2, <1>13
    DEF SourceEnds, Streams, TypeOK, SegmentOfSession, SessionsOwned, PausesReach, Reaches, Pausing,
        ShouldStop
  <2> QED
    BY <1>2, <2>1, <2>2, <2>3, <2>4 DEF SessionInv
<1>14. CASE Answered(p)
  <2>1. SessionsOwned'
    BY <1>1, <1>2, <1>14, PointersAssumption DEF Answered, TypeOK, SessionsOwned
  <2>2. ClientsOwned'
    BY <1>1, <1>2, <1>14, PointersAssumption DEF Answered, TypeOK, SessionsOwned, ClientsOwned
  <2>3. SegmentOfSession'
    BY <1>1, <1>14 DEF Answered, TypeOK, SegmentOfSession
  <2>4. PausesReach'
    BY <1>1, <1>2, <1>14
    DEF Answered, TypeOK, SegmentOfSession, SessionsOwned, PausesReach, Reaches, Pausing,
        ShouldStop
  <2> QED
    BY <1>2, <2>1, <2>2, <2>3, <2>4 DEF SessionInv
<1> QED
  BY <1>2, <1>3, <1>4, <1>5, <1>6, <1>7, <1>8, <1>9, <1>10, <1>11, <1>12, <1>13,
     <1>14 DEF Loop

\* Close of a recorder: what it holds is nobody's but its own pipeline's.
LEMMA SessionCaller ==
    ASSUME SessionInv, NEW c \in Callers, Caller(c)
    PROVE  SessionInv'
<1> USE DEF Starting, Connecting, Possible, pipeline, recorder, At
<1>1. TypeOK /\ SessionsOwned /\ ClientsOwned /\ SegmentOfSession /\ PausesReach
  BY DEF SessionInv
<1>2. TypeOK' /\ call \in [Callers -> Calls] /\ call[c] \in Calls
  BY <1>1, TypeCaller DEF TypeOK
<1>3. CASE Grab(c)
  <2>1. /\ call'[c].at = "close" /\ call'[c].client = client[call[c].pipe]
        /\ call'[c].pipe = call[c].pipe /\ call'[c].on = call[c].on
        /\ \A e \in Callers : e # c => call'[e] = call[e]
    <3>1. call[c].pipe \in Pipes /\ client[call[c].pipe] \in Sessions \cup {None}
      BY <1>1, <1>3 DEF Grab, TypeOK, ClientsOwned
    <3>2. PICK s \in Sessions \cup {None} : s = client[call[c].pipe]
      BY <3>1
    <3>3. call' = [call EXCEPT ![c].client = s, ![c].at = "close"] /\ "close" \in Points
      BY <1>3, <3>2 DEF Grab, Points
    <3>4. /\ call'[c].at = "close" /\ call'[c].client = s
          /\ call'[c].pipe = call[c].pipe /\ call'[c].on = call[c].on
          /\ \A e \in Callers : e # c => call'[e] = call[e]
      BY <1>2, <3>3, CallHoldsClient DEF Points
    <3> QED
      BY <3>2, <3>4
  <2>2. SessionsOwned'
    BY <1>1, <1>2, <1>3, PointersAssumption DEF Grab, TypeOK, SessionsOwned, ClientsOwned
  <2>3. ClientsOwned'
    BY <1>1, <1>2, <1>3, <2>1 DEF Grab, TypeOK, ClientsOwned
  <2>4. SegmentOfSession'
    BY <1>1, <1>3 DEF Grab, TypeOK, SegmentOfSession
  <2>5. PausesReach'
    <3> SUFFICES ASSUME NEW p \in Pipes, paused'[p]
                 PROVE  /\ loop'[p] \in {"play", "answer", "live"} /\ conn'[session'[p]] # "closed" =>
                               \E d \in Callers : Reaches(d, p)'
                        /\ segment'[p] => Pausing(p)'
      BY DEF PausesReach
    <3>1. UNCHANGED <<paused, loop, session, conn, segment>> /\ call[c].at = "grab"
      BY <1>3 DEF Grab
    <3>2. \A d \in Callers : loop[p] \in {"play", "answer", "live"} /\ Reaches(d, p) => Reaches(d, p)'
      BY <1>1, <2>1, <3>1 DEF Reaches, ClientsOwned
    <3>3. Pausing(p) => Pausing(p)'
      BY <2>1, <3>1 DEF Pausing
    <3> QED
      BY <1>1, <3>1, <3>2, <3>3 DEF PausesReach
  <2> QED
    BY <1>2, <2>2, <2>3, <2>4, <2>5 DEF SessionInv
<1>4. CASE CloseClient(c)
  <2>1. /\ call'[c].at = "finalize" /\ call'[c].client = None
        /\ call'[c].pipe = call[c].pipe /\ call'[c].on = call[c].on
        /\ \A e \in Callers : e # c => call'[e] = call[e]
    <3>1. PICK s \in Sessions \cup {None} : s = None
      OBVIOUS
    <3>2. call' = [call EXCEPT ![c].client = s, ![c].at = "finalize"] /\ "finalize" \in Points
      BY <1>4, <3>1 DEF CloseClient, Points
    <3>3. /\ call'[c].at = "finalize" /\ call'[c].client = s
          /\ call'[c].pipe = call[c].pipe /\ call'[c].on = call[c].on
          /\ \A e \in Callers : e # c => call'[e] = call[e]
      BY <1>2, <3>2, CallHoldsClient DEF Points
    <3> QED
      BY <3>1, <3>3
  <2>2. SessionsOwned'
    BY <1>1, <1>2, <1>4, PointersAssumption DEF CloseClient, TypeOK, SessionsOwned, ClientsOwned
  <2>3. ClientsOwned'
    BY <1>1, <1>2, <1>4, <2>1 DEF CloseClient, TypeOK, ClientsOwned
  <2>4. SegmentOfSession'
    BY <1>1, <1>4 DEF CloseClient, TypeOK, SegmentOfSession
  <2>5. PausesReach'
    <3> SUFFICES ASSUME NEW p \in Pipes, paused'[p]
                 PROVE  /\ loop'[p] \in {"play", "answer", "live"} /\ conn'[session'[p]] # "closed" =>
                               \E d \in Callers : Reaches(d, p)'
                        /\ segment'[p] => Pausing(p)'
      BY DEF PausesReach
    <3>1. loop' = loop /\ session' = session
      BY <1>4 DEF CloseClient
    <3>2. UNCHANGED <<paused, segment>>
      BY <1>4 DEF CloseClient
    <3>3. \A d \in Callers : Reaches(d, p) => Reaches(d, p)' \/ (d = c /\ call[c].client = session[p])
      BY <1>4, <2>1, <3>1 DEF Reaches, CloseClient
    <3>4. call[c].client = session[p] /\ loop[p] \in {"play", "answer", "live"} => conn'[session[p]] = "closed"
      BY <1>1, <1>4 DEF CloseClient, TypeOK, SessionsOwned
    <3>5. conn[session[p]] = "closed" /\ loop[p] \in {"play", "answer", "live"} => conn'[session[p]] = "closed"
      BY <1>1, <1>4 DEF CloseClient, TypeOK, SessionsOwned
    <3>6. Pausing(p) => Pausing(p)'
      <4>1. ASSUME NEW d \in Callers, call[d].pipe = p, call[d].on,
                   call[d].at \in {"grab", "close", "finalize"}
            PROVE  /\ call'[d].pipe = p /\ call'[d].on
                   /\ call'[d].at \in {"grab", "close", "finalize"}
        <5>1. CASE d = c
          BY <2>1, <4>1, <5>1
        <5>2. CASE d # c
          BY <2>1, <4>1, <5>2
        <5> QED
          BY <5>1, <5>2
      <4> QED
        BY <4>1 DEF Pausing
    <3> QED
      BY <1>1, <3>1, <3>2, <3>3, <3>4, <3>5, <3>6 DEF PausesReach
  <2> QED
    BY <1>2, <2>2, <2>3, <2>4, <2>5 DEF SessionInv
<1>5. CASE ClosePanics(c)
  <2>1. /\ call'[c].at = "idle" /\ call'[c].client = None
        /\ call'[c].pipe = None
        /\ \A e \in Callers : e # c => call'[e] = call[e]
    BY <1>2, <1>5, CallReturns DEF ClosePanics
  <2>2. SessionsOwned'
    BY <1>1, <1>2, <1>5, PointersAssumption DEF ClosePanics, TypeOK, SessionsOwned, ClientsOwned
  <2>3. ClientsOwned'
    BY <1>1, <1>2, <1>5, <2>1 DEF ClosePanics, TypeOK, ClientsOwned
  <2>4. SegmentOfSession'
    BY <1>1, <1>5 DEF ClosePanics, TypeOK, SegmentOfSession
  <2>5. PausesReach'
    <3> SUFFICES ASSUME NEW p \in Pipes, paused'[p]
                 PROVE  /\ loop'[p] \in {"play", "answer", "live"} /\ conn'[session'[p]] # "closed" =>
                               \E d \in Callers : Reaches(d, p)'
                        /\ segment'[p] => Pausing(p)'
      BY DEF PausesReach
    <3>1. loop' = loop /\ session' = session
      BY <1>5 DEF ClosePanics
    <3>2. UNCHANGED <<paused, segment, conn>>
      BY <1>5 DEF ClosePanics
    <3>3. \A d \in Callers : Reaches(d, p) => Reaches(d, p)' \/ (d = c /\ call[c].client = session[p])
      BY <1>5, <2>1, <3>1 DEF Reaches, ClosePanics
    <3>4. loop[p] \in {"play", "answer", "live"} => call[c].client # session[p]
      BY <1>1, <1>5 DEF ClosePanics, SessionsOwned
    <3>5. PICK q \in Pipes : session[q] = call[c].client /\ loop[q] = "dial" /\ call[c].pipe = q
      <4>1. call[c].client \in Sessions /\ conn[call[c].client] = "new"
        BY <1>2, <1>5 DEF ClosePanics, Calls
      <4>2. PICK q \in Pipes : session[q] = call[c].client
        BY <1>1, <4>1 DEF SessionsOwned
      <4>3. loop[q] = "dial"
        BY <1>1, <4>1, <4>2, PointersAssumption DEF SessionsOwned
      <4> QED
        BY <1>1, <1>5, <4>2, <4>3 DEF ClosePanics, ClientsOwned
    <3>6. segment[p] => Pausing(p)'
      BY <1>1, <1>5, <2>1, <3>5 DEF Pausing, PausesReach, SegmentOfSession, ClosePanics
    <3> QED
      BY <1>1, <3>1, <3>2, <3>3, <3>4, <3>6 DEF PausesReach
  <2> QED
    BY <1>2, <2>2, <2>3, <2>4, <2>5 DEF SessionInv
<1>6. CASE CloseSegment(c)
  <2>1. /\ call'[c].client \in {None, call[c].client}
        /\ \/ call'[c].at = "idle" /\ call'[c].pipe = None
           \/ call'[c].at = "wait" /\ call'[c].pipe = call[c].pipe
        /\ \A e \in Callers : e # c => call'[e] = call[e]
    BY <1>2, <1>6, CallReturns, CallMoves DEF CloseSegment, Return, Points
  <2>2. SessionsOwned'
    BY <1>1, <1>2, <1>6, PointersAssumption
    DEF CloseSegment, TypeOK, SessionsOwned, ClientsOwned
  <2>3. ClientsOwned'
    BY <1>1, <1>2, <1>6, <2>1 DEF CloseSegment, TypeOK, ClientsOwned
  <2>4. SegmentOfSession'
    BY <1>1, <1>6 DEF CloseSegment, TypeOK, SegmentOfSession
  <2>5. PausesReach'
    <3> SUFFICES ASSUME NEW p \in Pipes, paused'[p]
                 PROVE  /\ loop'[p] \in {"play", "answer", "live"} /\ conn'[session'[p]] # "closed" =>
                               \E d \in Callers : Reaches(d, p)'
                        /\ segment'[p] => Pausing(p)'
      BY DEF PausesReach
    <3>1. /\ UNCHANGED <<paused, loop, session, conn>> /\ call[c].at = "finalize"
          /\ segment' = [segment EXCEPT ![call[c].pipe] = FALSE]
      BY <1>6 DEF CloseSegment
    <3>2. \A d \in Callers : Reaches(d, p) => Reaches(d, p)'
      BY <2>1, <3>1 DEF Reaches
    <3>3. segment'[p] => segment[p] /\ call[c].pipe # p
      BY <1>1, <3>1 DEF TypeOK
    <3>4. Pausing(p) /\ call[c].pipe # p => Pausing(p)'
      BY <2>1 DEF Pausing
    <3> QED
      BY <1>1, <3>1, <3>2, <3>3, <3>4 DEF PausesReach
  <2> QED
    BY <1>2, <2>2, <2>3, <2>4, <2>5 DEF SessionInv
<1>7. CASE SetPaused(c)
  <2>1. /\ call'[c].client \in {None, call[c].client}
        /\ \/ /\ ~(call[c].on /\ ~paused[call[c].pipe])
              /\ call'[c].at = "idle" /\ call'[c].pipe = None
           \/ /\ call[c].on /\ ~paused[call[c].pipe]
              /\ call'[c].at = "grab" /\ call'[c].pipe = call[c].pipe /\ call'[c].on
        /\ \A e \in Callers : e # c => call'[e] = call[e]
    BY <1>2, <1>7, CallReturns, CallMoves DEF SetPaused, Return, Points
  <2>2. SessionsOwned'
    BY <1>1, <1>2, <1>7, PointersAssumption DEF SetPaused, TypeOK, SessionsOwned, ClientsOwned
  <2>3. ClientsOwned'
    BY <1>1, <1>2, <1>7, <2>1 DEF SetPaused, TypeOK, ClientsOwned
  <2>4. SegmentOfSession'
    BY <1>1, <1>7 DEF SetPaused, TypeOK, SegmentOfSession
  <2>5. PausesReach'
    <3> SUFFICES ASSUME NEW p \in Pipes, paused'[p]
                 PROVE  /\ loop'[p] \in {"play", "answer", "live"} /\ conn'[session'[p]] # "closed" =>
                               \E d \in Callers : Reaches(d, p)'
                        /\ segment'[p] => Pausing(p)'
      BY DEF PausesReach
    <3>1. loop' = loop /\ session' = session
      BY <1>7 DEF SetPaused
    <3>2. UNCHANGED <<segment, conn>> /\ At(c, "set")
      BY <1>7 DEF SetPaused
    <3>3. \A d \in Callers : Reaches(d, p) => Reaches(d, p)'
      BY <2>1, <3>1, <3>2 DEF Reaches
    <3>4. Pausing(p) => Pausing(p)'
      BY <2>1, <3>2 DEF Pausing
    <3>5. ~paused[p] => Reaches(c, p)' /\ Pausing(p)'
      BY <1>1, <1>7, <2>1 DEF SetPaused, Reaches, Pausing, TypeOK
    <3> QED
      BY <1>1, <3>1, <3>2, <3>3, <3>4, <3>5 DEF PausesReach
  <2> QED
    BY <1>2, <2>2, <2>3, <2>4, <2>5 DEF SessionInv
<1> QED
  BY <1>3, <1>4, <1>5, <1>6, <1>7 DEF Caller

\* A toggle finds the pipeline it works on.
LEMMA SessionToggle ==
    ASSUME SessionInv, LockToggle \/ Lookup \/ \E on \in BOOLEAN : RequestToggle(on)
    PROVE  SessionInv'
<1> USE DEF Starting, Connecting, pipeline, recorder, At
<1>1. TypeOK /\ SessionsOwned /\ ClientsOwned /\ SegmentOfSession /\ PausesReach
  BY DEF SessionInv
<1>2. TypeOK' /\ call \in [Callers -> Calls] /\ "toggle" \in Callers
  BY <1>1, TypeToggle DEF TypeOK, Callers
<1>3. UNCHANGED <<ctrl, pipeline, loop, recorder, conn, relay>>
  BY DEF LockToggle, Lookup, RequestToggle
<1>4. /\ call["toggle"].at \notin {"grab", "close", "finalize"}
      /\ call'["toggle"].client \in {None, call["toggle"].client}
      /\ call'["handler"] = call["handler"]
      /\ \/ call'["toggle"].at \in {"idle", "lock", "lookup"}
         \/ call'["toggle"].at = "set" /\ call'["toggle"].pipe \in Pipes
  <2>1. CASE LockToggle
    BY <1>2, <2>1, CallMoves DEF LockToggle, Points, Callers
  <2>2. CASE Lookup
    <3>2. ASSUME NEW p \in Pipes, p = ctrl,
                 call' = [call EXCEPT !["toggle"].pipe = p, !["toggle"].at = "set"]
          PROVE  /\ call'["toggle"].client = call["toggle"].client
                 /\ call'["toggle"].at = "set" /\ call'["toggle"].pipe = p
                 /\ call'["handler"] = call["handler"]
      BY <1>2, <3>2, CallHoldsPipe DEF Points, Callers
    <3>3. /\ call["toggle"].at = "lookup"
          /\ \/ ctrl = None /\ Return("toggle")
             \/ \E p \in Pipes :
                   p = ctrl /\ call' = [call EXCEPT !["toggle"].pipe = p, !["toggle"].at = "set"]
      BY <1>1, <2>2 DEF Lookup, TypeOK
    <3>4. CASE Return("toggle")
      BY <1>2, <3>3, <3>4, CallReturns DEF Return, Callers
    <3> QED
      BY <3>2, <3>3, <3>4
  <2>3. ASSUME NEW on \in BOOLEAN, RequestToggle(on)
        PROVE  /\ call["toggle"].at = "idle" /\ call'["toggle"].at = "lock"
               /\ call'["toggle"].client = None /\ call'["handler"] = call["handler"]
    BY <1>2, <2>3, CallRequests DEF RequestToggle
  <2> QED
    BY <2>1, <2>2, <2>3
<1>5. SessionsOwned' /\ SegmentOfSession'
  BY <1>1, <1>3 DEF SessionsOwned, SegmentOfSession
<1>6. ClientsOwned'
  BY <1>1, <1>3, <1>4 DEF ClientsOwned, Callers
<1>7. PausesReach'
  BY <1>1, <1>3, <1>4 DEF PausesReach, Reaches, Pausing, Callers
<1> QED
  BY <1>2, <1>5, <1>6, <1>7 DEF SessionInv

\* A handler takes a pipeline out of the map and adds an idle one.
LEMMA SessionHandler ==
    ASSUME SessionInv, BeginHandler \/ Cancel \/ Wait \/ ClearSource \/ AddCamera
    PROVE  SessionInv'
<1> USE DEF Starting, Connecting, pipeline, recorder, At
<1>1. TypeOK /\ SessionsOwned /\ ClientsOwned /\ SegmentOfSession /\ PausesReach
  BY DEF SessionInv
<1>2. TypeOK' /\ call \in [Callers -> Calls] /\ "handler" \in Callers
  BY <1>1, TypeHandler DEF TypeOK, Callers
<1>3. /\ call["handler"].at \notin {"grab", "close", "finalize"}
      /\ call'["handler"].client \in {None, call["handler"].client}
      /\ call'["toggle"] = call["toggle"]
      /\ \/ call'["handler"].at \in {"idle", "add"}
         \/ call'["handler"].at \in {"cancel", "grab", "set", "clear"} /\ call'["handler"].pipe \in Pipes
  <2>1. CASE BeginHandler
    BY <1>1, <2>1, CallBegins DEF BeginHandler, TypeOK
  <2>2. CASE Cancel \/ Wait
    BY <1>1, <1>2, <2>2, CallMoves DEF Cancel, Wait, Points, Callers, ClientsOwned
  <2>3. CASE ClearSource
    BY <1>1, <1>2, <2>3, CallHoldsPipe DEF ClearSource, Points, Callers
  <2>4. CASE AddCamera
    BY <1>1, <2>4, CallAdds DEF AddCamera
  <2> QED
    BY <2>1, <2>2, <2>3, <2>4
<1>4. CASE BeginHandler \/ Cancel \/ Wait \/ ClearSource
  <2>1. UNCHANGED <<loop, recorder, conn, paused>>
    BY <1>4 DEF BeginHandler, Cancel, Wait, ClearSource
  <2>2. SessionsOwned' /\ SegmentOfSession'
    BY <1>1, <2>1 DEF SessionsOwned, SegmentOfSession
  <2>3. ClientsOwned'
    BY <1>1, <1>3, <2>1 DEF ClientsOwned, Callers
  <2>4. PausesReach'
    BY <1>1, <1>3, <2>1 DEF PausesReach, Reaches, Pausing, Callers
  <2> QED
    BY <1>2, <2>2, <2>3, <2>4 DEF SessionInv
<1>5. CASE AddCamera
  <2>1. UNCHANGED <<session, conn>>
    BY <1>5 DEF AddCamera
  <2>2. \/ UNCHANGED <<loop, recorder, paused>>
        \/ \E p \in Pipes :
              /\ loop[p] \in {"absent", "exited"}
              /\ loop' = [loop EXCEPT ![p] = "top"]
              /\ paused' = [paused EXCEPT ![p] = FALSE]
              /\ client' = [client EXCEPT ![p] = None]
              /\ segment' = [segment EXCEPT ![p] = FALSE]
              /\ abandoned' = [abandoned EXCEPT ![p] = FALSE]
    BY <1>5, <2>1 DEF AddCamera, FreePipe
  <2>3. SessionsOwned'
    BY <1>1, <2>1, <2>2 DEF SessionsOwned, TypeOK, Possible
  <2>4. SegmentOfSession'
    BY <1>1, <2>2 DEF SegmentOfSession, TypeOK
  <2>5. ClientsOwned'
    BY <1>1, <1>3, <2>1, <2>2 DEF ClientsOwned, Callers, TypeOK
  <2>6. PausesReach'
    BY <1>1, <1>3, <2>1, <2>2 DEF PausesReach, Reaches, Pausing, Callers, TypeOK
  <2> QED
    BY <1>2, <2>3, <2>4, <2>5, <2>6 DEF SessionInv
<1> QED
  BY <1>4, <1>5

LEMMA SessionStep == SessionInv /\ [Next]_vars => SessionInv'
<1> SUFFICES ASSUME SessionInv, [Next]_vars PROVE SessionInv'
  OBVIOUS
<1>1. ASSUME NEW p \in Pipes, Loop(p) \/ Packet(p) \/ SourceEnds(p) PROVE SessionInv'
  BY <1>1, SessionLoop
<1>2. ASSUME NEW c \in Callers, Caller(c) PROVE SessionInv'
  BY <1>2, SessionCaller
<1>3. CASE LockToggle \/ Lookup \/ \E on \in BOOLEAN : RequestToggle(on)
  BY <1>3, SessionToggle
<1>4. CASE BeginHandler \/ Cancel \/ Wait \/ ClearSource \/ AddCamera
  BY <1>4, SessionHandler
<1>5. CASE UNCHANGED vars
  BY <1>5 DEF vars, pipeline, recorder, SessionInv, TypeOK, SessionsOwned, ClientsOwned,
      SegmentOfSession, PausesReach, Reaches, Pausing, Starting
<1> QED
  BY <1>1, <1>2, <1>3, <1>4, <1>5 DEF Next, Toggle, Handler, Callers

\* Whatever is asked of the pipelines, a session has one Start and a client one owner.
THEOREM SessionsHold == Spec => []SessionInv
  BY SessionInit, SessionStep, PTL DEF Spec

\* A pause that has returned has reached the session: the check before PLAY stops the
\* Start it came before, and Close ends the one it came after.
THEOREM PausedIsSilentHolds == Spec => []PausedIsSilent
<1>1. SessionInv => PausedIsSilent
  <2> SUFFICES ASSUME SessionInv, NEW p \in Pipes, paused[p], ~Closing(p)
               PROVE  ~Playing(p) /\ ~segment[p]
    BY DEF PausedIsSilent
  <2>1. ~Pausing(p) /\ ~\E c \in Callers : Reaches(c, p)
    BY DEF Closing, Pausing, Reaches
  <2>2. ~segment[p]
    BY <2>1 DEF SessionInv, PausesReach
  <2>3. Playing(p) => loop[p] \in {"answer", "live"}
    BY DEF Playing, SessionInv, SessionsOwned, Starting, Connecting, Possible
  <2> QED
    BY <2>1, <2>2, <2>3 DEF SessionInv, PausesReach, Playing
<1> QED
  BY <1>1, SessionsHold, PTL

\* A Start that begins finds a segment of an earlier one only when its PLAY failed after
\* packets had opened it: any other Start that opened one finalized it, and so did any
\* Close in between.
THEOREM ResetForgetsNothingHolds == Spec => []ResetForgetsNothing
<1>1. SessionInv => ResetForgetsNothing
  BY DEF SessionInv, SegmentOfSession, ResetForgetsNothing, Connecting
<1> QED
  BY <1>1, SessionsHold, PTL

-----------------------------------------------------------------------------
(* The pipeline that stands for the camera.                                *)

LEMMA CurrentInit == Init => CurrentInv /\ ServedInv
  BY DEF Init, CurrentInv, HandlerPhases, CancelsReach, OneCurrent, ServedInv, OneActive,
      RelayOwned, RemovedClosed, NoCall, Callers, Held

\* A step of a retry loop is taken by a loop that runs, and touches no other.
LEMMA LoopRuns ==
    ASSUME TypeOK, NEW p \in Pipes, Loop(p) \/ Packet(p) \/ SourceEnds(p)
    PROVE  /\ UNCHANGED <<ctrl, call, cancelled, paused>>
           /\ loop[p] \notin {"absent", "exited"}
           /\ \A q \in Pipes : q # p => loop'[q] = loop[q] /\ session'[q] = session[q]
<1> USE DEF Goto, pipeline, recorder
<1>1. UNCHANGED <<ctrl, call, cancelled, paused>>
  BY DEF Loop, Park, Unpark, Leave, Backoff, Describe, Setup, WaitReturns, PublishClient,
      Unreferenced, Dial, PublishSource, Check, Play, Answered, Finalize, SourceLost, Release,
      EndStart, Packet, SourceEnds, Streams
<1>2. CASE Park(p) \/ Unpark(p) \/ Leave(p) \/ Backoff(p) \/ Describe(p) \/ Setup(p)
             \/ WaitReturns(p) \/ PublishClient(p)
  BY <1>1, <1>2 DEF TypeOK, Park, Unpark, Leave, Backoff, Describe, Setup, WaitReturns,
      PublishClient
<1>3. CASE Dial(p) \/ PublishSource(p) \/ Check(p) \/ Play(p) \/ Answered(p) \/ Finalize(p)
             \/ SourceLost(p) \/ Release(p) \/ EndStart(p)
  BY <1>1, <1>3 DEF TypeOK, Dial, PublishSource, Check, Play, Answered, Finalize, SourceLost,
      Release, EndStart
<1>4. CASE Packet(p) \/ SourceEnds(p)
  BY <1>1, <1>4 DEF Packet, SourceEnds, Streams
<1> QED
  BY <1>2, <1>3, <1>4 DEF Loop

\* The last check stops a cancelled loop that Close has missed.
LEMMA CurrentLoop ==
    ASSUME SessionInv, CurrentInv, NEW p \in Pipes, Loop(p) \/ Packet(p) \/ SourceEnds(p)
    PROVE  CurrentInv' /\ UNCHANGED <<Current, call, paused>>
<1> USE DEF Goto, pipeline, recorder
<1>1. TypeOK /\ SessionsOwned /\ HandlerPhases /\ CancelsReach /\ OneCurrent
  BY DEF SessionInv, CurrentInv
<1>2. /\ UNCHANGED <<ctrl, call, cancelled, paused>>
      /\ loop[p] \notin {"absent", "exited"}
      /\ \A q \in Pipes : q # p => loop'[q] = loop[q] /\ session'[q] = session[q]
  BY <1>1, LoopRuns
<1>3. Current' = Current /\ Held' = Held
  BY <1>2 DEF Current, Held
<1>4. OneCurrent'
  BY <1>1, <1>2, <1>3 DEF OneCurrent
<1>5. HandlerPhases'
  <2>1. Held.at = "clear" => Held.pipe \in Pipes
    BY DEF SessionInv, ClientsOwned, Callers, Held
  <2> QED
    BY <1>1, <1>2, <1>3, <2>1 DEF HandlerPhases
<1>6. CancelsReach'
  <2>1. \A q \in Pipes : q # p /\ loop[q] \in {"play", "answer", "live"} =>
            conn'[session[q]] = conn[session[q]]
    <3>1. \A q \in Pipes : q # p /\ loop[q] \in {"play", "answer", "live"} =>
              session[q] \in Sessions /\ session[q] # session[p]
      BY <1>1 DEF SessionsOwned, Starting, Connecting, TypeOK
    <3>2. conn' = conn \/ (\E v : conn' = [conn EXCEPT ![session[p]] = v]) \/ PublishClient(p)
      BY
      DEF Loop, Park, Unpark, Leave, Backoff, Describe, Setup, WaitReturns, Dial, PublishSource,
          Check, Play, Answered, Finalize, SourceLost, Release, EndStart, Packet, SourceEnds
    <3>3. ASSUME PublishClient(p), NEW q \in Pipes, q # p, loop[q] \in {"play", "answer", "live"}
          PROVE  conn'[session[q]] = conn[session[q]]
      BY <3>3 DEF PublishClient, Unreferenced
    <3> QED
      BY <1>1, <3>1, <3>2, <3>3 DEF TypeOK
  <2>2. cancelled[p] /\ loop'[p] \in {"play", "answer", "live"} /\ conn'[session'[p]] # "closed" =>
            /\ loop[p] \in {"play", "answer", "live"} /\ conn[session[p]] # "closed"
            /\ session'[p] = session[p]
    <3>1. CASE Park(p) \/ Unpark(p) \/ Leave(p) \/ Backoff(p) \/ Describe(p) \/ Setup(p)
                 \/ WaitReturns(p) \/ PublishClient(p)
      BY <1>1, <3>1 DEF TypeOK, Park, Unpark, Leave, Backoff, Describe, Setup, WaitReturns,
          PublishClient
    <3>2. CASE Check(p) \/ Play(p) \/ Answered(p)
      BY <1>1, <3>2 DEF TypeOK, Check, Play, Answered, ShouldStop, SessionsOwned, Starting,
          Connecting
    <3>3. CASE Dial(p) \/ PublishSource(p) \/ Finalize(p) \/ SourceLost(p) \/ Release(p)
                 \/ EndStart(p) \/ Packet(p) \/ SourceEnds(p)
      BY <1>1, <3>3 DEF TypeOK, Dial, PublishSource, Finalize, SourceLost, Release, EndStart,
          Packet, SourceEnds, Streams, SessionsOwned, Starting, Connecting
    <3> QED
      BY <3>1, <3>2, <3>3 DEF Loop
  <2> QED
    BY <1>1, <1>2, <1>3, <2>1, <2>2 DEF CancelsReach
<1> QED
  BY <1>2, <1>3, <1>4, <1>5, <1>6 DEF CurrentInv

\* Nothing of it depends on the toggle, which only closes connections.
LEMMA CurrentToggle ==
    ASSUME SessionInv, CurrentInv, Toggle \/ \E on \in BOOLEAN : RequestToggle(on)
    PROVE  CurrentInv' /\ UNCHANGED Current
<1>1. TypeOK /\ "toggle" \in Callers /\ "handler" \in Callers
  BY DEF SessionInv, Callers
<1>2. call'["handler"] = call["handler"]
  <2>1. CASE LockToggle \/ Lookup \/ \E on \in BOOLEAN : RequestToggle(on)
    BY <1>1, <2>1 DEF LockToggle, Lookup, RequestToggle, TypeOK, Move, Return
  <2>2. CASE Caller("toggle")
    BY <1>1, <2>2 DEF Caller, Grab, CloseClient, ClosePanics, CloseSegment, SetPaused, TypeOK,
        Move, Return
  <2> QED
    BY <2>1, <2>2 DEF Toggle
<1>3. /\ UNCHANGED <<ctrl, cancelled, loop, session>>
      /\ \A s \in Sessions : conn'[s] \in {conn[s], "closed"}
  <2>1. UNCHANGED <<ctrl, cancelled, loop, session>>
    BY DEF Toggle, LockToggle, Lookup, RequestToggle, Caller, Grab, CloseClient, ClosePanics,
        CloseSegment, SetPaused, pipeline, recorder
  <2>2. CASE CloseClient("toggle")
    BY <1>1, <2>1, <2>2 DEF CloseClient, TypeOK
  <2>3. CASE ~CloseClient("toggle")
    BY <2>1, <2>3 DEF Toggle, LockToggle, Lookup, RequestToggle, Caller, Grab, ClosePanics,
        CloseSegment, SetPaused
  <2> QED
    BY <2>2, <2>3
<1>4. \A p \in Pipes : loop[p] \in {"play", "answer", "live"} => session[p] \in Sessions
  BY DEF SessionInv, SessionsOwned, Starting, Connecting, TypeOK
<1>5. Current' = Current /\ Held' = Held
  BY <1>2, <1>3 DEF Current, Held
<1> QED
  BY <1>3, <1>4, <1>5 DEF CurrentInv, HandlerPhases, CancelsReach, OneCurrent

\* A handler that closes the recorder goes on to wait for the loop, or panics.
LEMMA CurrentClose ==
    ASSUME SessionInv, CurrentInv, Caller("handler")
    PROVE  CurrentInv' /\ Current' \in {Current, None} /\ (Current' = Current \/ ClosePanics("handler"))
<1>1. /\ TypeOK /\ SessionsOwned /\ ClientsOwned /\ HandlerPhases /\ CancelsReach /\ OneCurrent
      /\ "handler" \in Callers /\ Held \in Calls /\ Held.on \in BOOLEAN
      /\ Current = IF ctrl # None THEN ctrl ELSE Held.pipe
      /\ Current' = IF ctrl' # None THEN ctrl' ELSE Held'.pipe
  BY DEF SessionInv, CurrentInv, Callers, TypeOK, Calls, Held, Current
<1>2. UNCHANGED <<ctrl, cancelled, loop, session, client>>
  BY DEF Caller, Grab, CloseClient, ClosePanics, CloseSegment, SetPaused, pipeline, recorder
<1>3. /\ Held.at \in {"set", "grab", "close", "finalize"}
      /\ \/ /\ Held'.at \in {"grab", "close", "finalize"}
            /\ Held'.pipe = Held.pipe /\ Held'.on = Held.on
         \/ Held'.at = "wait" /\ Held'.pipe = Held.pipe /\ Held'.on = Held.on /\ cancelled[Held.pipe]
         \/ Held'.at = "idle" /\ Held'.pipe = None /\ ClosePanics("handler")
         \/ Held'.at = "idle" /\ Held'.pipe = None /\ (Held.at = "set" \/ ~cancelled[Held.pipe])
  <2>1. CASE Grab("handler") \/ CloseClient("handler")
    BY <1>1, <2>1 DEF Held, Grab, CloseClient, TypeOK, Calls, At
  <2>2. CASE CloseSegment("handler")
    BY <1>1, <2>2, CallReturns, CallMoves DEF Held, CloseSegment, TypeOK, Return, At, Points
  <2>3. CASE SetPaused("handler")
    BY <1>1, <2>3, CallReturns, CallMoves DEF Held, SetPaused, TypeOK, Return, At, Points
  <2>4. CASE ClosePanics("handler")
    BY <1>1, <2>4, CallReturns DEF Held, ClosePanics, TypeOK, At
  <2> QED
    BY <2>1, <2>2, <2>3, <2>4 DEF Caller
<1>4. HandlerPhases'
  <2>1. ctrl' # None => ~cancelled'[ctrl']
    BY <1>1, <1>2 DEF HandlerPhases
  <2>2. CASE ctrl = None /\ Held.at # "set" /\ cancelled[Held.pipe] /\ ~Held.on
    BY <1>1, <1>2, <1>3, <2>1, <2>2 DEF HandlerPhases
  <2>3. CASE ctrl = Held.pipe /\ Held.on
    <3>1. ctrl # None
      BY <1>1, <1>3, <2>3, PointersAssumption DEF ClientsOwned, Held
    <3> QED
      BY <1>1, <1>2, <1>3, <2>1, <2>3, <3>1 DEF HandlerPhases
  <2> QED
    BY <1>1, <1>3, <2>2, <2>3 DEF HandlerPhases
<1>5. Held.pipe \in Pipes
  BY <1>1, <1>3 DEF ClientsOwned, Held
<1>6. Current' \in {Current, None} /\ (Current' = Current \/ ClosePanics("handler"))
  BY <1>1, <1>2, <1>3, <1>5, PointersAssumption DEF HandlerPhases
<1>7. OneCurrent'
  BY <1>1, <1>2, <1>3, <1>5, <1>6, PointersAssumption DEF OneCurrent, HandlerPhases
<1>8. CancelsReach'
  <2> SUFFICES ASSUME NEW p \in Pipes, cancelled[p], loop[p] \in {"play", "answer", "live"},
                      conn'[session[p]] # "closed"
               PROVE  /\ Held'.pipe = p
                      /\ (Held'.at = "grab" \/ (Held'.at = "close" /\ Held'.client = session[p]))
    BY <1>2 DEF CancelsReach
  <2>1. session[p] \in Sessions /\ client[p] = session[p] /\ conn[session[p]] # "new"
    BY <1>1, PointersAssumption
    DEF SessionsOwned, ClientsOwned, Starting, Connecting, TypeOK, Possible
  <2>2. conn[session[p]] # "closed"
    <3>1. CASE CloseClient("handler")
      BY <1>1, <2>1, <3>1 DEF CloseClient, TypeOK
    <3>2. CASE ~CloseClient("handler")
      BY <3>2 DEF Caller, Grab, ClosePanics, CloseSegment, SetPaused
    <3> QED
      BY <3>1, <3>2
  <2>3. /\ Held.pipe = p
        /\ (Held.at = "grab" \/ (Held.at = "close" /\ Held.client = session[p]))
    BY <1>1, <2>2 DEF CancelsReach
  <2>4. CASE Grab("handler")
    <3>1. call["handler"].pipe = p /\ client[p] \in Sessions \cup {None}
      BY <2>1, <2>3 DEF Held
    <3>2. call' = [call EXCEPT !["handler"].client = client[p], !["handler"].at = "close"]
      BY <2>4, <3>1 DEF Grab
    <3>3. /\ call'["handler"].at = "close" /\ call'["handler"].client = client[p]
          /\ call'["handler"].pipe = p
      BY <1>1, <3>1, <3>2 DEF TypeOK, Calls
    <3> QED
      BY <2>1, <3>3 DEF Held
  <2>5. CASE CloseClient("handler")
    BY <1>1, <2>1, <2>3, <2>5, PointersAssumption DEF CloseClient, At, Held, TypeOK
  <2>6. CASE ClosePanics("handler") \/ CloseSegment("handler") \/ SetPaused("handler")
    BY <2>1, <2>3, <2>6 DEF ClosePanics, CloseSegment, SetPaused, At, Held
  <2> QED
    BY <2>4, <2>5, <2>6 DEF Caller
<1> QED
  BY <1>4, <1>6, <1>7, <1>8 DEF CurrentInv

\* RemoveCamera and AddCamera.  A pipeline is cancelled before it is closed, and it
\* stands for the camera until its loop has exited.
LEMMA CurrentHandler ==
    ASSUME SessionInv, CurrentInv, BeginHandler \/ Cancel \/ Wait \/ ClearSource \/ AddCamera
    PROVE  /\ CurrentInv'
           /\ \/ Current' = Current
              \/ ClearSource /\ Current' = None /\ (Current # None => loop[Current] = "exited")
              \/ AddCamera /\ Current = None /\ Current' = ctrl'
<1> USE DEF pipeline, recorder, At
<1>1. /\ TypeOK /\ ClientsOwned /\ HandlerPhases /\ CancelsReach /\ OneCurrent
      /\ "handler" \in Callers /\ Held \in Calls /\ Held.on \in BOOLEAN
      /\ Current = IF ctrl # None THEN ctrl ELSE Held.pipe
      /\ Current' = IF ctrl' # None THEN ctrl' ELSE Held'.pipe
  BY DEF SessionInv, CurrentInv, Callers, TypeOK, Calls, Held, Current
<1>2. CASE BeginHandler
  <2>1. /\ Held.at = "idle" /\ Held.pipe = None /\ ctrl' = None /\ Held'.pipe = ctrl /\ Held'.on = FALSE
        /\ Held'.at = IF ctrl = None THEN "add" ELSE "cancel"
        /\ UNCHANGED <<cancelled, loop, session, conn>>
    BY <1>1, <1>2, CallBegins DEF Held, BeginHandler, HandlerPhases
  <2>2. HandlerPhases' /\ Current' = Current
    BY <1>1, <2>1, PointersAssumption DEF HandlerPhases
  <2> QED
    BY <1>1, <2>1, <2>2 DEF CurrentInv, CancelsReach, OneCurrent
<1>3. CASE Cancel
  <2>1. /\ Held.at = "cancel" /\ Held'.at = "grab" /\ Held'.pipe = Held.pipe /\ Held'.on = Held.on
        /\ cancelled' = [cancelled EXCEPT ![Held.pipe] = TRUE] /\ Held.pipe \in Pipes
        /\ UNCHANGED <<ctrl, loop, session, conn>>
    BY <1>1, <1>3, CallMoves DEF Held, Cancel, TypeOK, Points, ClientsOwned
  <2>2. HandlerPhases' /\ Current' = Current
    BY <1>1, <2>1 DEF HandlerPhases, TypeOK
  <2> QED
    BY <1>1, <2>1, <2>2 DEF CurrentInv, CancelsReach, OneCurrent, TypeOK
<1>4. CASE Wait
  <2>1. /\ Held.at = "wait" /\ Held'.at = "clear" /\ Held'.pipe = Held.pipe /\ Held'.on = Held.on
        /\ loop[Held.pipe] = "exited"
        /\ UNCHANGED <<ctrl, cancelled, loop, session, conn>>
    <3>1. Move("handler", "clear") /\ "clear" \in Points /\ call \in [Callers -> Calls]
      BY <1>1, <1>4 DEF Wait, Points, TypeOK
    <3> QED
      BY <1>1, <1>4, <3>1, CallMoves DEF Held, Wait, Exited
  <2>2. HandlerPhases' /\ Current' = Current
    BY <1>1, <2>1 DEF HandlerPhases, TypeOK
  <2> QED
    BY <1>1, <2>1, <2>2 DEF CurrentInv, CancelsReach, OneCurrent, TypeOK
<1>5. CASE ClearSource
  <2>1. /\ Held.at = "clear" /\ Held'.at = "add" /\ Held'.pipe = None
        /\ UNCHANGED <<ctrl, cancelled, loop, session, conn>>
    <3>1. /\ call' = [call EXCEPT !["handler"].pipe = None, !["handler"].at = "add"]
          /\ "add" \in Points /\ call \in [Callers -> Calls]
      BY <1>1, <1>5 DEF ClearSource, Points, TypeOK
    <3> QED
      BY <1>1, <1>5, <3>1, CallHoldsPipe DEF Held, ClearSource, Points
  <2>2. /\ ctrl = None /\ Current = Held.pipe /\ loop[Held.pipe] = "exited"
        /\ Current' = None
    BY <1>1, <2>1 DEF HandlerPhases
  <2>3. HandlerPhases'
    BY <1>1, <2>1 DEF HandlerPhases
  <2>4. OneCurrent' /\ CancelsReach'
    BY <1>1, <2>1, <2>2 DEF OneCurrent, CancelsReach
  <2> QED
    BY <1>5, <2>2, <2>3, <2>4 DEF CurrentInv
<1>6. CASE AddCamera
  <2>1. /\ Held.at = "add" /\ Held.pipe = None /\ ctrl = None /\ UNCHANGED <<session, conn>>
        /\ \/ Held'.at = "idle" /\ Held'.pipe = None
           \/ Held'.at = "set" /\ Held'.pipe = ctrl' /\ Held'.on /\ ctrl' \in Pipes
    BY <1>1, <1>6, CallAdds DEF Held, AddCamera, HandlerPhases
  <2>2. \/ UNCHANGED <<ctrl, loop, cancelled>>
        \/ \E p \in Pipes :
              /\ ctrl' = p
              /\ loop' = [loop EXCEPT ![p] = "top"]
              /\ cancelled' = [cancelled EXCEPT ![p] = FALSE]
    BY <1>6 DEF AddCamera
  <2>3. HandlerPhases'
    BY <1>1, <2>1, <2>2, PointersAssumption DEF HandlerPhases, TypeOK
  <2>4. Current = None /\ Current' = ctrl'
    BY <1>1, <2>1, <2>2, PointersAssumption
  <2>5. OneCurrent'
    BY <1>1, <2>2, <2>4, PointersAssumption DEF OneCurrent, TypeOK
  <2>6. CancelsReach'
    BY <1>1, <2>1, <2>2 DEF CancelsReach, TypeOK
  <2> QED
    BY <1>6, <2>3, <2>4, <2>5, <2>6 DEF CurrentInv
<1> QED
  BY <1>2, <1>3, <1>4, <1>5, <1>6

LEMMA CurrentStep == SessionInv /\ CurrentInv /\ [Next]_vars => CurrentInv'
<1> SUFFICES ASSUME SessionInv, CurrentInv, [Next]_vars PROVE CurrentInv'
  OBVIOUS
<1>1. ASSUME NEW p \in Pipes, Loop(p) \/ Packet(p) \/ SourceEnds(p) PROVE CurrentInv'
  BY <1>1, CurrentLoop
<1>2. CASE Toggle \/ \E on \in BOOLEAN : RequestToggle(on)
  BY <1>2, CurrentToggle
<1>3. CASE Caller("handler")
  BY <1>3, CurrentClose
<1>4. CASE BeginHandler \/ Cancel \/ Wait \/ ClearSource \/ AddCamera
  BY <1>4, CurrentHandler
<1>5. CASE UNCHANGED vars
  BY <1>5 DEF vars, pipeline, recorder, CurrentInv, HandlerPhases, CancelsReach, OneCurrent,
      Current, Held
<1> QED
  BY <1>1, <1>2, <1>3, <1>4, <1>5 DEF Next, Handler

\* Whatever is asked and wherever a Close panics, a pipeline that does not stand for the
\* camera has ended or is cancelled, and then it does not go live.
THEOREM CurrentHolds == Spec => [](SessionInv /\ CurrentInv)
  BY SessionInit, SessionStep, CurrentInit, CurrentStep, PTL DEF Spec

-----------------------------------------------------------------------------
(* The pipelines implement the contract.                                   *)

\* What the pipelines show of the variables of the contract.
Mode ==
    IF Current = None THEN "absent"
    ELSE IF paused[Current] /\ ~Pausing(Current) THEN "paused" ELSE "armed"

Streaming == \E p \in Pipes : Playing(p)

\* A camera streams only while it is armed.
StreamsArmed == Streaming => Mode = "armed"

LEMMA StreamsArmedHolds == SessionInv /\ CurrentInv => StreamsArmed
<1> SUFFICES ASSUME SessionInv, CurrentInv, NEW p \in Pipes, Playing(p) PROVE Mode = "armed"
  BY DEF Streaming, StreamsArmed
<1>1. loop[p] \in {"answer", "live"} /\ conn[session[p]] # "closed"
  BY DEF SessionInv, SessionsOwned, Playing, Starting, Connecting, Possible
<1>2. p = Current /\ Current # None
  <2>1. CASE cancelled[p]
    <3>1. Held.pipe = p /\ Held.at \in {"grab", "close"}
      BY <1>1, <2>1 DEF CurrentInv, CancelsReach
    <3> QED
      BY <3>1, PointersAssumption DEF CurrentInv, HandlerPhases, Current, Held
  <2>2. CASE ~cancelled[p]
    BY <1>1, <2>2, PointersAssumption DEF CurrentInv, OneCurrent
  <2> QED
    BY <2>1, <2>2
<1>3. paused[p] => Pausing(p)
  BY <1>1 DEF SessionInv, PausesReach, Playing, Pausing, Reaches
<1> QED
  BY <1>2, <1>3 DEF Mode

\* A step that arms the camera leaves the sessions alone, and a camera that is added
\* is armed.
LEMMA ModeStep ==
    ASSUME SessionInv, CurrentInv, Next
    PROVE  /\ Streaming' = Streaming \/ Mode' = Mode
           /\ Mode = "absent" => Mode' \in {"absent", "armed"}
<1> USE DEF pipeline, recorder
<1>1. ASSUME NEW p \in Pipes, Loop(p) \/ Packet(p) \/ SourceEnds(p) PROVE Mode' = Mode
  BY <1>1, CurrentLoop DEF Mode, Pausing
<1>2. ASSUME NEW c \in Callers, CloseClient(c), UNCHANGED Current PROVE Mode' = Mode
  <2>1. call \in [Callers -> Calls] /\ UNCHANGED paused
    BY <1>2 DEF SessionInv, TypeOK, CloseClient
  <2>2. \A d \in Callers :
            /\ call'[d].pipe = call[d].pipe /\ call'[d].on = call[d].on
            /\ call'[d].at \in {"grab", "close", "finalize"}
                   <=> call[d].at \in {"grab", "close", "finalize"}
    <3>1. /\ call' = [call EXCEPT ![c].client = None, ![c].at = "finalize"]
          /\ call[c].at = "close" /\ "finalize" \in Points
      BY <1>2 DEF CloseClient, At, Points
    <3>2. /\ call'[c].at = "finalize" /\ call'[c].pipe = call[c].pipe /\ call'[c].on = call[c].on
          /\ \A d \in Callers : d # c => call'[d] = call[d]
      BY <2>1, <3>1, CallHoldsClient
    <3> QED
      BY <3>1, <3>2
  <2>3. \A p : Pausing(p)' <=> Pausing(p)
    BY <2>2 DEF Pausing
  <2> QED
    BY <1>2, <2>1, <2>3 DEF Mode
<1>3. ASSUME NEW c \in Callers, Caller(c), ~CloseClient(c) PROVE UNCHANGED <<session, conn>>
  BY <1>3 DEF Caller, Grab, ClosePanics, CloseSegment, SetPaused
<1>4. ASSUME LockToggle \/ Lookup \/ \E on \in BOOLEAN : RequestToggle(on)
      PROVE  UNCHANGED <<session, conn>>
  BY <1>4 DEF LockToggle, Lookup, RequestToggle
<1>5. ASSUME BeginHandler \/ Cancel \/ Wait \/ ClearSource \/ AddCamera
      PROVE  UNCHANGED <<session, conn>>
  BY <1>5 DEF BeginHandler, Cancel, Wait, ClearSource, AddCamera
<1>6. \/ \E p \in Pipes : Loop(p) \/ Packet(p) \/ SourceEnds(p)
      \/ (Toggle \/ \E on \in BOOLEAN : RequestToggle(on))
      \/ Caller("handler")
      \/ (BeginHandler \/ Cancel \/ Wait \/ ClearSource \/ AddCamera)
  BY DEF Next, Handler
<1>7. Current' \in {Current, None} \/ AddCamera
  <2>1. CASE \E p \in Pipes : Loop(p) \/ Packet(p) \/ SourceEnds(p)
    BY <2>1, CurrentLoop
  <2>2. CASE Toggle \/ \E on \in BOOLEAN : RequestToggle(on)
    BY <2>2, CurrentToggle
  <2>3. CASE Caller("handler")
    BY <2>3, CurrentClose
  <2>4. CASE BeginHandler \/ Cancel \/ Wait \/ ClearSource \/ AddCamera
    BY <2>4, CurrentHandler
  <2> QED
    BY <1>6, <2>1, <2>2, <2>3, <2>4
<1>8. UNCHANGED <<session, conn>> \/ Mode' = Mode
  <2>1. CASE Caller("toggle") \/ Caller("handler")
    <3>1. CASE CloseClient("toggle") /\ Caller("toggle")
      BY <1>2, <3>1, CurrentToggle DEF Toggle, Callers
    <3>2. CASE CloseClient("handler") /\ Caller("handler")
      <4>1. ~ClosePanics("handler")
        BY <3>2 DEF ClosePanics, CloseClient
      <4> QED
        BY <1>2, <3>2, <4>1, CurrentClose DEF Callers
    <3> QED
      BY <1>3, <2>1, <3>1, <3>2 DEF Callers
  <2> QED
    BY <1>1, <1>4, <1>5, <1>6, <2>1 DEF Toggle
<1>9. CASE AddCamera
  <2>1. UNCHANGED session /\ UNCHANGED conn
    BY <1>9 DEF AddCamera
  <2>2. CASE ctrl' \in Pipes /\ ~paused'[ctrl']
    BY <2>1, <2>2, PointersAssumption DEF Mode, Current, Streaming, Playing
  <2>3. CASE UNCHANGED ctrl /\ Return("handler")
    <3>1. call'["handler"].pipe = None /\ ctrl = None
      BY <1>9, <2>3, CallReturns
      DEF Return, SessionInv, TypeOK, CurrentInv, HandlerPhases, Held,
          AddCamera, At, Callers
    <3> QED
      BY <2>1, <2>3, <3>1 DEF Mode, Current, Streaming, Playing
  <2>4. \/ UNCHANGED ctrl /\ Return("handler")
        \/ \E p \in Pipes : ctrl' = p /\ paused' = [paused EXCEPT ![p] = FALSE]
    BY <1>9 DEF AddCamera
  <2>5. paused \in [Pipes -> BOOLEAN]
    BY DEF SessionInv, TypeOK
  <2> QED
    BY <2>2, <2>3, <2>4, <2>5
<1> QED
  BY <1>7, <1>8, <1>9 DEF Streaming, Playing, Mode

\* Every step of the pipelines is a step of the contract or none.
LEMMA ContractStep ==
    ASSUME SessionInv, CurrentInv, StreamsArmed, StreamsArmed', [Next]_vars
    PROVE  [Contract!Next]_(Contract!vars)
<1>1. /\ Streaming \in BOOLEAN /\ Mode \in {"absent", "paused", "armed"}
      /\ Streaming' \in BOOLEAN /\ Mode' \in {"absent", "paused", "armed"}
  BY DEF Streaming, Mode
<1>2. /\ Streaming' = Streaming \/ Mode' = Mode
      /\ Mode = "absent" => Mode' \in {"absent", "armed"}
  <2>1. CASE Next
    BY <2>1, ModeStep
  <2>2. CASE UNCHANGED vars
    BY <1>1, <2>2 DEF vars, pipeline, recorder, Mode, Current, Pausing, Streaming, Playing
  <2> QED
    BY <2>1, <2>2
<1>3. \/ UNCHANGED <<Mode, Streaming>>
      \/ Mode = "absent" /\ Mode' = "armed" /\ UNCHANGED Streaming
      \/ Mode # "absent" /\ Mode' = "absent" /\ Streaming' = FALSE
      \/ Mode = "armed" /\ Mode' = "paused" /\ Streaming' = FALSE
      \/ Mode = "paused" /\ Mode' = "armed" /\ UNCHANGED Streaming
      \/ Mode = "armed" /\ ~Streaming /\ Streaming' = TRUE /\ UNCHANGED Mode
      \/ Streaming /\ Streaming' = FALSE /\ UNCHANGED Mode
  BY <1>1, <1>2 DEF StreamsArmed
<1> QED
  BY <1>3 DEF Contract!Next, Contract!vars, Contract!Add, Contract!Remove, Contract!Pause,
      Contract!Resume, Contract!Connect, Contract!Drop, Mode, Streaming

\* The pipelines implement what the engine promises of a camera: whatever the loop was
\* doing, no session plays once a pause or a removal has returned.
THEOREM ContractImplemented == Spec => Implements
<1>1. Init => Contract!Init
  BY DEF Init, Contract!Init, Current, Playing, NoCall, Callers
<1>2. SessionInv /\ CurrentInv /\ StreamsArmed /\ StreamsArmed' /\ [Next]_vars
          => [Contract!Next]_(Contract!vars)
  BY ContractStep
<1> QED
  BY <1>1, <1>2, CurrentHolds, StreamsArmedHolds, PTL DEF Spec, Implements, Contract!Spec

-----------------------------------------------------------------------------
(* One session at a time.  This part leaves out the panic of a Close that  *)
(* a handler calls before the client was started: it ends RemoveCamera     *)
(* before the loop was waited for.                                         *)

\* Only the current loop runs, and only it publishes.
LEMMA ServedLoop ==
    ASSUME SessionInv, CurrentInv, ServedInv, NEW p \in Pipes,
           Loop(p) \/ Packet(p) \/ SourceEnds(p)
    PROVE  ServedInv'
<1> USE DEF Goto, pipeline, recorder
<1>1. TypeOK /\ OneActive /\ RelayOwned /\ RemovedClosed
  BY DEF SessionInv, ServedInv
<1>2. Current' = Current
  BY CurrentLoop
<1>3. /\ loop[p] \notin {"absent", "exited"}
      /\ \A q \in Pipes : q # p => loop'[q] = loop[q] /\ session'[q] = session[q]
  BY <1>1, LoopRuns
<1>4. p = Current /\ OneActive'
  BY <1>1, <1>2, <1>3 DEF OneActive
<1>5. RelayOwned'
  <2> DEFINE Served == {"setup", "check", "play", "answer", "live", "finalize", "lost"}
  <2>1. /\ \A q \in Pipes : q # p => loop[q] \notin Served /\ loop'[q] \notin Served
        /\ relay # None => session[p] = relay /\ loop[p] \in Served
    BY <1>1, <1>3, <1>4 DEF OneActive, RelayOwned
  <2>2. /\ relayed'[p] /\ loop'[p] \in Served => relay' = session'[p]
        /\ relay' # None => session'[p] = relay' /\ loop'[p] \in Served
    <3>1. CASE Park(p) \/ Unpark(p) \/ Leave(p) \/ Backoff(p) \/ Describe(p) \/ Setup(p)
                 \/ WaitReturns(p)
      BY <1>1, <2>1, <3>1
      DEF TypeOK, RelayOwned, Park, Unpark, Leave, Backoff, Describe, Setup, WaitReturns
    <3>2. CASE PublishClient(p)
      BY <1>1, <2>1, <3>2 DEF TypeOK, RelayOwned, PublishClient
    <3>3. CASE Dial(p) \/ Check(p) \/ Play(p) \/ Answered(p) \/ Finalize(p)
      BY <1>1, <2>1, <3>3 DEF TypeOK, RelayOwned, Dial, Check, Play, Answered, Finalize
    <3>4. CASE PublishSource(p)
      BY <1>1, <2>1, <3>4 DEF TypeOK, PublishSource
    <3>5. CASE SourceLost(p) \/ Release(p) \/ EndStart(p) \/ Packet(p) \/ SourceEnds(p)
      BY <1>1, <2>1, <3>5
      DEF TypeOK, RelayOwned, SourceLost, Release, EndStart, Packet, SourceEnds
    <3> QED
      BY <3>1, <3>2, <3>3, <3>4, <3>5 DEF Loop
  <2> QED
    BY <2>1, <2>2 DEF RelayOwned
<1>6. RemovedClosed'
  <2>1. Held' = Held /\ UNCHANGED cancelled
    BY <1>1, CurrentLoop, LoopRuns DEF Held
  <2>2. \A q \in Pipes : loop'[q] = "exited" => loop[q] = "exited" \/ (q = p /\ cancelled[p])
    <3>1. loop'[p] = "exited" => cancelled[p]
      BY <1>1 DEF TypeOK, Loop, Park, Unpark, Leave, Backoff, Describe, Setup, WaitReturns,
          PublishClient, Dial, PublishSource, Check, Play, Answered, Finalize, SourceLost, Release,
          EndStart, Packet, SourceEnds, Streams
    <3> QED
      BY <1>3, <3>1
  <2>3. \A q \in Pipes : segment'[q] => segment[q] \/ (q = p /\ Packet(p))
    BY <1>1 DEF TypeOK, Loop, Park, Unpark, Leave, Backoff, Describe, Setup, WaitReturns,
        PublishClient, Dial, PublishSource, Check, Play, Answered, Finalize, SourceLost, Release,
        EndStart, Packet, SourceEnds
  <2>4. Packet(p) /\ cancelled[p] => Held.pipe = p /\ Held.at \in {"grab", "close"}
    BY DEF Packet, Streams, CurrentInv, CancelsReach
  <2> QED
    BY <1>1, <2>1, <2>2, <2>3, <2>4 DEF RemovedClosed
<1> QED
  BY <1>4, <1>5, <1>6 DEF ServedInv

\* RemoveCamera finalizes the segment after it has cancelled the pipeline and closed its
\* client.
LEMMA ClosedCalls ==
    ASSUME SessionInv, CurrentInv, RemovedClosed, "handler" \notin Panics,
           \/ Toggle \/ (\E on \in BOOLEAN : RequestToggle(on)) \/ Caller("handler")
           \/ BeginHandler \/ Cancel \/ Wait \/ ClearSource \/ AddCamera
    PROVE  RemovedClosed'
<1> USE DEF pipeline, recorder, At
<1>1. /\ TypeOK /\ call \in [Callers -> Calls] /\ "handler" \in Callers /\ "toggle" \in Callers
      /\ Held \in Calls /\ Held = call["handler"] /\ Held' = call'["handler"]
  BY DEF SessionInv, TypeOK, Callers, Held
<1>2. CASE Toggle \/ \E on \in BOOLEAN : RequestToggle(on)
  <2>1. UNCHANGED <<cancelled, loop>> /\ \A p \in Pipes : segment'[p] => segment[p]
    BY <1>1, <1>2 DEF TypeOK, Toggle, LockToggle, Lookup, RequestToggle, Caller, Grab, CloseClient,
        ClosePanics, CloseSegment, SetPaused
  <2>2. Held' = Held
    BY <1>1, <1>2 DEF Toggle, LockToggle, Lookup, RequestToggle, Caller, Grab, CloseClient,
        ClosePanics, CloseSegment, SetPaused, Move, Return
  <2> QED
    BY <2>1, <2>2 DEF RemovedClosed
<1>3. CASE Grab("handler") \/ CloseClient("handler")
  <2>1. /\ UNCHANGED <<cancelled, loop, segment>>
        /\ Held'.pipe = Held.pipe /\ Held'.at \in {"close", "finalize"}
    BY <1>1, <1>3 DEF Grab, CloseClient, Calls
  <2> QED
    BY <2>1 DEF RemovedClosed
<1>4. CASE CloseSegment("handler")
  <2>1. /\ UNCHANGED <<cancelled, loop>>
        /\ segment' = [segment EXCEPT ![Held.pipe] = FALSE]
    BY <1>1, <1>4 DEF CloseSegment
  <2> QED
    BY <1>1, <2>1 DEF RemovedClosed, TypeOK
<1>5. CASE SetPaused("handler") \/ BeginHandler \/ Wait \/ ClearSource
  <2>1. /\ UNCHANGED <<cancelled, loop, segment>>
        /\ Held.at \notin {"grab", "close", "finalize"}
    BY <1>1, <1>5 DEF SetPaused, BeginHandler, Wait, ClearSource
  <2> QED
    BY <2>1 DEF RemovedClosed
<1>6. CASE Cancel
  <2>1. /\ Held.at = "cancel" /\ Held'.at = "grab" /\ Held'.pipe = Held.pipe
        /\ cancelled' = [cancelled EXCEPT ![Held.pipe] = TRUE]
        /\ UNCHANGED <<loop, segment>>
    BY <1>1, <1>6, CallMoves DEF Cancel, Points
  <2> QED
    BY <1>1, <2>1 DEF RemovedClosed, TypeOK
<1>7. CASE AddCamera
  <2>1. /\ Held.at = "add"
        /\ \/ UNCHANGED <<cancelled, loop, segment>>
           \/ \E p \in Pipes :
                 /\ loop' = [loop EXCEPT ![p] = "top"]
                 /\ cancelled' = [cancelled EXCEPT ![p] = FALSE]
                 /\ segment' = [segment EXCEPT ![p] = FALSE]
    BY <1>1, <1>7 DEF AddCamera
  <2> QED
    BY <1>1, <2>1 DEF RemovedClosed, TypeOK
<1> QED
  BY <1>2, <1>3, <1>4, <1>5, <1>6, <1>7 DEF Caller, ClosePanics

\* A pipeline is added when the loop of the one before has exited.
LEMMA ServedCalls ==
    ASSUME SessionInv, CurrentInv, ServedInv, "handler" \notin Panics,
           \/ Toggle \/ (\E on \in BOOLEAN : RequestToggle(on)) \/ Caller("handler")
           \/ BeginHandler \/ Cancel \/ Wait \/ ClearSource \/ AddCamera
    PROVE  ServedInv'
<1> USE DEF pipeline, recorder
<1>1. TypeOK /\ OneActive /\ RelayOwned /\ RemovedClosed
  BY DEF SessionInv, ServedInv
<1>2. CASE \/ Toggle \/ (\E on \in BOOLEAN : RequestToggle(on)) \/ Caller("handler")
           \/ BeginHandler \/ Cancel \/ Wait
  <2>1. UNCHANGED <<loop, session, relayed, relay>>
    <3>1. CASE Toggle \/ \E on \in BOOLEAN : RequestToggle(on)
      BY <3>1 DEF Toggle, LockToggle, Lookup, RequestToggle, Caller, Grab, CloseClient,
          ClosePanics, CloseSegment, SetPaused
    <3>2. CASE Caller("handler")
      BY <3>2 DEF Caller, Grab, CloseClient, ClosePanics, CloseSegment, SetPaused
    <3>3. CASE BeginHandler \/ Cancel \/ Wait
      BY <3>3 DEF BeginHandler, Cancel, Wait
    <3> QED
      BY <1>2, <3>1, <3>2, <3>3
  <2>2. Current' = Current
    <3>1. CASE Toggle \/ \E on \in BOOLEAN : RequestToggle(on)
      BY <3>1, CurrentToggle
    <3>2. CASE Caller("handler")
      BY <3>2, CurrentClose DEF ClosePanics
    <3>3. CASE BeginHandler \/ Cancel \/ Wait
      <4>1. ~ClearSource /\ ~AddCamera
        BY <3>3 DEF BeginHandler, Cancel, Wait, ClearSource, AddCamera, At
      <4> QED
        BY <3>3, <4>1, CurrentHandler
    <3> QED
      BY <1>2, <3>1, <3>2, <3>3
  <2>3. RemovedClosed'
    BY <1>1, <1>2, ClosedCalls
  <2> QED
    BY <1>1, <2>1, <2>2, <2>3 DEF ServedInv, OneActive, RelayOwned
<1>3. CASE ClearSource
  <2>1. relay' = None /\ UNCHANGED <<loop, session, relayed>>
    BY <1>3 DEF ClearSource
  <2>2. ~AddCamera
    BY <1>3 DEF ClearSource, AddCamera, At
  <2>3. \A p \in Pipes : loop[p] \in {"absent", "exited"}
    BY <1>1, <1>3, <2>2, CurrentHandler, PointersAssumption
    DEF OneActive, CurrentInv, HandlerPhases, ClearSource, At, Held, Current
  <2> QED
    BY <1>1, <1>3, <2>1, <2>3, ClosedCalls DEF ServedInv, OneActive, RelayOwned
<1>4. CASE AddCamera
  <2>1. Current = None /\ Current' = ctrl'
    <3>1. ~ClearSource
      BY <1>4 DEF ClearSource, AddCamera, At
    <3>2. Current = None
      BY <1>4 DEF AddCamera, At, CurrentInv, HandlerPhases, Held, Current
    <3>3. ctrl' # None \/ (ctrl' = None /\ call'["handler"].pipe = None)
      BY <1>1, <1>4, CallAdds
    <3> QED
      BY <3>2, <3>3 DEF Current
  <2>2. \/ UNCHANGED <<ctrl, loop, relayed>>
        \/ \E p \in Pipes : ctrl' = p /\ loop' = [loop EXCEPT ![p] = "top"]
    BY <1>4 DEF AddCamera
  <2>3. \A p \in Pipes : loop[p] \in {"absent", "exited"}
    BY <1>1, <2>1, PointersAssumption DEF OneActive
  <2>4. /\ \A p \in Pipes : p # ctrl' => loop'[p] \in {"absent", "exited"}
        /\ \A p \in Pipes : loop'[p] \in {"absent", "exited", "top"}
    BY <1>1, <2>2, <2>3 DEF TypeOK
  <2>5. relay = None /\ relay' = relay
    BY <1>1, <1>4, <2>3 DEF RelayOwned, AddCamera
  <2> QED
    BY <1>1, <1>4, <2>1, <2>4, <2>5, ClosedCalls DEF ServedInv, OneActive, RelayOwned
<1> QED
  BY <1>2, <1>3, <1>4

LEMMA ServedStep ==
    ASSUME "handler" \notin Panics
    PROVE  SessionInv /\ CurrentInv /\ ServedInv /\ [Next]_vars => ServedInv'
<1> SUFFICES ASSUME SessionInv, CurrentInv, ServedInv, [Next]_vars PROVE ServedInv'
  OBVIOUS
<1>1. ASSUME NEW p \in Pipes, Loop(p) \/ Packet(p) \/ SourceEnds(p) PROVE ServedInv'
  BY <1>1, ServedLoop
<1>2. CASE \/ Toggle \/ (\E on \in BOOLEAN : RequestToggle(on)) \/ Caller("handler")
           \/ BeginHandler \/ Cancel \/ Wait \/ ClearSource \/ AddCamera
  BY <1>2, ServedCalls
<1>3. CASE UNCHANGED vars
  BY <1>3 DEF vars, pipeline, recorder, ServedInv, OneActive, RelayOwned,
      RemovedClosed, Held, Current
<1> QED
  BY <1>1, <1>2, <1>3 DEF Next, Handler

\* No handler's Close panics: then what does not stand for the camera has ended, and
\* the relay serves the one Start in progress.
THEOREM ServedHold ==
    ASSUME "handler" \notin Panics
    PROVE  Spec => [](SessionInv /\ CurrentInv /\ ServedInv)
  BY CurrentInit, ServedStep, CurrentHolds, PTL DEF Spec

\* The camera has one session with the server at a time and the relay serves it: an
\* update adds the new pipeline only when the loop of the old one has exited, and a
\* removed pipeline leaves nothing running.
THEOREM OneSessionServedHolds ==
    ASSUME "handler" \notin Panics
    PROVE  Spec => []OneSessionServed
<1>1. SessionInv /\ CurrentInv /\ ServedInv => OneSessionServed
  <2> SUFFICES ASSUME SessionInv, ServedInv PROVE OneSessionServed
    OBVIOUS
  <2>1. \A p \in Pipes : session[p] # None => p = Current
    BY DEF SessionInv, ServedInv, SessionsOwned, OneActive, Starting, Connecting
  <2>2. OneSession
    BY <2>1, PointersAssumption DEF SessionInv, SessionsOwned, OneSession
  <2>3. RelayFollowsSession
    <3>1. \A p \in Pipes : Playing(p) => loop[p] \in {"answer", "live"}
      BY DEF SessionInv, SessionsOwned, Playing, Starting, Connecting, Possible
    <3> QED
      BY <3>1 DEF ServedInv, RelayOwned, RelayFollowsSession
  <2>4. RemovedIsGone
    <3> SUFFICES ASSUME NEW p \in Pipes, p # ctrl, call["handler"].pipe # p
                 PROVE  loop[p] \in {"absent", "exited"} /\ ~segment[p] /\ ~Playing(p)
      BY DEF RemovedIsGone
    <3>1. p # Current
      BY DEF Current
    <3>2. loop[p] \in {"absent", "exited"} /\ ~Playing(p)
      BY <2>1, <3>1 DEF ServedInv, OneActive, Playing
    <3>3. segment[p] => cancelled[p]
      BY <3>2 DEF SessionInv, SegmentOfSession, ServedInv, RemovedClosed
    <3> QED
      BY <3>2, <3>3 DEF ServedInv, RemovedClosed, Held
  <2> QED
    BY <2>2, <2>3, <2>4 DEF OneSessionServed
<1> QED
  BY <1>1, ServedHold, PTL
=============================================================================
