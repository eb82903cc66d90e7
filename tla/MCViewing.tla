------------------------------ MODULE MCViewing ------------------------------
(***************************************************************************)
(* A small instance of the parts around one camera's stream that share no  *)
(* state: what its samples become on disk (SamplePath), the live stream of *)
(* browsers (LiveStream) and push-to-talk (TalkSession).  A behavior is    *)
(* one of one part; the others are off and never move.                     *)
(***************************************************************************)
EXTENDS LiveStream, TalkSession, SamplePath

Init ==
    \/ LiveInit /\ TalkOff /\ PathOff
    \/ LiveOff /\ TalkInit /\ PathOff
    \/ LiveOff /\ TalkOff /\ PathInit

Next ==
    \/ LiveNext /\ UNCHANGED <<talkVars, pathVars>>
    \/ TalkNext /\ UNCHANGED <<liveVars, pathVars>>
    \/ PathNext /\ UNCHANGED <<liveVars, talkVars>>

vars == <<liveVars, talkVars, pathVars>>

FairSpec == Init /\ [][Next]_vars /\ LiveFairness /\ TalkFairness
=============================================================================
