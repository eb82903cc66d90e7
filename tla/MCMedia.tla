------------------------------ MODULE MCMedia ------------------------------
(***************************************************************************)
(* Small instances of CameraPipeline and of ReleaseStore for TLC.  The two *)
(* share no state in the program; a behavior is one of one of them, so     *)
(* that the other's variables stay as they are.  The releases have two     *)
(* variants, each with the filename the CI uses for it in every release.   *)
(***************************************************************************)
EXTENDS CameraPipeline, ReleaseStore

VARIABLE part       \* the component of this behavior

A == [variant |-> "a", name |-> "a.apk"]
B == [variant |-> "b", name |-> "b.apk"]

UploadsOneName == {<<A>>, <<B>>, <<A, B>>}

MediaInit ==
    /\ part \in {"pipeline", "releases"}
    /\ Init
    /\ IF part = "releases" THEN RelInit ELSE RelOff

MediaNext ==
    \/ part = "pipeline" /\ Next /\ UNCHANGED <<relVars, part>>
    \/ part = "releases" /\ RelNext /\ UNCHANGED <<vars, part>>

mediaVars == <<vars, relVars, part>>

MediaSpec == MediaInit /\ [][MediaNext]_mediaVars /\ RelFairness
=============================================================================
