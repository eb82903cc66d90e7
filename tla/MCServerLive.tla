---------------------------- MODULE MCServerLive ----------------------------
(***************************************************************************)
(* A small instance of two parts of the HTTP server that share no state:   *)
(* the privacy state under its fairness (PrivacyControl), and the throttle *)
(* of password checks (AuthThrottle).  A behavior is one of one of them.   *)
(* The fairness is about the first: a behavior of the throttle satisfies   *)
(* no liveness property here, only safety.                                 *)
(***************************************************************************)
EXTENDS PrivacyControl, AuthThrottle

VARIABLE part       \* the component of this behavior

LiveInit ==
    /\ part \in {"privacy", "throttle"}
    /\ Init /\ ThrInit
    /\ part # "privacy" => camera = "absent" /\ ~window /\ ~lens

LiveNext ==
    \/ part = "privacy" /\ Next /\ UNCHANGED <<thrVars, part>>
    \/ part = "throttle" /\ ThrNext /\ UNCHANGED <<vars, part>>

LiveSpec == LiveInit /\ [][LiveNext]_<<vars, thrVars, part>> /\ Fairness
=============================================================================
