------------------------------ MODULE MCServer ------------------------------
(***************************************************************************)
(* A small instance of the parts of the HTTP server that share no state    *)
(* with each other: the privacy state (PrivacyControl), the accounts       *)
(* (Accounts), the downloads of recordings (Playback), the records kept of *)
(* a camera (CameraRecords) and a recording program (ScheduleWindows).  A  *)
(* behavior is one of one of them.                                         *)
(***************************************************************************)
EXTENDS MCPrivacyControl, Accounts, Playback, CameraRecords, ScheduleWindows

VARIABLE part       \* the component of this behavior

\* Programs of at most two windows: a minute is armed by each on its own.
SchedPairs == {{}} \cup {{e, f} : e, f \in SchedEntry}

RegOff == RegInit /\ regSched = {} /\ \A id \in RegIds : regRow[id] = RegNone

\* Bound: a third request to the accounts comes only where nothing has aged.
AcctBound == acctTicks' = 0 \/ acctReq'[AcctCalls] = AcctIdle

\* Bound: motions are reported only where there is no recording program.  The
\* two have a camera's row in common and no more.
RegBound == regReported' = 0 \/ regSched' = {}

ServerInit ==
    /\ part \in {"privacy", "accounts", "download", "records", "schedule"}
    /\ Init /\ AcctInit /\ SchedInit
    /\ part # "privacy" => camera = "absent" /\ ~window /\ ~lens
    /\ IF part = "download" THEN PlayInit ELSE PlayOff
    /\ IF part = "records" THEN RegInit ELSE RegOff

ServerNext ==
    \/ part = "privacy" /\ Next /\ UNCHANGED <<acctVars, playVars, regVars, schedVars, part>>
    \/ part = "accounts" /\ AcctNext /\ AcctBound /\ UNCHANGED <<vars, playVars, regVars, schedVars, part>>
    \/ part = "download" /\ PlayNext /\ UNCHANGED <<vars, acctVars, regVars, schedVars, part>>
    \/ part = "records" /\ RegNext /\ RegBound /\ UNCHANGED <<vars, acctVars, playVars, schedVars, part>>
    \/ part = "schedule" /\ SchedNext /\ UNCHANGED <<vars, acctVars, playVars, regVars, part>>
=============================================================================
