--------------------------- MODULE ScheduleWindows ---------------------------
(***************************************************************************)
(* A recording program: per weekday the windows in which its cameras are   *)
(* armed (schedule/schedule.go), stored by the handlers of schedules and   *)
(* evaluated at each minute (server/handlers_schedules.go).                *)
(*                                                                         *)
(* A client writes a set of entries: a weekday key in lower case or not,   *)
(* and a window of minutes.  The order of a day's windows does not matter  *)
(* to what is armed and is left out, as is their text.  PrivacyControl     *)
(* takes what the program says as given and models when it is applied.     *)
(*                                                                         *)
(* Every name here starts with Sched or sched.                             *)
(***************************************************************************)
EXTENDS Integers

CONSTANTS
    SchedDay,       \* minutes of a day
    SchedKeys,      \* the days a client writes windows for
    SchedBodies,    \* the requests: sets of entries
    SchedWrites     \* bound: requests that are accepted

\* The key of a day that there is not.
SchedNoDay == 7

VARIABLES
    schedRules,     \* the stored rules: the windows of each weekday
    schedAsked,     \* history: the entries of the last request that was accepted
    schedNow,       \* the weekday and the minute of it
    schedWritten    \* requests accepted so far

schedVars == <<schedRules, schedAsked, schedNow, schedWritten>>

SchedDays == 0..6
SchedMinutes == 0..SchedDay - 1
SchedWindow == {w \in [start : SchedMinutes, end : 1..SchedDay] : w.start # w.end}
SchedEntry == [day : SchedKeys, upper : BOOLEAN, start : 0..SchedDay, end : 0..SchedDay]

ASSUME SchedAssumption ==
    /\ SchedDay \in Nat \ {0}
    /\ SchedKeys \subseteq 0..SchedNoDay
    /\ SchedBodies \subseteq SUBSET SchedEntry
    /\ SchedWrites \in Nat

-----------------------------------------------------------------------------
\* parseInterval
SchedParses(e) == e.start < SchedDay /\ e.end # 0 /\ e.start # e.end

\* Validate
SchedValid(body) == \A e \in body : e.day \in SchedDays /\ SchedParses(e)

\* Normalize folds the keys of a day.  (The faulty form looks up only the lowercase
\* ones.)
FaultySchedNormalize(body) ==
    [d \in SchedDays |-> {[start |-> e.start, end |-> e.end] :
                              e \in {f \in body : f.day = d /\ ~f.upper}}]
SchedNormalize(body) ==
    [d \in SchedDays |-> {[start |-> e.start, end |-> e.end] : e \in {f \in body : f.day = d}}]

SchedWraps(w) == w.end < w.start

\* Active: a window of today, or one of yesterday that wraps into today.  (The
\* faulty form has no day before Sunday.)
FaultySchedYesterday(d) == IF d = 0 THEN 0 ELSE d - 1
SchedYesterday(d) == (d + 6) % 7

SchedActive(rules, now) ==
    \/ \E w \in rules[now.day] :
        w.start <= now.minute /\ (SchedWraps(w) \/ now.minute < w.end)
    \/ \E w \in rules[SchedYesterday(now.day)] :
        SchedWraps(w) /\ now.minute < w.end

-----------------------------------------------------------------------------
SchedInit ==
    /\ schedRules = [d \in SchedDays |-> {}] /\ schedAsked = {}
    /\ schedNow = [day |-> 0, minute |-> 0] /\ schedWritten = 0

\* A request creates or replaces the program; one that does not parse changes nothing.
SchedWrite(body) ==
    /\ SchedValid(body)
    /\ schedWritten' = schedWritten + 1
    /\ schedRules' = SchedNormalize(body) /\ schedAsked' = body
    /\ UNCHANGED schedNow

SchedMinute ==
    /\ schedNow' = IF schedNow.minute + 1 < SchedDay
                   THEN [schedNow EXCEPT !.minute = @ + 1]
                   ELSE [day |-> (schedNow.day + 1) % 7, minute |-> 0]
    /\ UNCHANGED <<schedRules, schedAsked, schedWritten>>

SchedNext ==
    \/ schedWritten < SchedWrites /\ \E body \in SchedBodies : SchedWrite(body)
    \/ SchedMinute

SchedSpec == SchedInit /\ [][SchedNext]_schedVars

SchedTypeOK ==
    /\ schedRules \in [SchedDays -> SUBSET SchedWindow]
    /\ schedAsked \subseteq SchedEntry /\ SchedValid(schedAsked)
    /\ schedNow \in [day : SchedDays, minute : SchedMinutes]
    /\ schedWritten \in 0..SchedWrites

-----------------------------------------------------------------------------
(* What a program means: the week is a circle of minutes, and a window arms *)
(* the minutes from its start on, as many as it lasts.                      *)

SchedWeek == 7 * SchedDay
SchedMoment(now) == now.day * SchedDay + now.minute
SchedLasts(w) == IF w.start < w.end THEN w.end - w.start ELSE w.end + SchedDay - w.start

SchedCovers(d, w, now) ==
    \E moment \in {SchedMoment(now), SchedMoment(now) + SchedWeek} :
        /\ d * SchedDay + w.start <= moment
        /\ moment < d * SchedDay + w.start + SchedLasts(w)

SchedMeans(body, now) == \E e \in body : SchedCovers(e.day, e, now)

\* The cameras of a program are armed exactly in the windows that the last accepted
\* request asked for: half-open, past midnight and past the end of the week when they
\* end before they start, whatever the case of their keys.
SchedAsAsked == SchedActive(schedRules, schedNow) <=> SchedMeans(schedAsked, schedNow)
=============================================================================
