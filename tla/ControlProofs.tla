---------------------------- MODULE ControlProofs ----------------------------
(***************************************************************************)
(* Three proofs about what the server keeps of its cameras.  What a        *)
(* recording program arms, for days of any length and any windows: the     *)
(* two-day rule of Active is the circle of the week (ScheduleWindows).     *)
(* That the engine does what the server's privacy state says, for any      *)
(* number of requests and seeds: PrivInv says where each goroutine can be, *)
(* which of the two locks it holds there, and what is on its way to the    *)
(* engine (PrivacyControl).  And, for any number of cameras, programs,     *)
(* events and requests, that what is kept of a camera agrees with its row, *)
(* and no acknowledged motion is lost or inherited (CameraRecords).        *)
(***************************************************************************)
EXTENDS ScheduleWindows, PrivacyControl, CameraRecords, TLAPS

-----------------------------------------------------------------------------
(* ScheduleWindows.                                                        *)

SchedIInv == SchedTypeOK /\ schedRules = SchedNormalize(schedAsked)

\* A day of the week and the day after it, in minutes.  Days are few, so that each
\* pair is a case of its own and the product with the length of a day is linear.
LEMMA SchedDistance ==
    ASSUME NEW d \in SchedDays, NEW now \in [day : SchedDays, minute : SchedMinutes]
    PROVE  LET at == SchedMoment(now) - d * SchedDay
           IN \/ now.day = d /\ at = now.minute
              \/ /\ d = SchedYesterday(now.day) /\ now.day # d
                 /\ (at = now.minute + SchedDay \/ at + SchedWeek = now.minute + SchedDay)
              \/ /\ now.day # d /\ d # SchedYesterday(now.day)
                 /\ (at >= 2 * SchedDay \/ (at < 0 /\ at + SchedWeek >= 2 * SchedDay))
<1> DEFINE n == now.day
<1>1. n \in 0..6 /\ d \in 0..6 /\ now.minute \in Int /\ 0 <= now.minute /\ now.minute < SchedDay
      /\ SchedDay \in Int /\ SchedDay > 0
  BY SchedAssumption DEF SchedDays, SchedMinutes
<1>2. n = 0 \/ n = 1 \/ n = 2 \/ n = 3 \/ n = 4 \/ n = 5 \/ n = 6
  BY <1>1
<1>3. d = 0 \/ d = 1 \/ d = 2 \/ d = 3 \/ d = 4 \/ d = 5 \/ d = 6
  BY <1>1
<1> QED
  BY <1>1, <1>2, <1>3 DEF SchedMoment, SchedWeek, SchedYesterday

\* One window: the circle arms what one of the two rules of Active does.
LEMMA SchedOneWindow ==
    ASSUME NEW d \in SchedDays, NEW w, w.start \in SchedMinutes, w.end \in 1..SchedDay,
           w.start # w.end, NEW now \in [day : SchedDays, minute : SchedMinutes]
    PROVE  SchedCovers(d, w, now) <=>
               \/ now.day = d /\ w.start <= now.minute
                  /\ (SchedWraps(w) \/ now.minute < w.end)
               \/ d = SchedYesterday(now.day) /\ SchedWraps(w) /\ now.minute < w.end
<1> DEFINE at == SchedMoment(now) - d * SchedDay
<1>1. /\ w.start \in Int /\ 0 <= w.start /\ w.start < SchedDay
      /\ w.end \in Int /\ 0 < w.end /\ w.end <= SchedDay
      /\ now.minute \in Int /\ 0 <= now.minute /\ now.minute < SchedDay
      /\ now.day \in Int /\ d \in Int /\ SchedDay \in Int /\ SchedDay > 0
  BY SchedAssumption DEF SchedDays, SchedMinutes
<1>2. d * SchedDay \in Int /\ now.day * SchedDay \in Int
  BY <1>1
<1>3. at \in Int /\ SchedMoment(now) \in Int /\ SchedWeek \in Int
  BY <1>1, <1>2 DEF SchedMoment, SchedWeek
<1>4. SchedLasts(w) \in Int /\ w.start + SchedLasts(w) = IF SchedWraps(w) THEN w.end + SchedDay ELSE w.end
  BY <1>1 DEF SchedLasts, SchedWraps
<1>5. SchedCovers(d, w, now) <=> \/ w.start <= at /\ at < w.start + SchedLasts(w)
                                 \/ w.start <= at + SchedWeek /\ at + SchedWeek < w.start + SchedLasts(w)
  <2> DEFINE base == d * SchedDay
             moment == SchedMoment(now)
             InIt(m) == base + w.start <= m /\ m < base + w.start + SchedLasts(w)
  <2>1. base \in Int /\ moment \in Int /\ SchedWeek \in Int /\ w.start \in Int /\ SchedLasts(w) \in Int
    BY <1>1, <1>2, <1>3, <1>4
  <2>2. at = moment - base
    OBVIOUS
  <2>3. SchedCovers(d, w, now) <=> InIt(moment) \/ InIt(moment + SchedWeek)
    BY Zenon DEF SchedCovers
  <2> HIDE DEF base, moment, at
  <2>4. InIt(moment) <=> w.start <= at /\ at < w.start + SchedLasts(w)
    BY <2>1, <2>2
  <2>5. InIt(moment + SchedWeek) <=>
            w.start <= at + SchedWeek /\ at + SchedWeek < w.start + SchedLasts(w)
    BY <2>1, <2>2
  <2> QED
    BY <2>3, <2>4, <2>5
<1>6. SchedWeek = 7 * SchedDay
  BY DEF SchedWeek
<1> HIDE DEF at
<1>7. CASE now.day = d /\ at = now.minute
  <2>1. d # SchedYesterday(now.day)
    BY <1>7, <1>1 DEF SchedYesterday, SchedDays
  <2> QED
    BY <1>1, <1>3, <1>4, <1>5, <1>6, <1>7, <2>1 DEF SchedWraps
<1>8. CASE /\ d = SchedYesterday(now.day) /\ now.day # d
           /\ (at = now.minute + SchedDay \/ at + SchedWeek = now.minute + SchedDay)
  BY <1>1, <1>3, <1>4, <1>5, <1>6, <1>8 DEF SchedWraps
<1>9. CASE /\ now.day # d /\ d # SchedYesterday(now.day)
           /\ (at >= 2 * SchedDay \/ (at < 0 /\ at + SchedWeek >= 2 * SchedDay))
  BY <1>1, <1>3, <1>4, <1>5, <1>6, <1>9 DEF SchedWraps
<1> QED
  BY <1>7, <1>8, <1>9, SchedDistance DEF at

\* Whatever is asked for, once it is valid: the stored rules are well formed, and they
\* arm what the request means.
LEMMA SchedNormalTypes ==
    ASSUME NEW body \in SUBSET SchedEntry, SchedValid(body)
    PROVE  SchedNormalize(body) \in [SchedDays -> SUBSET SchedWindow]
<1> SUFFICES ASSUME NEW d \in SchedDays, NEW e \in body
             PROVE  [start |-> e.start, end |-> e.end] \in SchedWindow
  BY DEF SchedNormalize
<1>1. e.start \in 0..SchedDay /\ e.end \in 0..SchedDay /\ SchedParses(e)
  BY DEF SchedEntry, SchedValid
<1> QED
  BY <1>1, SchedAssumption DEF SchedParses, SchedWindow, SchedMinutes

THEOREM ActiveMeansAsked ==
    ASSUME NEW body \in SUBSET SchedEntry, SchedValid(body),
           NEW now \in [day : SchedDays, minute : SchedMinutes]
    PROVE  SchedActive(SchedNormalize(body), now) <=> SchedMeans(body, now)
<1>1. \A e \in body : /\ e.day \in SchedDays /\ e.start \in SchedMinutes
                      /\ e.end \in 1..SchedDay /\ e.start # e.end
  BY SchedAssumption DEF SchedEntry, SchedValid, SchedParses, SchedMinutes
<1>2. now.day \in SchedDays /\ SchedYesterday(now.day) \in SchedDays
  BY DEF SchedDays, SchedYesterday
<1>3. \A e \in body : SchedCovers(e.day, e, now) <=>
          \/ now.day = e.day /\ e.start <= now.minute /\ (SchedWraps(e) \/ now.minute < e.end)
          \/ e.day = SchedYesterday(now.day) /\ SchedWraps(e) /\ now.minute < e.end
  BY <1>1, SchedOneWindow
<1>4. \A d \in SchedDays : SchedNormalize(body)[d] =
          {[start |-> e.start, end |-> e.end] : e \in {f \in body : f.day = d}}
  BY DEF SchedNormalize
<1>5. SchedActive(SchedNormalize(body), now) <=>
          \/ \E e \in body : e.day = now.day /\ e.start <= now.minute /\ (SchedWraps(e) \/ now.minute < e.end)
          \/ \E e \in body : e.day = SchedYesterday(now.day) /\ SchedWraps(e) /\ now.minute < e.end
  <2> DEFINE Today(w) == w.start <= now.minute /\ (SchedWraps(w) \/ now.minute < w.end)
             Before(w) == SchedWraps(w) /\ now.minute < w.end
             Win(e) == [start |-> e.start, end |-> e.end]
  <2>1. \A e : (Today(Win(e)) <=> Today(e)) /\ (Before(Win(e)) <=> Before(e))
    BY DEF SchedWraps
  <2>2. \A d \in SchedDays : SchedNormalize(body)[d] = {Win(e) : e \in {f \in body : f.day = d}}
    BY <1>4
  <2>3. SchedActive(SchedNormalize(body), now) <=>
            \/ \E w \in SchedNormalize(body)[now.day] : Today(w)
            \/ \E w \in SchedNormalize(body)[SchedYesterday(now.day)] : Before(w)
    BY DEF SchedActive
  <2> HIDE DEF Today, Before, Win
  <2>4. (\E w \in SchedNormalize(body)[now.day] : Today(w)) <=>
            \E e \in body : e.day = now.day /\ Today(e)
    BY <1>2, <2>1, <2>2
  <2>5. (\E w \in SchedNormalize(body)[SchedYesterday(now.day)] : Before(w)) <=>
            \E e \in body : e.day = SchedYesterday(now.day) /\ Before(e)
    BY <1>2, <2>1, <2>2
  <2> QED
    BY <2>3, <2>4, <2>5 DEF Today, Before
<1> QED
  BY <1>3, <1>5 DEF SchedMeans

-----------------------------------------------------------------------------
\* The stored rules are always those of the last accepted request, well formed.
LEMMA SchedInvariant == SchedSpec => []SchedIInv
<1>1. SchedInit => SchedIInv
  <2> SUFFICES ASSUME SchedInit PROVE SchedIInv
    OBVIOUS
  <2>1. schedRules = SchedNormalize(schedAsked)
    BY DEF SchedInit, SchedNormalize
  <2>2. SchedValid(schedAsked) /\ schedAsked \subseteq SchedEntry
    BY DEF SchedInit, SchedValid
  <2>3. schedNow \in [day : SchedDays, minute : SchedMinutes]
    BY SchedAssumption DEF SchedInit, SchedDays, SchedMinutes
  <2>4. schedRules \in [SchedDays -> SUBSET SchedWindow]
    BY <2>1, <2>2, SchedNormalTypes
  <2>5. schedWritten \in 0..SchedWrites
    BY SchedAssumption DEF SchedInit
  <2> QED
    BY <2>1, <2>2, <2>3, <2>4, <2>5 DEF SchedIInv, SchedTypeOK
<1>2. SchedIInv /\ [SchedNext]_schedVars => SchedIInv'
  <2> SUFFICES ASSUME SchedIInv, [SchedNext]_schedVars PROVE SchedIInv'
    OBVIOUS
  <2>1. ASSUME NEW body \in SchedBodies, SchedWrite(body), schedWritten < SchedWrites
         PROVE SchedIInv'
    <3>1. body \subseteq SchedEntry
      BY SchedAssumption
    <3>2. SchedNormalize(body) \in [SchedDays -> SUBSET SchedWindow]
      BY <2>1, <3>1, SchedNormalTypes DEF SchedWrite
    <3> QED
      BY <2>1, <3>1, <3>2, SchedAssumption DEF SchedWrite, SchedIInv, SchedTypeOK
  <2>2. CASE SchedMinute
    <3>1. schedNow' \in [day : SchedDays, minute : SchedMinutes]
      BY <2>2, SchedAssumption DEF SchedMinute, SchedIInv, SchedTypeOK, SchedDays, SchedMinutes
    <3> QED
      BY <2>2, <3>1 DEF SchedMinute, SchedIInv, SchedTypeOK
  <2>3. CASE UNCHANGED schedVars
    BY <2>3 DEF schedVars, SchedIInv, SchedTypeOK
  <2> QED
    BY <2>1, <2>2, <2>3 DEF SchedNext
<1> QED
  BY <1>1, <1>2, PTL DEF SchedSpec

\* A program arms exactly the windows of the last accepted request, at every minute
\* of every week, for days of any length (parseInterval, Normalize, compile, Active).
THEOREM ArmedAsAsked == SchedSpec => []SchedAsAsked
<1>1. SchedIInv => SchedAsAsked
  BY ActiveMeansAsked DEF SchedIInv, SchedTypeOK, SchedAsAsked
<1> QED
  BY <1>1, SchedInvariant, PTL

-----------------------------------------------------------------------------
(* PrivacyControl.                                                         *)

\* No request and no seed is between its lock and its end for a camera that is gone.
Buried == camera = "absent" => op = "free"

RequestPoints == {"idle", "lock", "firmware", "record", "apply"}
SeedPoints == {"idle", "configuration", "generation", "fetch", "check", "lock", "write", "apply"}
TickPoints == {"idle", "evaluate", "relock", "apply"}
BootPoints == {"idle", "read", "apply", "unlock"}
ChangePoints == {"lock", "remove", "add", "publish", "bump", "drop", "restore", "pause", "unlock"}

PrivTypes ==
    /\ camera \in Cameras
    /\ manual \in BOOLEAN /\ off \in BOOLEAN /\ attached \in BOOLEAN
    /\ pipe \in {"absent", "armed", "paused"}
    /\ window \in BOOLEAN /\ lens \in BOOLEAN /\ asked \in BOOLEAN
    /\ mutate \in {"scheduler", "handler", "free"} /\ op \in Goroutines \cup {"free"}
    /\ proc \in [Goroutines -> Procs]
    /\ count \in [requests : 0..MaxRequests, mutations : 0..MaxMutations,
                    windows : 0..MaxWindows, switches : 0..MaxSwitches]

\* Where each goroutine can be, and what of the camera a handler has yet to write.
PlacesInv ==
    /\ \A r \in Requests : proc[r].at \in RequestPoints
    /\ \A s \in Seeds : proc[s].at \in SeedPoints /\ (proc[s].at # "idle" => Thingino)
    /\ proc["scheduler"].at \in TickPoints /\ proc["boot"].at \in BootPoints
    /\ proc["handler"].at \in ChangePoints \cup TickPoints
    /\ attached <=> proc["boot"].at # "idle"
HandlerInv ==
    LET h == proc["handler"] IN
    /\ h.at \in {"lock", "add", "restore", "pause", "unlock"} => h.target # "absent"
    /\ h.at \in {"lock", "remove"} => camera # "absent"
    /\ h.at = "publish" => camera # "absent" \/ h.target # "absent"
    /\ h.at \in {"bump", "drop", "restore", "pause", "unlock"} => camera = h.target
    /\ h.at \in {"restore", "pause"} => camera = "capable" /\ h.was

\* Who holds the two locks.
Updating ==
    LET h == proc["handler"] IN
    /\ h.target # "absent"
    /\ \/ h.at \in {"remove", "bump", "drop", "restore", "pause", "unlock"}
       \/ h.at \in {"add", "publish"} /\ camera # "absent"
LocksInv ==
    /\ \A r \in Requests : op = r <=> proc[r].at \in {"firmware", "record", "apply"}
    /\ \A s \in Seeds : op = s <=> proc[s].at \in {"write", "apply"}
    /\ op = "scheduler" <=> At("scheduler", "apply")
    /\ op = "handler" <=> At("handler", "apply") \/ Updating
    /\ op # "boot"
    /\ mutate = "scheduler" <=> ~At("scheduler", "idle")
    /\ mutate = "handler" <=> ~At("handler", "idle")

\* The camera has a pipeline when it is enabled, but for a handler between the two.
PipeInv ==
    LET h == proc["handler"] IN
    /\ h.at \notin {"add", "publish"} => (pipe # "absent" <=> camera \in Enabled)
    /\ h.at = "add" => pipe = "absent"
    /\ h.at = "publish" => (pipe # "absent" <=> h.target \in Enabled)
    /\ h.at \in {"add", "publish", "bump", "drop", "restore", "pause"} => pipe # "paused"
    /\ h.at = "restore" => ~manual
    /\ h.at = "pause" => manual
    /\ h.at \in {"restore", "pause", "unlock"} => ~off
    /\ camera = "absent" /\ h.at \notin {"bump", "drop"} => ~manual /\ ~off

\* Until the engine is attached and has been told, only one seed is under way, and
\* privacy that is on in the map is on its way to the engine.
BootInv ==
    ~Booted =>
        /\ \A r \in Requests : At(r, "idle")
        /\ At("scheduler", "idle") /\ At("handler", "idle") /\ ~off /\ ~asked
        /\ \A s, t \in Seeds : ~At(s, "idle") /\ ~At(t, "idle") => s = t
        /\ \A s \in Seeds : proc[s].at \notin {"idle", "apply"} => ~manual
        /\ \A s \in Seeds : At(s, "apply") => (proc[s].on <=> manual)
        /\ pipe = "paused" => manual
        /\ At("boot", "apply") /\ proc["boot"].on => manual
        /\ attached /\ manual =>
            \/ pipe # "armed" \/ At("boot", "read")
            \/ (At("boot", "apply") /\ proc["boot"].on)
            \/ \E s \in Seeds : At(s, "apply")

\* What a goroutine carries to the engine is what the map says, unless the schedule has
\* changed meanwhile and comes after it; and with nothing on its way the engine has it.
Later == At("scheduler", "relock") \/ At("handler", "relock")
Carried(g) == proc[g].on <=> manual \/ off
CarryInv ==
    Booted =>
        /\ \A g \in Requests \cup Seeds : At(g, "apply") => Carried(g) \/ Later
        /\ \A g \in {"scheduler", "handler"} : At(g, "apply") => Carried(g)
MatchInv ==
    \/ ~Booted \/ Later \/ pipe = "absent"
    \/ \E g \in Goroutines \ {"boot"} : At(g, "apply")
    \/ proc["handler"].at \in {"remove", "add", "publish", "bump", "drop", "pause"}
    \/ (pipe = "paused" <=> manual \/ off)

\* A request that was obeyed is in the map, or about to be restored there, and every
\* reading that may still be written was taken after it.
AskedInv ==
    asked =>
        /\ Thingino => lens
        /\ manual \/ At("handler", "restore")
        /\ Updating /\ proc["handler"].at \in {"remove", "add", "publish", "bump", "drop"}
            => proc["handler"].was
        /\ \A s \in Seeds : proc[s].at \in {"check", "lock", "write"} /\ ~proc[s].toggled => proc[s].on

PrivInv ==
    /\ PrivTypes /\ PlacesInv /\ HandlerInv /\ LocksInv /\ PipeInv /\ BootInv
    /\ CarryInv /\ MatchInv /\ AskedInv

-----------------------------------------------------------------------------
(* What a goroutine that moves leaves alone.                               *)

LEMMA PrivNames ==
    /\ \A r \in Requests : /\ r \in Goroutines /\ r \notin Seeds
                           /\ r \notin {"scheduler", "handler", "boot", "free"}
    /\ \A s \in Seeds : /\ s \in Goroutines /\ s \notin Requests
                        /\ s \notin {"scheduler", "handler", "boot", "free"}
    /\ {"scheduler", "handler", "boot"} \subseteq Goroutines /\ "free" \notin Goroutines
    /\ \A g \in Goroutines : g \in Requests \/ g \in Seeds \/ g \in {"scheduler", "handler", "boot"}
BY BoundsAssumption DEF Goroutines

\* g goes to another point with another state to carry, or ends.
Elsewhere(g) == \A h \in Goroutines \ {g} : proc'[h] = proc[h]
Moved(g, at, on) ==
    /\ proc' \in [Goroutines -> Procs] /\ Elsewhere(g)
    /\ proc'[g].at = at /\ proc'[g].on = on /\ proc'[g].was = proc[g].was
    /\ proc'[g].target = proc[g].target
    /\ proc'[g].edited = proc[g].edited /\ proc'[g].toggled = proc[g].toggled
Rested(g) ==
    /\ proc' \in [Goroutines -> Procs] /\ Elsewhere(g)
    /\ proc'[g] = Idle /\ proc'[g].at = "idle"

LEMMA PrivIdle ==
    /\ Idle \in Procs /\ Idle.at = "idle" /\ Idle.on = FALSE /\ Idle.was = FALSE
    /\ Idle.target = "absent" /\ Idle.edited = FALSE /\ Idle.toggled = FALSE
BY DEF Idle, Procs, Points, Cameras, Enabled

LEMMA PrivMoves ==
    ASSUME proc \in [Goroutines -> Procs], NEW g \in Goroutines, NEW at \in Points, NEW on \in BOOLEAN
    PROVE  /\ Carry(g, on, at) => Moved(g, at, on)
           /\ Go(g, at) => Moved(g, at, proc[g].on)
           /\ proc' = [proc EXCEPT ![g] = Idle] => Rested(g)
<1>1. PICK p \in Procs : p = proc[g]
  OBVIOUS
<1>2. PICK c \in Procs : c = [p EXCEPT !.at = at, !.on = on]
  BY DEF Procs
<1>3. PICK m \in Procs : m = [p EXCEPT !.at = at]
  BY DEF Procs
<1>4. /\ c.at = at /\ c.on = on /\ c.was = p.was /\ c.target = p.target
      /\ c.edited = p.edited /\ c.toggled = p.toggled
  BY <1>2 DEF Procs
<1>5. /\ m.at = at /\ m.on = p.on /\ m.was = p.was /\ m.target = p.target
      /\ m.edited = p.edited /\ m.toggled = p.toggled
  BY <1>3 DEF Procs
<1>6. ASSUME Carry(g, on, at) PROVE Moved(g, at, on)
  <2>1. proc' = [proc EXCEPT ![g] = c]
    BY <1>1, <1>2, <1>6 DEF Carry, Procs
  <2>2. proc' \in [Goroutines -> Procs] /\ proc'[g] = c /\ Elsewhere(g)
    BY <2>1 DEF Elsewhere
  <2> QED BY <1>1, <1>4, <2>2 DEF Moved
<1>7. ASSUME Go(g, at) PROVE Moved(g, at, proc[g].on)
  <2>1. proc' = [proc EXCEPT ![g] = m]
    BY <1>1, <1>3, <1>7 DEF Go
  <2>2. proc' \in [Goroutines -> Procs] /\ proc'[g] = m /\ Elsewhere(g)
    BY <2>1 DEF Elsewhere
  <2> QED BY <1>1, <1>5, <2>2 DEF Moved
<1>8. ASSUME proc' = [proc EXCEPT ![g] = Idle] PROVE Rested(g)
  BY <1>8, PrivIdle DEF Rested, Elsewhere
<1> QED BY <1>6, <1>7, <1>8

-----------------------------------------------------------------------------
(* Seeds.                                                                  *)

\* A seed that moves where it holds no lock and has not written anything.
SeedFree == {"idle", "configuration", "generation", "fetch", "check", "lock"}
LEMMA PrivSeedMoves ==
    ASSUME PrivInv, NEW s \in Seeds, proc' \in [Goroutines -> Procs], Elsewhere(s),
           UNCHANGED <<camera, maps, attached, pipe, window, lens, locks, count, asked>>,
           proc[s].at \in SeedFree, proc'[s].at \in SeedFree,
           proc'[s].at # "idle" => Thingino /\ (Booted \/ proc[s].at # "idle"),
           proc'[s].at \in {"check", "lock"} /\ ~proc'[s].toggled /\ asked => proc'[s].on
    PROVE  PrivInv'
<1>1. /\ UNCHANGED <<camera, manual, off, attached, pipe, window, lens, mutate, op, count, asked>>
      /\ \A r \in Requests : proc'[r] = proc[r]
      /\ \A t \in Seeds : t # s => proc'[t] = proc[t]
      /\ proc'["scheduler"] = proc["scheduler"] /\ proc'["handler"] = proc["handler"]
      /\ proc'["boot"] = proc["boot"]
  BY PrivNames DEF Elsewhere, maps, locks
<1>2. PrivTypes'
  BY <1>1 DEF PrivInv, PrivTypes
<1>3. PlacesInv'
  BY <1>1 DEF PrivInv, PlacesInv, SeedPoints, SeedFree
<1>4. HandlerInv' /\ PipeInv'
  BY <1>1 DEF PrivInv, HandlerInv, PipeInv
<1>5. LocksInv'
  BY <1>1 DEF PrivInv, LocksInv, Updating, At, SeedFree
<1>6. BootInv'
  BY <1>1 DEF PrivInv, BootInv, Booted, At, SeedFree
<1>7. CarryInv'
  BY <1>1 DEF PrivInv, CarryInv, Booted, At, Carried, Later, SeedFree
<1>8. MatchInv'
  <2>1. \A g \in Goroutines : At(g, "apply")' <=> At(g, "apply")
    BY <1>1, PrivNames DEF At, SeedFree
  <2> QED BY <1>1, <2>1 DEF PrivInv, MatchInv, Booted, At, Later
<1>9. AskedInv'
  BY <1>1 DEF PrivInv, AskedInv, At, Updating, SeedFree
<1> QED BY <1>2, <1>3, <1>4, <1>5, <1>6, <1>7, <1>8, <1>9 DEF PrivInv

LEMMA PrivSeedWaits ==
    ASSUME PrivInv, NEW s \in Seeds,
           \/ StartSeed(s) \/ ReadConfiguration(s) \/ ReadGeneration(s) \/ Answer(s)
           \/ FetchFails(s) \/ CheckEdited(s)
    PROVE  PrivInv'
<1>1. PICK p \in Procs : p = proc[s]
  BY PrivNames DEF PrivInv, PrivTypes
<1>2. /\ s \in Goroutines /\ proc \in [Goroutines -> Procs] /\ camera \in Cameras /\ lens \in BOOLEAN
      /\ p.at # "idle" => Thingino
      /\ asked /\ Thingino => lens
      /\ asked => (p.at \in {"check", "lock", "write"} /\ ~p.toggled => p.on)
  BY <1>1, PrivNames DEF PrivInv, PrivTypes, PlacesInv, AskedInv
<1>3. UNCHANGED <<camera, maps, attached, pipe, window, lens, locks, count, asked>>
  BY DEF StartSeed, ReadConfiguration, ReadGeneration, Answer, FetchFails, CheckEdited
<1>4. p.at \in SeedFree
  BY <1>1 DEF StartSeed, ReadConfiguration, ReadGeneration, Answer, FetchFails, CheckEdited, At, SeedFree
<1>5. PICK q \in Procs :
        /\ proc' = [proc EXCEPT ![s] = q]
        /\ q.at \in SeedFree
        /\ q.at # "idle" => Thingino /\ (Booted \/ p.at # "idle")
        /\ q.at \in {"check", "lock"} /\ ~q.toggled /\ asked => q.on
  <2>1. CASE StartSeed(s)
    <3>1. PICK q \in Procs : q = [Idle EXCEPT !.at = "configuration", !.target = camera]
      BY <1>2, PrivIdle DEF Procs, Points
    <3>2. q.at = "configuration"
      BY <3>1, PrivIdle DEF Procs
    <3>3. proc' = [proc EXCEPT ![s] = q] /\ Booted /\ Thingino
      BY <2>1, <3>1 DEF StartSeed
    <3> QED BY <3>2, <3>3 DEF SeedFree
  <2>2. CASE ReadConfiguration(s)
    <3>1. PICK q \in Procs : q = [p EXCEPT !.edited = FALSE, !.at = "generation"]
      BY DEF Procs, Points
    <3>2. q.at = "generation"
      BY <3>1 DEF Procs
    <3>3. proc' = [proc EXCEPT ![s] = q] /\ p.at = "configuration"
      BY <1>1, <1>2, <2>2, <3>1 DEF ReadConfiguration, Procs, At
    <3> QED BY <1>2, <3>2, <3>3 DEF SeedFree
  <2>3. CASE ReadGeneration(s)
    <3>1. PICK q \in Procs : q = [p EXCEPT !.toggled = FALSE, !.at = "fetch"]
      BY DEF Procs, Points
    <3>2. q.at = "fetch"
      BY <3>1 DEF Procs
    <3>3. proc' = [proc EXCEPT ![s] = q] /\ p.at = "generation"
      BY <1>1, <1>2, <2>3, <3>1 DEF ReadGeneration, Procs, At
    <3> QED BY <1>2, <3>2, <3>3 DEF SeedFree
  <2>4. CASE Answer(s)
    <3>1. PICK q \in Procs : q = [p EXCEPT !.on = lens, !.at = "check"]
      BY <1>2 DEF Procs, Points
    <3>2. q.at = "check" /\ q.on = lens
      BY <3>1 DEF Procs
    <3>3. proc' = [proc EXCEPT ![s] = q] /\ p.at = "fetch"
      BY <1>1, <1>2, <2>4, <3>1 DEF Answer, Carry, Procs, At
    <3> QED BY <1>2, <3>2, <3>3 DEF SeedFree
  <2>5. CASE FetchFails(s) \/ (CheckEdited(s) /\ proc' = [proc EXCEPT ![s] = Idle])
    BY <2>5, PrivIdle DEF FetchFails, SeedFree
  <2>6. CASE CheckEdited(s) /\ proc' # [proc EXCEPT ![s] = Idle]
    <3>1. PICK q \in Procs : q = [p EXCEPT !.at = "lock"]
      BY DEF Procs, Points
    <3>2. q.at = "lock" /\ q.on = p.on /\ q.toggled = p.toggled
      BY <3>1 DEF Procs
    <3>3. proc' = [proc EXCEPT ![s] = q] /\ p.at = "check"
      BY <1>1, <1>2, <2>6, <3>1 DEF CheckEdited, Procs, At
    <3> QED BY <1>2, <3>2, <3>3 DEF SeedFree
  <2> QED BY <2>1, <2>2, <2>3, <2>4, <2>5, <2>6
<1>6. proc' \in [Goroutines -> Procs] /\ Elsewhere(s) /\ proc'[s] = q
  BY <1>2, <1>5 DEF Elsewhere
<1> QED BY <1>1, <1>3, <1>4, <1>5, <1>6, PrivSeedMoves

\* The op lock keeps requests, updates and applications of the schedule from a seed
\* that is about to write.
LEMMA PrivLockSeed ==
    ASSUME PrivInv, NEW s \in Seeds, LockSeed(s) PROVE PrivInv'
<1>1. /\ UNCHANGED <<camera, manual, off, attached, pipe, window, lens, mutate, count, asked>>
      /\ op = "free" /\ op' = s /\ proc[s].at = "lock"
  BY DEF LockSeed, maps, At
<1>2. Moved(s, "write", proc[s].on)
  <2>1. s \in Goroutines /\ proc \in [Goroutines -> Procs] /\ "write" \in Points
    BY PrivNames DEF PrivInv, PrivTypes, Points
  <2> QED BY <2>1, PrivMoves DEF LockSeed
<1>3. /\ \A r \in Requests : proc'[r] = proc[r]
      /\ \A t \in Seeds : t # s => proc'[t] = proc[t]
      /\ proc'["scheduler"] = proc["scheduler"] /\ proc'["handler"] = proc["handler"]
      /\ proc'["boot"] = proc["boot"]
      /\ proc'[s].at = "write" /\ proc'[s].on = proc[s].on /\ proc'[s].toggled = proc[s].toggled
  BY <1>2, PrivNames DEF Moved, Elsewhere
<1>4. PrivTypes'
  BY <1>1, <1>2, PrivNames DEF PrivInv, PrivTypes, Moved
<1>5. PlacesInv'
  BY <1>1, <1>3 DEF PrivInv, PlacesInv, SeedPoints
<1>6. HandlerInv' /\ PipeInv'
  BY <1>1, <1>3 DEF PrivInv, HandlerInv, PipeInv
<1>7. LocksInv'
  BY <1>1, <1>3, PrivNames DEF PrivInv, LocksInv, Updating, At
<1>8. BootInv'
  BY <1>1, <1>3 DEF PrivInv, BootInv, Booted, At
<1>9. CarryInv'
  BY <1>1, <1>3 DEF PrivInv, CarryInv, Booted, At, Carried, Later
<1>10. MatchInv'
  <2>1. \A g \in Goroutines : At(g, "apply")' <=> At(g, "apply")
    BY <1>1, <1>3, PrivNames DEF At
  <2> QED BY <1>1, <1>3, <2>1 DEF PrivInv, MatchInv, Booted, At, Later
<1>11. AskedInv'
  BY <1>1, <1>3 DEF PrivInv, AskedInv, At, Updating
<1> QED BY <1>4, <1>5, <1>6, <1>7, <1>8, <1>9, <1>10, <1>11 DEF PrivInv

LEMMA PrivWriteSeed ==
    ASSUME PrivInv, Buried, NEW s \in Seeds, WriteSeed(s) PROVE PrivInv'
<1>1. /\ UNCHANGED <<camera, off, attached, pipe, window, lens, mutate, count, asked>>
      /\ op = s /\ proc[s].at = "write" /\ camera # "absent"
      /\ s \in Goroutines /\ proc \in [Goroutines -> Procs]
      /\ proc[s].on \in BOOLEAN /\ manual \in BOOLEAN /\ off \in BOOLEAN
  <2>1. proc[s] \in Procs
    BY PrivNames DEF PrivInv, PrivTypes
  <2> QED BY <2>1, PrivNames DEF PrivInv, PrivTypes, LocksInv, Buried, WriteSeed, At, Procs
<1>2. CASE ~Fresh(s)
  <2>1. proc' = [proc EXCEPT ![s] = Idle] /\ op' = "free" /\ manual' = manual
    BY <1>2 DEF WriteSeed
  <2>2. Rested(s)
    <3>1. "idle" \in Points
      BY DEF Points
    <3> QED BY <1>1, <2>1, <3>1, PrivMoves
  <2>3. /\ \A r \in Requests : proc'[r] = proc[r]
        /\ \A t \in Seeds : t # s => proc'[t] = proc[t]
        /\ proc'["scheduler"] = proc["scheduler"] /\ proc'["handler"] = proc["handler"]
        /\ proc'["boot"] = proc["boot"] /\ proc'[s].at = "idle"
    BY <2>2, PrivNames DEF Rested, Elsewhere
  <2>4. PrivTypes'
    BY <1>1, <2>1, <2>2 DEF PrivInv, PrivTypes, Rested
  <2>5. PlacesInv' /\ HandlerInv' /\ PipeInv'
    BY <1>1, <2>1, <2>3 DEF PrivInv, PlacesInv, SeedPoints, HandlerInv, PipeInv
  <2>6. LocksInv'
    BY <1>1, <2>1, <2>3, PrivNames DEF PrivInv, LocksInv, Updating, At
  <2>7. BootInv'
    BY <1>1, <2>1, <2>3 DEF PrivInv, BootInv, Booted, At
  <2>8. CarryInv'
    BY <1>1, <2>1, <2>3 DEF PrivInv, CarryInv, Booted, At, Carried, Later
  <2>9. MatchInv'
    <3>1. \A g \in Goroutines : At(g, "apply")' <=> At(g, "apply")
      BY <1>1, <2>3, PrivNames DEF At
    <3> QED BY <1>1, <2>1, <2>3, <3>1 DEF PrivInv, MatchInv, Booted, At, Later
  <2>10. AskedInv'
    BY <1>1, <2>1, <2>3 DEF PrivInv, AskedInv, At, Updating
  <2> QED BY <2>4, <2>5, <2>6, <2>7, <2>8, <2>9, <2>10 DEF PrivInv
<1>3. CASE Fresh(s)
  <2>1. manual' = proc[s].on /\ Carry(s, proc[s].on \/ off, "apply") /\ op' = op
    BY <1>3 DEF WriteSeed
  <2>2. PICK on \in BOOLEAN : on = (proc[s].on \/ off)
    BY <1>1
  <2>3. Moved(s, "apply", on)
    <3>1. "apply" \in Points
      BY DEF Points
    <3> QED BY <1>1, <2>1, <2>2, <3>1, PrivMoves
  <2>4. /\ \A r \in Requests : proc'[r] = proc[r]
        /\ \A t \in Seeds : t # s => proc'[t] = proc[t]
        /\ proc'["scheduler"] = proc["scheduler"] /\ proc'["handler"] = proc["handler"]
        /\ proc'["boot"] = proc["boot"] /\ proc'[s].at = "apply" /\ proc'[s].on = on
        /\ on = (manual' \/ off')
    BY <1>1, <2>1, <2>2, <2>3, PrivNames DEF Moved, Elsewhere
  <2>5. PrivTypes'
    BY <1>1, <2>1, <2>3 DEF PrivInv, PrivTypes, Moved
  <2>6. PlacesInv' /\ HandlerInv'
    BY <1>1, <2>1, <2>4 DEF PrivInv, PlacesInv, SeedPoints, HandlerInv
  <2>7. LocksInv'
    BY <1>1, <2>1, <2>4, PrivNames DEF PrivInv, LocksInv, Updating, At
  <2>8. ~Updating /\ proc["handler"].at \notin {"restore", "pause"}
    BY <1>1, PrivNames DEF PrivInv, LocksInv, HandlerInv, Updating
  <2>9. PipeInv'
    BY <1>1, <2>1, <2>4, <2>8 DEF PrivInv, PipeInv
  <2>10. BootInv'
    BY <1>1, <2>1, <2>4 DEF PrivInv, BootInv, Booted, At
  <2>11. CarryInv'
    BY <1>1, <2>1, <2>4, PrivNames DEF PrivInv, CarryInv, LocksInv, Booted, At, Carried, Later
  <2>12. MatchInv'
    <3>1. At(s, "apply")' /\ s \in Goroutines \ {"boot"}
      BY <1>1, <2>4, PrivNames DEF At
    <3> QED BY <3>1 DEF MatchInv
  <2>13. AskedInv'
    BY <1>1, <1>3, <2>1, <2>4, <2>8 DEF PrivInv, AskedInv, At, Updating, Fresh
  <2> QED BY <2>5, <2>6, <2>7, <2>9, <2>10, <2>11, <2>12, <2>13 DEF PrivInv
<1> QED BY <1>2, <1>3

\* What was decided is told to the engine, if it is attached already.
LEMMA PrivApplySeed ==
    ASSUME PrivInv, Buried, NEW s \in Seeds, ApplySeed(s) PROVE PrivInv'
<1>1. /\ UNCHANGED <<camera, manual, off, attached, window, lens, mutate, count, asked>>
      /\ op = s /\ op' = "free" /\ proc[s].at = "apply" /\ camera # "absent"
      /\ proc' = [proc EXCEPT ![s] = Idle]
      /\ pipe' = IF attached THEN Pause(proc[s].on) ELSE pipe
  BY PrivNames DEF PrivInv, LocksInv, Buried, ApplySeed, At, maps
<1>2. s \in Goroutines /\ Rested(s)
  <2>1. s \in Goroutines /\ proc \in [Goroutines -> Procs] /\ "idle" \in Points
    BY PrivNames DEF PrivInv, PrivTypes, Points
  <2> QED BY <1>1, <2>1, PrivMoves
<1>3. /\ \A r \in Requests : proc'[r] = proc[r]
      /\ \A t \in Seeds : t # s => proc'[t] = proc[t]
      /\ proc'["scheduler"] = proc["scheduler"] /\ proc'["handler"] = proc["handler"]
      /\ proc'["boot"] = proc["boot"] /\ proc'[s].at = "idle"
  BY <1>2, PrivNames DEF Rested, Elsewhere
<1>4. /\ ~Updating /\ proc["handler"].at \notin {"restore", "pause", "bump", "drop"}
      /\ proc["handler"].at = "add" => FALSE
      /\ proc["handler"].at = "publish" => pipe = "absent"
  BY <1>1, PrivNames DEF PrivInv, LocksInv, HandlerInv, PipeInv, Updating, Enabled
<1>5. /\ pipe' \in {"absent", "armed", "paused"} /\ (pipe' # "absent" <=> pipe # "absent")
      /\ ~attached => pipe' = pipe
      /\ attached => pipe = "absent" \/ (pipe' = "paused" <=> proc[s].on)
  BY <1>1 DEF PrivInv, PrivTypes, Pause
<1>6. PrivTypes'
  BY <1>1, <1>2, <1>5 DEF PrivInv, PrivTypes, Rested
<1>7. PlacesInv' /\ HandlerInv'
  BY <1>1, <1>3 DEF PrivInv, PlacesInv, SeedPoints, HandlerInv
<1>8. LocksInv'
  BY <1>1, <1>3, PrivNames DEF PrivInv, LocksInv, Updating, At
<1>9. PipeInv'
  BY <1>1, <1>3, <1>4, <1>5 DEF PrivInv, PipeInv
<1>10. BootInv'
  BY <1>1, <1>3, <1>5 DEF PrivInv, PrivTypes, BootInv, Booted, At
<1>11. CarryInv'
  BY <1>1, <1>3 DEF PrivInv, CarryInv, Booted, At, Carried, Later
<1>12. MatchInv'
  <2>1. CASE Booted /\ ~Later /\ pipe # "absent"
    <3>1. proc[s].on <=> manual \/ off
      BY <1>1, <2>1 DEF PrivInv, CarryInv, Carried, At
    <3>2. attached
      BY <2>1 DEF PrivInv, PlacesInv, Booted, At
    <3> QED BY <1>1, <1>5, <2>1, <3>1, <3>2 DEF MatchInv
  <2> QED BY <1>1, <1>3, <1>5, <2>1 DEF MatchInv, Booted, Later, At
<1>13. AskedInv'
  BY <1>1, <1>3 DEF PrivInv, AskedInv, At, Updating
<1> QED BY <1>6, <1>7, <1>8, <1>9, <1>10, <1>11, <1>12, <1>13 DEF PrivInv

-----------------------------------------------------------------------------
(* Privacy requests.                                                       *)

\* A request that waits for the op lock, and one that has it.
LEMMA PrivRequest ==
    ASSUME PrivInv, NEW r \in Requests, Request(r) PROVE PrivInv'
<1>1. /\ UNCHANGED <<camera, manual, off, attached, pipe, window, lens, mutate, op, asked>>
      /\ proc[r].at = "idle" /\ Booted
      /\ count.requests < MaxRequests /\ count' = [count EXCEPT !.requests = @ + 1]
  BY DEF Request, maps, locks, At
<1>2. PICK on \in BOOLEAN : Carry(r, on, "lock")
  BY DEF Request
<1>3. r \in Goroutines /\ Moved(r, "lock", on)
  <2>1. r \in Goroutines /\ proc \in [Goroutines -> Procs] /\ "lock" \in Points
    BY PrivNames DEF PrivInv, PrivTypes, Points
  <2> QED BY <1>2, <2>1, PrivMoves
<1>4. /\ \A t \in Requests : t # r => proc'[t] = proc[t]
      /\ \A s \in Seeds : proc'[s] = proc[s]
      /\ proc'["scheduler"] = proc["scheduler"] /\ proc'["handler"] = proc["handler"]
      /\ proc'["boot"] = proc["boot"] /\ proc'[r].at = "lock"
  BY <1>3, PrivNames DEF Moved, Elsewhere
<1>5. count' \in [requests : 0..MaxRequests, mutations : 0..MaxMutations,
                  windows : 0..MaxWindows, switches : 0..MaxSwitches]
  <2>1. count.requests + 1 \in 0..MaxRequests
    BY <1>1, BoundsAssumption DEF PrivInv, PrivTypes
  <2> QED BY <1>1, <2>1 DEF PrivInv, PrivTypes
<1>6. PrivTypes'
  BY <1>1, <1>3, <1>5 DEF PrivInv, PrivTypes, Moved
<1>7. PlacesInv' /\ HandlerInv' /\ PipeInv'
  BY <1>1, <1>4 DEF PrivInv, PlacesInv, RequestPoints, HandlerInv, PipeInv
<1>8. LocksInv'
  BY <1>1, <1>4, PrivNames DEF PrivInv, LocksInv, Updating, At
<1>9. BootInv'
  BY <1>1, <1>4 DEF BootInv, Booted, At
<1>10. CarryInv'
  BY <1>1, <1>4 DEF PrivInv, CarryInv, Booted, At, Carried, Later
<1>11. MatchInv'
  <2>1. \A g \in Goroutines : At(g, "apply")' <=> At(g, "apply")
    BY <1>1, <1>4, PrivNames DEF At
  <2> QED BY <1>1, <1>4, <2>1 DEF PrivInv, MatchInv, Booted, At, Later
<1>12. AskedInv'
  BY <1>1, <1>4 DEF PrivInv, AskedInv, At, Updating
<1> QED BY <1>6, <1>7, <1>8, <1>9, <1>10, <1>11, <1>12 DEF PrivInv

LEMMA PrivLockRequest ==
    ASSUME PrivInv, NEW r \in Requests, LockRequest(r) PROVE PrivInv'
<1>1. /\ UNCHANGED <<camera, manual, off, attached, pipe, window, lens, mutate, count, asked>>
      /\ proc[r].at = "lock" /\ op = "free" /\ op' = r
      /\ r \in Goroutines
  BY PrivNames DEF LockRequest, maps, At
<1>2. PICK at \in {"firmware", "record"} : Go(r, at)
  BY DEF LockRequest
<1>3. Moved(r, at, proc[r].on)
  <2>1. proc \in [Goroutines -> Procs] /\ at \in Points
    BY DEF PrivInv, PrivTypes, Points
  <2> QED BY <1>1, <1>2, <2>1, PrivMoves
<1>4. /\ \A t \in Requests : t # r => proc'[t] = proc[t]
      /\ \A s \in Seeds : proc'[s] = proc[s]
      /\ proc'["scheduler"] = proc["scheduler"] /\ proc'["handler"] = proc["handler"]
      /\ proc'["boot"] = proc["boot"] /\ proc'[r].at = at
  BY <1>3, PrivNames DEF Moved, Elsewhere
<1>5. PrivTypes'
  BY <1>1, <1>3 DEF PrivInv, PrivTypes, Moved
<1>6. PlacesInv' /\ HandlerInv' /\ PipeInv'
  BY <1>1, <1>4 DEF PrivInv, PlacesInv, RequestPoints, HandlerInv, PipeInv
<1>7. LocksInv'
  BY <1>1, <1>4, PrivNames DEF PrivInv, LocksInv, Updating, At
<1>8. BootInv'
  BY <1>1, <1>4 DEF PrivInv, BootInv, Booted, At
<1>9. CarryInv'
  BY <1>1, <1>4 DEF PrivInv, CarryInv, Booted, At, Carried, Later
<1>10. MatchInv'
  <2>1. \A g \in Goroutines : At(g, "apply")' <=> At(g, "apply")
    BY <1>1, <1>4, PrivNames DEF At
  <2> QED BY <1>1, <1>4, <2>1 DEF PrivInv, MatchInv, Booted, At, Later
<1>11. AskedInv'
  BY <1>1, <1>4 DEF PrivInv, AskedInv, At, Updating
<1> QED BY <1>5, <1>6, <1>7, <1>8, <1>9, <1>10, <1>11 DEF PrivInv

\* Whatever the firmware did, privacy is no longer asked for when the lens is not in it.
LEMMA PrivFirmware ==
    ASSUME PrivInv, NEW r \in Requests, Firmware(r) PROVE PrivInv'
<1>1. /\ UNCHANGED <<camera, manual, off, attached, pipe, window, mutate, count>>
      /\ proc[r].at = "firmware" /\ op = r /\ asked' = (asked /\ lens')
      /\ r \in Goroutines /\ proc \in [Goroutines -> Procs]
  BY PrivNames DEF Firmware, PrivInv, PrivTypes, LocksInv, maps, At
<1>2. lens' \in BOOLEAN /\ asked' \in BOOLEAN
  <2>1. lens \in BOOLEAN /\ proc[r].on \in BOOLEAN /\ asked \in BOOLEAN
    BY <1>1 DEF PrivInv, PrivTypes, Procs
  <2>2. lens' = proc[r].on \/ lens' \in {lens, proc[r].on}
    BY DEF Firmware
  <2> QED BY <1>1, <2>1, <2>2
<1>3. /\ proc' \in [Goroutines -> Procs] /\ Elsewhere(r)
      /\ \/ proc'[r].at = "record" /\ op' = r
         \/ proc'[r].at = "idle" /\ op' = "free"
  <2>1. CASE Go(r, "record") /\ op' = op
    <3>1. "record" \in Points
      BY DEF Points
    <3> QED BY <1>1, <2>1, <3>1, PrivMoves DEF Moved
  <2>2. CASE proc' = [proc EXCEPT ![r] = Idle] /\ op' = "free"
    <3>1. "record" \in Points
      BY DEF Points
    <3> QED BY <1>1, <2>2, <3>1, PrivMoves DEF Rested
  <2> QED BY <2>1, <2>2 DEF Firmware
<1>4. /\ \A t \in Requests : t # r => proc'[t] = proc[t]
      /\ \A s \in Seeds : proc'[s] = proc[s]
      /\ proc'["scheduler"] = proc["scheduler"] /\ proc'["handler"] = proc["handler"]
      /\ proc'["boot"] = proc["boot"] /\ proc'[r].at \in {"record", "idle"}
  BY <1>3, PrivNames DEF Elsewhere
<1>5. PrivTypes'
  BY <1>1, <1>2, <1>3 DEF PrivInv, PrivTypes
<1>6. PlacesInv' /\ HandlerInv' /\ PipeInv'
  BY <1>1, <1>4 DEF PrivInv, PlacesInv, RequestPoints, HandlerInv, PipeInv
<1>7. LocksInv'
  BY <1>1, <1>3, <1>4, PrivNames DEF PrivInv, LocksInv, Updating, At
<1>8. BootInv'
  BY <1>1, <1>4 DEF PrivInv, BootInv, Booted, At
<1>9. CarryInv'
  BY <1>1, <1>4 DEF PrivInv, CarryInv, Booted, At, Carried, Later
<1>10. MatchInv'
  <2>1. \A g \in Goroutines : At(g, "apply")' <=> At(g, "apply")
    BY <1>1, <1>4, PrivNames DEF At
  <2> QED BY <1>1, <1>4, <2>1 DEF PrivInv, MatchInv, Booted, At, Later
<1>11. AskedInv'
  BY <1>1, <1>4 DEF PrivInv, AskedInv, At, Updating
<1> QED BY <1>5, <1>6, <1>7, <1>8, <1>9, <1>10, <1>11 DEF PrivInv

\* A toggle of the map tells every seed that its reading is out of date.
MovedToggling(g, at, on) ==
    /\ proc' \in [Goroutines -> Procs]
    /\ proc'[g].at = at /\ proc'[g].on = on
    /\ \A h \in Goroutines : /\ proc'[h].was = proc[h].was /\ proc'[h].target = proc[h].target
                             /\ h # g => proc'[h].at = proc[h].at /\ proc'[h].on = proc[h].on
    /\ \A s \in Seeds : proc'[s].toggled

LEMMA PrivToggled ==
    ASSUME proc \in [Goroutines -> Procs], NEW f, f = Toggled
    PROVE  /\ f \in [Goroutines -> Procs]
           /\ \A h \in Goroutines :
                /\ f[h].at = proc[h].at /\ f[h].on = proc[h].on /\ f[h].was = proc[h].was
                /\ f[h].target = proc[h].target
                /\ h \in Seeds => f[h].toggled
<1>1. ASSUME NEW h \in Goroutines
      PROVE  /\ f[h] \in Procs
             /\ f[h].at = proc[h].at /\ f[h].on = proc[h].on /\ f[h].was = proc[h].was
             /\ f[h].target = proc[h].target
             /\ h \in Seeds => f[h].toggled
  <2>1. PICK p \in Procs : p = proc[h]
    OBVIOUS
  <2>2. PICK t \in BOOLEAN : t = (p.toggled \/ h \in Seeds)
    OBVIOUS
  <2>3. f[h] = [p EXCEPT !.toggled = t]
    BY <2>1, <2>2 DEF Toggled
  <2>4. f[h] \in Procs /\ f[h].toggled = t
    BY <2>3 DEF Procs
  <2>5. /\ f[h].at = p.at /\ f[h].on = p.on /\ f[h].was = p.was /\ f[h].target = p.target
    BY <2>3 DEF Procs
  <2> QED BY <2>1, <2>2, <2>4, <2>5
<1>2. f = [h \in Goroutines |-> f[h]]
  BY DEF Toggled
<1> QED BY <1>1, <1>2

LEMMA PrivToggles ==
    ASSUME proc \in [Goroutines -> Procs], NEW g \in Goroutines, g \notin Seeds,
           NEW at \in Points, NEW on \in BOOLEAN
    PROVE  /\ proc' = [Toggled EXCEPT ![g].at = at, ![g].on = on] => MovedToggling(g, at, on)
           /\ proc' = [Toggled EXCEPT ![g].at = at] => MovedToggling(g, at, proc[g].on)
<1>1. PICK f : f = Toggled
  OBVIOUS
<1>2. /\ \A h \in Goroutines :
           /\ f[h] \in Procs
           /\ f[h].at = proc[h].at /\ f[h].on = proc[h].on /\ f[h].was = proc[h].was
           /\ f[h].target = proc[h].target
           /\ h \in Seeds => f[h].toggled
      /\ f \in [Goroutines -> Procs]
  BY <1>1, PrivToggled
<1>3. f \in [Goroutines -> Procs]
  BY <1>2
<1>4. PICK c \in Procs : c = [f[g] EXCEPT !.at = at, !.on = on]
  BY <1>2 DEF Procs
<1>5. PICK m \in Procs : m = [f[g] EXCEPT !.at = at]
  BY <1>2 DEF Procs
<1>6. /\ c.at = at /\ c.on = on /\ c.was = proc[g].was /\ c.target = proc[g].target
      /\ m.at = at /\ m.on = proc[g].on /\ m.was = proc[g].was /\ m.target = proc[g].target
  BY <1>2, <1>4, <1>5 DEF Procs
<1>7. ASSUME proc' = [Toggled EXCEPT ![g].at = at, ![g].on = on] PROVE MovedToggling(g, at, on)
  <2>1. proc' = [f EXCEPT ![g] = c]
    BY <1>1, <1>3, <1>4, <1>7 DEF Procs
  <2>2. proc' \in [Goroutines -> Procs] /\ proc'[g] = c /\ \A h \in Goroutines : h # g => proc'[h] = f[h]
    BY <1>3, <2>1
  <2> QED BY <1>2, <1>6, <2>2, PrivNames DEF MovedToggling
<1>8. ASSUME proc' = [Toggled EXCEPT ![g].at = at] PROVE MovedToggling(g, at, proc[g].on)
  <2>1. proc' = [f EXCEPT ![g] = m]
    BY <1>1, <1>3, <1>5, <1>8
  <2>2. proc' \in [Goroutines -> Procs] /\ proc'[g] = m /\ \A h \in Goroutines : h # g => proc'[h] = f[h]
    BY <1>3, <2>1
  <2> QED BY <1>2, <1>6, <2>2, PrivNames DEF MovedToggling
<1> QED BY <1>7, <1>8

LEMMA PrivRecord ==
    ASSUME PrivInv, Buried, NEW r \in Requests, Record(r) PROVE PrivInv'
<1>1. /\ UNCHANGED <<camera, off, attached, pipe, window, lens, mutate, op, count>>
      /\ op = r /\ proc[r].at = "record" /\ camera # "absent"
      /\ manual' = proc[r].on /\ asked' = (proc[r].on /\ (Thingino => lens))
      /\ r \in Goroutines /\ r \notin Seeds /\ proc \in [Goroutines -> Procs] /\ off \in BOOLEAN
  BY PrivNames DEF Record, PrivInv, PrivTypes, LocksInv, Buried, locks, At
<1>2. proc[r].on \in BOOLEAN /\ lens \in BOOLEAN /\ Thingino \in BOOLEAN /\ manual \in BOOLEAN
  BY <1>1, BoundsAssumption DEF PrivInv, PrivTypes, Procs
<1>3. PICK on \in BOOLEAN : on = (proc[r].on \/ off)
  BY <1>1, <1>2
<1>4. MovedToggling(r, "apply", on)
  <2>1. PICK f : f = Toggled
    OBVIOUS
  <2>2. f[r].on = proc[r].on /\ f \in [Goroutines -> Procs]
    BY <1>1, <2>1, PrivToggled
  <2>3. proc' = [f EXCEPT ![r].at = "apply", ![r].on = (@ \/ off)]
    BY <2>1 DEF Record
  <2>4. proc' = [f EXCEPT ![r].at = "apply", ![r].on = on]
    <3>1. f[r] \in Procs
      BY <1>1, <2>2
    <3> QED BY <1>1, <1>3, <2>2, <2>3, <3>1 DEF Procs
  <2>5. "apply" \in Points
    BY DEF Points
  <2> QED BY <1>1, <2>1, <2>4, <2>5, PrivToggles
<1>5. /\ \A h \in Goroutines : h # r => proc'[h].at = proc[h].at /\ proc'[h].on = proc[h].on
      /\ \A h \in Goroutines : proc'[h].was = proc[h].was /\ proc'[h].target = proc[h].target
      /\ \A s \in Seeds : proc'[s].toggled
      /\ proc'[r].at = "apply" /\ proc'[r].on = on /\ on = (manual' \/ off')
  BY <1>1, <1>3, <1>4 DEF MovedToggling
<1>6. /\ ~Updating /\ proc["handler"].at \notin {"restore", "pause", "bump", "drop"}
      /\ Updating' = FALSE
  BY <1>1, <1>5, PrivNames DEF PrivInv, LocksInv, HandlerInv, Updating
<1>7. PrivTypes'
  BY <1>1, <1>2, <1>4 DEF PrivInv, PrivTypes, MovedToggling
<1>8. PlacesInv' /\ HandlerInv'
  BY <1>1, <1>5, PrivNames DEF PrivInv, PlacesInv, RequestPoints, SeedPoints, HandlerInv
<1>9. PipeInv'
  BY <1>1, <1>5, <1>6, PrivNames DEF PrivInv, PipeInv
<1>10. LocksInv'
  BY <1>1, <1>5, PrivNames DEF PrivInv, LocksInv, Updating, At
<1>11. BootInv'
  BY <1>1, <1>5, PrivNames DEF PrivInv, BootInv, Booted, At
<1>12. CarryInv'
  <2>1. \A g \in Goroutines \ {"boot"} : At(g, "apply")' => g = r
    BY <1>1, <1>5, PrivNames DEF PrivInv, LocksInv, At
  <2>2. Carried(r)'
    BY <1>5 DEF Carried
  <2> QED BY <1>1, <2>1, <2>2, PrivNames DEF CarryInv
<1>13. MatchInv'
  <2>1. At(r, "apply")' /\ r \in Goroutines \ {"boot"}
    BY <1>1, <1>5, PrivNames DEF At
  <2> QED BY <2>1 DEF MatchInv
<1>14. AskedInv'
  BY <1>1, <1>2, <1>5, <1>6 DEF PrivInv, AskedInv, At
<1> QED BY <1>7, <1>8, <1>9, <1>10, <1>11, <1>12, <1>13, <1>14 DEF PrivInv

LEMMA PrivApplyRequest ==
    ASSUME PrivInv, Buried, NEW r \in Requests, ApplyRequest(r) PROVE PrivInv'
<1>1. /\ UNCHANGED <<camera, manual, off, attached, window, lens, mutate, count, asked>>
      /\ op = r /\ op' = "free" /\ proc[r].at = "apply" /\ camera # "absent"
      /\ proc' = [proc EXCEPT ![r] = Idle]
      /\ pipe' = Pause(proc[r].on)
  BY PrivNames DEF PrivInv, LocksInv, Buried, ApplyRequest, At, maps
<1>2. r \in Goroutines /\ Rested(r)
  <2>1. r \in Goroutines /\ proc \in [Goroutines -> Procs] /\ "idle" \in Points
    BY PrivNames DEF PrivInv, PrivTypes, Points
  <2> QED BY <1>1, <2>1, PrivMoves
<1>3. /\ \A t \in Requests : t # r => proc'[t] = proc[t]
      /\ \A s \in Seeds : proc'[s] = proc[s]
      /\ proc'["scheduler"] = proc["scheduler"] /\ proc'["handler"] = proc["handler"]
      /\ proc'["boot"] = proc["boot"] /\ proc'[r].at = "idle"
  BY <1>2, PrivNames DEF Rested, Elsewhere
<1>4. /\ ~Updating /\ proc["handler"].at \notin {"restore", "pause", "bump", "drop", "add"}
      /\ proc["handler"].at = "publish" => pipe = "absent"
  BY <1>1, PrivNames DEF PrivInv, LocksInv, HandlerInv, PipeInv, Updating, Enabled
<1>5. /\ pipe' \in {"absent", "armed", "paused"} /\ (pipe' # "absent" <=> pipe # "absent")
      /\ pipe = "absent" \/ (pipe' = "paused" <=> proc[r].on)
  BY <1>1 DEF PrivInv, PrivTypes, Pause
<1>6. PrivTypes'
  BY <1>1, <1>2, <1>5 DEF PrivInv, PrivTypes, Rested
<1>7. PlacesInv' /\ HandlerInv'
  BY <1>1, <1>3 DEF PrivInv, PlacesInv, RequestPoints, HandlerInv
<1>8. LocksInv'
  BY <1>1, <1>3, PrivNames DEF PrivInv, LocksInv, Updating, At
<1>9. PipeInv'
  BY <1>1, <1>3, <1>4, <1>5 DEF PrivInv, PipeInv
<1>10. BootInv'
  <2>1. Booted /\ Booted'
    BY <1>1, <1>3 DEF PrivInv, BootInv, Booted, At
  <2> QED BY <2>1 DEF BootInv
<1>11. CarryInv'
  BY <1>1, <1>3 DEF PrivInv, CarryInv, Booted, At, Carried, Later
<1>12. MatchInv'
  <2>1. CASE Booted /\ ~Later /\ pipe # "absent"
    <3>1. proc[r].on <=> manual \/ off
      BY <1>1, <2>1 DEF PrivInv, CarryInv, Carried, At
    <3> QED BY <1>1, <1>5, <2>1, <3>1 DEF MatchInv
  <2> QED BY <1>1, <1>3, <1>5, <2>1 DEF MatchInv, Booted, Later, At
<1>13. AskedInv'
  BY <1>1, <1>3 DEF PrivInv, AskedInv, At, Updating
<1> QED BY <1>6, <1>7, <1>8, <1>9, <1>10, <1>11, <1>12, <1>13 DEF PrivInv

-----------------------------------------------------------------------------
(* The attachment of the engine.                                           *)

LEMMA PrivBootMoves ==
    ASSUME PrivInv, proc' \in [Goroutines -> Procs], Elsewhere("boot"),
           UNCHANGED <<camera, manual, off, window, lens, mutate, op, count, asked>>,
           attached' \in BOOLEAN, ~Booted
    PROVE  /\ HandlerInv' /\ LocksInv' /\ AskedInv'
           /\ \A r \in Requests : proc'[r] = proc[r]
           /\ \A s \in Seeds : proc'[s] = proc[s]
           /\ proc'["scheduler"] = proc["scheduler"] /\ proc'["handler"] = proc["handler"]
           /\ At("handler", "idle") /\ At("scheduler", "idle") /\ ~off /\ ~asked
<1>1. /\ \A r \in Requests : proc'[r] = proc[r]
      /\ \A s \in Seeds : proc'[s] = proc[s]
      /\ proc'["scheduler"] = proc["scheduler"] /\ proc'["handler"] = proc["handler"]
  BY PrivNames DEF Elsewhere
<1>2. HandlerInv'
  BY <1>1 DEF PrivInv, HandlerInv
<1>3. LocksInv'
  BY <1>1 DEF PrivInv, LocksInv, Updating, At
<1>4. At("handler", "idle") /\ At("scheduler", "idle") /\ ~off /\ ~asked
  BY DEF PrivInv, BootInv
<1>5. AskedInv'
  BY <1>4 DEF AskedInv
<1> QED BY <1>1, <1>2, <1>3, <1>4, <1>5

LEMMA PrivAttach ==
    ASSUME PrivInv, Attach PROVE PrivInv'
<1>1. /\ UNCHANGED <<camera, manual, off, pipe, window, lens, mutate, op, count, asked>>
      /\ attached' = TRUE /\ proc["boot"].at = "idle" /\ ~Booted /\ Go("boot", "read")
      /\ ~attached
  BY DEF Attach, maps, locks, At, Booted
<1>2. Moved("boot", "read", proc["boot"].on)
  <2>1. "boot" \in Goroutines /\ proc \in [Goroutines -> Procs] /\ "read" \in Points
    BY PrivNames DEF PrivInv, PrivTypes, Points
  <2> QED BY <1>1, <2>1, PrivMoves
<1>3. /\ HandlerInv' /\ LocksInv' /\ AskedInv'
      /\ \A r \in Requests : proc'[r] = proc[r]
      /\ \A s \in Seeds : proc'[s] = proc[s]
      /\ proc'["scheduler"] = proc["scheduler"] /\ proc'["handler"] = proc["handler"]
  BY <1>1, <1>2, PrivBootMoves DEF Moved
<1>4. proc'["boot"].at = "read"
  BY <1>2 DEF Moved
<1>5. PrivTypes'
  BY <1>1, <1>2 DEF PrivInv, PrivTypes, Moved
<1>6. PlacesInv' /\ PipeInv'
  BY <1>1, <1>3, <1>4 DEF PrivInv, PlacesInv, BootPoints, PipeInv
<1>7. ~Booted' /\ BootInv'
  BY <1>1, <1>3, <1>4 DEF PrivInv, BootInv, Booted, At
<1>8. CarryInv' /\ MatchInv'
  BY <1>7 DEF CarryInv, MatchInv
<1> QED BY <1>3, <1>5, <1>6, <1>7, <1>8 DEF PrivInv

LEMMA PrivReadMap ==
    ASSUME PrivInv, ReadMap PROVE PrivInv'
<1>1. /\ UNCHANGED <<camera, manual, off, attached, pipe, window, lens, mutate, op, count, asked>>
      /\ proc["boot"].at = "read" /\ ~Booted /\ Carry("boot", manual, "apply")
  BY DEF ReadMap, maps, locks, At, Booted
<1>2. Moved("boot", "apply", manual)
  <2>1. /\ "boot" \in Goroutines /\ proc \in [Goroutines -> Procs] /\ "apply" \in Points
        /\ manual \in BOOLEAN
    BY PrivNames DEF PrivInv, PrivTypes, Points
  <2> QED BY <1>1, <2>1, PrivMoves
<1>3. /\ HandlerInv' /\ LocksInv' /\ AskedInv'
      /\ \A r \in Requests : proc'[r] = proc[r]
      /\ \A s \in Seeds : proc'[s] = proc[s]
      /\ proc'["scheduler"] = proc["scheduler"] /\ proc'["handler"] = proc["handler"]
  BY <1>1, <1>2, PrivBootMoves DEF Moved, PrivInv, PrivTypes
<1>4. proc'["boot"].at = "apply" /\ proc'["boot"].on = manual
  BY <1>2 DEF Moved
<1>5. PrivTypes'
  BY <1>1, <1>2 DEF PrivInv, PrivTypes, Moved
<1>6. PlacesInv' /\ PipeInv'
  BY <1>1, <1>3, <1>4 DEF PrivInv, PlacesInv, BootPoints, PipeInv
<1>7. ~Booted' /\ BootInv'
  BY <1>1, <1>3, <1>4 DEF PrivInv, BootInv, Booted, At
<1>8. CarryInv' /\ MatchInv'
  BY <1>7 DEF CarryInv, MatchInv
<1> QED BY <1>3, <1>5, <1>6, <1>7, <1>8 DEF PrivInv

\* With this the server serves.
LEMMA PrivApplyMap ==
    ASSUME PrivInv, ApplyMap PROVE PrivInv'
<1>1. /\ UNCHANGED <<camera, manual, off, attached, window, lens, mutate, op, count, asked>>
      /\ proc["boot"].at = "apply" /\ ~Booted /\ Go("boot", "unlock")
      /\ pipe' = IF proc["boot"].on THEN Pause(TRUE) ELSE pipe
  BY DEF ApplyMap, maps, locks, At, Booted
<1>2. Moved("boot", "unlock", proc["boot"].on)
  <2>1. "boot" \in Goroutines /\ proc \in [Goroutines -> Procs] /\ "unlock" \in Points
    BY PrivNames DEF PrivInv, PrivTypes, Points
  <2> QED BY <1>1, <2>1, PrivMoves
<1>3. /\ HandlerInv' /\ LocksInv' /\ AskedInv'
      /\ \A r \in Requests : proc'[r] = proc[r]
      /\ \A s \in Seeds : proc'[s] = proc[s]
      /\ proc'["scheduler"] = proc["scheduler"] /\ proc'["handler"] = proc["handler"]
      /\ At("handler", "idle") /\ At("scheduler", "idle") /\ ~off
  BY <1>1, <1>2, PrivBootMoves DEF Moved, PrivInv, PrivTypes
<1>4. proc'["boot"].at = "unlock"
  BY <1>2 DEF Moved
<1>5. /\ pipe' \in {"absent", "armed", "paused"} /\ (pipe' # "absent" <=> pipe # "absent")
      /\ proc["boot"].on => pipe' # "armed"
      /\ ~proc["boot"].on => pipe' = pipe
  BY <1>1 DEF PrivInv, PrivTypes, Pause
<1>6. PrivTypes'
  BY <1>1, <1>2, <1>5 DEF PrivInv, PrivTypes, Moved
<1>7. PlacesInv'
  BY <1>1, <1>3, <1>4 DEF PrivInv, PlacesInv, BootPoints
<1>8. PipeInv'
  BY <1>1, <1>3, <1>5 DEF PrivInv, PipeInv, At
<1>9. Booted' /\ BootInv'
  BY <1>4 DEF BootInv, Booted, At
<1>10. CarryInv'
  BY <1>1, <1>3 DEF PrivInv, BootInv, CarryInv, At, Carried, PlacesInv, RequestPoints
<1>11. MatchInv'
  <2>1. attached
    BY <1>1 DEF PrivInv, PlacesInv
  <2>2. CASE \E s \in Seeds : At(s, "apply")
    <3>1. PICK s \in Seeds : At(s, "apply")
      BY <2>2
    <3>2. s \in Goroutines \ {"boot"} /\ At(s, "apply")'
      BY <1>3, <3>1, PrivNames DEF At
    <3> QED BY <3>2 DEF MatchInv
  <2>3. CASE ~\E s \in Seeds : At(s, "apply")
    <3>1. /\ pipe = "paused" => manual
          /\ proc["boot"].on => manual
          /\ manual => pipe # "armed" \/ proc["boot"].on
      BY <1>1, <2>1, <2>3 DEF PrivInv, BootInv, At
    <3>2. pipe' = "absent" \/ (pipe' = "paused" <=> manual)
      BY <1>5, <3>1
    <3> QED BY <1>1, <1>3, <3>2 DEF MatchInv
  <2> QED BY <2>2, <2>3
<1> QED BY <1>3, <1>6, <1>7, <1>8, <1>9, <1>10, <1>11 DEF PrivInv

-----------------------------------------------------------------------------
(* The schedule.                                                           *)

\* Two goroutines never evaluate at once: what the one that does leaves alone.
LEMMA PrivSchedulers ==
    ASSUME PrivInv, NEW g \in {"scheduler", "handler"}, NEW at \in Points, NEW on \in BOOLEAN
    PROVE  /\ Booted \/ proc[g].at = "idle"
           /\ g \in Goroutines /\ proc \in [Goroutines -> Procs] /\ proc[g] \in Procs
           /\ manual \in BOOLEAN /\ off \in BOOLEAN
           /\ Carry(g, on, at) => Moved(g, at, on)
           /\ Go(g, at) => Moved(g, at, proc[g].on)
           /\ proc' = [proc EXCEPT ![g] = Idle] => Rested(g)
           /\ Elsewhere(g) =>
                /\ \A r \in Requests : proc'[r] = proc[r]
                /\ \A s \in Seeds : proc'[s] = proc[s]
                /\ \A h \in {"scheduler", "handler"} : h # g => proc'[h] = proc[h]
                /\ proc'["boot"] = proc["boot"]
           /\ proc[g].at # "idle" => \A h \in {"scheduler", "handler"} : h # g => proc[h].at = "idle"
<1>1. g \in Goroutines /\ proc \in [Goroutines -> Procs] /\ proc[g] \in Procs
      /\ manual \in BOOLEAN /\ off \in BOOLEAN
  BY PrivNames DEF PrivInv, PrivTypes
<1>2. /\ Carry(g, on, at) => Moved(g, at, on)
      /\ Go(g, at) => Moved(g, at, proc[g].on)
      /\ proc' = [proc EXCEPT ![g] = Idle] => Rested(g)
  BY <1>1, PrivMoves
<1>3. Elsewhere(g) =>
        /\ \A r \in Requests : proc'[r] = proc[r]
        /\ \A s \in Seeds : proc'[s] = proc[s]
        /\ \A h \in {"scheduler", "handler"} : h # g => proc'[h] = proc[h]
        /\ proc'["boot"] = proc["boot"]
  BY PrivNames DEF Elsewhere
<1>4. proc[g].at # "idle" => \A h \in {"scheduler", "handler"} : h # g => proc[h].at = "idle"
  BY DEF PrivInv, LocksInv, At
<1>5. Booted \/ proc[g].at = "idle"
  BY DEF PrivInv, BootInv, At
<1> QED BY <1>1, <1>2, <1>3, <1>4, <1>5

LEMMA PrivTick ==
    ASSUME PrivInv, Tick PROVE PrivInv'
<1>1. /\ UNCHANGED <<camera, manual, off, attached, pipe, window, lens, op, count, asked>>
      /\ Booted /\ mutate = "free" /\ mutate' = "scheduler" /\ proc["scheduler"].at = "idle"
      /\ Go("scheduler", "evaluate")
  BY DEF Tick, maps, At
<1>2. "evaluate" \in Points
  BY DEF Points
<1>3. Moved("scheduler", "evaluate", proc["scheduler"].on)
  BY <1>1, <1>2, PrivSchedulers
<1>4. /\ \A r \in Requests : proc'[r] = proc[r]
      /\ \A s \in Seeds : proc'[s] = proc[s]
      /\ proc'["handler"] = proc["handler"] /\ proc'["boot"] = proc["boot"]
      /\ proc'["scheduler"].at = "evaluate"
  BY <1>3, PrivNames DEF Moved, Elsewhere
<1>5. PrivTypes'
  BY <1>1, <1>3 DEF PrivInv, PrivTypes, Moved
<1>6. PlacesInv' /\ HandlerInv' /\ PipeInv'
  BY <1>1, <1>4 DEF PrivInv, PlacesInv, TickPoints, HandlerInv, PipeInv
<1>7. LocksInv'
  BY <1>1, <1>4, PrivNames DEF PrivInv, LocksInv, Updating, At
<1>8. BootInv'
  BY <1>1, <1>4 DEF BootInv, Booted, At
<1>9. CarryInv'
  BY <1>1, <1>4, PrivNames DEF PrivInv, CarryInv, Booted, At, Carried, Later
<1>10. MatchInv'
  <2>1. \A h \in Goroutines : At(h, "apply")' <=> At(h, "apply")
    BY <1>1, <1>4, PrivNames DEF At
  <2> QED BY <1>1, <1>4, <2>1 DEF PrivInv, MatchInv, Booted, At, Later
<1>11. AskedInv'
  BY <1>1, <1>4 DEF PrivInv, AskedInv, At, Updating
<1> QED BY <1>5, <1>6, <1>7, <1>8, <1>9, <1>10, <1>11 DEF PrivInv

\* Only a camera that is there gets off-hours, and a change of them is on its way to the
\* engine until it is applied.
LEMMA PrivEvaluate ==
    ASSUME PrivInv, NEW g \in {"scheduler", "handler"}, Evaluate(g) PROVE PrivInv'
<1>1. /\ UNCHANGED <<camera, manual, attached, pipe, window, lens, op, count, asked>>
      /\ proc[g].at = "evaluate" /\ off' = OffHours /\ Booted /\ mutate = g
      /\ window \in BOOLEAN /\ off \in BOOLEAN
      /\ g \in Goroutines
  BY PrivNames DEF Evaluate, PrivInv, PrivTypes, LocksInv, BootInv, At
<1>2. off' \in BOOLEAN /\ (camera = "absent" => off' = off)
  BY <1>1 DEF OffHours, Enabled
<1>3. /\ proc' \in [Goroutines -> Procs] /\ Elsewhere(g)
      /\ \/ proc'[g].at = "relock" /\ mutate' = g
         \/ proc'[g].at = "idle" /\ mutate' = "free" /\ off' = off
  <2>1. "relock" \in Points /\ proc[g].on \in BOOLEAN
    BY PrivNames DEF Points, PrivInv, PrivTypes, Procs
  <2>2. CASE off' # off
    <3>1. Go(g, "relock") /\ mutate' = mutate
      BY <2>2 DEF Evaluate
    <3> QED BY <1>1, <2>1, <3>1, PrivSchedulers DEF Moved
  <2>3. CASE off' = off
    <3>1. proc' = [proc EXCEPT ![g] = Idle] /\ mutate' = "free"
      BY <2>3 DEF Evaluate
    <3> QED BY <2>1, <2>3, <3>1, PrivSchedulers DEF Rested
  <2> QED BY <2>2, <2>3
<1>4. /\ \A r \in Requests : proc'[r] = proc[r]
      /\ \A s \in Seeds : proc'[s] = proc[s]
      /\ \A h \in {"scheduler", "handler"} : h # g => proc'[h] = proc[h] /\ proc[h].at = "idle"
      /\ proc'["boot"] = proc["boot"] /\ proc'[g].at \in {"relock", "idle"}
  BY <1>1, <1>3, PrivNames DEF Elsewhere, PrivInv, LocksInv, At
<1>5. PrivTypes'
  BY <1>1, <1>2, <1>3 DEF PrivInv, PrivTypes
<1>6. PlacesInv' /\ HandlerInv'
  BY <1>1, <1>4 DEF PrivInv, PlacesInv, TickPoints, HandlerInv
<1>7. PipeInv'
  BY <1>1, <1>2, <1>4 DEF PrivInv, PipeInv
<1>8. LocksInv'
  BY <1>1, <1>3, <1>4, PrivNames DEF PrivInv, LocksInv, Updating, At
<1>9. Booted' /\ BootInv'
  BY <1>1, <1>4 DEF BootInv, Booted, At
<1>10. CarryInv'
  <2>1. CASE off' = off
    BY <1>1, <1>4, <2>1 DEF PrivInv, CarryInv, Booted, At, Carried, Later
  <2>2. CASE off' # off
    BY <1>1, <1>3, <1>4, <2>2 DEF CarryInv, At, Later
  <2> QED BY <2>1, <2>2
<1>11. MatchInv'
  <2>1. CASE off' # off
    BY <1>3, <2>1 DEF MatchInv, Later, At
  <2>2. CASE off' = off
    <3>1. \A h \in Goroutines : At(h, "apply")' <=> At(h, "apply")
      BY <1>1, <1>4, PrivNames DEF At
    <3>2. proc["handler"].at \notin {"remove", "add", "publish", "bump", "drop", "pause"}
      BY <1>1, <1>4
    <3>3. ~Later
      BY <1>1, <1>4 DEF Later, At
    <3> QED BY <1>1, <1>4, <2>2, <3>1, <3>2, <3>3 DEF PrivInv, MatchInv, Booted, At
  <2> QED BY <2>1, <2>2
<1>12. AskedInv'
  BY <1>1, <1>4 DEF PrivInv, AskedInv, At, Updating
<1> QED BY <1>5, <1>6, <1>7, <1>8, <1>9, <1>10, <1>11, <1>12 DEF PrivInv

LEMMA PrivLockApply ==
    ASSUME PrivInv, NEW g \in {"scheduler", "handler"}, LockApply(g) PROVE PrivInv'
<1>1. /\ UNCHANGED <<camera, manual, off, attached, pipe, window, lens, mutate, count, asked>>
      /\ proc[g].at = "relock" /\ op = "free" /\ op' = g /\ mutate = g /\ Booted
      /\ Carry(g, Effective, "apply") /\ g \in Goroutines
  BY PrivNames DEF LockApply, PrivInv, LocksInv, BootInv, maps, At
<1>2. PICK on \in BOOLEAN : on = (manual \/ off)
  BY DEF PrivInv, PrivTypes
<1>3. Moved(g, "apply", on)
  <2>1. "apply" \in Points
    BY DEF Points
  <2> QED BY <1>1, <1>2, <2>1, PrivSchedulers DEF Effective
<1>4. /\ \A r \in Requests : proc'[r] = proc[r]
      /\ \A s \in Seeds : proc'[s] = proc[s]
      /\ \A h \in {"scheduler", "handler"} : h # g => proc'[h] = proc[h] /\ proc[h].at = "idle"
      /\ proc'["boot"] = proc["boot"] /\ proc'[g].at = "apply" /\ proc'[g].on = on
  <2>1. /\ Elsewhere(g) /\ proc'[g].at = "apply" /\ proc'[g].on = on
    BY <1>3 DEF Moved
  <2>2. "relock" \in Points
    BY DEF Points
  <2> QED BY <1>1, <2>1, <2>2, PrivSchedulers
<1>5. PrivTypes'
  BY <1>1, <1>3 DEF PrivInv, PrivTypes, Moved
<1>6. PlacesInv' /\ HandlerInv' /\ PipeInv'
  BY <1>1, <1>4 DEF PrivInv, PlacesInv, TickPoints, HandlerInv, PipeInv
<1>7. LocksInv'
  BY <1>1, <1>4, PrivNames DEF PrivInv, LocksInv, Updating, At
<1>8. BootInv'
  BY <1>1, <1>4 DEF BootInv, Booted, At
<1>9. CarryInv'
  <2>1. \A h \in Goroutines \ {"boot"} : At(h, "apply")' => h = g
    BY <1>1, <1>4, PrivNames DEF PrivInv, LocksInv, At
  <2>2. Carried(g)'
    BY <1>1, <1>2, <1>4 DEF Carried
  <2> QED BY <1>1, <2>1, <2>2, PrivNames DEF CarryInv
<1>10. MatchInv'
  <2>1. At(g, "apply")' /\ g \in Goroutines \ {"boot"}
    BY <1>1, <1>4 DEF At
  <2> QED BY <2>1 DEF MatchInv
<1>11. AskedInv'
  BY <1>1, <1>4 DEF PrivInv, AskedInv, At, Updating
<1> QED BY <1>5, <1>6, <1>7, <1>8, <1>9, <1>10, <1>11 DEF PrivInv

LEMMA PrivApplyPause ==
    ASSUME PrivInv, NEW g \in {"scheduler", "handler"}, ApplyPause(g) PROVE PrivInv'
<1>1. /\ UNCHANGED <<camera, manual, off, attached, window, lens, count, asked>>
      /\ proc[g].at = "apply" /\ op = g /\ op' = "free" /\ mutate = g /\ mutate' = "free" /\ Booted
      /\ proc' = [proc EXCEPT ![g] = Idle] /\ g \in Goroutines
      /\ pipe' = Pause(proc[g].on)
  BY PrivNames DEF ApplyPause, PrivInv, LocksInv, BootInv, maps, At
<1>2. Rested(g)
  <2>1. "idle" \in Points /\ proc[g].on \in BOOLEAN
    BY PrivNames DEF Points, PrivInv, PrivTypes, Procs
  <2> QED BY <1>1, <2>1, PrivSchedulers
<1>3. /\ \A r \in Requests : proc'[r] = proc[r]
      /\ \A s \in Seeds : proc'[s] = proc[s]
      /\ \A h \in {"scheduler", "handler"} : h # g => proc'[h] = proc[h] /\ proc[h].at = "idle"
      /\ proc'["boot"] = proc["boot"] /\ proc'[g].at = "idle"
  BY <1>1, <1>2, PrivNames DEF Rested, Elsewhere, PrivInv, LocksInv, At
<1>4. /\ pipe' \in {"absent", "armed", "paused"} /\ (pipe' # "absent" <=> pipe # "absent")
      /\ pipe = "absent" \/ (pipe' = "paused" <=> proc[g].on)
  BY <1>1 DEF PrivInv, PrivTypes, Pause
<1>5. PrivTypes'
  BY <1>1, <1>2, <1>4 DEF PrivInv, PrivTypes, Rested
<1>6. PlacesInv' /\ HandlerInv'
  BY <1>1, <1>3 DEF PrivInv, PlacesInv, TickPoints, HandlerInv
<1>7. PipeInv'
  BY <1>1, <1>3, <1>4 DEF PrivInv, PipeInv
<1>8. LocksInv'
  BY <1>1, <1>3, PrivNames DEF PrivInv, LocksInv, Updating, At
<1>9. BootInv'
  BY <1>1, <1>3 DEF BootInv, Booted, At
<1>10. CarryInv'
  BY <1>1, <1>3 DEF PrivInv, CarryInv, Booted, At, Carried, Later
<1>11. MatchInv'
  <2>1. proc[g].on <=> manual \/ off
    BY <1>1 DEF PrivInv, CarryInv, Carried, At
  <2> QED BY <1>1, <1>4, <2>1 DEF MatchInv
<1>12. AskedInv'
  BY <1>1, <1>3 DEF PrivInv, AskedInv, At, Updating
<1> QED BY <1>5, <1>6, <1>7, <1>8, <1>9, <1>10, <1>11, <1>12 DEF PrivInv

-----------------------------------------------------------------------------
(* The camera handlers.                                                    *)

\* A handler holds camMutateMu, so that nobody evaluates the schedule meanwhile, and
\* all others stay where they are.
LEMMA PrivHandlers ==
    ASSUME PrivInv, proc["handler"].at # "idle", NEW at \in Points
    PROVE  /\ Booted /\ mutate = "handler" /\ proc["scheduler"].at = "idle"
           /\ "handler" \in Goroutines /\ proc \in [Goroutines -> Procs]
           /\ proc["handler"] \in Procs
           /\ Go("handler", at) => Moved("handler", at, proc["handler"].on)
           /\ proc' = [proc EXCEPT !["handler"] = Idle] => Rested("handler")
           /\ Elsewhere("handler") =>
                /\ \A r \in Requests : proc'[r] = proc[r]
                /\ \A s \in Seeds : proc'[s] = proc[s]
                /\ proc'["scheduler"] = proc["scheduler"] /\ proc'["boot"] = proc["boot"]
<1>1. /\ "handler" \in Goroutines /\ proc \in [Goroutines -> Procs]
      /\ proc["handler"] \in Procs /\ proc["handler"].on \in BOOLEAN
  BY PrivNames DEF PrivInv, PrivTypes, Procs
<1>2. /\ Go("handler", at) => Moved("handler", at, proc["handler"].on)
      /\ proc' = [proc EXCEPT !["handler"] = Idle] => Rested("handler")
  BY <1>1, PrivMoves
<1>3. Elsewhere("handler") =>
        /\ \A r \in Requests : proc'[r] = proc[r]
        /\ \A s \in Seeds : proc'[s] = proc[s]
        /\ proc'["scheduler"] = proc["scheduler"] /\ proc'["boot"] = proc["boot"]
  BY PrivNames DEF Elsewhere
<1>4. mutate = "handler" /\ proc["scheduler"].at = "idle" /\ Booted
  BY DEF PrivInv, LocksInv, BootInv, At
<1> QED BY <1>1, <1>2, <1>3, <1>4

LEMMA PrivBegin ==
    ASSUME PrivInv, BeginMutation PROVE PrivInv'
<1>1. PICK o \in Operations, target \in Cameras, at \in {"add", "lock", "remove"} :
        /\ (o = "create") <=> (camera = "absent")
        /\ (o = "delete") <=> (target = "absent")
        /\ at = (CASE o = "create" -> "add" [] o = "update" -> "lock" [] o = "delete" -> "remove")
        /\ proc' = [proc EXCEPT !["handler"] = [Idle EXCEPT !.target = target, !.at = at]]
  <2>1. PICK o \in Operations, target \in Cameras :
        /\ (o = "create") <=> (camera = "absent")
        /\ (o = "delete") <=> (target = "absent")
        /\ proc' = [proc EXCEPT !["handler"] = [Idle EXCEPT !.target = target,
            !.at = CASE o = "create" -> "add" [] o = "update" -> "lock" [] o = "delete" -> "remove"]]
    BY DEF BeginMutation
  <2>2. PICK at : at = (CASE o = "create" -> "add" [] o = "update" -> "lock" [] o = "delete" -> "remove")
    OBVIOUS
  <2>3. at \in {"add", "lock", "remove"}
    BY <2>2, BoundsAssumption
  <2> QED BY <2>1, <2>2, <2>3
<1>2. /\ at = "add" <=> camera = "absent"
      /\ at = "remove" <=> target = "absent"
      /\ target = "absent" => camera # "absent"
  BY <1>1, BoundsAssumption
<1>3. /\ UNCHANGED <<camera, manual, off, attached, pipe, window, lens, op, asked>>
      /\ Booted /\ mutate = "free" /\ mutate' = "handler" /\ proc["handler"].at = "idle"
      /\ count.mutations < MaxMutations /\ count' = [count EXCEPT !.mutations = @ + 1]
  BY DEF BeginMutation, maps, At
<1>4. PICK q \in Procs : q = [Idle EXCEPT !.target = target, !.at = at]
  BY PrivIdle DEF Procs, Points
<1>5. q.at = at /\ q.target = target
  BY <1>4, PrivIdle DEF Procs
<1>6. /\ proc' \in [Goroutines -> Procs] /\ Elsewhere("handler")
      /\ proc'["handler"].at = at /\ proc'["handler"].target = target
  BY <1>1, <1>4, <1>5, PrivNames DEF Elsewhere, PrivInv, PrivTypes
<1>7. /\ \A r \in Requests : proc'[r] = proc[r]
      /\ \A s \in Seeds : proc'[s] = proc[s]
      /\ proc'["scheduler"] = proc["scheduler"] /\ proc'["boot"] = proc["boot"]
  BY <1>6, PrivNames DEF Elsewhere
<1>8. count' \in [requests : 0..MaxRequests, mutations : 0..MaxMutations,
                  windows : 0..MaxWindows, switches : 0..MaxSwitches]
  <2>1. count.mutations + 1 \in 0..MaxMutations
    BY <1>3, BoundsAssumption DEF PrivInv, PrivTypes
  <2> QED BY <1>3, <2>1 DEF PrivInv, PrivTypes
<1>9. PrivTypes'
  BY <1>3, <1>6, <1>8 DEF PrivInv, PrivTypes
<1>10. PlacesInv'
  BY <1>3, <1>6, <1>7 DEF PrivInv, PlacesInv, ChangePoints
<1>11. HandlerInv'
  BY <1>2, <1>3, <1>6 DEF HandlerInv
<1>12. PipeInv'
  BY <1>2, <1>3, <1>6 DEF PrivInv, PipeInv, Enabled
<1>13. LocksInv'
  BY <1>2, <1>3, <1>6, <1>7, PrivNames DEF PrivInv, LocksInv, Updating, At
<1>14. BootInv'
  BY <1>3, <1>7 DEF BootInv, Booted, At
<1>15. CarryInv'
  BY <1>3, <1>6, <1>7 DEF PrivInv, CarryInv, Booted, At, Carried, Later
<1>16. MatchInv'
  <2>1. \A h \in Goroutines : At(h, "apply")' <=> At(h, "apply")
    BY <1>3, <1>6, <1>7, PrivNames DEF At
  <2> QED BY <1>3, <1>6, <1>7, <2>1 DEF PrivInv, MatchInv, Booted, At, Later
<1>17. AskedInv'
  BY <1>2, <1>3, <1>6, <1>7 DEF PrivInv, AskedInv, At, Updating
<1> QED BY <1>9, <1>10, <1>11, <1>12, <1>13, <1>14, <1>15, <1>16, <1>17 DEF PrivInv

LEMMA PrivLockUpdate ==
    ASSUME PrivInv, LockUpdate PROVE PrivInv'
<1>1. /\ UNCHANGED <<camera, manual, off, attached, pipe, window, lens, mutate, count, asked>>
      /\ proc["handler"].at = "lock" /\ op = "free" /\ op' = "handler"
      /\ proc' = [proc EXCEPT !["handler"].was = manual, !["handler"].at = "remove"]
      /\ manual \in BOOLEAN
  BY DEF LockUpdate, maps, At, PrivInv, PrivTypes
<1>2. PICK p \in Procs : p = proc["handler"]
  BY PrivNames DEF PrivInv, PrivTypes
<1>3. PICK q \in Procs : q = [p EXCEPT !.was = manual, !.at = "remove"]
  BY <1>1 DEF Procs, Points
<1>4. q.at = "remove" /\ q.was = manual /\ q.target = p.target
  BY <1>3 DEF Procs
<1>5. proc' = [proc EXCEPT !["handler"] = q]
  BY <1>1, <1>2, <1>3, PrivNames DEF PrivInv, PrivTypes, Procs
<1>6. /\ proc' \in [Goroutines -> Procs] /\ Elsewhere("handler")
      /\ proc'["handler"].at = "remove" /\ proc'["handler"].was = manual
      /\ proc'["handler"].target = proc["handler"].target
  BY <1>2, <1>4, <1>5, PrivNames DEF Elsewhere, PrivInv, PrivTypes
<1>7. /\ \A r \in Requests : proc'[r] = proc[r]
      /\ \A s \in Seeds : proc'[s] = proc[s]
      /\ proc'["scheduler"] = proc["scheduler"] /\ proc'["boot"] = proc["boot"]
      /\ Booted /\ proc["scheduler"].at = "idle"
  <2>1. "remove" \in Points
    BY DEF Points
  <2> QED BY <1>1, <1>6, <2>1, PrivHandlers
<1>8. camera # "absent" /\ proc["handler"].target # "absent"
  BY <1>1 DEF PrivInv, HandlerInv
<1>9. PrivTypes'
  BY <1>1, <1>6, PrivNames DEF PrivInv, PrivTypes
<1>10. PlacesInv'
  BY <1>1, <1>6, <1>7 DEF PrivInv, PlacesInv, ChangePoints
<1>11. HandlerInv' /\ PipeInv'
  BY <1>1, <1>6, <1>8 DEF PrivInv, HandlerInv, PipeInv
<1>12. LocksInv'
  BY <1>1, <1>6, <1>7, <1>8, PrivNames DEF PrivInv, LocksInv, Updating, At
<1>13. BootInv'
  BY <1>1, <1>7 DEF BootInv, Booted, At
<1>14. CarryInv'
  BY <1>1, <1>6, <1>7 DEF PrivInv, CarryInv, Booted, At, Carried, Later
<1>15. MatchInv'
  BY <1>6 DEF MatchInv
<1>16. AskedInv'
  BY <1>1, <1>6, <1>7 DEF PrivInv, AskedInv, At
<1> QED BY <1>9, <1>10, <1>11, <1>12, <1>13, <1>14, <1>15, <1>16 DEF PrivInv

\* The old pipeline goes, the new one comes unpaused.
LEMMA PrivRemovePipe ==
    ASSUME PrivInv, RemovePipe PROVE PrivInv'
<1>1. /\ UNCHANGED <<camera, manual, off, attached, window, lens, mutate, op, count, asked>>
      /\ proc["handler"].at = "remove" /\ pipe' = "absent"
  BY DEF RemovePipe, maps, locks, At
<1>2. PICK at \in {"publish", "add"} :
        Go("handler", at) /\ (at = "publish" <=> proc["handler"].target = "absent")
  BY DEF RemovePipe, Deleting
<1>3. at \in Points
  BY DEF Points
<1>4. Moved("handler", at, proc["handler"].on)
  BY <1>1, <1>2, <1>3, PrivHandlers
<1>5. /\ \A r \in Requests : proc'[r] = proc[r]
      /\ \A s \in Seeds : proc'[s] = proc[s]
      /\ proc'["scheduler"] = proc["scheduler"] /\ proc'["boot"] = proc["boot"]
      /\ Booted /\ proc["scheduler"].at = "idle"
      /\ proc'["handler"].at = at /\ proc'["handler"].was = proc["handler"].was
      /\ proc'["handler"].target = proc["handler"].target
  <2>1. Elsewhere("handler")
    BY <1>4 DEF Moved
  <2> QED BY <1>1, <1>3, <1>4, <2>1, PrivHandlers DEF Moved
<1>6. camera # "absent"
  BY <1>1 DEF PrivInv, HandlerInv
<1>7. PrivTypes'
  BY <1>1, <1>4 DEF PrivInv, PrivTypes, Moved
<1>8. PlacesInv'
  BY <1>1, <1>5 DEF PrivInv, PlacesInv, ChangePoints
<1>9. HandlerInv' /\ PipeInv'
  BY <1>1, <1>2, <1>5, <1>6 DEF HandlerInv, PipeInv, Enabled
<1>10. LocksInv'
  BY <1>1, <1>2, <1>5, <1>6, PrivNames DEF PrivInv, LocksInv, Updating, At
<1>11. BootInv'
  BY <1>1, <1>5 DEF BootInv, Booted, At
<1>12. CarryInv'
  BY <1>1, <1>5 DEF PrivInv, CarryInv, Booted, At, Carried, Later
<1>13. MatchInv'
  BY <1>5 DEF MatchInv
<1>14. AskedInv'
  BY <1>1, <1>2, <1>5 DEF PrivInv, AskedInv, At, Updating
<1> QED BY <1>7, <1>8, <1>9, <1>10, <1>11, <1>12, <1>13, <1>14 DEF PrivInv

LEMMA PrivAddPipe ==
    ASSUME PrivInv, AddPipe PROVE PrivInv'
<1>1. /\ UNCHANGED <<camera, manual, off, attached, window, lens, mutate, op, count, asked>>
      /\ proc["handler"].at = "add" /\ Go("handler", "publish")
      /\ pipe' = IF proc["handler"].target \in Enabled THEN "armed" ELSE "absent"
  BY DEF AddPipe, maps, locks, At
<1>2. "publish" \in Points
  BY DEF Points
<1>3. Moved("handler", "publish", proc["handler"].on)
  BY <1>1, <1>2, PrivHandlers
<1>4. /\ \A r \in Requests : proc'[r] = proc[r]
      /\ \A s \in Seeds : proc'[s] = proc[s]
      /\ proc'["scheduler"] = proc["scheduler"] /\ proc'["boot"] = proc["boot"]
      /\ Booted /\ proc["scheduler"].at = "idle"
      /\ proc'["handler"].at = "publish" /\ proc'["handler"].was = proc["handler"].was
      /\ proc'["handler"].target = proc["handler"].target
  <2>1. Elsewhere("handler")
    BY <1>3 DEF Moved
  <2> QED BY <1>1, <1>2, <1>3, <2>1, PrivHandlers DEF Moved
<1>5. proc["handler"].target # "absent"
  BY <1>1 DEF PrivInv, HandlerInv
<1>6. PrivTypes'
  BY <1>1, <1>3 DEF PrivInv, PrivTypes, Moved
<1>7. PlacesInv'
  BY <1>1, <1>4 DEF PrivInv, PlacesInv, ChangePoints
<1>8. HandlerInv' /\ PipeInv'
  BY <1>1, <1>4, <1>5 DEF PrivInv, HandlerInv, PipeInv
<1>9. LocksInv'
  BY <1>1, <1>4, <1>5, PrivNames DEF PrivInv, LocksInv, Updating, At
<1>10. BootInv'
  BY <1>1, <1>4 DEF BootInv, Booted, At
<1>11. CarryInv'
  BY <1>1, <1>4 DEF PrivInv, CarryInv, Booted, At, Carried, Later
<1>12. MatchInv'
  BY <1>4 DEF MatchInv
<1>13. AskedInv'
  BY <1>1, <1>4 DEF PrivInv, AskedInv, At, Updating
<1> QED BY <1>6, <1>7, <1>8, <1>9, <1>10, <1>11, <1>12, <1>13 DEF PrivInv

LEMMA PrivPublish ==
    ASSUME PrivInv, Publish PROVE PrivInv'
<1>1. /\ UNCHANGED <<manual, off, attached, pipe, window, lens, mutate, op, count, asked>>
      /\ proc["handler"].at = "publish" /\ camera' = proc["handler"].target
  BY DEF Publish, maps, locks, At
<1>2. PICK at \in {"evaluate", "bump"} :
        Go("handler", at) /\ (at = "evaluate" <=> camera = "absent")
  BY DEF Publish
<1>3. at \in Points
  BY DEF Points
<1>4. Moved("handler", at, proc["handler"].on)
  BY <1>1, <1>2, <1>3, PrivHandlers
<1>5. /\ \A r \in Requests : proc'[r] = proc[r]
      /\ \A s \in Seeds : proc'[s] = proc[s]
      /\ proc'["scheduler"] = proc["scheduler"] /\ proc'["boot"] = proc["boot"]
      /\ Booted /\ proc["scheduler"].at = "idle"
      /\ proc'["handler"].at = at /\ proc'["handler"].was = proc["handler"].was
      /\ proc'["handler"].target = proc["handler"].target
  <2>1. Elsewhere("handler")
    BY <1>4 DEF Moved
  <2> QED BY <1>1, <1>3, <1>4, <2>1, PrivHandlers DEF Moved
<1>6. camera # "absent" \/ proc["handler"].target # "absent"
  BY <1>1 DEF PrivInv, HandlerInv
<1>7. camera' \in Cameras
  <2>1. proc["handler"] \in Procs
    BY PrivNames DEF PrivInv, PrivTypes
  <2> QED BY <1>1, <2>1 DEF Procs
<1>8. PrivTypes'
  BY <1>1, <1>4, <1>7 DEF PrivInv, PrivTypes, Moved
<1>9. PlacesInv'
  BY <1>1, <1>2, <1>5 DEF PrivInv, PlacesInv, ChangePoints, TickPoints
<1>10. HandlerInv'
  BY <1>1, <1>2, <1>5 DEF HandlerInv
<1>11. PipeInv'
  BY <1>1, <1>2, <1>5, <1>6 DEF PrivInv, PipeInv
<1>12. LocksInv'
  BY <1>1, <1>2, <1>5, <1>6, PrivNames DEF PrivInv, LocksInv, Updating, At
<1>13. BootInv'
  BY <1>1, <1>5 DEF BootInv, Booted, At
<1>14. CarryInv'
  BY <1>1, <1>2, <1>5 DEF PrivInv, CarryInv, Booted, At, Carried, Later
<1>15. MatchInv'
  <2>1. CASE at = "bump"
    BY <1>5, <2>1 DEF MatchInv
  <2>2. CASE at = "evaluate"
    <3>1. pipe # "paused" /\ ~manual /\ ~off
      BY <1>1, <1>2, <2>2 DEF PrivInv, PipeInv
    <3> QED BY <1>1, <3>1 DEF MatchInv
  <2> QED BY <2>1, <2>2
<1>16. AskedInv'
  BY <1>1, <1>2, <1>5, <1>6 DEF PrivInv, AskedInv, At, Updating
<1> QED BY <1>8, <1>9, <1>10, <1>11, <1>12, <1>13, <1>14, <1>15, <1>16 DEF PrivInv

LEMMA PrivBump ==
    ASSUME PrivInv, Bump PROVE PrivInv'
<1>1. /\ UNCHANGED <<camera, manual, off, attached, pipe, window, lens, mutate, op, count, asked>>
      /\ proc["handler"].at = "bump" /\ proc \in [Goroutines -> Procs]
  BY DEF Bump, maps, locks, At, PrivInv, PrivTypes
<1>2. ASSUME NEW g \in Goroutines
      PROVE  /\ proc'[g] \in Procs
             /\ proc'[g].at = IF g = "handler" THEN "drop" ELSE proc[g].at
             /\ proc'[g].on = proc[g].on /\ proc'[g].was = proc[g].was
             /\ proc'[g].target = proc[g].target /\ proc'[g].toggled = proc[g].toggled
  <2>1. PICK p \in Procs : p = proc[g]
    BY <1>1
  <2>2. PICK e \in BOOLEAN : e = (p.edited \/ g \in Seeds)
    OBVIOUS
  <2>3. PICK at \in Points : at = IF g = "handler" THEN "drop" ELSE p.at
    BY DEF Procs, Points
  <2>4. proc'[g] = [p EXCEPT !.edited = e, !.at = at]
    BY <2>1, <2>2, <2>3 DEF Bump, Procs
  <2>5. /\ proc'[g] \in Procs /\ proc'[g].at = at
    BY <2>4 DEF Procs
  <2>6. /\ proc'[g].on = p.on /\ proc'[g].was = p.was /\ proc'[g].target = p.target
        /\ proc'[g].toggled = p.toggled
    BY <2>4 DEF Procs
  <2> QED BY <2>1, <2>3, <2>5, <2>6
<1>3. proc' \in [Goroutines -> Procs]
  <2>1. proc' = [g \in Goroutines |-> proc'[g]]
    BY DEF Bump
  <2> QED BY <1>2, <2>1
<1>4. /\ \A g \in Goroutines : /\ g # "handler" => proc'[g].at = proc[g].at
                               /\ proc'[g].on = proc[g].on /\ proc'[g].was = proc[g].was
                               /\ proc'[g].target = proc[g].target
                               /\ proc'[g].toggled = proc[g].toggled
      /\ proc'["handler"].at = "drop"
      /\ Booted /\ proc["scheduler"].at = "idle"
  <2>1. "drop" \in Points
    BY DEF Points
  <2> QED BY <1>1, <1>2, <2>1, PrivNames, PrivHandlers
<1>5. PrivTypes'
  BY <1>1, <1>3 DEF PrivInv, PrivTypes
<1>6. PlacesInv'
  BY <1>1, <1>4, PrivNames DEF PrivInv, PlacesInv, ChangePoints
<1>7. HandlerInv' /\ PipeInv'
  BY <1>1, <1>4, PrivNames DEF PrivInv, HandlerInv, PipeInv
<1>8. LocksInv'
  BY <1>1, <1>4, PrivNames DEF PrivInv, LocksInv, Updating, At
<1>9. BootInv'
  BY <1>1, <1>4, PrivNames DEF BootInv, Booted, At
<1>10. CarryInv'
  BY <1>1, <1>4, PrivNames DEF PrivInv, CarryInv, Booted, At, Carried, Later
<1>11. MatchInv'
  BY <1>4 DEF MatchInv
<1>12. AskedInv'
  BY <1>1, <1>4, PrivNames DEF PrivInv, AskedInv, At, Updating
<1> QED BY <1>5, <1>6, <1>7, <1>8, <1>9, <1>10, <1>11, <1>12 DEF PrivInv

\* A deletion meets no request here; an update restores what it found.
LEMMA PrivDrop ==
    ASSUME PrivInv, Buried, Drop PROVE PrivInv'
<1>1. /\ UNCHANGED <<camera, attached, pipe, window, lens, op, count>>
      /\ proc["handler"].at = "drop" /\ ~manual' /\ manual' \in BOOLEAN /\ ~off' /\ off' \in BOOLEAN
      /\ asked' = (asked /\ proc["handler"].target = "capable") /\ asked' \in BOOLEAN
  BY DEF Drop, Dropped, At, PrivInv, PrivTypes
<1>2. /\ camera = proc["handler"].target /\ pipe # "paused"
      /\ pipe # "absent" <=> camera \in Enabled
      /\ mutate = "handler" /\ Booted
  BY <1>1, PrivNames DEF PrivInv, HandlerInv, PipeInv, LocksInv, BootInv, At
<1>3. \/ op = "free" /\ camera = "absent"
      \/ op = "handler" /\ camera # "absent"
  BY <1>1, <1>2 DEF PrivInv, LocksInv, Updating, Buried
<1>4. \A g \in Goroutines \ {"boot"} : proc[g].at # "apply"
  BY <1>1, <1>3, PrivNames DEF PrivInv, LocksInv, At
<1>5. PICK at \in {"idle", "restore", "unlock"} :
        /\ proc' \in [Goroutines -> Procs] /\ Elsewhere("handler")
        /\ proc'["handler"].at = at
        /\ at = "idle" <=> camera = "absent"
        /\ at = "idle" => mutate' = "free"
        /\ at # "idle" => /\ proc'["handler"].target = proc["handler"].target
                          /\ proc'["handler"].was = proc["handler"].was
                          /\ mutate' = mutate
        /\ at = "restore" <=> proc["handler"].was /\ proc["handler"].target = "capable"
  <2>1. "restore" \in Points /\ "unlock" \in Points
    BY DEF Points
  <2>2. CASE Deleting
    <3>1. proc' = [proc EXCEPT !["handler"] = Idle] /\ mutate' = "free"
      BY <2>2 DEF Drop
    <3> QED BY <1>1, <1>2, <2>1, <2>2, <3>1, PrivHandlers DEF Rested, Deleting
  <2>3. CASE ~Deleting /\ Restores
    <3>1. Go("handler", "restore") /\ mutate' = mutate
      BY <2>3 DEF Drop
    <3> QED BY <1>1, <1>2, <2>1, <2>3, <3>1, PrivHandlers DEF Moved, Deleting, Restores
  <2>4. CASE ~Deleting /\ ~Restores
    <3>1. Go("handler", "unlock") /\ mutate' = mutate
      BY <2>4 DEF Drop
    <3> QED BY <1>1, <1>2, <2>1, <2>4, <3>1, PrivHandlers DEF Moved, Deleting, Restores
  <2> QED BY <2>2, <2>3, <2>4
<1>6. /\ \A r \in Requests : proc'[r] = proc[r]
      /\ \A s \in Seeds : proc'[s] = proc[s]
      /\ proc'["scheduler"] = proc["scheduler"] /\ proc'["boot"] = proc["boot"]
      /\ proc["scheduler"].at = "idle"
  <2>1. "unlock" \in Points
    BY DEF Points
  <2> QED BY <1>1, <1>5, <2>1, PrivHandlers
<1>7. PrivTypes'
  BY <1>1, <1>5 DEF PrivInv, PrivTypes
<1>8. PlacesInv'
  BY <1>1, <1>5, <1>6 DEF PrivInv, PlacesInv, ChangePoints, TickPoints
<1>9. HandlerInv'
  BY <1>1, <1>2, <1>5 DEF HandlerInv
<1>10. PipeInv'
  BY <1>1, <1>2, <1>5 DEF PipeInv
<1>11. LocksInv'
  BY <1>1, <1>2, <1>3, <1>5, <1>6, PrivNames DEF PrivInv, LocksInv, Updating, At
<1>12. BootInv'
  BY <1>2, <1>6 DEF BootInv, Booted, At
<1>13. CarryInv'
  BY <1>4, <1>5, <1>6, PrivNames DEF CarryInv, At
<1>14. MatchInv'
  BY <1>1, <1>2 DEF MatchInv
<1>15. AskedInv'
  BY <1>1, <1>2, <1>3, <1>5, <1>6 DEF PrivInv, AskedInv, At, Updating
<1> QED BY <1>7, <1>8, <1>9, <1>10, <1>11, <1>12, <1>13, <1>14, <1>15 DEF PrivInv

LEMMA PrivRestore ==
    ASSUME PrivInv, Restore PROVE PrivInv'
<1>1. /\ UNCHANGED <<camera, off, attached, pipe, window, lens, mutate, op, count, asked>>
      /\ proc["handler"].at = "restore" /\ manual' = TRUE
      /\ proc' = [Toggled EXCEPT !["handler"].at = "pause"]
      /\ "handler" \in Goroutines /\ "handler" \notin Seeds /\ proc \in [Goroutines -> Procs]
      /\ proc["handler"].on \in BOOLEAN
  BY PrivNames DEF Restore, locks, At, PrivInv, PrivTypes, Procs
<1>2. MovedToggling("handler", "pause", proc["handler"].on)
  <2>1. "pause" \in Points
    BY DEF Points
  <2> QED BY <1>1, <2>1, PrivToggles
<1>3. /\ \A g \in Goroutines : /\ g # "handler" => proc'[g].at = proc[g].at
                               /\ g # "handler" => proc'[g].on = proc[g].on
                               /\ proc'[g].was = proc[g].was
                               /\ proc'[g].target = proc[g].target
      /\ \A s \in Seeds : proc'[s].toggled
      /\ proc'["handler"].at = "pause"
      /\ Booted /\ proc["scheduler"].at = "idle"
  <2>1. "pause" \in Points
    BY DEF Points
  <2> QED BY <1>1, <1>2, <2>1, PrivHandlers DEF MovedToggling
<1>4. /\ camera = "capable" /\ proc["handler"].was /\ proc["handler"].target = camera
      /\ op = "handler"
  BY <1>1 DEF PrivInv, HandlerInv, LocksInv, Updating, At
<1>5. \A g \in Goroutines \ {"boot"} : proc[g].at # "apply"
  BY <1>1, <1>4, PrivNames DEF PrivInv, LocksInv, At
<1>6. PrivTypes'
  BY <1>1, <1>2 DEF PrivInv, PrivTypes, MovedToggling
<1>7. PlacesInv'
  BY <1>1, <1>3, PrivNames DEF PrivInv, PlacesInv, ChangePoints
<1>8. HandlerInv' /\ PipeInv'
  BY <1>1, <1>3, <1>4, PrivNames DEF PrivInv, HandlerInv, PipeInv
<1>9. LocksInv'
  BY <1>1, <1>3, <1>4, PrivNames DEF PrivInv, LocksInv, Updating, At
<1>10. BootInv'
  BY <1>1, <1>3, PrivNames DEF BootInv, Booted, At
<1>11. CarryInv'
  BY <1>3, <1>5, PrivNames DEF CarryInv, At
<1>12. MatchInv'
  BY <1>3 DEF MatchInv
<1>13. AskedInv'
  BY <1>1, <1>3, <1>4 DEF PrivInv, AskedInv, At
<1> QED BY <1>6, <1>7, <1>8, <1>9, <1>10, <1>11, <1>12, <1>13 DEF PrivInv

LEMMA PrivPauseRestored ==
    ASSUME PrivInv, PauseRestored PROVE PrivInv'
<1>1. /\ UNCHANGED <<camera, manual, off, attached, window, lens, mutate, op, count, asked>>
      /\ proc["handler"].at = "pause" /\ Go("handler", "unlock") /\ pipe' = Pause(TRUE)
  BY DEF PauseRestored, maps, locks, At
<1>2. "unlock" \in Points
  BY DEF Points
<1>3. Moved("handler", "unlock", proc["handler"].on)
  BY <1>1, <1>2, PrivHandlers
<1>4. /\ \A r \in Requests : proc'[r] = proc[r]
      /\ \A s \in Seeds : proc'[s] = proc[s]
      /\ proc'["scheduler"] = proc["scheduler"] /\ proc'["boot"] = proc["boot"]
      /\ Booted /\ proc["scheduler"].at = "idle"
      /\ proc'["handler"].at = "unlock" /\ proc'["handler"].was = proc["handler"].was
      /\ proc'["handler"].target = proc["handler"].target
  <2>1. Elsewhere("handler")
    BY <1>3 DEF Moved
  <2> QED BY <1>1, <1>2, <1>3, <2>1, PrivHandlers DEF Moved
<1>5. /\ pipe' \in {"absent", "paused"} /\ (pipe' # "absent" <=> pipe # "absent")
  BY <1>1 DEF Pause
<1>6. manual /\ ~off /\ camera = "capable"
  BY <1>1 DEF PrivInv, PipeInv, HandlerInv
<1>7. PrivTypes'
  BY <1>1, <1>3, <1>5 DEF PrivInv, PrivTypes, Moved
<1>8. PlacesInv'
  BY <1>1, <1>4 DEF PrivInv, PlacesInv, ChangePoints
<1>9. HandlerInv' /\ PipeInv'
  BY <1>1, <1>4, <1>5, <1>6 DEF PrivInv, HandlerInv, PipeInv
<1>10. LocksInv'
  BY <1>1, <1>4, PrivNames DEF PrivInv, LocksInv, Updating, At
<1>11. BootInv'
  BY <1>1, <1>4 DEF BootInv, Booted, At
<1>12. CarryInv'
  BY <1>1, <1>4 DEF PrivInv, CarryInv, Booted, At, Carried, Later
<1>13. MatchInv'
  BY <1>1, <1>5, <1>6 DEF MatchInv
<1>14. AskedInv'
  BY <1>1, <1>4 DEF PrivInv, AskedInv, At, Updating
<1> QED BY <1>7, <1>8, <1>9, <1>10, <1>11, <1>12, <1>13, <1>14 DEF PrivInv

LEMMA PrivUnlockUpdate ==
    ASSUME PrivInv, UnlockUpdate PROVE PrivInv'
<1>1. /\ UNCHANGED <<camera, manual, off, attached, pipe, window, lens, mutate, count, asked>>
      /\ proc["handler"].at = "unlock" /\ Go("handler", "evaluate") /\ op' = "free"
  BY DEF UnlockUpdate, maps, At
<1>2. "evaluate" \in Points
  BY DEF Points
<1>3. Moved("handler", "evaluate", proc["handler"].on)
  BY <1>1, <1>2, PrivHandlers
<1>4. /\ \A r \in Requests : proc'[r] = proc[r]
      /\ \A s \in Seeds : proc'[s] = proc[s]
      /\ proc'["scheduler"] = proc["scheduler"] /\ proc'["boot"] = proc["boot"]
      /\ Booted /\ proc["scheduler"].at = "idle"
      /\ proc'["handler"].at = "evaluate"
  <2>1. Elsewhere("handler")
    BY <1>3 DEF Moved
  <2> QED BY <1>1, <1>2, <1>3, <2>1, PrivHandlers DEF Moved
<1>5. op = "handler" /\ camera # "absent"
  BY <1>1 DEF PrivInv, HandlerInv, LocksInv, Updating
<1>6. PrivTypes'
  BY <1>1, <1>3 DEF PrivInv, PrivTypes, Moved
<1>7. PlacesInv'
  BY <1>1, <1>4 DEF PrivInv, PlacesInv, TickPoints
<1>8. HandlerInv' /\ PipeInv'
  BY <1>1, <1>4, <1>5 DEF PrivInv, HandlerInv, PipeInv
<1>9. LocksInv'
  BY <1>1, <1>4, <1>5, PrivNames DEF PrivInv, LocksInv, Updating, At
<1>10. BootInv'
  BY <1>1, <1>4 DEF BootInv, Booted, At
<1>11. CarryInv'
  BY <1>1, <1>4 DEF PrivInv, CarryInv, Booted, At, Carried, Later
<1>12. MatchInv'
  <2>1. \A h \in Goroutines : At(h, "apply")' <=> At(h, "apply")
    BY <1>1, <1>4, PrivNames DEF At
  <2> QED BY <1>1, <1>4, <2>1 DEF PrivInv, MatchInv, Booted, At, Later
<1>13. AskedInv'
  BY <1>1, <1>4 DEF PrivInv, AskedInv, At, Updating
<1> QED BY <1>6, <1>7, <1>8, <1>9, <1>10, <1>11, <1>12, <1>13 DEF PrivInv

-----------------------------------------------------------------------------
(* The world, the start, and every step.                                   *)

LEMMA PrivWorld ==
    ASSUME PrivInv, WindowChanges \/ LensSwitched PROVE PrivInv'
<1>1. /\ UNCHANGED <<camera, manual, off, attached, pipe, mutate, op, proc>>
      /\ asked' => asked
      /\ asked' /\ lens => lens'
  <2>1. CASE WindowChanges
    BY <2>1 DEF WindowChanges, maps, locks
  <2>2. CASE LensSwitched
    BY <2>2 DEF LensSwitched, maps, locks
  <2> QED BY <2>1, <2>2
<1>2. window' \in BOOLEAN /\ lens' \in BOOLEAN /\ asked' \in BOOLEAN
  BY DEF WindowChanges, LensSwitched, PrivInv, PrivTypes
<1>3. count' \in [requests : 0..MaxRequests, mutations : 0..MaxMutations,
                  windows : 0..MaxWindows, switches : 0..MaxSwitches]
  <2>1. CASE WindowChanges
    <3>1. count.windows + 1 \in 0..MaxWindows
      BY <2>1, BoundsAssumption DEF WindowChanges, PrivInv, PrivTypes
    <3> QED BY <2>1, <3>1 DEF WindowChanges, PrivInv, PrivTypes
  <2>2. CASE LensSwitched
    <3>1. count.switches + 1 \in 0..MaxSwitches
      BY <2>2, BoundsAssumption DEF LensSwitched, PrivInv, PrivTypes
    <3> QED BY <2>2, <3>1 DEF LensSwitched, PrivInv, PrivTypes
  <2> QED BY <2>1, <2>2
<1>4. PrivTypes'
  BY <1>1, <1>2, <1>3 DEF PrivInv, PrivTypes
<1>5. PlacesInv' /\ HandlerInv' /\ PipeInv'
  BY <1>1 DEF PrivInv, PlacesInv, HandlerInv, PipeInv
<1>6. LocksInv'
  BY <1>1 DEF PrivInv, LocksInv, Updating, At
<1>7. BootInv'
  BY <1>1 DEF PrivInv, BootInv, Booted, At
<1>8. CarryInv' /\ MatchInv'
  BY <1>1 DEF PrivInv, CarryInv, MatchInv, Booted, Carried, Later, At
<1>9. AskedInv'
  BY <1>1 DEF PrivInv, AskedInv, Updating, At
<1> QED BY <1>4, <1>5, <1>6, <1>7, <1>8, <1>9 DEF PrivInv

\* At the start only the seed of the boot is under way, and it has read nothing.
LEMMA PrivInit == Init => PrivInv
<1> SUFFICES ASSUME Init PROVE PrivInv
  OBVIOUS
<1>1. PICK first \in Seeds :
        proc = [g \in Goroutines |->
            IF Thingino /\ camera \in Enabled /\ g = first
            THEN [Idle EXCEPT !.at = "configuration", !.target = camera] ELSE Idle]
  BY DEF Init
<1>2. PICK q : q = [Idle EXCEPT !.at = "configuration", !.target = camera]
  OBVIOUS
<1>3. q \in Procs /\ q.at = "configuration"
  BY <1>2 DEF Init, Idle, Procs, Points
<1>4. /\ proc \in [Goroutines -> Procs]
      /\ \A g \in Goroutines : g # first => proc[g] = Idle
      /\ proc[first] = Idle \/ (proc[first] = q /\ Thingino)
  BY <1>1, <1>2, <1>3, PrivIdle, PrivNames
<1>5. /\ \A g \in Goroutines : g # first => proc[g].at = "idle"
      /\ proc[first].at = "idle" \/ (proc[first].at = "configuration" /\ Thingino)
  BY <1>3, <1>4, PrivIdle
<1>6. /\ \A r \in Requests : proc[r].at = "idle"
      /\ \A s \in Seeds : proc[s].at = "idle" \/ (s = first /\ proc[s].at = "configuration" /\ Thingino)
      /\ proc["scheduler"].at = "idle" /\ proc["handler"].at = "idle" /\ proc["boot"].at = "idle"
  BY <1>5, PrivNames
<1>7. /\ camera \in Cameras /\ ~manual /\ ~off /\ ~attached /\ ~asked
      /\ mutate = "free" /\ op = "free"
      /\ manual \in BOOLEAN /\ off \in BOOLEAN /\ attached \in BOOLEAN /\ asked \in BOOLEAN
      /\ window \in BOOLEAN
      /\ pipe = IF camera \in Enabled THEN "armed" ELSE "absent"
      /\ count = [requests |-> 0, mutations |-> 0, windows |-> 0, switches |-> 0]
  BY DEF Init
<1>16. lens \in BOOLEAN
  <2>1. lens \in IF Thingino THEN BOOLEAN ELSE {FALSE}
    BY DEF Init
  <2> QED BY <2>1, BoundsAssumption
<1>17. count \in [requests : 0..MaxRequests, mutations : 0..MaxMutations,
                  windows : 0..MaxWindows, switches : 0..MaxSwitches]
  BY <1>7, BoundsAssumption
<1>8. PrivTypes
  BY <1>4, <1>7, <1>16, <1>17 DEF PrivTypes
<1>9. PlacesInv
  BY <1>6, <1>7 DEF PlacesInv, RequestPoints, SeedPoints, TickPoints, BootPoints
<1>10. HandlerInv
  BY <1>6 DEF HandlerInv
<1>11. PipeInv
  BY <1>6, <1>7 DEF PipeInv
<1>12. LocksInv
  BY <1>6, <1>7, PrivNames DEF LocksInv, Updating, At
<1>13. ~Booted
  BY <1>6 DEF Booted
<1>14. BootInv
  BY <1>6, <1>7 DEF BootInv, At
<1>15. CarryInv /\ MatchInv /\ AskedInv
  BY <1>7, <1>13 DEF CarryInv, MatchInv, AskedInv
<1> QED BY <1>8, <1>9, <1>10, <1>11, <1>12, <1>14, <1>15 DEF PrivInv

LEMMA PrivStutter ==
    ASSUME PrivInv, UNCHANGED vars PROVE PrivInv'
<1>1. UNCHANGED <<camera, manual, off, attached, pipe, window, lens, mutate, op, proc, count, asked>>
  BY DEF vars, maps, locks
<1>2. PrivTypes' /\ PlacesInv' /\ HandlerInv' /\ PipeInv'
  BY <1>1 DEF PrivInv, PrivTypes, PlacesInv, HandlerInv, PipeInv
<1>3. LocksInv' /\ AskedInv'
  BY <1>1 DEF PrivInv, LocksInv, AskedInv, Updating, At
<1>4. BootInv'
  BY <1>1 DEF PrivInv, BootInv, Booted, At
<1>5. CarryInv' /\ MatchInv'
  BY <1>1 DEF PrivInv, CarryInv, MatchInv, Booted, Carried, Later, At
<1> QED BY <1>2, <1>3, <1>4, <1>5 DEF PrivInv

LEMMA PrivStep ==
    ASSUME PrivInv, Buried, [Next]_vars PROVE PrivInv'
<1>1. ASSUME NEW r \in Requests, Request(r) \/ PrivacyRequest(r) PROVE PrivInv'
  BY <1>1, PrivRequest, PrivLockRequest, PrivFirmware, PrivRecord, PrivApplyRequest DEF PrivacyRequest
<1>2. ASSUME NEW s \in Seeds, StartSeed(s) \/ Seed(s) PROVE PrivInv'
  BY <1>2, PrivSeedWaits, PrivLockSeed, PrivWriteSeed, PrivApplySeed DEF Seed
<1>3. CASE Boot
  BY <1>3, PrivAttach, PrivReadMap, PrivApplyMap DEF Boot
<1>4. ASSUME NEW g \in {"scheduler", "handler"}, Schedule(g) PROVE PrivInv'
  BY <1>4, PrivEvaluate, PrivLockApply, PrivApplyPause DEF Schedule
<1>5. CASE Mutation
  BY <1>4, <1>5, PrivLockUpdate, PrivRemovePipe, PrivAddPipe, PrivPublish, PrivBump, PrivDrop,
     PrivRestore, PrivPauseRestored, PrivUnlockUpdate DEF Mutation
<1>6. CASE WindowChanges \/ LensSwitched
  BY <1>6, PrivWorld
<1>7. CASE Tick \/ BeginMutation
  BY <1>7, PrivTick, PrivBegin
<1>8. CASE UNCHANGED vars
  BY <1>8, PrivStutter
<1> QED BY <1>1, <1>2, <1>3, <1>4, <1>5, <1>6, <1>7, <1>8 DEF Next

\* What the invariant says when nobody is in the middle of a change.
LEMMA PrivQuiet ==
    ASSUME PrivInv PROVE EngineMatchesMap /\ PrivacyHolds
<1>1. ASSUME Quiet
      PROVE  /\ Booted /\ proc["handler"].at = "idle" /\ proc["scheduler"].at = "idle"
             /\ \A g \in Goroutines \ {"boot"} : ~At(g, "apply")
  BY <1>1, PrivNames DEF Quiet, PrivInv, LocksInv, At
<1>2. ASSUME Quiet, pipe # "absent" PROVE pipe = "paused" <=> manual \/ off
  BY <1>1, <1>2 DEF PrivInv, MatchInv, Later, At
<1>3. ASSUME Quiet, asked PROVE manual
  BY <1>1, <1>3 DEF PrivInv, AskedInv, At
<1> QED BY <1>2, <1>3 DEF EngineMatchesMap, PrivacyHolds

LEMMA PrivInvariant == Spec /\ []Buried => []PrivInv
<1>1. PrivInv /\ Buried /\ [Next]_vars => PrivInv'
  BY PrivStep
<1> QED BY <1>1, PrivInit, PTL DEF Spec

\* Where no camera is deleted, a camera that is not there was never there: nobody has
\* anything to do with it but the handler that creates it.
EmptyInv ==
    LET h == proc["handler"] IN
    /\ h.at # "idle" => h.target # "absent"
    /\ camera = "absent" =>
        /\ \A r \in Requests : At(r, "idle")
        /\ \A s \in Seeds : At(s, "idle")
        /\ proc["scheduler"].at \in {"idle", "evaluate"}
        /\ h.at \in {"idle", "add", "publish"}

LEMMA PrivEmptyBuried ==
    ASSUME PrivInv, EmptyInv PROVE Buried
BY PrivNames DEF PrivInv, PrivTypes, LocksInv, EmptyInv, Buried, Updating, At

LEMMA PrivEmptyInit == Init => EmptyInv
<1> SUFFICES ASSUME Init PROVE EmptyInv
  OBVIOUS
<1>1. PICK first \in Seeds :
        proc = [g \in Goroutines |->
            IF Thingino /\ camera \in Enabled /\ g = first
            THEN [Idle EXCEPT !.at = "configuration", !.target = camera] ELSE Idle]
  BY DEF Init
<1>2. /\ \A g \in Goroutines : g # first => proc[g] = Idle
      /\ camera = "absent" => \A g \in Goroutines : proc[g] = Idle
  BY <1>1 DEF Enabled
<1> QED BY <1>2, PrivIdle, PrivNames DEF EmptyInv, At

\* The goroutines other than the handler leave a camera that is not there alone.
LEMMA PrivEmptyOthers ==
    ASSUME PrivInv, EmptyInv, NEW g \in Goroutines, g # "handler",
           UNCHANGED camera, Elsewhere(g),
           camera = "absent" =>
             \/ proc'[g].at = "idle"
             \/ g = "boot"
             \/ g = "scheduler" /\ proc'[g].at = "evaluate"
    PROVE  EmptyInv'
<1>1. proc'["handler"] = proc["handler"] /\ \A h \in Goroutines \ {g} : proc'[h] = proc[h]
  BY PrivNames DEF Elsewhere
<1>2. ASSUME camera = "absent"
      PROVE  /\ \A r \in Requests : proc'[r].at = "idle"
             /\ \A s \in Seeds : proc'[s].at = "idle"
             /\ proc'["scheduler"].at \in {"idle", "evaluate"}
  BY <1>1, <1>2, PrivNames DEF EmptyInv, At
<1> QED BY <1>1, <1>2 DEF EmptyInv, At

LEMMA PrivEmptyRequests ==
    ASSUME PrivInv, EmptyInv, NEW r \in Requests, Request(r) \/ PrivacyRequest(r) PROVE EmptyInv'
<1>1. /\ r \in Goroutines /\ r \notin Seeds /\ r # "handler" /\ proc \in [Goroutines -> Procs]
      /\ "handler" \in Goroutines
  BY PrivNames DEF PrivInv, PrivTypes
<1>2. CASE Record(r)
  <2>1. camera' = camera /\ camera # "absent"
    BY <1>2 DEF Record, EmptyInv, At
  <2>2. PICK f : f = Toggled
    OBVIOUS
  <2>3. proc' = [f EXCEPT ![r].at = "apply", ![r].on = (@ \/ off)]
    BY <1>2, <2>2 DEF Record
  <2>4. /\ f \in [Goroutines -> Procs]
        /\ f["handler"].at = proc["handler"].at /\ f["handler"].target = proc["handler"].target
    BY <1>1, <2>2, PrivToggled
  <2>5. proc'["handler"] = f["handler"]
    BY <1>1, <2>3, <2>4
  <2> QED BY <2>1, <2>4, <2>5 DEF EmptyInv
<1>3. CASE Request(r) \/ LockRequest(r) \/ Firmware(r) \/ ApplyRequest(r)
  <2>1. camera' = camera /\ camera # "absent"
    BY <1>3 DEF Request, LockRequest, Firmware, ApplyRequest, EmptyInv, At
  <2>2. Elsewhere(r)
    BY <1>1, <1>3 DEF Request, LockRequest, Firmware, ApplyRequest, Go, Carry, Elsewhere
  <2> QED BY <1>1, <2>1, <2>2, PrivEmptyOthers
<1> QED BY <1>2, <1>3 DEF PrivacyRequest

LEMMA PrivEmptySeeds ==
    ASSUME PrivInv, EmptyInv, NEW s \in Seeds, StartSeed(s) \/ Seed(s) PROVE EmptyInv'
<1>1. s \in Goroutines /\ s # "handler" /\ proc \in [Goroutines -> Procs]
  BY PrivNames DEF PrivInv, PrivTypes
<1>2. camera' = camera /\ camera # "absent"
  BY DEF StartSeed, Seed, ReadConfiguration, ReadGeneration, Answer, FetchFails, CheckEdited,
     LockSeed, WriteSeed, ApplySeed, EmptyInv, At, Enabled
<1>3. Elsewhere(s)
  BY <1>1 DEF StartSeed, Seed, ReadConfiguration, ReadGeneration, Answer, FetchFails, CheckEdited,
     LockSeed, WriteSeed, ApplySeed, Go, Carry, Elsewhere
<1> QED BY <1>1, <1>2, <1>3, PrivEmptyOthers

LEMMA PrivEmptyScheduler ==
    ASSUME PrivInv, EmptyInv, Tick \/ Schedule("scheduler") PROVE EmptyInv'
<1>1. "scheduler" \in Goroutines /\ proc \in [Goroutines -> Procs]
  BY PrivNames DEF PrivInv, PrivTypes
<1>2. camera' = camera
  BY DEF Tick, Schedule, Evaluate, LockApply, ApplyPause
<1>3. Elsewhere("scheduler")
  BY <1>1 DEF Tick, Schedule, Evaluate, LockApply, ApplyPause, Go, Carry, Elsewhere
<1>4. ASSUME camera = "absent" PROVE proc'["scheduler"].at \in {"idle", "evaluate"}
  <2>1. CASE Tick
    <3>1. "evaluate" \in Points
      BY DEF Points
    <3>2. Moved("scheduler", "evaluate", proc["scheduler"].on)
      BY <1>1, <2>1, <3>1, PrivMoves DEF Tick
    <3> QED BY <3>2 DEF Moved
  <2>2. CASE Schedule("scheduler")
    <3>1. Evaluate("scheduler")
      BY <1>4, <2>2 DEF Schedule, LockApply, ApplyPause, EmptyInv, At
    <3>2. OffHours = off
      BY <1>4 DEF OffHours, Enabled
    <3>3. proc' = [proc EXCEPT !["scheduler"] = Idle]
      BY <3>1, <3>2 DEF Evaluate
    <3> QED BY <1>1, <3>3, PrivIdle
  <2> QED BY <2>1, <2>2
<1> QED BY <1>1, <1>2, <1>3, <1>4, PrivEmptyOthers

\* A handler that does not delete has a camera to write.
LEMMA PrivEmptyBegin ==
    ASSUME PrivInv, EmptyInv, "delete" \notin Operations, BeginMutation PROVE EmptyInv'
<1>1. PICK o \in Operations, target \in Cameras :
        /\ (o = "create") <=> (camera = "absent")
        /\ (o = "delete") <=> (target = "absent")
        /\ proc' = [proc EXCEPT !["handler"] = [Idle EXCEPT !.target = target,
            !.at = CASE o = "create" -> "add" [] o = "update" -> "lock" [] o = "delete" -> "remove"]]
  BY DEF BeginMutation
<1>2. target # "absent" /\ camera' = camera /\ "handler" \in Goroutines /\ proc \in [Goroutines -> Procs]
  BY <1>1, PrivNames DEF BeginMutation, PrivInv, PrivTypes
<1>3. PICK q : q = [Idle EXCEPT !.target = target,
            !.at = CASE o = "create" -> "add" [] o = "update" -> "lock" [] o = "delete" -> "remove"]
  OBVIOUS
<1>4. q.target = target /\ (camera = "absent" => q.at = "add")
  BY <1>1, <1>3, PrivIdle DEF Procs
<1>5. proc'["handler"] = q /\ \A g \in Goroutines \ {"handler"} : proc'[g] = proc[g]
  BY <1>1, <1>2, <1>3
<1> QED BY <1>2, <1>4, <1>5, PrivNames DEF EmptyInv, At

LEMMA PrivEmptyHandler ==
    ASSUME PrivInv, EmptyInv, Mutation PROVE EmptyInv'
<1>1. "handler" \in Goroutines /\ proc \in [Goroutines -> Procs] /\ proc["handler"].at # "idle"
  BY PrivNames DEF PrivInv, PrivTypes, Mutation, LockUpdate, RemovePipe, AddPipe, Publish, Bump, Drop,
     Restore, PauseRestored, UnlockUpdate, Schedule, Evaluate, LockApply, ApplyPause, At
<1>2. proc["handler"].target # "absent" /\ proc["handler"] \in Procs
  BY <1>1 DEF EmptyInv
<1>3. ASSUME NEW at, Go("handler", at) \/ (\E on : Carry("handler", on, at))
      PROVE  proc'["handler"].target = proc["handler"].target
  BY <1>1, <1>2, <1>3 DEF Go, Carry, Procs
<1>4. proc'["handler"].at # "idle" => proc'["handler"].target = proc["handler"].target
  <2>1. CASE RemovePipe \/ AddPipe \/ Publish \/ PauseRestored \/ UnlockUpdate
    BY <1>3, <2>1 DEF RemovePipe, AddPipe, Publish, PauseRestored, UnlockUpdate
  <2>2. CASE Schedule("handler") \/ Drop
    <3>1. ASSUME proc' = [proc EXCEPT !["handler"] = Idle] PROVE proc'["handler"].at = "idle"
      BY <1>1, <3>1, PrivIdle
    <3> QED BY <1>3, <2>2, <3>1 DEF Schedule, Evaluate, LockApply, ApplyPause, Drop
  <2>3. CASE LockUpdate
    BY <1>1, <1>2, <2>3 DEF LockUpdate, Procs
  <2>4. CASE Restore
    <3>1. PICK f : f = Toggled
      OBVIOUS
    <3>2. f \in [Goroutines -> Procs] /\ f["handler"].target = proc["handler"].target
      BY <1>1, <3>1, PrivToggled
    <3>3. proc' = [f EXCEPT !["handler"].at = "pause"]
      BY <2>4, <3>1 DEF Restore
    <3> QED BY <1>1, <3>2, <3>3 DEF Procs
  <2>5. CASE Bump
    <3>1. proc'["handler"] = [proc["handler"] EXCEPT !.edited = (@ \/ "handler" \in Seeds), !.at = "drop"]
      BY <1>1, <2>5 DEF Bump
    <3> QED BY <1>2, <3>1 DEF Procs
  <2> QED BY <2>1, <2>2, <2>3, <2>4, <2>5 DEF Mutation
<1>5. ASSUME camera' = "absent"
      PROVE  /\ AddPipe /\ camera = "absent"
             /\ proc'["handler"].at = "publish" /\ \A g \in Goroutines \ {"handler"} : proc'[g] = proc[g]
  <2>1. ~Publish
    BY <1>2, <1>5 DEF Publish
  <2>2. camera = "absent"
    BY <1>5, <2>1 DEF Mutation, LockUpdate, RemovePipe, AddPipe, Bump, Drop, Restore, PauseRestored,
       UnlockUpdate, Schedule, Evaluate, LockApply, ApplyPause
  <2>3. proc["handler"].at \in {"idle", "add", "publish"}
    BY <2>2 DEF EmptyInv
  <2>4. AddPipe
    BY <2>1, <2>3 DEF Mutation, LockUpdate, RemovePipe, Bump, Drop, Restore, PauseRestored,
       UnlockUpdate, Schedule, Evaluate, LockApply, ApplyPause, At
  <2>5. Moved("handler", "publish", proc["handler"].on)
    <3>1. "publish" \in Points
      BY DEF Points
    <3>2. proc["handler"].on \in BOOLEAN
      BY <1>2 DEF Procs
    <3> QED BY <1>1, <2>4, <3>1, <3>2, PrivMoves DEF AddPipe
  <2> QED BY <2>2, <2>4, <2>5 DEF Moved, Elsewhere
<1> QED BY <1>2, <1>4, <1>5, PrivNames DEF EmptyInv, At

LEMMA PrivEmptyStep ==
    ASSUME PrivInv, EmptyInv, "delete" \notin Operations, [Next]_vars PROVE EmptyInv'
<1>1. CASE Boot
  <2>1. "boot" \in Goroutines /\ proc \in [Goroutines -> Procs]
    BY PrivNames DEF PrivInv, PrivTypes
  <2>2. camera' = camera /\ Elsewhere("boot")
    BY <1>1, <2>1 DEF Boot, Attach, ReadMap, ApplyMap, Go, Carry, Elsewhere
  <2> QED BY <2>1, <2>2, PrivEmptyOthers
<1>2. CASE WindowChanges \/ LensSwitched \/ UNCHANGED vars
  BY <1>2 DEF WindowChanges, LensSwitched, vars, EmptyInv, At
<1> QED BY <1>1, <1>2, PrivEmptyRequests, PrivEmptySeeds, PrivEmptyScheduler, PrivEmptyBegin,
   PrivEmptyHandler DEF Next

-----------------------------------------------------------------------------

\* Whatever requests, handlers, seeds of the firmware's reading, the schedule and the
\* attachment of the engine do at once, whenever nobody is in the middle of a change the
\* engine is paused exactly when the state map says so (handlePrivacy, applyPause,
\* handleUpdateCamera, seedHeartbeatFor, SetMediaEngine).  A camera that is deleted while
\* a request or a seed holds its op lock is left out: there it is false.
THEOREM EngineTold == Spec /\ []Buried => []EngineMatchesMap
<1>1. PrivInv => EngineMatchesMap
  BY PrivQuiet
<1> QED BY <1>1, PrivInvariant, PTL

\* With the same hypothesis, privacy that was asked for and obeyed is kept through updates
\* of the camera, the schedule and seeds that read the firmware before it, until someone
\* ends it (handlePrivacy, handleUpdateCamera, dropCameraState, seedHeartbeatFor).
THEOREM PrivacyKept == Spec /\ []Buried => []PrivacyHolds
<1>1. PrivInv => PrivacyHolds
  BY PrivQuiet
<1> QED BY <1>1, PrivInvariant, PTL

\* Where no camera is deleted (handleDeleteCamera) both hold with no hypothesis on the
\* interleaving, for any number of requests, seeds, updates and creations.
THEOREM PrivateWithoutDeletion ==
    ASSUME "delete" \notin Operations
    PROVE  Spec => []EngineMatchesMap /\ []PrivacyHolds
<1>1. Init => PrivInv /\ EmptyInv
  BY PrivInit, PrivEmptyInit
<1>2. PrivInv /\ EmptyInv /\ [Next]_vars => PrivInv' /\ EmptyInv'
  BY PrivStep, PrivEmptyBuried, PrivEmptyStep
<1>3. PrivInv => EngineMatchesMap /\ PrivacyHolds
  BY PrivQuiet
<1> QED BY <1>1, <1>2, <1>3, PTL DEF Spec

-----------------------------------------------------------------------------
(* CameraRecords.                                                          *)

RegOps == {"create", "update", "delete"}

\* The handler at work.
RegWorker ==
    \/ regWork = RegIdle
    \/ regWork \in [op : {"create", "update"}, id : RegIds, cam : RegCamera,
                    at : {"check", "row", "memory", "bump", "drop", "seed"}]
    \/ regWork \in [op : {"delete"}, id : RegIds, cam : {RegNone},
                    at : {"check", "events", "lists", "memory", "bump", "drop"}]
    \/ regWork \in [op : {"unschedule"}, id : RegScheds, cam : RegCamera, at : {"check", "forget"}]

RegTypes ==
    /\ regRow \in [RegIds -> RegCamera \cup {RegNone}]
    /\ regMem \in [RegIds -> RegCamera \cup {RegNone}]
    /\ regWritten \in 1..RegCalls + 1 /\ regReported \in Nat
    /\ regGen \in [RegIds -> Nat] /\ DOMAIN regCodecs = RegIds
    /\ regProbes \subseteq [id : RegIds, config : 1..RegCalls + 1, gen : Nat, at : {"fetch", "write"}]

\* What the handler has established before the statement that comes next.
RegEstablished ==
    /\ RegAt({"create", "update"}, "row") => regWork.cam.sched \in regSched \cup {RegNone}
    /\ regWork.op \in {"create", "update"} /\ regWork.at \in {"memory", "bump", "drop", "seed"} =>
           regRow[regWork.id] = regWork.cam
    /\ regWork.op = "delete" /\ regWork.at \in {"events", "lists", "memory", "bump", "drop"} =>
           regRow[regWork.id] = RegNone
    /\ RegAt({"unschedule"}, "forget") =>
           \A id \in RegIds : regRow[id] # RegNone => regRow[id].sched # regWork.id

\* The memory is the table, but for the camera whose handler has yet to change it.
RegBehind(id) == regWork.op \in RegOps /\ regWork.id = id /\ regWork.at \in {"events", "lists", "memory"}
RegMirrored == \A id \in RegIds : regMem[id] = regRow[id] \/ RegBehind(id)

\* A probe that has not been overtaken by a drop knows the configuration in force.
RegOld(id) == RegPending(id, {"events", "lists", "memory", "bump"})
RegKnows(p) ==
    /\ p.gen <= regGen[p.id]
    /\ p.gen = regGen[p.id] =>
           RegOld(p.id) \/ (regRow[p.id] # RegNone /\ p.config = regRow[p.id].config)
    /\ p.at = "write" => p.gen = regGen[p.id] \/ RegPending(p.id, {"drop"})

RegProbesKnow == \A p \in regProbes : RegKnows(p)

RegCamerasInv ==
    /\ RegTypes /\ RegWorker /\ RegEstablished /\ RegMirrored
    /\ RegNoStranded /\ RegCodecsCurrent
    /\ RegProbesKnow

-----------------------------------------------------------------------------
RegEvent == [id : Nat, cam : RegIds, start : Int, end : Int, made : Nat, born : Nat, late : BOOLEAN]

RegEventRows ==
    /\ regSeq \in Nat /\ regMade = regSeq
    /\ regEvents \subseteq RegEvent
    /\ \A e \in regEvents : e.id = e.made /\ e.id <= regSeq /\ e.born >= 1
    /\ \A e, f \in regEvents : e.id = f.id => e = f
    /\ regErase # RegNone => regErase \in RegEvent /\ regErase.id = regErase.made

\* A webhook request knows its camera, and while it holds recordMu its row is the one of
\* the table, unless that is deleted.
RegHookKnows(m) ==
    /\ m \in [at : {"idle", "found", "selected"}, cam : RegIds \cup {RegNone}, born : Nat,
              start : Int, end : Int, row : RegEvent \cup {RegNone}]
    /\ m.at # "idle" => m.cam \in RegIds /\ m.born >= 1
    /\ m.at = "selected" /\ m.row # RegNone =>
           /\ m.row \in RegEvent /\ m.row.cam = m.cam
           /\ \A e \in regEvents : e.id = m.row.id => e = m.row

RegHookRows ==
    /\ DOMAIN regHook = RegHooks
    /\ \A h \in RegHooks : RegHookKnows(regHook[h])
    /\ \A h, g \in RegHooks : regHook[h].at = "selected" /\ regHook[g].at = "selected" => h = g

RegGrants ==
    /\ \A g \in regGrant : g.cam \in RegIds /\ g.born \in Nat /\ g.born >= 1
    /\ \A g \in regAcl : g.cam \in RegIds /\ g.born \in Nat /\ g.born >= 1

RegAcked == regAcked \subseteq [cam : RegIds, start : Int, end : Int]

RegTablesInv == RegAcked /\ RegEventRows /\ RegHookRows /\ RegGrants /\ RegKept
RegIInv == RegCamerasInv /\ RegTablesInv

-----------------------------------------------------------------------------
(* The cameras: one step per action.                                       *)

\* The update of a row, which keeps when the camera was born.
LEMMA RegUpdatesKeeps ==
    ASSUME RegCamerasInv, RegUpdatesRow, regRow[regWork.id] # RegNone
    PROVE  RegCamerasInv'
<1> DEFINE id == regWork.id
           new == [regWork.cam EXCEPT !.born = regRow[id].born]
<1>1. /\ RegAt({"update"}, "row") /\ id \in RegIds /\ regWork.cam \in RegCamera /\ regRow[id] \in RegCamera
      /\ regRow \in [RegIds -> RegCamera \cup {RegNone}]
  BY DEF RegCamerasInv, RegTypes, RegWorker, RegUpdatesRow, RegAt, RegIdle
<1>2. new \in RegCamera /\ new.sched = regWork.cam.sched
  BY <1>1 DEF RegCamera
<1>3. /\ regRow' = [regRow EXCEPT ![id] = new]
      /\ regWork' = [regWork EXCEPT !.cam = new, !.at = "memory"]
      /\ UNCHANGED <<regMem, regSched, regWritten, regGen, regCodecs, regProbes, regReported>>
  BY DEF RegUpdatesRow, regTables
<1> HIDE DEF new
<1>4. regWork'.op = "update" /\ regWork'.id = id /\ regWork'.at = "memory" /\ regWork'.cam = new
      /\ regRow'[id] = new /\ \A i \in RegIds \ {id} : regRow'[i] = regRow[i]
  BY <1>1, <1>3 DEF RegCamerasInv, RegWorker, RegAt, RegIdle
<1>5. RegTypes' /\ RegWorker'
  BY <1>1, <1>2, <1>3 DEF RegCamerasInv, RegTypes, RegWorker, RegAt, RegIdle
<1>6. RegEstablished' /\ RegMirrored' /\ RegNoStranded'
  BY <1>1, <1>2, <1>3, <1>4, RegNoCamera DEF RegCamerasInv, RegEstablished, RegMirrored,
       RegNoStranded, RegBehind, RegOps, RegAt
<1>7. RegCodecsCurrent' /\ RegProbesKnow'
  BY <1>1, <1>3, <1>4 DEF RegCamerasInv, RegTypes, RegCodecsCurrent, RegPending,
       RegProbesKnow, RegKnows, RegOld, RegAt
<1> QED
  BY <1>5, <1>6, <1>7 DEF RegCamerasInv

\* A handler takes the lock.
LEMMA RegLocksKeeps ==
    ASSUME RegCamerasInv, NEW sched, NEW enabled \in BOOLEAN, NEW what, NEW id,
           \/ what \in RegOps /\ id \in RegIds /\ sched \in RegScheds \cup {RegNone}
           \/ what = "unschedule" /\ id \in RegScheds /\ sched = RegNone,
           RegLocks(what, id, sched, enabled)
    PROVE  RegCamerasInv'
<1> USE DEF RegCamerasInv, RegTypes, RegWorker, RegEstablished, RegAt, RegGo, RegReturn, RegIdle,
           RegLocks, RegBudget, RegOps
<1>1. RegTypes' /\ RegWorker'
  BY RegAssumption DEF regTables, RegCamera
<1>2. RegEstablished' /\ RegMirrored' /\ RegNoStranded'
  BY RegNoCamera DEF RegMirrored, RegBehind, RegNoStranded, RegCamera
<1>3. RegCodecsCurrent' /\ RegProbesKnow'
  BY RegNoCamera DEF RegCodecsCurrent, RegPending, RegProbesKnow, RegKnows, RegOld, RegTalkFree
<1> QED
  BY <1>1, <1>2, <1>3

\* A step that is about something else.
LEMMA RegCamerasFrame ==
    ASSUME RegCamerasInv, UNCHANGED <<regCameras, regSched>>, regReported' \in Nat
    PROVE  RegCamerasInv'
<1> USE DEF RegCamerasInv, RegTypes, RegWorker, RegEstablished, RegAt, RegGo, RegReturn, RegIdle,
           regCameras
<1>1. RegTypes' /\ RegWorker'
  BY RegAssumption DEF regTables, RegCamera
<1>2. RegEstablished' /\ RegMirrored' /\ RegNoStranded'
  BY RegNoCamera DEF RegMirrored, RegBehind, RegOps, RegNoStranded, RegCamera
<1>3. RegCodecsCurrent' /\ RegProbesKnow'
  BY RegNoCamera DEF RegCodecsCurrent, RegPending, RegProbesKnow, RegKnows, RegOld, RegTalkFree
<1> QED
  BY <1>1, <1>2, <1>3

\* Every step keeps what is said of the cameras.
LEMMA RegCamerasKept ==
    ASSUME RegCamerasInv, [RegNext]_regVars
    PROVE  RegCamerasInv'
<1> USE DEF RegCamerasInv, RegTypes, RegWorker, RegEstablished, RegAt, RegGo, RegReturn, RegIdle
<1>1. CASE RegChecksSchedule
  <2> USE DEF RegChecksSchedule
  <2>1. RegTypes' /\ RegWorker'
    BY <1>1, RegAssumption DEF regTables, RegCamera
  <2>2. RegEstablished' /\ RegMirrored' /\ RegNoStranded'
    BY <1>1, RegNoCamera DEF RegMirrored, RegBehind, RegOps, RegNoStranded, RegCamera
  <2>3. RegCodecsCurrent' /\ RegProbesKnow'
    BY <1>1, RegNoCamera DEF RegCodecsCurrent, RegPending, RegProbesKnow, RegKnows, RegOld,
         RegTalkFree
  <2> QED
    BY <2>1, <2>2, <2>3
<1>2. CASE RegCreatesRow
  <2> USE DEF RegCreatesRow
  <2>1. RegTypes' /\ RegWorker'
    BY <1>2, RegAssumption DEF regTables, RegCamera
  <2>2. RegEstablished' /\ RegMirrored' /\ RegNoStranded'
    BY <1>2, RegNoCamera DEF RegMirrored, RegBehind, RegOps, RegNoStranded, RegCamera
  <2>3. RegCodecsCurrent' /\ RegProbesKnow'
    BY <1>2, RegNoCamera DEF RegCodecsCurrent, RegPending, RegProbesKnow, RegKnows, RegOld,
         RegTalkFree
  <2> QED
    BY <2>1, <2>2, <2>3
<1>3. CASE RegDeletesRow
  <2> USE DEF RegDeletesRow
  <2>1. RegTypes' /\ RegWorker'
    BY <1>3, RegAssumption DEF regTables, RegCamera
  <2>2. RegEstablished' /\ RegMirrored' /\ RegNoStranded'
    BY <1>3, RegNoCamera DEF RegMirrored, RegBehind, RegOps, RegNoStranded, RegCamera
  <2>3. RegCodecsCurrent' /\ RegProbesKnow'
    BY <1>3, RegNoCamera DEF RegCodecsCurrent, RegPending, RegProbesKnow, RegKnows, RegOld,
         RegTalkFree
  <2> QED
    BY <2>1, <2>2, <2>3
<1>4. CASE RegDeletesEvents
  <2> USE DEF RegDeletesEvents
  <2>1. RegTypes' /\ RegWorker'
    BY <1>4, RegAssumption DEF regTables, RegCamera
  <2>2. RegEstablished' /\ RegMirrored' /\ RegNoStranded'
    BY <1>4, RegNoCamera DEF RegMirrored, RegBehind, RegOps, RegNoStranded, RegCamera
  <2>3. RegCodecsCurrent' /\ RegProbesKnow'
    BY <1>4, RegNoCamera DEF RegCodecsCurrent, RegPending, RegProbesKnow, RegKnows, RegOld,
         RegTalkFree
  <2> QED
    BY <2>1, <2>2, <2>3
<1>5. CASE RegDeletesLists
  <2> USE DEF RegDeletesLists
  <2>1. RegTypes' /\ RegWorker'
    BY <1>5, RegAssumption DEF regTables, RegCamera
  <2>2. RegEstablished' /\ RegMirrored' /\ RegNoStranded'
    BY <1>5, RegNoCamera DEF RegMirrored, RegBehind, RegOps, RegNoStranded, RegCamera
  <2>3. RegCodecsCurrent' /\ RegProbesKnow'
    BY <1>5, RegNoCamera DEF RegCodecsCurrent, RegPending, RegProbesKnow, RegKnows, RegOld,
         RegTalkFree
  <2> QED
    BY <2>1, <2>2, <2>3
<1>6. CASE RegChangesMemory
  <2> USE DEF RegChangesMemory
  <2>1. RegTypes' /\ RegWorker'
    BY <1>6, RegAssumption DEF regTables, RegCamera
  <2>2. RegEstablished' /\ RegMirrored' /\ RegNoStranded'
    BY <1>6, RegNoCamera DEF RegMirrored, RegBehind, RegOps, RegNoStranded, RegCamera
  <2>3. RegCodecsCurrent' /\ RegProbesKnow'
    BY <1>6, RegNoCamera DEF RegCodecsCurrent, RegPending, RegProbesKnow, RegKnows, RegOld,
         RegTalkFree
  <2> QED
    BY <2>1, <2>2, <2>3
<1>7. CASE RegBumps
  <2> USE DEF RegBumps
  <2>1. RegTypes' /\ RegWorker'
    BY <1>7, RegAssumption DEF regTables, RegCamera
  <2>2. RegEstablished' /\ RegMirrored' /\ RegNoStranded'
    BY <1>7, RegNoCamera DEF RegMirrored, RegBehind, RegOps, RegNoStranded, RegCamera
  <2>3. RegCodecsCurrent' /\ RegProbesKnow'
    BY <1>7, RegNoCamera DEF RegCodecsCurrent, RegPending, RegProbesKnow, RegKnows, RegOld,
         RegTalkFree
  <2> QED
    BY <2>1, <2>2, <2>3
<1>8. CASE RegDropsCodecs
  <2> USE DEF RegDropsCodecs
  <2>1. RegTypes' /\ RegWorker'
    BY <1>8, RegAssumption DEF regTables, RegCamera
  <2>2. RegEstablished' /\ RegMirrored' /\ RegNoStranded'
    BY <1>8, RegNoCamera DEF RegMirrored, RegBehind, RegOps, RegNoStranded, RegCamera
  <2>3. RegCodecsCurrent' /\ RegProbesKnow'
    BY <1>8, RegNoCamera DEF RegCodecsCurrent, RegPending, RegProbesKnow, RegKnows, RegOld,
         RegTalkFree
  <2> QED
    BY <2>1, <2>2, <2>3
<1>9. CASE RegSeeds
  <2> USE DEF RegSeeds
  <2>1. RegTypes' /\ RegWorker'
    BY <1>9, RegAssumption DEF regTables, RegCamera
  <2>2. RegEstablished' /\ RegMirrored' /\ RegNoStranded'
    BY <1>9, RegNoCamera DEF RegMirrored, RegBehind, RegOps, RegNoStranded, RegCamera
  <2>3. RegCodecsCurrent' /\ RegProbesKnow'
    BY <1>9, RegNoCamera DEF RegCodecsCurrent, RegPending, RegProbesKnow, RegKnows, RegOld,
         RegTalkFree
  <2> QED
    BY <2>1, <2>2, <2>3
<1>10. CASE RegChecksUsage
  <2> USE DEF RegChecksUsage
  <2>1. RegTypes' /\ RegWorker'
    BY <1>10, RegAssumption DEF regTables, RegCamera
  <2>2. RegEstablished' /\ RegMirrored' /\ RegNoStranded'
    BY <1>10, RegNoCamera DEF RegMirrored, RegBehind, RegOps, RegNoStranded, RegCamera
  <2>3. RegCodecsCurrent' /\ RegProbesKnow'
    BY <1>10, RegNoCamera DEF RegCodecsCurrent, RegPending, RegProbesKnow, RegKnows, RegOld,
         RegTalkFree
  <2> QED
    BY <2>1, <2>2, <2>3
<1>11. CASE RegDeletesSchedule
  <2> USE DEF RegDeletesSchedule
  <2>1. RegTypes' /\ RegWorker'
    BY <1>11, RegAssumption DEF regTables, RegCamera
  <2>2. RegEstablished' /\ RegMirrored' /\ RegNoStranded'
    BY <1>11, RegNoCamera DEF RegMirrored, RegBehind, RegOps, RegNoStranded, RegCamera
  <2>3. RegCodecsCurrent' /\ RegProbesKnow'
    BY <1>11, RegNoCamera DEF RegCodecsCurrent, RegPending, RegProbesKnow, RegKnows, RegOld,
         RegTalkFree
  <2> QED
    BY <2>1, <2>2, <2>3
<1>12. CASE RegUpdatesRow
  <2>1. CASE regRow[regWork.id] = RegNone
    <3> USE DEF RegUpdatesRow
    <3>1. RegTypes' /\ RegWorker'
      BY <1>12, <2>1, RegAssumption DEF regTables, RegCamera
    <3>2. RegEstablished' /\ RegMirrored' /\ RegNoStranded'
      BY <1>12, <2>1, RegNoCamera DEF RegMirrored, RegBehind, RegOps, RegNoStranded, RegCamera
    <3>3. RegCodecsCurrent' /\ RegProbesKnow'
      BY <1>12, <2>1, RegNoCamera DEF RegCodecsCurrent, RegPending, RegProbesKnow, RegKnows,
           RegOld, RegTalkFree
    <3> QED
      BY <3>1, <3>2, <3>3
  <2> QED
    BY <1>12, <2>1, RegUpdatesKeeps
<1>13. ASSUME NEW p \in regProbes, RegProbeChecks(p)
       PROVE  RegCamerasInv'
  <2> USE DEF RegProbeChecks
  <2>1. RegTypes' /\ RegWorker'
    BY <1>13, RegAssumption DEF regTables, RegCamera
  <2>2. RegEstablished' /\ RegMirrored' /\ RegNoStranded'
    BY <1>13, RegNoCamera DEF RegMirrored, RegBehind, RegOps, RegNoStranded, RegCamera
  <2>3. RegCodecsCurrent' /\ RegProbesKnow'
    BY <1>13, RegNoCamera DEF RegCodecsCurrent, RegPending, RegProbesKnow, RegKnows, RegOld,
         RegTalkFree
  <2> QED
    BY <2>1, <2>2, <2>3
<1>14. ASSUME NEW p \in regProbes, RegProbeWrites(p)
       PROVE  RegCamerasInv'
  <2> USE DEF RegProbeWrites
  <2>1. RegTypes' /\ RegWorker'
    BY <1>14, RegAssumption DEF regTables, RegCamera
  <2>2. RegEstablished' /\ RegMirrored' /\ RegNoStranded'
    BY <1>14, RegNoCamera DEF RegMirrored, RegBehind, RegOps, RegNoStranded, RegCamera
  <2>3. RegCodecsCurrent' /\ RegProbesKnow'
    BY <1>14, RegNoCamera DEF RegCodecsCurrent, RegPending, RegProbesKnow, RegKnows, RegOld,
         RegTalkFree
  <2> QED
    BY <2>1, <2>2, <2>3
<1>15. ASSUME NEW s \in RegScheds, RegCreatesSchedule(s)
       PROVE  RegCamerasInv'
  <2> USE DEF RegCreatesSchedule, regCameras
  <2>1. RegTypes' /\ RegWorker'
    BY <1>15, RegAssumption DEF regTables, RegCamera
  <2>2. RegEstablished' /\ RegMirrored' /\ RegNoStranded'
    BY <1>15, RegNoCamera DEF RegMirrored, RegBehind, RegOps, RegNoStranded, RegCamera
  <2>3. RegCodecsCurrent' /\ RegProbesKnow'
    BY <1>15, RegNoCamera DEF RegCodecsCurrent, RegPending, RegProbesKnow, RegKnows, RegOld,
         RegTalkFree
  <2> QED
    BY <2>1, <2>2, <2>3
<1>16. CASE \E h \in RegHooks, id \in RegIds : \E start \in 0..RegTimes : \E end \in start..RegTimes :
                RegHookFinds(h, id, start, end)
  <2>1. UNCHANGED <<regCameras, regSched>> /\ regReported' = regReported + 1
    BY <1>16 DEF RegHookFinds, regOthers
  <2> QED
    BY <2>1, RegCamerasFrame
<1>17. CASE \E h \in RegHooks : RegHookSelects(h) \/ RegHookExtends(h) \/ RegHookInserts(h)
  <2>1. UNCHANGED <<regCameras, regSched, regReported>>
    BY <1>17 DEF RegHookSelects, RegHookExtends, RegHookInserts, regOthers
  <2> QED
    BY <2>1, RegCamerasFrame
<1>18. CASE \/ \E e \in regEvents : RegLists(e)
            \/ RegErases
            \/ \E cutoff \in 1..RegTimes : RegPrunes(cutoff)
            \/ \E id \in RegIds : RegGrantFinds(id)
            \/ RegGrantWrites
            \/ UNCHANGED regVars
  <2>1. UNCHANGED <<regCameras, regSched, regReported>>
    BY <1>18 DEF RegLists, RegErases, RegPrunes, RegGrantFinds, RegGrantWrites, regOthers,
         regTables, regVars, regCameras
  <2> QED
    BY <2>1, RegCamerasFrame
<1>19. CASE \/ \E id \in RegIds, sched \in RegScheds \cup {RegNone}, enabled \in BOOLEAN :
               RegLocks("create", id, sched, enabled) \/ RegLocks("update", id, sched, enabled)
            \/ \E id \in RegIds : RegLocks("delete", id, RegNone, TRUE)
            \/ \E s \in RegScheds : RegLocks("unschedule", s, RegNone, TRUE)
  BY <1>19, RegLocksKeeps DEF RegOps
<1> HIDE DEF RegCamerasInv, RegTypes, RegWorker, RegEstablished, RegAt, RegGo, RegReturn, RegIdle
<1> QED
  BY <1>1, <1>2, <1>3, <1>4, <1>5, <1>6, <1>7, <1>8, <1>9, <1>10, <1>11, <1>12, <1>13, <1>14,
       <1>15, <1>16, <1>17, <1>18, <1>19 DEF RegNext

-----------------------------------------------------------------------------
(* The tables.                                                             *)

\* rows leave the table, and the motions they stood for are forgiven.
LEMMA RegRemovedRows ==
    ASSUME NEW rows, RegTablesInv, regEvents' = regEvents \ rows, rows \subseteq regEvents,
           regAcked' = regAcked \ RegForgiven(rows),
           UNCHANGED <<regSeq, regHook, regMade>>,
           regErase' = regErase \/ regErase' = RegNone
    PROVE  RegEventRows' /\ RegHookRows' /\ RegMotionKept' /\ RegAcked'
<1> USE DEF RegTablesInv, RegKept
<1>1. RegEventRows'
  BY DEF RegEventRows
<1>2. RegHookRows'
  BY DEF RegHookRows, RegHookKnows
<1>3. RegMotionKept'
  BY DEF RegMotionKept, RegForgiven, RegCovers
<1>4. RegAcked'
  BY DEF RegAcked
<1> QED
  BY <1>1, <1>2, <1>3, <1>4

\* The deletion of a camera deletes its events.
LEMMA RegDeletesEventsKeeps ==
    ASSUME RegCamerasInv, RegTablesInv, RegDeletesEvents
    PROVE  RegTablesInv'
<1> DEFINE rows == {e \in regEvents : e.cam = regWork.id}
<1>1. /\ regEvents' = regEvents \ rows /\ regAcked' = regAcked \ RegForgiven(rows)
      /\ UNCHANGED <<regSeq, regHook, regMade, regErase>>
  BY DEF RegDeletesEvents
<1>2. RegEventRows' /\ RegHookRows' /\ RegMotionKept' /\ RegAcked'
  BY <1>1, RegRemovedRows
<1>3. RegGrants' /\ RegNothingInherited'
  BY DEF RegTablesInv, RegKept, RegGrants, RegNothingInherited, RegDeletesEvents, RegPending,
       RegAt, RegGo, RegBorn, RegCamerasInv, RegWorker, RegIdle, regLists
<1> QED
  BY <1>2, <1>3 DEF RegTablesInv, RegKept

\* Retention deletes the old ones.
LEMMA RegPrunesKeeps ==
    ASSUME NEW c \in 1..RegTimes, RegCamerasInv, RegTablesInv, RegPrunes(c)
    PROVE  RegTablesInv'
<1> DEFINE rows == {e \in regEvents : e.end < c}
<1>1. /\ regEvents' = regEvents \ rows /\ regAcked' = regAcked \ RegForgiven(rows)
      /\ UNCHANGED <<regSeq, regHook, regMade, regErase>>
  BY DEF RegPrunes
<1>2. RegEventRows' /\ RegHookRows' /\ RegMotionKept' /\ RegAcked'
  BY <1>1, RegRemovedRows
<1>3. RegGrants' /\ RegNothingInherited'
  BY DEF RegTablesInv, RegKept, RegGrants, RegNothingInherited, RegPrunes, RegPending,
       RegBorn, regOthers, regCameras, regLists
<1> QED
  BY <1>2, <1>3 DEF RegTablesInv, RegKept

\* An administrator deletes the event that he listed: ids are not used twice.
LEMMA RegErasesKeeps ==
    ASSUME RegCamerasInv, RegTablesInv, RegErases
    PROVE  RegTablesInv'
<1> DEFINE rows == {e \in regEvents : /\ e.id = regErase.id /\ e.cam = regErase.cam
                                        /\ regMem[e.cam] # RegNone}
<1>1. \A e \in rows : e.made = regErase.made
  BY DEF RegTablesInv, RegEventRows, RegErases
<1>2. {e \in rows : e.made = regErase.made} = rows
  BY <1>1
<1>3. /\ regEvents' = regEvents \ rows /\ regAcked' = regAcked \ RegForgiven(rows)
      /\ UNCHANGED <<regSeq, regHook, regMade>> /\ regErase' = RegNone
  BY <1>2 DEF RegErases
<1>4. RegEventRows' /\ RegHookRows' /\ RegMotionKept' /\ RegAcked'
  BY <1>3, RegRemovedRows
<1>5. RegGrants' /\ RegNothingInherited'
  BY DEF RegTablesInv, RegKept, RegGrants, RegNothingInherited, RegErases, RegPending,
       RegBorn, regOthers, regCameras, regLists
<1> QED
  BY <1>4, <1>5 DEF RegTablesInv, RegKept

\* The deletion of a camera deletes its grants.
LEMMA RegDeletesListsKeeps ==
    ASSUME RegCamerasInv, RegTablesInv, RegDeletesLists
    PROVE  RegTablesInv'
BY DEF RegTablesInv, RegAcked, RegKept, RegEventRows, RegHookRows, RegHookKnows, RegGrants,
     RegMotionKept, RegNothingInherited, RegDeletesLists, RegPending, RegAt, RegGo, RegBorn,
     RegCamerasInv, RegWorker, RegIdle, regTables

\* A new list names a camera that it has found.
LEMMA RegGrantFindsKeeps ==
    ASSUME NEW id \in RegIds, RegCamerasInv, RegTablesInv, RegGrantFinds(id)
    PROVE  RegTablesInv'
BY RegAssumption DEF RegTablesInv, RegAcked, RegKept, RegEventRows, RegHookRows,
     RegHookKnows, RegGrants, RegMotionKept, RegNothingInherited, RegGrantFinds,
     RegPending, RegBorn, RegCamerasInv, RegTypes, RegCamera, regTables, regCameras

\* The new list is written.
LEMMA RegGrantWritesKeeps ==
    ASSUME RegCamerasInv, RegTablesInv, RegGrantWrites
    PROVE  RegTablesInv'
<1>1. ASSUME NEW g \in regAcl'
      PROVE  /\ g.cam \in RegIds /\ g.born \in Nat /\ g.born >= 1
             /\ g.late \/ g.born = RegBorn(regRow, g.cam)
  <2>1. PICK f \in regGrant :
            g = [cam |-> f.cam, born |-> f.born, late |-> RegBorn(regRow, f.cam) # f.born]
    BY DEF RegGrantWrites
  <2>2. g.cam = f.cam /\ g.born = f.born
    BY <2>1
  <2>3. g.late <=> RegBorn(regRow, f.cam) # f.born
    BY <2>1, Zenon
  <2>4. f.cam \in RegIds /\ f.born \in Nat /\ f.born >= 1
    BY DEF RegTablesInv, RegGrants
  <2> QED
    BY <2>2, <2>3, <2>4
<1>2. regRow' = regRow /\ regGrant' = {} /\ UNCHANGED regTables /\ regWork' = regWork
  BY DEF RegGrantWrites, regCameras
<1>3. RegGrants'
  BY <1>1, <1>2 DEF RegGrants
<1>4. RegNothingInherited'
  BY <1>1, <1>2 DEF RegTablesInv, RegKept, RegNothingInherited, RegPending, RegBorn, regTables
<1>5. RegEventRows' /\ RegHookRows' /\ RegMotionKept' /\ RegAcked'
  BY <1>2 DEF RegTablesInv, RegKept, RegAcked, RegEventRows, RegHookRows, RegHookKnows,
       RegMotionKept, regTables
<1> QED
  BY <1>3, <1>4, <1>5 DEF RegTablesInv, RegKept

\* An administrator lists the events.
LEMMA RegListsKeeps ==
    ASSUME NEW e \in regEvents, RegCamerasInv, RegTablesInv, RegLists(e)
    PROVE  RegTablesInv'
BY DEF RegTablesInv, RegAcked, RegKept, RegEventRows, RegHookRows, RegHookKnows, RegGrants,
     RegMotionKept, RegNothingInherited, RegLists, RegPending, RegBorn, regOthers,
     regLists, regCameras

\* The webhook has found its camera.
LEMMA RegHookFindsKeeps ==
    ASSUME NEW h \in RegHooks, NEW id \in RegIds, NEW start \in Int, NEW end \in Int,
           RegCamerasInv, RegTablesInv, RegHookFinds(h, id, start, end)
    PROVE  RegTablesInv'
<1> USE DEF RegTablesInv, RegKept, RegHookFinds, regOthers, regLists, regCameras
<1>1. regMem[id].born \in Nat /\ regMem[id].born >= 1
  BY RegAssumption DEF RegCamerasInv, RegTypes, RegCamera
<1>2. RegEventRows' /\ RegGrants' /\ RegMotionKept' /\ RegNothingInherited' /\ RegAcked'
  BY DEF RegAcked, RegEventRows, RegGrants, RegMotionKept, RegNothingInherited, RegPending,
       RegBorn
<1>3. RegHookRows'
  BY <1>1 DEF RegHookRows, RegHookKnows
<1> QED
  BY <1>2, <1>3

\* The request takes recordMu and selects its row.
LEMMA RegHookSelectsKeeps ==
    ASSUME NEW h \in RegHooks, RegCamerasInv, RegTablesInv, RegHookSelects(h)
    PROVE  RegTablesInv'
<1> USE DEF RegTablesInv, RegKept, RegHookSelects, regOthers, regLists, regCameras
<1>2. RegEventRows' /\ RegGrants' /\ RegMotionKept' /\ RegNothingInherited' /\ RegAcked'
  BY DEF RegAcked, RegEventRows, RegGrants, RegMotionKept, RegNothingInherited, RegPending,
       RegBorn
<1>3. RegHookRows'
  <2>1. PICK row : /\ regHook' = [regHook EXCEPT ![h].at = "selected", ![h].row = row]
                   /\ row = RegNone \/ (row \in regEvents /\ row.cam = regHook[h].cam)
    BY DEF RegOverlaps
  <2>2. RegHookKnows(regHook[h]) /\ regHook[h].at = "found" /\ UNCHANGED regEvents
    BY DEF RegHookRows
  <2>3. RegHookKnows(regHook[h])'
    BY <2>1, <2>2 DEF RegHookRows, RegHookKnows, RegEventRows
  <2>4. \A g \in RegHooks \ {h} : /\ regHook'[g] = regHook[g] /\ regHook[g].at # "selected"
                                 /\ RegHookKnows(regHook[g])'
    BY <2>1, <2>2 DEF RegHookRows, RegHookKnows, RegRecordFree
  <2> QED
    BY <2>1, <2>3, <2>4 DEF RegHookRows
<1> QED
  BY <1>2, <1>3

\* A motion gets a row of its own.
LEMMA RegHookInsertsKeeps ==
    ASSUME NEW h \in RegHooks, RegCamerasInv, RegTablesInv, RegHookInserts(h)
    PROVE  RegTablesInv'
<1> DEFINE m == regHook[h]
           new == [id |-> regSeq + 1, cam |-> m.cam, start |-> m.start, end |-> m.end,
                   made |-> regMade + 1, born |-> m.born, late |-> RegBorn(regRow, m.cam) # m.born]
<1>1. /\ regEvents' = regEvents \cup {new} /\ regSeq' = regSeq + 1 /\ regMade' = regMade + 1
      /\ regHook' = [regHook EXCEPT ![h] = RegWaits]
      /\ regAcked' = regAcked \cup {[cam |-> m.cam, start |-> m.start, end |-> m.end]}
      /\ UNCHANGED <<regErase, regRow, regWork, regAcl, regGrant>> /\ m.at = "selected"
  BY DEF RegHookInserts, RegFreshId, RegAcknowledges, regOthers, regLists, regCameras
<1>2. m.cam \in RegIds /\ m.born \in Nat /\ m.born >= 1 /\ m.start \in Int /\ m.end \in Int
  BY <1>1 DEF RegTablesInv, RegHookRows, RegHookKnows
<1>3. /\ new.id = regSeq + 1 /\ new.made = regMade + 1 /\ new.cam = m.cam /\ new.born = m.born
      /\ new.start = m.start /\ new.end = m.end
      /\ new.late \/ new.born = RegBorn(regRow, new.cam)
  OBVIOUS
<1>4. new \in RegEvent
  BY <1>2 DEF RegTablesInv, RegEventRows, RegEvent
<1> HIDE DEF m, new
<1>5. RegEventRows' /\ RegAcked'
  BY <1>1, <1>2, <1>3, <1>4 DEF RegTablesInv, RegAcked, RegEventRows, RegEvent
<1>6. RegHookRows'
  <2>1. /\ RegWaits.at = "idle"
        /\ \A g \in RegHooks : regHook'[g] = IF g = h THEN RegWaits ELSE regHook[g]
    BY <1>1 DEF RegTablesInv, RegHookRows, RegWaits
  <2>2. RegHookKnows(RegWaits)'
    BY DEF RegHookKnows, RegWaits
  <2>3. \A g \in RegHooks \ {h} : RegHookKnows(regHook[g])'
    <3> SUFFICES ASSUME NEW g \in RegHooks \ {h} PROVE RegHookKnows(regHook[g])'
      OBVIOUS
    <3> DEFINE k == regHook[g]
    <3>1. RegHookKnows(k) /\ regHook'[g] = k /\ k.at # "selected"
      BY <1>1, <2>1 DEF RegTablesInv, RegHookRows, m
    <3> QED
      BY <3>1 DEF RegHookKnows
  <2> QED
    BY <1>1, <2>1, <2>2, <2>3 DEF RegTablesInv, RegHookRows
<1>7. RegGrants' /\ RegNothingInherited'
  BY <1>1, <1>3 DEF RegTablesInv, RegKept, RegGrants, RegNothingInherited, RegPending, RegBorn
<1>8. RegMotionKept'
  BY <1>1, <1>2, <1>3 DEF RegTablesInv, RegKept, RegMotionKept, RegCovers
<1> QED
  BY <1>5, <1>6, <1>7, <1>8 DEF RegTablesInv, RegKept

\* A motion extends the row that it overlaps.
LEMMA RegHookExtendsKeeps ==
    ASSUME NEW h \in RegHooks, RegCamerasInv, RegTablesInv, RegHookExtends(h)
    PROVE  RegTablesInv'
<1> DEFINE m == regHook[h]
           row == m.row
           new == [row EXCEPT !.start = RegLower(row.start, m.start),
                              !.end = RegHigher(row.end, m.end)]
<1>1. /\ m.at = "selected" /\ row # RegNone /\ regHook' = [regHook EXCEPT ![h] = RegWaits]
      /\ UNCHANGED <<regErase, regRow, regWork, regAcl, regGrant, regSeq, regMade>>
  BY DEF RegHookExtends, regOthers, regLists, regCameras
<1>2. /\ row \in RegEvent /\ row.cam = m.cam /\ m.start \in Int /\ m.end \in Int
      /\ \A e \in regEvents : e.id = row.id => e = row
  BY <1>1 DEF RegTablesInv, RegHookRows, RegHookKnows
<1>3. /\ new \in RegEvent /\ new.id = row.id /\ new.cam = row.cam
      /\ new.made = row.made /\ new.born = row.born /\ new.late = row.late
      /\ new.start <= row.start /\ new.start <= m.start /\ row.end <= new.end /\ m.end <= new.end
  <2>1. row.start \in Int /\ row.end \in Int
    BY <1>2 DEF RegEvent
  <2>2. /\ RegLower(row.start, m.start) \in Int /\ RegLower(row.start, m.start) <= row.start
        /\ RegLower(row.start, m.start) <= m.start
    BY <1>2, <2>1 DEF RegLower
  <2>3. /\ RegHigher(row.end, m.end) \in Int /\ row.end <= RegHigher(row.end, m.end)
        /\ m.end <= RegHigher(row.end, m.end)
    BY <1>2, <2>1 DEF RegHigher
  <2>4. new.start = RegLower(row.start, m.start) /\ new.end = RegHigher(row.end, m.end)
    BY <1>2 DEF RegEvent
  <2>5. new \in RegEvent
    BY <1>2, <2>2, <2>3 DEF RegEvent
  <2>6. /\ new.id = row.id /\ new.cam = row.cam
        /\ new.made = row.made /\ new.born = row.born /\ new.late = row.late
    BY <1>2 DEF RegEvent
  <2> QED
    BY <2>2, <2>3, <2>4, <2>5, <2>6
<1>4. \/ row \in regEvents /\ regEvents' = (regEvents \ {row}) \cup {new}
         /\ regAcked' = regAcked \cup {[cam |-> m.cam, start |-> m.start, end |-> m.end]}
      \/ row \notin regEvents /\ regEvents' = regEvents /\ regAcked' = regAcked
  <2>1. row \in regEvents => {e \in regEvents : e.id = row.id} = {row}
    BY <1>2
  <2>2. row \notin regEvents => {e \in regEvents : e.id = row.id} = {}
    BY <1>2
  <2> QED
    BY <2>1, <2>2 DEF RegHookExtends, RegAcknowledges
<1> HIDE DEF m, row, new
<1>5. RegEventRows' /\ RegAcked'
  BY <1>1, <1>2, <1>3, <1>4 DEF RegTablesInv, RegAcked, RegEventRows, RegEvent
<1>6. \A g \in RegHooks : g # h => regHook[g].at # "selected"
  BY <1>1 DEF RegTablesInv, RegHookRows, m
<1>7. RegHookRows'
  BY <1>1, <1>6 DEF RegTablesInv, RegHookRows, RegHookKnows, RegWaits
<1>8. RegGrants' /\ RegNothingInherited'
  BY <1>1, <1>3, <1>4 DEF RegTablesInv, RegKept, RegGrants, RegNothingInherited, RegPending,
       RegBorn
<1>9. RegMotionKept'
  <2> SUFFICES ASSUME NEW a \in regAcked' PROVE \E e \in regEvents' : RegCovers(e, a)
    BY DEF RegMotionKept, RegCovers
  <2>1. CASE row \notin regEvents
    BY <2>1, <1>4 DEF RegTablesInv, RegKept, RegMotionKept
  <2>2. CASE row \in regEvents /\ a \in regAcked
    <3>1. PICK e \in regEvents : RegCovers(e, a)
      BY <2>2 DEF RegTablesInv, RegKept, RegMotionKept
    <3>2. CASE e = row
      BY <1>2, <1>3, <1>4, <2>2, <3>1, <3>2 DEF RegCovers, RegTablesInv, RegAcked, RegEvent
    <3> QED
      BY <1>4, <2>2, <3>1, <3>2
  <2>3. CASE row \in regEvents /\ a = [cam |-> m.cam, start |-> m.start, end |-> m.end]
    BY <1>2, <1>3, <1>4, <2>3 DEF RegCovers
  <2> QED
    BY <1>4, <2>1, <2>2, <2>3
<1> QED
  BY <1>5, <1>7, <1>8, <1>9 DEF RegTablesInv, RegKept

\* A step that writes none of the tables, and no deletion that has yet to clean up ends.
LEMMA RegTablesFrame ==
    ASSUME RegTablesInv,
           UNCHANGED <<regRow, regEvents, regSeq, regHook, regErase, regMade, regAcked, regLists>>,
           \A id \in RegIds :
               /\ RegPending(id, {"events"}) => RegPending(id, {"events"})'
               /\ RegPending(id, {"events", "lists"}) => RegPending(id, {"events", "lists"})'
    PROVE  RegTablesInv'
<1>1. RegNothingInherited'
  BY DEF RegTablesInv, RegKept, RegEventRows, RegGrants, RegNothingInherited, RegBorn,
       RegEvent, regLists
<1> QED
  BY <1>1 DEF RegTablesInv, RegAcked, RegKept, RegEventRows, RegHookRows, RegHookKnows,
       RegGrants, RegMotionKept, regLists

\* A step that writes one row while no deletion has yet to clean up.
LEMMA RegRowFrame ==
    ASSUME RegTablesInv,
           UNCHANGED <<regEvents, regSeq, regHook, regErase, regMade, regAcked, regLists>>,
           NEW id \in RegIds,
           \A i \in RegIds \ {id} : RegBorn(regRow', i) = RegBorn(regRow, i),
           \A i \in RegIds : ~RegPending(i, {"events", "lists"}),
           \/ RegBorn(regRow', id) = RegBorn(regRow, id)
           \/ RegBorn(regRow, id) = 0
           \/ RegPending(id, {"events"})'
    PROVE  RegTablesInv'
<1>1. RegNothingInherited'
  BY DEF RegTablesInv, RegKept, RegEventRows, RegGrants, RegNothingInherited, RegEvent,
       regLists, RegPending
<1> QED
  BY <1>1 DEF RegTablesInv, RegAcked, RegKept, RegEventRows, RegHookRows, RegHookKnows,
       RegGrants, RegMotionKept, regLists

\* A row is created, updated or deleted.
LEMMA RegRowsKeep ==
    ASSUME RegCamerasInv, RegTablesInv, RegCreatesRow \/ RegUpdatesRow \/ RegDeletesRow
    PROVE  RegTablesInv'
<1>1. regWork.id \in RegIds
  BY DEF RegCamerasInv, RegWorker, RegIdle, RegCreatesRow, RegUpdatesRow, RegDeletesRow, RegAt
<1> PICK id \in RegIds : id = regWork.id
  BY <1>1
<1>2. UNCHANGED <<regEvents, regSeq, regHook, regErase, regMade, regAcked, regLists>>
  BY DEF RegCreatesRow, RegUpdatesRow, RegDeletesRow, regTables
<1>3. id \in RegIds /\ \A i \in RegIds : ~RegPending(i, {"events", "lists"})
  BY DEF RegCamerasInv, RegWorker, RegIdle, RegCreatesRow, RegUpdatesRow, RegDeletesRow,
       RegAt, RegPending
<1>4. \A i \in RegIds \ {id} : RegBorn(regRow', i) = RegBorn(regRow, i)
  BY <1>3 DEF RegCamerasInv, RegTypes, RegCreatesRow, RegUpdatesRow, RegDeletesRow, RegBorn
<1>5. \/ RegBorn(regRow', id) = RegBorn(regRow, id)
      \/ RegBorn(regRow, id) = 0
      \/ RegPending(id, {"events"})'
  <2>1. CASE RegCreatesRow
    BY <1>3, <2>1 DEF RegCamerasInv, RegTypes, RegCreatesRow, RegBorn
  <2>2. CASE RegUpdatesRow
    <3> DEFINE new == [regWork.cam EXCEPT !.born = regRow[id].born]
    <3>1. CASE regRow[id] = RegNone
      BY <3>1, <2>2 DEF RegUpdatesRow
    <3>2. CASE regRow[id] # RegNone
      <4>1. regWork.cam \in RegCamera /\ regRow[id] \in RegCamera
        BY <1>3, <2>2, <3>2 DEF RegCamerasInv, RegTypes, RegWorker, RegIdle, RegUpdatesRow,
             RegAt
      <4>2. new \in RegCamera /\ new.born = regRow[id].born
        BY <4>1 DEF RegCamera
      <4>3. regRow' = [regRow EXCEPT ![id] = new]
        BY <2>2, <3>2 DEF RegUpdatesRow
      <4> HIDE DEF new
      <4> QED
        BY <1>3, <3>2, <4>2, <4>3, RegNoCamera DEF RegCamerasInv, RegTypes, RegBorn
    <3> QED
      BY <3>1, <3>2
  <2>3. CASE RegDeletesRow
    <3>1. CASE regRow[id] = RegNone
      BY <1>3, <2>3, <3>1 DEF RegCamerasInv, RegTypes, RegDeletesRow, RegBorn
    <3>2. CASE regRow[id] # RegNone
      BY <1>3, <2>3, <3>2 DEF RegCamerasInv, RegWorker, RegIdle, RegDeletesRow, RegPending,
           RegGo, RegAt
    <3> QED
      BY <3>1, <3>2
  <2> QED
    BY <2>1, <2>2, <2>3
<1> QED
  BY <1>2, <1>3, <1>4, <1>5, RegRowFrame

\* The other statements of the handlers.
LEMMA RegHandlersKeep ==
    ASSUME RegCamerasInv, RegTablesInv,
           \/ RegChecksSchedule \/ RegChangesMemory \/ RegBumps \/ RegDropsCodecs \/ RegSeeds
           \/ RegChecksUsage \/ RegDeletesSchedule
    PROVE  RegTablesInv'
<1>1. UNCHANGED <<regRow, regEvents, regSeq, regHook, regErase, regMade, regAcked, regLists>>
  BY DEF RegChecksSchedule, RegChangesMemory, RegBumps, RegDropsCodecs, RegSeeds,
       RegChecksUsage, RegDeletesSchedule, regTables
<1>2. \A id \in RegIds : ~RegPending(id, {"events", "lists"}) /\ ~RegPending(id, {"events"})
  BY DEF RegCamerasInv, RegWorker, RegIdle, RegChecksSchedule, RegChangesMemory, RegBumps,
       RegDropsCodecs, RegSeeds, RegChecksUsage, RegDeletesSchedule, RegAt, RegPending
<1> QED
  BY <1>1, <1>2, RegTablesFrame

\* Probes, programs, and a handler that takes the lock.
LEMMA RegBystandersKeep ==
    ASSUME RegCamerasInv, RegTablesInv, NEW p, NEW s, NEW what, NEW id, NEW en, NEW sc,
           \/ RegProbeChecks(p) \/ RegProbeWrites(p)
           \/ RegCreatesSchedule(s) \/ RegLocks(what, id, sc, en)
    PROVE  RegTablesInv'
<1>1. UNCHANGED <<regRow, regEvents, regSeq, regHook, regErase, regMade, regAcked, regLists>>
  BY DEF RegProbeChecks, RegProbeWrites, RegCreatesSchedule, RegLocks, regTables, regCameras
<1>2. \/ \A i \in RegIds : ~RegPending(i, {"events", "lists"}) /\ ~RegPending(i, {"events"})
      \/ regWork' = regWork
  BY DEF RegProbeChecks, RegProbeWrites, RegCreatesSchedule, RegLocks, RegPending,
       regCameras, RegIdle
<1> QED
  BY <1>1, <1>2, RegTablesFrame DEF RegPending

\* Every step keeps what is said of the tables.
LEMMA RegTablesKept ==
    ASSUME RegCamerasInv, RegTablesInv, [RegNext]_regVars
    PROVE  RegTablesInv'
<1>1. CASE \/ RegChecksSchedule \/ RegChangesMemory \/ RegBumps \/ RegDropsCodecs \/ RegSeeds
           \/ RegChecksUsage \/ RegDeletesSchedule
  BY <1>1, RegHandlersKeep
<1>2. CASE RegCreatesRow \/ RegUpdatesRow \/ RegDeletesRow
  BY <1>2, RegRowsKeep
<1>3. CASE RegDeletesEvents \/ RegDeletesLists
  BY <1>3, RegDeletesEventsKeeps, RegDeletesListsKeeps
<1>4. CASE \/ \E id \in RegIds, sched \in RegScheds \cup {RegNone}, enabled \in BOOLEAN :
               RegLocks("create", id, sched, enabled) \/ RegLocks("update", id, sched, enabled)
           \/ \E id \in RegIds : RegLocks("delete", id, RegNone, TRUE)
           \/ \E s \in RegScheds : RegLocks("unschedule", s, RegNone, TRUE)
           \/ \E p \in regProbes : RegProbeChecks(p) \/ RegProbeWrites(p)
           \/ \E s \in RegScheds : RegCreatesSchedule(s)
  BY <1>4, RegBystandersKeep
<1>5. ASSUME NEW h \in RegHooks
      PROVE  /\ \A id \in RegIds : \A start \in 0..RegTimes : \A end \in start..RegTimes :
                    RegHookFinds(h, id, start, end) => RegTablesInv'
             /\ RegHookSelects(h) \/ RegHookExtends(h) \/ RegHookInserts(h) => RegTablesInv'
  <2>1. \A start \in 0..RegTimes : start \in Int /\ \A end \in start..RegTimes : end \in Int
    OBVIOUS
  <2>2. \A id \in RegIds, start, end \in Int : RegHookFinds(h, id, start, end) => RegTablesInv'
    BY RegHookFindsKeeps
  <2> QED
    BY <2>1, <2>2, RegHookSelectsKeeps, RegHookExtendsKeeps, RegHookInsertsKeeps
<1>6. CASE \/ \E e \in regEvents : RegLists(e)
           \/ RegErases
           \/ \E cutoff \in 1..RegTimes : RegPrunes(cutoff)
  BY <1>6, RegListsKeeps, RegErasesKeeps, RegPrunesKeeps
<1>7. CASE (\E id \in RegIds : RegGrantFinds(id)) \/ RegGrantWrites
  BY <1>7, RegGrantFindsKeeps, RegGrantWritesKeeps
<1>8. CASE UNCHANGED regVars
  BY <1>8, RegTablesFrame DEF regVars, regLists, RegPending
<1> QED
  BY <1>1, <1>2, <1>3, <1>4, <1>5, <1>6, <1>7, <1>8 DEF RegNext

-----------------------------------------------------------------------------
\* The initial states.
LEMMA RegStarts == RegInit => RegIInv
<1> SUFFICES ASSUME RegInit
             PROVE  RegIInv
  OBVIOUS
<1> DEFINE row == [config |-> 1, born |-> 1, enabled |-> TRUE, sched |-> RegNone]
<1>1. row \in RegCamera
  BY RegAssumption DEF RegCamera
<1>2. /\ regRow \in [RegIds -> {RegNone, row}] /\ regMem = regRow
      /\ regProbes = {[id |-> id, config |-> 1, gen |-> 0, at |-> "fetch"] :
                          id \in {i \in RegIds : regRow[i] # RegNone}}
  BY DEF RegInit
<1>3. /\ regWork = RegIdle /\ regWritten = 1 /\ regReported = 0
      /\ regGen = [id \in RegIds |-> 0] /\ regCodecs = [id \in RegIds |-> 0]
  BY DEF RegInit
<1>4. row.config = 1 /\ row.sched = RegNone
  OBVIOUS
<1> HIDE DEF row
<1>5. RegTypes
  BY <1>1, <1>2, <1>3, RegAssumption DEF RegTypes
<1>6. RegWorker /\ RegEstablished /\ RegMirrored /\ RegNoStranded /\ RegCodecsCurrent
  BY <1>2, <1>3, <1>4 DEF RegWorker, RegEstablished, RegMirrored, RegNoStranded,
       RegCodecsCurrent, RegIdle, RegAt
<1>7. RegProbesKnow
  BY <1>2, <1>3, <1>4 DEF RegProbesKnow, RegKnows
<1>8. RegTablesInv
  <2>1. RegEventRows /\ RegGrants /\ RegKept /\ RegAcked
    BY DEF RegInit, RegEventRows, RegGrants, RegKept, RegAcked, RegMotionKept,
         RegNothingInherited
  <2>2. RegHookRows
    BY DEF RegInit, RegHookRows, RegHookKnows, RegWaits
  <2> QED
    BY <2>1, <2>2 DEF RegTablesInv
<1> QED
  BY <1>5, <1>6, <1>7, <1>8 DEF RegIInv, RegCamerasInv

\* The inductive invariant holds in every state.
LEMMA RegInvariant == RegSpec => []RegIInv
<1>1. RegIInv /\ [RegNext]_regVars => RegIInv'
  BY RegCamerasKept, RegTablesKept DEF RegIInv
<1> QED
  BY <1>1, RegStarts, PTL DEF RegSpec

\* No camera of the database refers to a program that is gone, the memory is the table
\* whenever no handler is at work, and the talk codecs are those of the configuration in
\* force unless a handler has yet to drop them (handlers_cameras.go, dropCameraState,
\* seedTalkCodecsFor).
THEOREM RecordsAgree == RegSpec => []RegAgrees
<1>1. RegIInv => RegAgrees
  BY DEF RegIInv, RegCamerasInv, RegAgrees, RegNoStranded, RegMirrored, RegMirrors,
       RegBehind, RegOps,
         RegIdle, RegTypes
<1> QED
  BY <1>1, RegInvariant, PTL

\* An acknowledged motion stays in an event until someone deletes it, and nothing of a
\* deleted camera is left for one that gets its id, but for what a request that had found
\* the camera wrote later (RecordMotion, handleDeleteCamera).
THEOREM MotionsKept == RegSpec => []RegKept
<1>1. RegIInv => RegKept
  BY DEF RegIInv, RegTablesInv
<1> QED
  BY <1>1, RegInvariant, PTL
=============================================================================
