------------------------- MODULE ReleaseStoreProofs -------------------------
(***************************************************************************)
(* Proofs about ReleaseStore: what the update store serves and keeps is    *)
(* whole, for any set of publish requests, any uploads and any number of   *)
(* faults.                                                                 *)
(***************************************************************************)
EXTENDS ReleaseStore, WellFoundedInduction, TLAPS

(* Induction.  A set of natural numbers has a least element, so that what  *)
(* fails for some number fails for a first one.                            *)

LEMMA LeastNatural ==
    ASSUME NEW T \in SUBSET Nat, T # {} PROVE \E n \in T : \A m \in T : n <= m
<1> DEFINE Less == {p \in Nat \X Nat : p[1] < p[2]}
<1>1. IsWellFoundedOn(Less, Nat)
  BY NatLessThanWellFounded DEF OpToRel
<1>2. PICK n \in T : \A m \in T : <<m, n>> \notin Less
  BY <1>1, WFMin
<1>3. \A m \in T : m \in Nat /\ n \in Nat /\ ~(m < n)
  BY <1>2
<1> QED BY <1>3

\* A property is given by the set of the numbers up to m that have it.
LEMMA UpTo ==
    ASSUME NEW m \in Nat, NEW T, 0 \in T, \A n \in 1..m : n - 1 \in T => n \in T
    PROVE  m \in T
<1> SUFFICES ASSUME m \notin T PROVE FALSE
  OBVIOUS
<1>1. PICK B : B = {n \in 0..m : n \notin T}
  OBVIOUS
<1>2. B \in SUBSET Nat /\ B # {}
  BY <1>1
<1>3. PICK n \in B : \A k \in B : n <= k
  BY <1>2, LeastNatural
<1>4. n \in 1..m /\ n - 1 \in 0..m /\ ~(n <= n - 1)
  BY <1>1, <1>3
<1> QED BY <1>1, <1>3, <1>4

\* One more element of a sequence.
LEMMA AppendFacts ==
    ASSUME NEW S, NEW s \in Seq(S), NEW e \in S
    PROVE  /\ Append(s, e) \in Seq(S) /\ DOMAIN Append(s, e) = 1..(Len(s) + 1) /\ DOMAIN s = 1..Len(s)
           /\ Len(s) \in Nat /\ Len(Append(s, e)) = Len(s) + 1
           /\ \A i \in 1..Len(s) : Append(s, e)[i] = s[i]
           /\ Append(s, e)[Len(s) + 1] = e
OBVIOUS

\* The filter that OtherVariants runs, up to the n-th build.
FilterNext(s, v, g, i) ==
    IF i = 0 THEN <<>> ELSE IF s[i].variant = v THEN g[i - 1] ELSE Append(g[i - 1], s[i])
Filters(s, v, g, n) == g = [i \in 0..n |-> FilterNext(s, v, g, i)]

LEMMA FilterExists ==
    ASSUME NEW s, NEW v, NEW m \in Nat PROVE \E g : Filters(s, v, g, m)
<1>1. PICK T : T = {n \in 0..m : \E g : Filters(s, v, g, n)}
  OBVIOUS
<1>2. 0 \in T
  <2>1. PICK g : g = [i \in 0..0 |-> <<>>]
    OBVIOUS
  <2>2. \A i \in 0..0 : FilterNext(s, v, g, i) = <<>>
    BY DEF FilterNext
  <2>3. Filters(s, v, g, 0)
    BY <2>1, <2>2 DEF Filters
  <2> QED BY <1>1, <2>3
<1>3. ASSUME NEW n \in 1..m, n - 1 \in T PROVE n \in T
  <2>1. PICK g : Filters(s, v, g, n - 1)
    BY <1>1, <1>3
  <2>2. PICK h : h = [i \in 0..n |-> IF i = n THEN FilterNext(s, v, g, n) ELSE g[i]]
    OBVIOUS
  <2>3. ASSUME NEW i \in 0..n PROVE h[i] = FilterNext(s, v, h, i)
    <3>1. CASE i = n
      <4>1. h[n] = FilterNext(s, v, g, n) /\ h[n - 1] = g[n - 1]
        BY <2>2
      <4> QED BY <3>1, <4>1 DEF FilterNext
    <3>2. CASE i # n
      <4>1. i \in 0..(n - 1) /\ h[i] = g[i] /\ (i # 0 => h[i - 1] = g[i - 1])
        BY <2>2, <3>2
      <4>2. g[i] = FilterNext(s, v, g, i)
        BY <2>1, <4>1 DEF Filters
      <4> QED BY <4>1, <4>2 DEF FilterNext
    <3> QED BY <3>1, <3>2
  <2>4. h = [i \in 0..n |-> h[i]]
    BY <2>2
  <2>5. Filters(s, v, h, n)
    BY <2>3, <2>4 DEF Filters
  <2> QED BY <1>1, <2>5
<1>4. m \in T
  BY <1>2, <1>3, UpTo
<1> QED BY <1>1, <1>4

LEMMA FilterSteps ==
    ASSUME NEW s, NEW v, NEW m \in Nat, m = Len(s)
    PROVE  \E g : /\ OtherVariants(s, v) = g[m] /\ g[0] = <<>>
                  /\ \A n \in 1..m : g[n] = IF s[n].variant = v THEN g[n - 1] ELSE Append(g[n - 1], s[n])
<1>1. PICK g : g = CHOOSE h : Filters(s, v, h, m)
  OBVIOUS
<1>2. Filters(s, v, g, m)
  BY <1>1, FilterExists
<1>3. OtherVariants(s, v) = g[m]
  BY <1>1 DEF OtherVariants, Filters, FilterNext
<1>4. \A n \in 0..m : g[n] = FilterNext(s, v, g, n)
  BY <1>2 DEF Filters
<1> QED BY <1>3, <1>4 DEF FilterNext

\* The filter keeps the builds of other variants, each once.
Filtered(S, s, v, o) ==
    /\ o \in Seq(S)
    /\ \A b : (\E i \in DOMAIN o : o[i] = b) <=> (\E i \in DOMAIN s : s[i] = b) /\ b.variant # v
    /\ (\A i, j \in DOMAIN s : s[i].variant = s[j].variant => i = j) =>
           \A i, j \in DOMAIN o : o[i].variant = o[j].variant => i = j

LEMMA OtherVariantsFacts ==
    ASSUME NEW S, NEW s \in Seq(S), NEW v, NEW o, o = OtherVariants(s, v)
    PROVE  Filtered(S, s, v, o)
<1>1. PICK m \in Nat : m = Len(s)
  OBVIOUS
<1>2. DOMAIN s = 1..m /\ \A i \in 1..m : s[i] \in S
  BY <1>1
<1>3. PICK g : /\ OtherVariants(s, v) = g[m] /\ g[0] = <<>>
               /\ \A n \in 1..m : g[n] = IF s[n].variant = v THEN g[n - 1] ELSE Append(g[n - 1], s[n])
  BY <1>1, FilterSteps
<1> DEFINE Others(n) == {b \in {s[i] : i \in 1..n} : b.variant # v}
           Distinct == \A i, j \in 1..m : s[i].variant = s[j].variant => i = j
           Right(t, n) ==
             /\ t \in Seq(S)
             /\ {t[i] : i \in DOMAIN t} = Others(n)
             /\ Distinct => \A i, j \in DOMAIN t : t[i].variant = t[j].variant => i = j
<1>4. PICK T : T = {n \in 0..m : Right(g[n], n)}
  OBVIOUS
<1>5. 0 \in T
  <2>1. <<>> \in Seq(S) /\ DOMAIN <<>> = {} /\ Others(0) = {}
    OBVIOUS
  <2>2. Right(<<>>, 0)
    BY <2>1
  <2> HIDE DEF Right
  <2> QED BY <1>3, <1>4, <2>2
<1>6. ASSUME NEW n \in 1..m, n - 1 \in T PROVE n \in T
  <2>1. PICK t : t = g[n - 1]
    OBVIOUS
  <2>2. Right(t, n - 1)
    <3> HIDE DEF Right
    <3> QED BY <1>4, <1>6, <2>1
  <2>3. 1..n = 1..(n - 1) \cup {n} /\ 1..(n - 1) \subseteq 1..m /\ n \in 1..m /\ n \in 0..m /\ s[n] \in S
    BY <1>2
  <2>4. CASE s[n].variant = v
    <3>1. g[n] = t
      BY <1>3, <2>1, <2>4
    <3>2. Others(n) = Others(n - 1)
      BY <2>3, <2>4
    <3>3. Right(t, n)
      <4> HIDE DEF Others, Distinct
      <4> QED BY <2>2, <3>2
    <3> HIDE DEF Right
    <3> QED BY <1>4, <2>3, <3>1, <3>3
  <2>5. CASE s[n].variant # v
    <3>1. PICK a : a = Append(t, s[n])
      OBVIOUS
    <3>2. g[n] = a
      BY <1>3, <2>1, <2>5, <3>1
    <3>3. /\ a \in Seq(S) /\ DOMAIN a = 1..(Len(t) + 1) /\ DOMAIN t = 1..Len(t) /\ Len(t) \in Nat
          /\ \A i \in 1..Len(t) : a[i] = t[i]
          /\ a[Len(t) + 1] = s[n]
      BY <2>2, <2>3, <3>1, AppendFacts
    <3>4. {a[i] : i \in DOMAIN a} = {t[i] : i \in DOMAIN t} \cup {s[n]}
      BY <3>3
    <3>5. Others(n) = Others(n - 1) \cup {s[n]}
      BY <2>3, <2>5
    <3>6. ASSUME Distinct PROVE \A i, j \in DOMAIN a : a[i].variant = a[j].variant => i = j
      <4>1. \A i \in 1..Len(t) : a[i].variant # s[n].variant
        <5> TAKE i \in 1..Len(t)
        <5>1. t[i] \in Others(n - 1)
          <6> HIDE DEF Others
          <6> QED BY <2>2, <3>3
        <5>2. PICK k \in 1..(n - 1) : a[i] = s[k]
          BY <3>3, <5>1
        <5>3. k # n /\ k \in 1..m /\ n \in 1..m
          BY <2>3
        <5> QED BY <3>6, <5>2, <5>3
      <4>2. \A i, j \in 1..Len(t) : a[i].variant = a[j].variant => i = j
        BY <2>2, <3>3, <3>6
      <4> QED BY <3>3, <4>1, <4>2
    <3>7. Right(a, n)
      <4> HIDE DEF Others, Distinct
      <4> QED BY <2>2, <3>3, <3>4, <3>5, <3>6
    <3> HIDE DEF Right
    <3> QED BY <1>4, <2>3, <3>2, <3>7
  <2> QED BY <2>4, <2>5
<1>7. Right(o, m)
  <2>1. m \in T
    BY <1>5, <1>6, UpTo
  <2> HIDE DEF Right
  <2> QED BY <1>3, <1>4, <2>1
<1>8. \A b : (\E i \in DOMAIN o : o[i] = b) <=> b \in Others(m)
  BY <1>7
<1>9. \A b : b \in Others(m) <=> (\E i \in 1..m : s[i] = b) /\ b.variant # v
  OBVIOUS
<1> QED BY <1>2, <1>7, <1>8, <1>9 DEF Filtered

-----------------------------------------------------------------------------
(* The invariant.                                                          *)

RelHolding == {"start", "write", "save", "promote", "clear", "rotate"}
RelPoints == {"new", "ensure", "append", "commit", "done", "failed"} \cup RelHolding
RelCodes == Nat \cup {CHOOSE c \in Codes : \A d \in Codes : c <= d}

\* A build as some request uploads it.
RelUploaded(b) == \E u \in Uploads : \E i \in DOMAIN u : u[i].variant = b.variant /\ u[i].name = b.name
RelBuild == [variant : Variants, name : Names, sha : Bytes \ {Absent}]
RelReleases == [code : RelCodes, builds : Seq(RelBuild)]
RelRequest == [pc : RelPoints, code : Nat, parts : Seq([variant : Variants, name : Names]),
               finalize : BOOLEAN, i : Nat]

RelTypes ==
    /\ dir \in [Names -> Bytes] /\ pending \in [Names -> Bytes]
    /\ manifest \in RelReleases /\ sidecar \in RelReleases /\ active \in RelReleases
    /\ loaded \in BOOLEAN /\ lock \in Publishers \cup {Free}
    /\ req \in [Publishers -> RelRequest]
    /\ failures \in Nat /\ crashes \in Nat

\* Where a request can be, and what it knows there.
Place(r) ==
    /\ lock = r <=> req[r].pc \in RelHolding
    /\ req[r].pc \notin {"new", "done", "failed"} => loaded /\ req[r].code # 0
    /\ req[r].pc \in {"ensure", "start", "append", "write", "save"} =>
            req[r].parts \in Uploads /\ req[r].i \in DOMAIN req[r].parts
    /\ req[r].pc \in {"write", "save"} => active.code = req[r].code
    /\ req[r].pc = "promote" => active.code # 0 /\ req[r].i \in 1..(Len(active.builds) + 1)
    /\ req[r].pc = "clear" => manifest = active
    /\ req[r].pc = "rotate" => active = NoRelease
RelPlaces == \A r \in Publishers : Place(r)

\* The builds that a commit has moved next to the manifest.
FirstOf(builds, n) == {builds[j] : j \in 1..n}
RelMoved(r) == FirstOf(active.builds, req[r].i - 1)
RelExists ==
    /\ ServedExists
    /\ \A r \in Publishers : req[r].pc = "promote" =>
            \A b \in RelMoved(r) : dir[b.name] # Absent

\* A build is of a request that arrived, for the release's version.
Owned(builds, code) ==
    \A b \in builds : b.sha # Old => /\ b.sha[1] \in Publishers /\ req[b.sha[1]].pc # "new"
                                     /\ req[b.sha[1]].code = code
RelOwn ==
    /\ Owned(BuildsOf(manifest), manifest.code)
    /\ Owned(BuildsOf(sidecar), sidecar.code)
    /\ Owned(BuildsOf(active), active.code)

RelNobody(points) == \A r \in Publishers : req[r].pc \notin points
RelCached ==
    failures = 0 /\ (loaded \/ crashes = 0) /\ RelNobody({"save"}) => active = sidecar

\* One build of a variant, under a name that some request gave it.
Single(release) ==
    /\ \A b \in BuildsOf(release) : RelUploaded(b)
    /\ \A i, j \in DOMAIN release.builds :
        release.builds[i].variant = release.builds[j].variant => i = j
RelUnique == Single(sidecar) /\ Single(active)

\* Without a fault pending/ holds the files of the builds that wait there and nothing else.
RelStaged(builds) ==
    /\ \A b \in builds : pending[b.name] = b.sha
    /\ \A n \in Names : pending[n] # Absent => \E b \in builds : b.name = n
RelPending ==
    Faultless =>
        /\ lock = Free => RelStaged(BuildsOf(active))
        /\ \A r \in Publishers : lock = r =>
            /\ req[r].pc \in {"start", "clear"} => RelStaged({})
            /\ req[r].pc = "write" =>
                RelStaged({b \in BuildsOf(active) : b.variant # Part(r).variant})
            /\ req[r].pc = "promote" => RelStaged(BuildsOf(active) \ RelMoved(r))
            /\ req[r].pc \in {"save", "rotate"} => RelStaged(BuildsOf(active))

\* Nor does a file lie next to the manifest that is of neither the release served nor of
\* the builds that a commit has moved there.
RelMatch(moved) ==
    \A b \in BuildsOf(manifest) : dir[b.name] = b.sha \/ \E a \in moved : a.name = b.name
RelServes(moved) ==
    /\ \A b \in moved : dir[b.name] = b.sha
    /\ RelMatch(moved)
    /\ \A n \in Names : dir[n] # Absent =>
            (\E b \in BuildsOf(manifest) : b.name = n) \/ \E a \in moved : a.name = n
RelServed ==
    Faultless =>
        /\ lock = Free => RelServes({})
        /\ \A r \in Publishers : lock = r =>
            /\ req[r].pc \in {"start", "write", "save"} => RelServes({})
            /\ req[r].pc = "promote" => RelServes(RelMoved(r))
            /\ req[r].pc \in {"clear", "rotate"} => RelMatch({})

RelSafe == RelTypes /\ RelPlaces /\ RelExists /\ RelOwn /\ RelCached /\ RelUnique
RelWhole == RelPending /\ RelServed

-----------------------------------------------------------------------------
(* What every step needs.                                                  *)

LEMMA RelShas ==
    /\ Absent # Old /\ Absent \in Bytes /\ Old \in Bytes /\ Free \notin Publishers
    /\ \A r \in Publishers, i \in Nat :
        <<r, i>> \in Bytes /\ <<r, i>> # Absent /\ <<r, i>> # Old /\ <<r, i>>[1] = r
<1>1. Absent # Old
  BY DEF Absent, Old
<1>2. ASSUME NEW r \in Publishers, NEW i \in Nat
      PROVE <<r, i>> \in Bytes /\ <<r, i>> # Absent /\ <<r, i>> # Old /\ <<r, i>>[1] = r
  BY ConstantsAssumption DEF Bytes, Absent, Old
<1> QED BY <1>1, <1>2, ConstantsAssumption DEF Bytes, Free

LEMMA RelEmpty ==
    /\ NoRelease \in RelReleases /\ BuildsOf(NoRelease) = {} /\ NamesOf(NoRelease) = {}
    /\ NoRelease.code = 0 /\ DOMAIN NoRelease.builds = {}
BY DEF NoRelease, RelReleases, RelCodes, BuildsOf, NamesOf

\* A release lists builds.
LEMMA RelListed ==
    ASSUME NEW a \in RelReleases
    PROVE  /\ a.code \in RelCodes /\ a.builds \in Seq(RelBuild)
           /\ Len(a.builds) \in Nat /\ DOMAIN a.builds = 1..Len(a.builds)
           /\ \A i \in 1..Len(a.builds) : a.builds[i] \in BuildsOf(a)
           /\ \A b \in BuildsOf(a) : /\ \E i \in 1..Len(a.builds) : b = a.builds[i]
                                     /\ b \in RelBuild
                                     /\ b.variant \in Variants /\ b.name \in Names
                                     /\ b.sha \in Bytes /\ b.sha # Absent
           /\ \A n : n \in NamesOf(a) <=> \E b \in BuildsOf(a) : b.name = n
<1>1. /\ a.code \in RelCodes /\ a.builds \in Seq(RelBuild)
  BY DEF RelReleases
<1>2. /\ Len(a.builds) \in Nat /\ DOMAIN a.builds = 1..Len(a.builds)
      /\ \A i \in 1..Len(a.builds) : a.builds[i] \in RelBuild
  BY <1>1
<1> QED BY <1>1, <1>2 DEF BuildsOf, NamesOf, RelBuild

\* A request goes to another point.
Stepped(r, pc, i) ==
    /\ req' \in [Publishers -> RelRequest]
    /\ \A q \in Publishers : q # r => req'[q] = req[q]
    /\ req'[r].pc = pc /\ req'[r].i = i
    /\ req'[r].code = req[r].code /\ req'[r].parts = req[r].parts
    /\ req'[r].finalize = req[r].finalize

LEMMA RelSteps ==
    ASSUME req \in [Publishers -> RelRequest], NEW r \in Publishers,
           NEW pc \in RelPoints, NEW i \in Nat
    PROVE  /\ Continue(r, pc) => Stepped(r, pc, req[r].i)
           /\ req' = [req EXCEPT ![r].pc = pc, ![r].i = i] => Stepped(r, pc, i)
<1>1. PICK p \in RelRequest : p = req[r]
  OBVIOUS
<1>2. PICK q \in RelRequest : q = [p EXCEPT !.pc = pc]
  BY DEF RelRequest
<1>3. PICK m \in RelRequest : m = [p EXCEPT !.pc = pc, !.i = i]
  BY DEF RelRequest
<1>4. q.pc = pc /\ q.i = p.i /\ q.code = p.code /\ q.parts = p.parts /\ q.finalize = p.finalize
  BY <1>2 DEF RelRequest
<1>5. m.pc = pc /\ m.i = i /\ m.code = p.code /\ m.parts = p.parts /\ m.finalize = p.finalize
  BY <1>3 DEF RelRequest
<1>6. ASSUME Continue(r, pc) PROVE Stepped(r, pc, req[r].i)
  <2>1. req' = [req EXCEPT ![r] = q]
    BY <1>1, <1>2, <1>6 DEF Continue
  <2> QED BY <1>1, <1>4, <2>1 DEF Stepped
<1>7. ASSUME req' = [req EXCEPT ![r].pc = pc, ![r].i = i] PROVE Stepped(r, pc, i)
  <2>1. req' = [req EXCEPT ![r] = m]
    BY <1>1, <1>3, <1>7 DEF RelRequest
  <2> QED BY <1>1, <1>5, <2>1 DEF Stepped
<1> QED BY <1>6, <1>7

\* The mutex excludes the other requests from the locked operations.
LEMMA RelAlone ==
    ASSUME RelTypes, RelPlaces, NEW r \in Publishers, lock = r \/ lock = Free
    PROVE  /\ \A q \in Publishers : q # r => req[q].pc \notin RelHolding
           /\ lock = Free => req[r].pc \notin RelHolding
BY ConstantsAssumption DEF RelPlaces, Place, Free

\* A step of a handler: the request goes on, inside the mutex or outside it.
Handled(r, pc, i) ==
    /\ Stepped(r, pc, i)
    /\ lock' = IF pc \in RelHolding THEN r ELSE Free
    /\ loaded' = loaded /\ crashes' = crashes /\ failures' \in Nat
    /\ dir' \in [Names -> Bytes] /\ pending' \in [Names -> Bytes]
    /\ manifest' \in RelReleases /\ sidecar' \in RelReleases /\ active' \in RelReleases
    /\ pc \in {"start", "append", "write", "save"} =>
            req[r].parts \in Uploads /\ i \in DOMAIN req[r].parts
    /\ pc \in {"write", "save"} => active'.code = req[r].code
    /\ pc = "promote" => active'.code # 0 /\ i \in 1..(Len(active'.builds) + 1)
    /\ pc = "clear" => manifest' = active'
    /\ pc = "rotate" => active' = NoRelease

LEMMA RelHandled ==
    ASSUME RelTypes, RelPlaces, NEW r \in Publishers, lock = r \/ lock = Free,
           req[r].pc \notin {"new", "done", "failed"},
           NEW pc \in RelPoints \ {"new", "ensure"}, NEW i \in Nat, Handled(r, pc, i)
    PROVE  /\ RelTypes' /\ RelPlaces'
           /\ \A q \in Publishers : q # r => req'[q].pc \notin RelHolding
           /\ \A q \in Publishers : req'[q].code = req[q].code /\ (req[q].pc # "new" => req'[q].pc # "new")
<1>1. \A q \in Publishers : q # r => req'[q] = req[q] /\ req[q].pc \notin RelHolding
  BY RelAlone DEF Handled, Stepped
<1>2. RelTypes'
  BY ConstantsAssumption DEF RelTypes, Handled, Stepped, Free
<1>3. ASSUME NEW q \in Publishers, q # r PROVE Place(q)'
  <2>1. Place(q) /\ req'[q] = req[q] /\ req[q].pc \notin RelHolding /\ lock' # q /\ loaded' = loaded
    BY <1>1, <1>3, ConstantsAssumption DEF RelPlaces, Handled, Free
  <2> QED BY <2>1 DEF Place, RelHolding
<1>4. Place(r)'
  <2>1. /\ req'[r].pc = pc /\ req'[r].i = i /\ req'[r].code = req[r].code /\ req'[r].parts = req[r].parts
        /\ loaded /\ req[r].code # 0
    BY DEF Handled, Stepped, RelPlaces, Place
  <2>2. lock' = r <=> pc \in RelHolding
    BY ConstantsAssumption DEF Handled, Free
  <2> QED BY <2>1, <2>2 DEF Handled, Place
<1>5. \A q \in Publishers : req'[q].code = req[q].code /\ (req[q].pc # "new" => req'[q].pc # "new")
  BY DEF Handled, Stepped
<1> QED BY <1>1, <1>2, <1>3, <1>4, <1>5 DEF RelPlaces

\* The builds of a request stay of its version.
LEMMA OwnedStays ==
    ASSUME NEW B, NEW c, Owned(B, c),
           \A q \in Publishers : req'[q].code = req[q].code /\ (req[q].pc # "new" => req'[q].pc # "new")
    PROVE  \A b \in B : b.sha # Old => /\ b.sha[1] \in Publishers /\ req'[b.sha[1]].pc # "new"
                                       /\ req'[b.sha[1]].code = c
BY DEF Owned

LEMMA RelOwnStays ==
    ASSUME RelOwn,
           \A q \in Publishers : req'[q].code = req[q].code /\ (req[q].pc # "new" => req'[q].pc # "new")
    PROVE  /\ manifest' \in {manifest, sidecar, active} => Owned(BuildsOf(manifest), manifest.code)'
           /\ sidecar' \in {manifest, sidecar, active} => Owned(BuildsOf(sidecar), sidecar.code)'
           /\ active' \in {manifest, sidecar, active} => Owned(BuildsOf(active), active.code)'
<1>1. PICK M, S, A : M = manifest /\ S = sidecar /\ A = active
  OBVIOUS
<1>3. \A a \in {M, S, A} : Owned(BuildsOf(a), a.code)
  BY <1>1 DEF RelOwn
<1>4. ASSUME NEW a \in {M, S, A}
      PROVE \A b \in BuildsOf(a) : b.sha # Old => /\ b.sha[1] \in Publishers /\ req'[b.sha[1]].pc # "new"
                                       /\ req'[b.sha[1]].code = a.code
  <2>1. PICK B, c : B = BuildsOf(a) /\ c = a.code
    OBVIOUS
  <2>2. Owned(B, c)
    BY <1>3, <2>1
  <2> QED BY <2>1, <2>2, OwnedStays
<1>5. manifest' \in {M, S, A} => Owned(BuildsOf(manifest), manifest.code)'
  BY <1>4 DEF Owned, BuildsOf
<1>6. sidecar' \in {M, S, A} => Owned(BuildsOf(sidecar), sidecar.code)'
  BY <1>4 DEF Owned, BuildsOf
<1>7. active' \in {M, S, A} => Owned(BuildsOf(active), active.code)'
  BY <1>4 DEF Owned, BuildsOf
<1> QED BY <1>1, <1>5, <1>6, <1>7

\* The part a request is at, and the build it becomes.
NewBuild(r) == [variant |-> Part(r).variant, name |-> Part(r).name, sha |-> Sha(r)]

LEMMA RelParts ==
    ASSUME NEW r \in Publishers, req \in [Publishers -> RelRequest],
           req[r].parts \in Uploads, req[r].i \in DOMAIN req[r].parts
    PROVE  /\ Part(r).variant \in Variants /\ Part(r).name \in Names
           /\ NewBuild(r) \in RelBuild /\ RelUploaded(NewBuild(r))
           /\ NewBuild(r).sha = Sha(r) /\ Sha(r) \in Bytes /\ Sha(r) # Absent /\ Sha(r) # Old /\ Sha(r)[1] = r
           /\ NewBuild(r).name = Part(r).name /\ NewBuild(r).variant = Part(r).variant
<1>1. PICK u, i : u = req[r].parts /\ i = req[r].i
  OBVIOUS
<1>2. u \in Uploads /\ i \in DOMAIN u /\ u \in Seq([variant : Variants, name : Names])
  BY <1>1, ConstantsAssumption
<1>3. i \in Nat /\ u[i] \in [variant : Variants, name : Names]
  <2>1. PICK P : P = [variant : Variants, name : Names]
    OBVIOUS
  <2>2. u \in Seq(P) /\ i \in DOMAIN u
    BY <1>2, <2>1
  <2>3. i \in Nat /\ u[i] \in P
    BY <2>2
  <2> QED BY <2>1, <2>3
<1>4. PICK p : p = u[i]
  OBVIOUS
<1>5. Part(r) = p /\ Sha(r) = <<r, i>> /\ p.variant \in Variants /\ p.name \in Names
  BY <1>1, <1>3, <1>4 DEF Part, Sha
<1>6. Sha(r) \in Bytes /\ Sha(r) # Absent /\ Sha(r) # Old /\ Sha(r)[1] = r
  BY <1>3, <1>5, RelShas
<1>7. NewBuild(r) = [variant |-> p.variant, name |-> p.name, sha |-> Sha(r)]
  BY <1>5 DEF NewBuild
<1>8. NewBuild(r) \in RelBuild
  BY <1>5, <1>6, <1>7 DEF RelBuild
<1>9. RelUploaded(NewBuild(r))
  BY <1>2, <1>4, <1>7 DEF RelUploaded
<1> QED BY <1>5, <1>6, <1>7, <1>8, <1>9

\* The list with the new build at its end, in place of the one of its variant.
LEMMA ListedFacts ==
    ASSUME NEW r \in Publishers, req \in [Publishers -> RelRequest], active \in RelReleases,
           Single(active), req[r].parts \in Uploads, req[r].i \in DOMAIN req[r].parts
    PROVE  /\ Listed(r) \in RelReleases /\ Listed(r).code = active.code
           /\ BuildsOf(Listed(r)) =
                {b \in BuildsOf(active) : b.variant # Part(r).variant} \cup {NewBuild(r)}
           /\ Single(Listed(r))
<1>1. PICK v, e, s, t : /\ v = Part(r).variant /\ e = NewBuild(r) /\ s = active.builds
                        /\ t = OtherVariants(s, v)
  OBVIOUS
<1>2. /\ e \in RelBuild /\ RelUploaded(e) /\ e.variant = v
  BY <1>1, RelParts
<1>3. s \in Seq(RelBuild)
  BY <1>1 DEF RelReleases
<1>4. /\ t \in Seq(RelBuild)
      /\ \A b : (\E i \in DOMAIN t : t[i] = b) <=> (\E i \in DOMAIN s : s[i] = b) /\ b.variant # v
      /\ (\A i, j \in DOMAIN s : s[i].variant = s[j].variant => i = j) =>
             \A i, j \in DOMAIN t : t[i].variant = t[j].variant => i = j
  <2>1. Filtered(RelBuild, s, v, t)
    BY <1>1, <1>3, OtherVariantsFacts
  <2> QED BY <2>1 DEF Filtered
<1>5. \A i, j \in DOMAIN t : t[i].variant = t[j].variant => i = j
  BY <1>1, <1>4 DEF Single
<1>6. PICK m \in Nat : m = Len(t) /\ DOMAIN t = 1..m
  BY <1>4
<1>7. PICK l : l = Append(t, e)
  OBVIOUS
<1>8. /\ l \in Seq(RelBuild) /\ DOMAIN l = 1..(m + 1)
      /\ \A i \in 1..m : l[i] = t[i]
      /\ l[m + 1] = e
  BY <1>2, <1>4, <1>6, <1>7, AppendFacts
<1>9. Listed(r) = [active EXCEPT !.builds = l]
  BY <1>1, <1>7 DEF Listed, NewBuild
<1>10. PICK a : a = Listed(r)
  OBVIOUS
<1>11. a \in RelReleases /\ a.code = active.code /\ a.builds = l
  BY <1>8, <1>9, <1>10 DEF RelReleases
<1>12. \A b : (\E i \in 1..(m + 1) : l[i] = b) <=> (\E j \in 1..m : t[j] = b) \/ b = e
  <2>1. ASSUME NEW i \in 1..(m + 1) PROVE l[i] = e \/ \E j \in 1..m : l[i] = t[j]
    BY <1>8, i \in 1..m \/ i = m + 1
  <2>2. ASSUME NEW j \in 1..m PROVE \E i \in 1..(m + 1) : l[i] = t[j]
    BY <1>8, j \in 1..(m + 1)
  <2>3. m + 1 \in 1..(m + 1)
    OBVIOUS
  <2> QED BY <1>8, <2>1, <2>2, <2>3
<1>13. BuildsOf(a) = {b \in BuildsOf(active) : b.variant # v} \cup {e}
  <2>1. \A b : b \in BuildsOf(a) <=> (\E i \in 1..(m + 1) : l[i] = b)
    BY <1>8, <1>11 DEF BuildsOf
  <2>2. \A b : b \in BuildsOf(active) <=> (\E i \in DOMAIN s : s[i] = b)
    BY <1>1 DEF BuildsOf
  <2>3. \A b : b \in BuildsOf(a) <=> (b \in BuildsOf(active) /\ b.variant # v) \/ b = e
    BY <1>4, <1>6, <1>12, <2>1, <2>2
  <2> QED BY <2>3
<1>14. \A b \in BuildsOf(a) : RelUploaded(b)
  BY <1>2, <1>13 DEF Single
<1>15. \A i \in 1..m : t[i].variant # v
  BY <1>4, <1>6
<1>16. \A i, j \in 1..(m + 1) : l[i].variant = l[j].variant => i = j
  <2> TAKE i, j \in 1..(m + 1)
  <2>1. (i \in 1..m \/ i = m + 1) /\ (j \in 1..m \/ j = m + 1)
    OBVIOUS
  <2> QED BY <1>2, <1>5, <1>6, <1>8, <1>15, <2>1
<1>17. Single(a)
  BY <1>8, <1>11, <1>14, <1>16 DEF Single
<1> QED BY <1>1, <1>10, <1>11, <1>13, <1>17

\* A step that leaves the manifest and its files alone and moves no build.
LEMMA RelExistsStays ==
    ASSUME RelExists, NEW r \in Publishers, NEW pc, pc # "promote", req'[r].pc = pc,
           \A q \in Publishers : q # r => req'[q].pc \notin RelHolding,
           manifest' = manifest, dir' = dir
    PROVE  RelExists'
<1>1. \A q \in Publishers : req'[q].pc # "promote"
  BY DEF RelHolding
<1> QED BY <1>1 DEF RelExists, ServedExists, NamesOf, BuildsOf

LEMMA WithoutFacts ==
    ASSUME NEW F \in [Names -> Bytes], NEW N
    PROVE  /\ Without(F, N) \in [Names -> Bytes]
           /\ \A n \in Names : Without(F, N)[n] = IF n \in N THEN Absent ELSE F[n]
BY RelShas DEF Without

-----------------------------------------------------------------------------
(* Each step keeps what holds with or without faults.                      *)

\* A step that writes neither a release nor, if nothing failed, saves one.
LEMMA RelQuiet ==
    ASSUME RelSafe, NEW r \in Publishers, lock = r \/ lock = Free,
           req[r].pc \notin {"new", "done", "failed"},
           NEW pc \in RelPoints \ {"new", "ensure", "save"}, NEW i \in Nat, Handled(r, pc, i),
           manifest' = manifest, sidecar' = sidecar, active' = active,
           (failures' = failures /\ req[r].pc # "save") \/ failures' = failures + 1,
           RelExists' \/ (dir' = dir /\ pc # "promote")
    PROVE  RelSafe'
<1>1. RelTypes /\ RelPlaces /\ RelExists /\ RelOwn /\ RelCached /\ RelUnique
  BY DEF RelSafe
<1>2. /\ RelTypes' /\ RelPlaces'
      /\ \A q \in Publishers : q # r => req'[q].pc \notin RelHolding
      /\ \A q \in Publishers : req'[q].code = req[q].code /\ (req[q].pc # "new" => req'[q].pc # "new")
  BY <1>1, RelHandled
<1>3. RelExists'
  BY <1>1, <1>2, RelExistsStays DEF Handled, Stepped
<1>4. RelOwn'
  BY <1>1, <1>2, RelOwnStays DEF RelOwn
<1>5. RelCached'
  <2>1. loaded' = loaded /\ crashes' = crashes /\ failures \in Nat
    BY <1>1 DEF Handled, RelTypes
  <2>2. ASSUME failures' = 0, RelNobody({"save"})' PROVE failures = 0 /\ RelNobody({"save"})
    <3>1. failures' = failures /\ req[r].pc # "save"
      BY <2>1, <2>2
    <3> QED BY <2>2, <3>1 DEF RelNobody, Handled, Stepped
  <2> QED BY <1>1, <2>1, <2>2 DEF RelCached
<1>6. RelUnique'
  BY <1>1 DEF RelUnique, Single, BuildsOf, RelUploaded
<1> QED BY <1>2, <1>3, <1>4, <1>5, <1>6 DEF RelSafe

\* The points a handler's step starts from.
LEMMA RelAt ==
    ASSUME RelSafe, NEW r \in Publishers
    PROVE  /\ req[r].pc \in RelHolding => lock = r
           /\ req[r].i \in Nat /\ req[r].code \in Nat
           /\ req \in [Publishers -> RelRequest] /\ failures \in Nat
           /\ dir \in [Names -> Bytes] /\ pending \in [Names -> Bytes]
           /\ manifest \in RelReleases /\ sidecar \in RelReleases /\ active \in RelReleases
<1>1. /\ req \in [Publishers -> RelRequest] /\ failures \in Nat
      /\ dir \in [Names -> Bytes] /\ pending \in [Names -> Bytes]
      /\ manifest \in RelReleases /\ sidecar \in RelReleases /\ active \in RelReleases
  BY DEF RelSafe, RelTypes
<1>2. req[r].i \in Nat /\ req[r].code \in Nat
  BY <1>1 DEF RelRequest
<1> QED BY <1>1, <1>2 DEF RelSafe, RelPlaces, Place

\* A failing file operation.
LEMMA GiveUpSafe ==
    ASSUME RelSafe, NEW r \in Publishers, req[r].pc \in RelHolding, GiveUp(r),
           manifest' = manifest, sidecar' = sidecar, active' = active, dir' = dir,
           pending' \in [Names -> Bytes], loaded' = loaded, crashes' = crashes
    PROVE  RelSafe' /\ failures' # 0
<1>1. Stepped(r, "failed", req[r].i) /\ failures' = failures + 1 /\ lock' = Free
  BY RelAt, RelSteps DEF GiveUp, RelPoints
<1>2. Handled(r, "failed", req[r].i)
  BY <1>1, RelAt DEF Handled, RelHolding
<1>3. RelSafe'
  BY <1>1, <1>2, RelAt, RelQuiet DEF RelPoints, RelHolding
<1> QED BY <1>1, <1>3, RelAt

LEMMA EnsureActiveSafe ==
    ASSUME RelSafe, NEW r \in Publishers, EnsureActive(r) PROVE RelSafe'
<1>1. /\ req[r].pc = "ensure" /\ lock = Free /\ req[r].i \in Nat
      /\ req[r].parts \in Uploads /\ req[r].i \in DOMAIN req[r].parts
  BY RelAt DEF EnsureActive, RelSafe, RelPlaces, Place
<1>2. CASE Continue(r, "append") /\ UNCHANGED <<pending, lock>>
  <2>1. Stepped(r, "append", req[r].i)
    BY <1>2, RelAt, RelSteps DEF RelPoints
  <2>2. Handled(r, "append", req[r].i)
    BY <1>1, <1>2, <2>1, RelAt DEF Handled, EnsureActive, RelHolding
  <2> QED BY <1>1, <2>2, RelQuiet DEF EnsureActive, RelPoints
<1>3. CASE /\ lock' = r /\ pending' = Without(pending, NamesOf(active)) /\ Continue(r, "start")
  <2>1. Stepped(r, "start", req[r].i)
    BY <1>3, RelAt, RelSteps DEF RelPoints, RelHolding
  <2>2. pending' \in [Names -> Bytes]
    BY <1>3, RelAt, WithoutFacts
  <2>3. Handled(r, "start", req[r].i)
    BY <1>1, <1>3, <2>1, <2>2, RelAt DEF Handled, EnsureActive, RelHolding
  <2> QED BY <1>1, <2>3, RelQuiet DEF EnsureActive, RelPoints, RelHolding
<1> QED BY <1>2, <1>3 DEF EnsureActive

LEMMA AppendBuildSafe ==
    ASSUME RelSafe, NEW r \in Publishers, AppendBuild(r) PROVE RelSafe'
<1>1. /\ req[r].pc = "append" /\ lock = Free /\ req[r].i \in Nat
      /\ req[r].parts \in Uploads /\ req[r].i \in DOMAIN req[r].parts
  BY RelAt DEF AppendBuild, RelSafe, RelPlaces, Place
<1>2. CASE Continue(r, "failed") /\ UNCHANGED <<pending, lock>>
  <2>1. Stepped(r, "failed", req[r].i)
    BY <1>2, RelAt, RelSteps DEF RelPoints
  <2>2. Handled(r, "failed", req[r].i)
    BY <1>1, <1>2, <2>1, RelAt DEF Handled, AppendBuild, RelHolding
  <2> QED BY <1>1, <2>2, RelQuiet DEF AppendBuild, RelPoints
<1>3. CASE /\ SameVersion(r) /\ lock' = r /\ Continue(r, "write")
           /\ pending' = Without(pending, {b.name : b \in {a \in BuildsOf(active) :
                                                   a.variant = Part(r).variant}})
  <2>1. Stepped(r, "write", req[r].i)
    BY <1>3, RelAt, RelSteps DEF RelPoints, RelHolding
  <2>2. pending' \in [Names -> Bytes]
    BY <1>3, RelAt, WithoutFacts
  <2>3. Handled(r, "write", req[r].i)
    BY <1>1, <1>3, <2>1, <2>2, RelAt DEF Handled, AppendBuild, RelHolding, SameVersion
  <2> QED BY <1>1, <2>3, RelQuiet DEF AppendBuild, RelPoints, RelHolding
<1> QED BY <1>2, <1>3 DEF AppendBuild

LEMMA BeginCommitSafe ==
    ASSUME RelSafe, NEW r \in Publishers, BeginCommit(r) PROVE RelSafe'
<1>1. req[r].pc = "commit" /\ lock = Free /\ req[r].i \in Nat
  BY RelAt DEF BeginCommit
<1>2. CASE Continue(r, "failed") /\ UNCHANGED lock
  <2>1. Stepped(r, "failed", req[r].i)
    BY <1>2, RelAt, RelSteps DEF RelPoints
  <2>2. Handled(r, "failed", req[r].i)
    BY <1>1, <1>2, <2>1, RelAt DEF Handled, BeginCommit, RelHolding
  <2> QED BY <1>1, <2>2, RelQuiet DEF BeginCommit, RelPoints
<1>3. CASE /\ active.code # 0 /\ lock' = r /\ req' = [req EXCEPT ![r].pc = "promote", ![r].i = 1]
  <2>1. Stepped(r, "promote", 1)
    BY <1>3, RelAt, RelSteps DEF RelPoints, RelHolding
  <2>2. 1 \in 1..(Len(active.builds) + 1)
    BY RelAt, RelListed
  <2>3. Handled(r, "promote", 1)
    BY <1>1, <1>3, <2>1, <2>2, RelAt DEF Handled, BeginCommit, RelHolding
  <2>4. RelExists'
    <3>1. \A q \in Publishers : q # r => req'[q] = req[q] /\ req'[q].pc # "promote"
      BY <1>1, <2>1, RelAlone DEF Stepped, RelSafe, RelHolding
    <3>2. RelMoved(r)' = {}
      BY <2>1 DEF Stepped, RelMoved, FirstOf
    <3>3. ServedExists'
      BY DEF RelSafe, RelExists, ServedExists, BeginCommit, NamesOf, BuildsOf
    <3> QED BY <3>1, <3>2, <3>3 DEF RelExists
  <2> QED BY <1>1, <2>3, <2>4, RelQuiet DEF BeginCommit, RelPoints, RelHolding
<1> QED BY <1>2, <1>3 DEF BeginCommit

LEMMA StartActiveSafe ==
    ASSUME RelSafe, NEW r \in Publishers, StartActive(r) PROVE RelSafe'
<1>1. /\ req[r].pc = "start" /\ lock = r /\ req[r].i \in Nat /\ req[r].code \in Nat
      /\ req[r].parts \in Uploads /\ req[r].i \in DOMAIN req[r].parts /\ req[r].code # 0
  BY RelAt DEF StartActive, RelSafe, RelPlaces, Place, RelHolding
<1>2. CASE GiveUp(r) /\ UNCHANGED <<sidecar, active>>
  BY <1>1, <1>2, RelAt, GiveUpSafe DEF StartActive, RelHolding
<1>3. CASE /\ sidecar' = [code |-> req[r].code, builds |-> <<>>] /\ active' = sidecar'
           /\ lock' = Free /\ Continue(r, "append") /\ UNCHANGED failures
  <2>1. Stepped(r, "append", req[r].i)
    BY <1>1, <1>3, RelAt, RelSteps DEF RelPoints
  <2>2. PICK n : n = [code |-> req[r].code, builds |-> <<>>]
    OBVIOUS
  <2>3. n \in RelReleases /\ BuildsOf(n) = {} /\ DOMAIN n.builds = {}
    <3>1. req[r].code \in RelCodes
      BY <1>1 DEF RelSafe, RelTypes, RelPlaces, RelCodes
    <3>2. <<>> \in Seq(RelBuild) /\ DOMAIN <<>> = {}
      OBVIOUS
    <3> QED BY <2>2, <3>1, <3>2 DEF RelReleases, BuildsOf
  <2>4. Handled(r, "append", req[r].i)
    BY <1>1, <1>3, <2>1, <2>2, <2>3, RelAt DEF Handled, StartActive, RelHolding
  <2>5. /\ RelTypes' /\ RelPlaces'
        /\ \A q \in Publishers : q # r => req'[q].pc \notin RelHolding
        /\ \A q \in Publishers : req'[q].code = req[q].code /\ (req[q].pc # "new" => req'[q].pc # "new")
    BY <1>1, <2>4, RelHandled DEF RelSafe, RelPoints
  <2>6. RelExists'
    BY <2>1, <2>5, RelExistsStays DEF RelSafe, StartActive, Stepped
  <2>7. RelOwn'
    <3>1. Owned(BuildsOf(manifest), manifest.code)'
      BY <2>5, RelOwnStays DEF RelSafe, StartActive
    <3>2. BuildsOf(sidecar)' = {} /\ BuildsOf(active)' = {}
      BY <1>3, <2>2, <2>3 DEF BuildsOf
    <3> QED BY <3>1, <3>2 DEF RelOwn, Owned
  <2>8. RelUnique'
    BY <1>3, <2>2, <2>3 DEF RelUnique, Single, BuildsOf
  <2> QED BY <1>3, <2>5, <2>6, <2>7, <2>8 DEF RelSafe, RelCached
<1> QED BY <1>2, <1>3 DEF StartActive

LEMMA WriteBuildFileSafe ==
    ASSUME RelSafe, NEW r \in Publishers, WriteBuildFile(r) PROVE RelSafe'
<1>1. /\ req[r].pc = "write" /\ lock = r /\ req[r].i \in Nat /\ active.code = req[r].code
      /\ req[r].parts \in Uploads /\ req[r].i \in DOMAIN req[r].parts
  BY RelAt DEF WriteBuildFile, RelSafe, RelPlaces, Place, RelHolding
<1>2. CASE GiveUp(r) /\ UNCHANGED <<pending, active>>
  BY <1>1, <1>2, RelAt, GiveUpSafe DEF WriteBuildFile, RelHolding
<1>3. CASE /\ pending' = [pending EXCEPT ![Part(r).name] = Sha(r)]
           /\ active' = Listed(r) /\ Continue(r, "save") /\ UNCHANGED <<lock, failures>>
  <2>1. Stepped(r, "save", req[r].i)
    BY <1>1, <1>3, RelAt, RelSteps DEF RelPoints, RelHolding
  <2>2. PICK l : l = Listed(r)
    OBVIOUS
  <2>3. /\ l \in RelReleases /\ l.code = active.code /\ Single(l)
        /\ BuildsOf(l) = {b \in BuildsOf(active) : b.variant # Part(r).variant} \cup {NewBuild(r)}
    BY <1>1, <2>2, RelAt, ListedFacts DEF RelSafe, RelUnique
  <2>4. /\ Sha(r) \in Bytes /\ Sha(r)[1] = r /\ NewBuild(r).sha = Sha(r)
    BY <1>1, RelAt, RelParts
  <2>5. Handled(r, "save", req[r].i)
    BY <1>1, <1>3, <2>1, <2>2, <2>3, <2>4, RelAt DEF Handled, WriteBuildFile, RelHolding
  <2>6. /\ RelTypes' /\ RelPlaces'
        /\ \A q \in Publishers : q # r => req'[q].pc \notin RelHolding
        /\ \A q \in Publishers : req'[q].code = req[q].code /\ (req[q].pc # "new" => req'[q].pc # "new")
    BY <1>1, <2>5, RelHandled DEF RelSafe, RelPoints, RelHolding
  <2>7. RelExists'
    BY <2>1, <2>6, RelExistsStays DEF RelSafe, WriteBuildFile, Stepped
  <2>8. RelOwn'
    <3>1. Owned(BuildsOf(manifest), manifest.code)' /\ Owned(BuildsOf(sidecar), sidecar.code)'
      BY <2>6, RelOwnStays DEF RelSafe, WriteBuildFile
    <3>2. Owned(BuildsOf(l), l.code)'
      <4>1. PICK B, c, e : B = BuildsOf(active) /\ c = active.code /\ e = NewBuild(r)
        OBVIOUS
      <4>2. Owned(B, c)
        BY <4>1 DEF RelSafe, RelOwn
      <4>3. ASSUME NEW b \in B, b.sha # Old
            PROVE b.sha[1] \in Publishers /\ req'[b.sha[1]].pc # "new" /\ req'[b.sha[1]].code = c
        BY <2>6, <4>2, <4>3, OwnedStays
      <4>4. /\ e.sha[1] = r /\ req'[r].pc # "new" /\ req'[r].code = c
        BY <1>1, <2>1, <2>4, <4>1 DEF Stepped
      <4>5. \A b \in BuildsOf(l) : b \in B \/ b = e
        BY <2>3, <4>1
      <4>6. \A b \in BuildsOf(l) : b.sha # Old =>
                b.sha[1] \in Publishers /\ req'[b.sha[1]].pc # "new" /\ req'[b.sha[1]].code = c
        BY <4>3, <4>4, <4>5
      <4> QED BY <2>3, <4>1, <4>6 DEF Owned
    <3>3. active' = l
      BY <1>3, <2>2
    <3> QED BY <3>1, <3>2, <3>3 DEF RelOwn, BuildsOf
  <2>9. RelCached'
    BY <2>1 DEF Stepped, RelCached, RelNobody
  <2>10. RelUnique'
    <3>1. active' = l /\ sidecar' = sidecar
      BY <1>3, <2>2 DEF WriteBuildFile
    <3> QED BY <2>3, <3>1 DEF RelSafe, RelUnique, Single, BuildsOf, RelUploaded
  <2> QED BY <2>6, <2>7, <2>8, <2>9, <2>10 DEF RelSafe
<1> QED BY <1>2, <1>3 DEF WriteBuildFile

LEMMA SaveActiveSafe ==
    ASSUME RelSafe, NEW r \in Publishers, SaveActive(r) PROVE RelSafe'
<1>1. /\ req[r].pc = "save" /\ lock = r /\ req[r].i \in Nat /\ req[r].code # 0
      /\ req[r].parts \in Uploads /\ req[r].i \in DOMAIN req[r].parts
  BY RelAt DEF SaveActive, RelSafe, RelPlaces, Place, RelHolding
<1>2. CASE GiveUp(r) /\ pending' = Without(pending, {Part(r).name}) /\ UNCHANGED sidecar
  <2>1. pending' \in [Names -> Bytes]
    BY <1>2, RelAt, WithoutFacts
  <2> QED BY <1>1, <1>2, <2>1, RelAt, GiveUpSafe DEF SaveActive, RelHolding
<1>3. CASE /\ sidecar' = active /\ lock' = Free
           /\ req' = [req EXCEPT ![r].pc = AfterAppend(r), ![r].i = @ + 1]
           /\ UNCHANGED <<pending, failures>>
  <2>1. PICK pc, i : pc = AfterAppend(r) /\ i = req[r].i + 1
    OBVIOUS
  <2>2. pc \in {"append", "commit", "done"} /\ i \in Nat
    BY <1>1, <2>1 DEF AfterAppend
  <2>3. Stepped(r, pc, i)
    <3>1. req' = [req EXCEPT ![r].pc = pc, ![r].i = i]
      BY <1>3, <2>1, RelAt
    <3> QED BY <2>2, <3>1, RelAt, RelSteps DEF RelPoints
  <2>4. pc = "append" => i \in DOMAIN req[r].parts
    <3>1. PICK T, u : T = [variant : Variants, name : Names] /\ u = req[r].parts
      OBVIOUS
    <3>2. u \in Seq(T)
      BY <1>1, <3>1, ConstantsAssumption
    <3>3. DOMAIN u = 1..Len(u) /\ Len(u) \in Nat
      BY <3>2
    <3> QED BY <1>1, <2>1, <3>1, <3>3 DEF AfterAppend
  <2>5. Handled(r, pc, i)
    BY <1>1, <1>3, <2>2, <2>3, <2>4, RelAt DEF Handled, SaveActive, RelHolding
  <2>6. /\ RelTypes' /\ RelPlaces'
        /\ \A q \in Publishers : q # r => req'[q].pc \notin RelHolding
        /\ \A q \in Publishers : req'[q].code = req[q].code /\ (req[q].pc # "new" => req'[q].pc # "new")
    BY <1>1, <2>2, <2>5, RelHandled DEF RelSafe, RelPoints
  <2>7. RelExists'
    BY <2>2, <2>3, <2>6, RelExistsStays DEF RelSafe, SaveActive, Stepped
  <2>8. RelOwn'
    BY <1>3, <2>6, RelOwnStays DEF RelSafe, SaveActive, RelOwn
  <2>9. RelUnique'
    BY <1>3 DEF RelSafe, SaveActive, RelUnique, Single, BuildsOf, RelUploaded
  <2> QED BY <1>3, <2>6, <2>7, <2>8, <2>9 DEF RelSafe, RelCached, SaveActive
<1> QED BY <1>2, <1>3 DEF SaveActive

\* A commit at a build, and past the last one.
LEMMA RelMovedFacts ==
    ASSUME NEW a \in RelReleases, NEW i \in 1..(Len(a.builds) + 1)
    PROVE  /\ FirstOf(a.builds, i - 1) \subseteq BuildsOf(a)
           /\ i > Len(a.builds) => FirstOf(a.builds, i - 1) = BuildsOf(a)
           /\ ~(i > Len(a.builds)) =>
                FirstOf(a.builds, i + 1 - 1) = FirstOf(a.builds, i - 1) \cup {a.builds[i]}
<1>0. PICK s : s = a.builds
  OBVIOUS
<1>1. PICK m \in Nat : m = Len(a.builds)
  BY RelListed
<1>2. i \in 1..(m + 1) /\ i - 1 \in 0..m
  BY <1>1
<1>3. \A b : b \in BuildsOf(a) <=> \E j \in 1..m : s[j] = b
  BY <1>0, <1>1, RelListed DEF BuildsOf
<1>4. \A n, b : b \in FirstOf(s, n) <=> \E j \in 1..n : s[j] = b
  BY DEF FirstOf
<1>5. FirstOf(s, i - 1) \subseteq BuildsOf(a)
  BY <1>2, <1>3, <1>4
<1>6. i > m => FirstOf(s, i - 1) = BuildsOf(a)
  <2>1. i > m => i - 1 = m
    BY <1>2
  <2> QED BY <1>3, <1>4, <2>1
<1>7. FirstOf(s, i + 1 - 1) = FirstOf(s, i - 1) \cup {s[i]}
  <2>1. 1..(i + 1 - 1) = 1..(i - 1) \cup {i}
    BY <1>2
  <2> QED BY <1>4, <2>1
<1> QED BY <1>0, <1>1, <1>5, <1>6, <1>7

LEMMA PromoteSafe ==
    ASSUME RelSafe, NEW r \in Publishers, Promote(r) PROVE RelSafe'
<1>1. PICK a, i : a = active /\ i = req[r].i
  OBVIOUS
<1>2. /\ req[r].pc = "promote" /\ lock = r /\ i \in Nat /\ a \in RelReleases /\ a.code # 0
      /\ i \in 1..(Len(a.builds) + 1) /\ i \in 1..Len(a.builds) /\ Len(a.builds) \in Nat
      /\ i + 1 \in 1..(Len(a.builds) + 1)
  <2>1. /\ req[r].pc = "promote" /\ lock = r /\ i \in Nat /\ a \in RelReleases /\ a.code # 0
        /\ i \in 1..(Len(a.builds) + 1) /\ i <= Len(a.builds)
    BY <1>1, RelAt DEF Promote, RelSafe, RelPlaces, Place, RelHolding
  <2>2. Len(a.builds) \in Nat
    BY <2>1, RelListed
  <2> QED BY <2>1, <2>2
<1>3. PICK b : b = a.builds[i]
  OBVIOUS
<1>4. b.name \in Names /\ b \in BuildsOf(a)
  BY <1>2, <1>3, RelListed
<1>5. CASE GiveUp(r) /\ UNCHANGED <<dir, pending>>
  BY <1>2, <1>5, RelAt, GiveUpSafe DEF Promote, RelHolding
<1>6. CASE lock' = Free /\ Continue(r, "failed") /\ UNCHANGED <<dir, pending, failures>>
  <2>1. Stepped(r, "failed", i)
    BY <1>1, <1>6, RelAt, RelSteps DEF RelPoints
  <2>2. Handled(r, "failed", i)
    BY <1>2, <1>6, <2>1, RelAt DEF Handled, Promote, RelHolding
  <2> QED BY <1>2, <1>6, <2>2, RelQuiet DEF Promote, RelPoints
<1>7. ASSUME dir' \in [Names -> Bytes], pending' \in [Names -> Bytes],
             \A n \in Names : dir[n] # Absent => dir'[n] # Absent,
             dir'[b.name] # Absent,
             req' = [req EXCEPT ![r].i = @ + 1], UNCHANGED <<lock, failures>>
      PROVE RelSafe'
  <2>1. Stepped(r, "promote", i + 1)
    <3>1. req' = [req EXCEPT ![r].pc = "promote", ![r].i = i + 1]
      <4>1. PICK p \in RelRequest : p = req[r]
        BY RelAt
      <4>2. [p EXCEPT !.i = @ + 1] = [p EXCEPT !.pc = "promote", !.i = i + 1]
        BY <1>1, <1>2, <4>1 DEF RelRequest
      <4> QED BY <1>7, <4>1, <4>2, RelAt
    <3>2. i + 1 \in Nat /\ "promote" \in RelPoints /\ req \in [Publishers -> RelRequest]
      BY <1>2, RelAt DEF RelPoints, RelHolding
    <3> QED BY <3>1, <3>2, RelSteps
  <2>2. Handled(r, "promote", i + 1)
    BY <1>1, <1>2, <1>7, <2>1, RelAt DEF Handled, Promote, RelHolding
  <2>3. RelExists'
    <3>1. manifest' = manifest /\ active' = a
      BY <1>1 DEF Promote
    <3>2. \A n \in NamesOf(manifest) : n \in Names
      BY RelAt, RelListed
    <3>3. ServedExists'
      BY <1>7, <3>1, <3>2 DEF RelSafe, RelExists, ServedExists, NamesOf, BuildsOf
    <3>4. RelMoved(r) = FirstOf(a.builds, i - 1) /\ RelMoved(r)' = FirstOf(a.builds, i + 1 - 1)
      <4>1. \A c : c \in RelMoved(r)' <=> \E j \in 1..(i + 1 - 1) : a.builds[j] = c
        <5>1. req'[r].i = i + 1 /\ active'.builds = a.builds /\ i \in Nat
          BY <1>2, <2>1, <3>1 DEF Stepped
        <5> QED BY <5>1 DEF RelMoved, FirstOf
      <4>2. \A c : c \in FirstOf(a.builds, i + 1 - 1) <=> \E j \in 1..(i + 1 - 1) : a.builds[j] = c
        BY DEF FirstOf
      <4> QED BY <1>1, <4>1, <4>2 DEF RelMoved
    <3>5. RelMoved(r)' = RelMoved(r) \cup {b} /\ RelMoved(r) \subseteq BuildsOf(a)
      <4>1. ~(i > Len(a.builds))
        BY <1>2
      <4> QED BY <1>2, <1>3, <3>4, <4>1, RelMovedFacts
    <3>6. \A c \in RelMoved(r) : c.name \in Names /\ dir[c.name] # Absent
      BY <1>2, <3>5, RelListed DEF RelSafe, RelExists
    <3>7. \A c \in RelMoved(r)' : dir'[c.name] # Absent
      BY <1>7, <3>5, <3>6
    <3>8. \A q \in Publishers : q # r => req'[q].pc # "promote"
      BY <1>2, <2>1, RelAlone DEF Stepped, RelSafe, RelHolding
    <3> QED BY <3>3, <3>7, <3>8 DEF RelExists
  <2> QED BY <1>2, <1>7, <2>2, <2>3, RelQuiet DEF Promote, RelPoints, RelHolding
<1>8. CASE /\ pending[b.name] # Absent
           /\ dir' = [dir EXCEPT ![b.name] = pending[b.name]]
           /\ pending' = Without(pending, {b.name})
           /\ req' = [req EXCEPT ![r].i = @ + 1]
           /\ UNCHANGED <<lock, failures>>
  <2>1. dir' \in [Names -> Bytes] /\ pending' \in [Names -> Bytes]
    BY <1>4, <1>8, RelAt, WithoutFacts
  <2>2. dir'[b.name] # Absent /\ \A n \in Names : dir[n] # Absent => dir'[n] # Absent
    BY <1>4, <1>8, RelAt
  <2> QED BY <1>7, <1>8, <2>1, <2>2
<1>9. CASE /\ pending[b.name] = Absent /\ dir[b.name] # Absent
           /\ req' = [req EXCEPT ![r].i = @ + 1]
           /\ UNCHANGED <<dir, pending, lock, failures>>
  BY <1>7, <1>9, RelAt
<1> QED BY <1>1, <1>3, <1>5, <1>6, <1>8, <1>9 DEF Promote

LEMMA WriteManifestSafe ==
    ASSUME RelSafe, NEW r \in Publishers, WriteManifest(r) PROVE RelSafe'
<1>1. PICK a, i : a = active /\ i = req[r].i
  OBVIOUS
<1>2. /\ req[r].pc = "promote" /\ lock = r /\ i \in Nat /\ a \in RelReleases
      /\ i \in 1..(Len(a.builds) + 1) /\ i > Len(a.builds)
  BY <1>1, RelAt DEF WriteManifest, Promoted, RelSafe, RelPlaces, Place, RelHolding
<1>3. CASE GiveUp(r) /\ UNCHANGED manifest
  BY <1>2, <1>3, RelAt, GiveUpSafe DEF WriteManifest, RelHolding
<1>4. CASE manifest' = active /\ Continue(r, "clear") /\ UNCHANGED <<lock, failures>>
  <2>1. Stepped(r, "clear", i)
    BY <1>1, <1>4, RelAt, RelSteps DEF RelPoints, RelHolding
  <2>2. Handled(r, "clear", i)
    BY <1>2, <1>4, <2>1, RelAt DEF Handled, WriteManifest, RelHolding
  <2>3. /\ RelTypes' /\ RelPlaces'
        /\ \A q \in Publishers : q # r => req'[q].pc \notin RelHolding
        /\ \A q \in Publishers : req'[q].code = req[q].code /\ (req[q].pc # "new" => req'[q].pc # "new")
    BY <1>2, <2>2, RelHandled DEF RelSafe, RelPoints, RelHolding
  <2>4. RelExists'
    <3>1. RelMoved(r) = BuildsOf(a)
      BY <1>1, <1>2, RelMovedFacts DEF RelMoved
    <3>2. \A b \in BuildsOf(a) : dir[b.name] # Absent
      BY <1>2, <3>1 DEF RelSafe, RelExists
    <3>3. manifest' = a /\ dir' = dir
      BY <1>1, <1>4 DEF WriteManifest
    <3>4. ServedExists'
      BY <3>2, <3>3 DEF ServedExists, NamesOf, BuildsOf
    <3>5. \A q \in Publishers : req'[q].pc # "promote"
      BY <2>1, <2>3 DEF Stepped, RelHolding
    <3> QED BY <3>4, <3>5 DEF RelExists
  <2>5. RelOwn'
    BY <1>4, <2>3, RelOwnStays DEF RelSafe, WriteManifest, RelOwn
  <2>6. RelCached'
    <3>1. RelNobody({"save"})' => RelNobody({"save"})
      BY <1>2, <2>1 DEF RelNobody, Stepped
    <3> QED BY <1>4, <3>1 DEF RelSafe, RelCached, WriteManifest
  <2>7. RelUnique'
    BY DEF RelSafe, WriteManifest, RelUnique, Single, BuildsOf, RelUploaded
  <2> QED BY <2>3, <2>4, <2>5, <2>6, <2>7 DEF RelSafe
<1> QED BY <1>3, <1>4 DEF WriteManifest

LEMMA ClearActiveSafe ==
    ASSUME RelSafe, NEW r \in Publishers, ClearActive(r) PROVE RelSafe'
<1>1. PICK i : i = req[r].i
  OBVIOUS
<1>2. /\ req[r].pc = "clear" /\ lock = r /\ i \in Nat
  BY <1>1, RelAt DEF ClearActive, RelHolding
<1>3. Stepped(r, "rotate", i)
  BY <1>1, RelAt, RelSteps DEF ClearActive, RelPoints, RelHolding
<1>4. /\ active' = NoRelease /\ sidecar' \in {NoRelease, sidecar} /\ failures' \in Nat
      /\ failures' = 0 => sidecar' = NoRelease
  BY RelAt DEF ClearActive, Cleared
<1>5. Handled(r, "rotate", i)
  BY <1>2, <1>3, <1>4, RelAt, RelEmpty DEF Handled, ClearActive, RelHolding
<1>6. /\ RelTypes' /\ RelPlaces'
      /\ \A q \in Publishers : q # r => req'[q].pc \notin RelHolding
      /\ \A q \in Publishers : req'[q].code = req[q].code /\ (req[q].pc # "new" => req'[q].pc # "new")
  BY <1>2, <1>5, RelHandled DEF RelSafe, RelPoints, RelHolding
<1>7. RelExists'
  BY <1>3, <1>6, RelExistsStays DEF RelSafe, ClearActive, Stepped
<1>8. RelOwn'
  <2>1. Owned(BuildsOf(manifest), manifest.code)'
    BY <1>6, RelOwnStays DEF RelSafe, ClearActive
  <2>2. Owned(BuildsOf(active), active.code)'
    BY <1>4, RelEmpty DEF Owned, BuildsOf
  <2>3. Owned(BuildsOf(sidecar), sidecar.code)'
    <3>1. CASE sidecar' = NoRelease
      BY <3>1, RelEmpty DEF Owned, BuildsOf
    <3>2. CASE sidecar' = sidecar
      BY <1>6, <3>2, RelOwnStays DEF RelSafe
    <3> QED BY <1>4, <3>1, <3>2
  <2> QED BY <2>1, <2>2, <2>3 DEF RelOwn
<1>9. RelCached'
  BY <1>4 DEF RelCached
<1>10. RelUnique'
  <2>1. Single(NoRelease) /\ Single(sidecar)
    BY RelEmpty DEF RelSafe, RelUnique, Single
  <2>2. Single(sidecar)' /\ Single(active)'
    BY <1>4, <2>1 DEF Single, BuildsOf, RelUploaded
  <2> QED BY <2>2 DEF RelUnique
<1> QED BY <1>6, <1>7, <1>8, <1>9, <1>10 DEF RelSafe

LEMMA RotateSafe ==
    ASSUME RelSafe, NEW r \in Publishers, Rotate(r) PROVE RelSafe'
<1>1. PICK i : i = req[r].i
  OBVIOUS
<1>2. /\ req[r].pc = "rotate" /\ lock = r /\ i \in Nat
  BY <1>1, RelAt DEF Rotate, RelHolding
<1>3. PICK pc \in {"done", "failed"} : Continue(r, pc) /\ (failures' = failures \/ failures' = failures + 1)
  BY DEF Rotate
<1>4. Stepped(r, pc, i)
  BY <1>1, <1>3, RelAt, RelSteps DEF RelPoints
<1>5. PICK N \in SUBSET Orphans : dir' = Without(dir, N)
  <2>1. CASE dir' = Without(dir, Orphans)
    BY <2>1
  <2>2. CASE \E n \in Orphans : dir' = Without(dir, Orphans \ {n})
    BY <2>2
  <2> QED BY <2>1, <2>2 DEF Rotate
<1>6. dir' \in [Names -> Bytes] /\ \A n \in NamesOf(manifest) : n \in Names /\ dir'[n] = dir[n]
  <2>1. dir' \in [Names -> Bytes] /\ \A n \in Names : n \notin N => dir'[n] = dir[n]
    BY <1>5, RelAt, WithoutFacts
  <2>2. \A n \in NamesOf(manifest) : n \in Names
    BY RelAt, RelListed
  <2> QED BY <2>1, <2>2 DEF Orphans
<1>7. Handled(r, pc, i)
  BY <1>2, <1>3, <1>4, <1>6, RelAt DEF Handled, Rotate, RelHolding
<1>8. RelExists'
  <2>1. \A q \in Publishers : req'[q].pc # "promote"
    BY <1>2, <1>4, RelAlone DEF Stepped, RelSafe, RelHolding
  <2>2. ServedExists'
    BY <1>6 DEF Rotate, RelSafe, RelExists, ServedExists, NamesOf, BuildsOf
  <2> QED BY <2>1, <2>2 DEF RelExists
<1> QED BY <1>2, <1>3, <1>7, <1>8, RelQuiet DEF Rotate, RelPoints, RelHolding

LEMMA ReceiveSafe ==
    ASSUME RelSafe, NEW r \in Publishers, Receive(r) PROVE RelSafe'
<1>1. PICK c \in Codes, u \in Uploads, f \in BOOLEAN :
        req' = [req EXCEPT ![r] = [pc |-> "ensure", code |-> c, parts |-> u, finalize |-> f, i |-> 1]]
  BY DEF Receive
<1>2. PICK q : q = [pc |-> "ensure", code |-> c, parts |-> u, finalize |-> f, i |-> 1]
  OBVIOUS
<1>3. c \in Nat /\ c # 0 /\ u \in Seq([variant : Variants, name : Names]) /\ u # <<>> /\ 1 \in DOMAIN u
  <2>1. PICK T : T = [variant : Variants, name : Names]
    OBVIOUS
  <2>2. c \in Nat /\ c # 0 /\ u \in Seq(T) /\ u # <<>>
    BY <2>1, ConstantsAssumption
  <2>3. 1 \in DOMAIN u
    BY <2>2
  <2> QED BY <2>1, <2>2, <2>3
<1>4. q \in RelRequest /\ q.pc = "ensure" /\ q.code = c /\ q.parts = u /\ q.i = 1
  BY <1>2, <1>3 DEF RelRequest, RelPoints
<1>5. /\ req[r].pc = "new" /\ req' = [req EXCEPT ![r] = q]
      /\ active' = IF loaded THEN active ELSE sidecar
      /\ loaded' = TRUE /\ lock # r
      /\ UNCHANGED <<dir, pending, manifest, sidecar, lock, failures, crashes>>
  BY <1>1, <1>2 DEF Receive, RelSafe, RelPlaces, Place, RelHolding
<1>6. /\ req' \in [Publishers -> RelRequest] /\ req'[r] = q
      /\ \A p \in Publishers : p # r => req'[p] = req[p]
  BY <1>4, <1>5, RelAt
<1>7. RelTypes'
  BY <1>5, <1>6 DEF RelSafe, RelTypes
<1>8. ASSUME NEW p \in Publishers, p # r, req'[p].pc \notin {"new", "done", "failed"}
      PROVE loaded /\ active' = active
  BY <1>5, <1>6, <1>8 DEF RelSafe, RelPlaces, Place
<1>9. RelPlaces'
  <2>1. ASSUME NEW p \in Publishers, p # r PROVE Place(p)'
    <3>1. Place(p) /\ req'[p] = req[p]
      BY <1>6, <2>1 DEF RelSafe, RelPlaces
    <3>2. CASE req[p].pc \in {"new", "done", "failed"}
      BY <1>5, <3>1, <3>2 DEF Place, RelHolding
    <3>3. CASE req[p].pc \notin {"new", "done", "failed"}
      <4>1. active' = active
        BY <1>8, <2>1, <3>1, <3>3
      <4> QED BY <1>5, <3>1, <4>1 DEF Place
    <3> QED BY <3>2, <3>3
  <2>2. Place(r)'
    BY <1>3, <1>4, <1>5, <1>6 DEF Place, RelHolding
  <2> QED BY <2>1, <2>2 DEF RelPlaces
<1>10. RelExists'
  <2>1. ServedExists'
    BY <1>5 DEF RelSafe, RelExists, ServedExists, NamesOf, BuildsOf
  <2>2. ASSUME NEW p \in Publishers, req'[p].pc = "promote"
        PROVE \A b \in RelMoved(p)' : dir'[b.name] # Absent
    <3>1. p # r /\ req'[p] = req[p]
      BY <1>4, <1>6, <2>2
    <3>2. active' = active
      BY <1>8, <2>2, <3>1
    <3> QED BY <1>5, <2>2, <3>1, <3>2 DEF RelSafe, RelExists, RelMoved, FirstOf
  <2> QED BY <2>1, <2>2 DEF RelExists
<1>11. RelOwn'
  <2>1. ASSUME NEW B, NEW k, Owned(B, k)
        PROVE \A b \in B : b.sha # Old => /\ b.sha[1] \in Publishers /\ req'[b.sha[1]].pc # "new"
                                          /\ req'[b.sha[1]].code = k
    BY <1>5, <1>6, <2>1 DEF Owned
  <2>2. PICK M, S, A : M = manifest /\ S = sidecar /\ A = active
    OBVIOUS
  <2>3. ASSUME NEW a \in {M, S, A}
        PROVE \A b \in BuildsOf(a) : b.sha # Old => /\ b.sha[1] \in Publishers /\ req'[b.sha[1]].pc # "new"
                                         /\ req'[b.sha[1]].code = a.code
    <3>1. PICK B, k : B = BuildsOf(a) /\ k = a.code
      OBVIOUS
    <3>2. Owned(B, k)
      BY <2>2, <3>1 DEF RelSafe, RelOwn
    <3> QED BY <2>1, <3>1, <3>2
  <2>4. manifest' = M /\ sidecar' = S /\ active' \in {S, A}
    BY <1>5, <2>2
  <2>5. Owned(BuildsOf(manifest), manifest.code)' /\ Owned(BuildsOf(sidecar), sidecar.code)'
    BY <2>3, <2>4 DEF Owned, BuildsOf
  <2>6. Owned(BuildsOf(active), active.code)'
    BY <2>3, <2>4 DEF Owned, BuildsOf
  <2> QED BY <2>5, <2>6 DEF RelOwn
<1>12. RelCached'
  <2>1. RelNobody({"save"})' => RelNobody({"save"})
    BY <1>5, <1>6 DEF RelNobody
  <2> QED BY <1>5, <2>1 DEF RelSafe, RelCached
<1>13. RelUnique'
  <2>1. active' \in {sidecar, active} /\ sidecar' = sidecar
    BY <1>5
  <2> QED BY <2>1 DEF RelSafe, RelUnique, Single, BuildsOf, RelUploaded
<1> QED BY <1>7, <1>9, <1>10, <1>11, <1>12, <1>13 DEF RelSafe

LEMMA CrashSafe ==
    ASSUME RelSafe, Crash PROVE RelSafe' /\ crashes' # 0
<1>1. ASSUME NEW r \in Publishers
      PROVE  /\ req'[r] \in RelRequest /\ req'[r].code = req[r].code
             /\ req'[r].pc \in {"new", "done", "failed"} /\ (req[r].pc # "new" => req'[r].pc # "new")
  <2>1. PICK q \in RelRequest : q = req[r]
    BY RelAt
  <2>2. PICK m \in RelRequest : m = [q EXCEPT !.pc = "failed"]
    BY DEF RelRequest, RelPoints
  <2>3. m.pc = "failed" /\ m.code = q.code
    BY <2>2 DEF RelRequest
  <2>4. req'[r] = IF q.pc \in {"new", "done"} THEN q ELSE m
    BY <2>1, <2>2 DEF Crash
  <2> QED BY <2>1, <2>3, <2>4
<1>2. req' \in [Publishers -> RelRequest]
  <2>1. req' = [r \in Publishers |-> req'[r]]
    BY DEF Crash
  <2> QED BY <1>1, <2>1
<1>3. /\ active' = NoRelease /\ loaded' = FALSE /\ lock' = Free /\ crashes' \in Nat /\ crashes' # 0
      /\ UNCHANGED <<dir, pending, manifest, sidecar, failures>>
  BY DEF Crash, RelSafe, RelTypes
<1>4. RelTypes'
  BY <1>2, <1>3, RelEmpty DEF RelSafe, RelTypes
<1>5. RelPlaces'
  <2>1. ASSUME NEW r \in Publishers PROVE Place(r)'
    BY <1>1, <1>3, ConstantsAssumption DEF Place, RelHolding, Free
  <2> QED BY <2>1 DEF RelPlaces
<1>6. RelExists'
  BY <1>1, <1>3 DEF RelSafe, RelExists, ServedExists, NamesOf, BuildsOf
<1>7. RelOwn'
  <2>1. Owned(BuildsOf(manifest), manifest.code)' /\ Owned(BuildsOf(sidecar), sidecar.code)'
    BY <1>1, <1>3, RelOwnStays DEF RelSafe
  <2>2. Owned(BuildsOf(active), active.code)'
    BY <1>3, RelEmpty DEF Owned, BuildsOf
  <2> QED BY <2>1, <2>2 DEF RelOwn
<1>8. RelUnique'
  <2>1. Single(NoRelease) /\ Single(sidecar)
    BY RelEmpty DEF RelSafe, RelUnique, Single
  <2>2. Single(sidecar)' /\ Single(active)'
    BY <1>3, <2>1 DEF Single, BuildsOf, RelUploaded
  <2> QED BY <2>2 DEF RelUnique
<1> QED BY <1>3, <1>4, <1>5, <1>6, <1>7, <1>8 DEF RelSafe, RelCached

\* A step of the client app, or none.
RelIdle == UNCHANGED <<dir, pending, manifest, sidecar, active, loaded, lock, req, failures, crashes>>

LEMMA IdleSafe == ASSUME RelSafe, RelIdle PROVE RelSafe'
<1>1. RelTypes'
  BY DEF RelSafe, RelIdle, RelTypes
<1>2. RelPlaces'
  BY DEF RelSafe, RelIdle, RelPlaces, Place
<1>3. RelExists'
  BY DEF RelSafe, RelIdle, RelExists, ServedExists, NamesOf, BuildsOf, RelMoved, FirstOf
<1>4. RelOwn'
  BY DEF RelSafe, RelIdle, RelOwn, Owned, BuildsOf
<1>5. RelCached'
  BY DEF RelSafe, RelIdle, RelCached, RelNobody
<1>6. RelUnique'
  BY DEF RelSafe, RelIdle, RelUnique, Single, RelUploaded, BuildsOf
<1> QED BY <1>1, <1>2, <1>3, <1>4, <1>5, <1>6 DEF RelSafe

LEMMA UpdateIdle == ASSUME Update \/ UNCHANGED relVars PROVE RelIdle
BY DEF Update, FetchManifest, LookUpFile, ReadBuild, relVars, RelIdle

LEMMA RelSafeNext == ASSUME RelSafe, [RelNext]_relVars PROVE RelSafe'
<1>1. ASSUME NEW r \in Publishers, Handle(r) PROVE RelSafe'
  BY <1>1, EnsureActiveSafe, StartActiveSafe, AppendBuildSafe, WriteBuildFileSafe, SaveActiveSafe,
     BeginCommitSafe, PromoteSafe, WriteManifestSafe, ClearActiveSafe, RotateSafe DEF Handle
<1> QED BY <1>1, ReceiveSafe, CrashSafe, UpdateIdle, IdleSafe DEF RelNext

LEMMA OldReleaseFacts ==
    ASSUME NEW u \in Uploads
    PROVE  OldRelease(u) \in RelReleases /\ \A b \in BuildsOf(OldRelease(u)) : b.sha = Old
<1>1. PICK T : T = [variant : Variants, name : Names]
  OBVIOUS
<1>2. PICK m \in Nat : DOMAIN u = 1..m /\ m = Len(u) /\ \A i \in 1..m : u[i] \in T
  <2>1. u \in Seq(T)
    BY <1>1, ConstantsAssumption
  <2> QED BY <2>1
<1>3. PICK s : s = [i \in DOMAIN u |-> [variant |-> u[i].variant, name |-> u[i].name, sha |-> Old]]
  OBVIOUS
<1>4. \A i \in 1..m : s[i] \in RelBuild /\ s[i].sha = Old
  BY <1>1, <1>2, <1>3, RelShas DEF RelBuild
<1>5. s \in Seq(RelBuild) /\ DOMAIN s = 1..m
  <2>1. s \in [1..m -> RelBuild]
    BY <1>2, <1>3, <1>4
  <2> QED BY <2>1
<1>6. PICK c : c = CHOOSE k \in Codes : \A d \in Codes : k <= d
  OBVIOUS
<1>7. OldRelease(u) = [code |-> c, builds |-> s] /\ c \in RelCodes
  BY <1>3, <1>6 DEF OldRelease, RelCodes
<1> QED BY <1>4, <1>5, <1>7 DEF RelReleases, BuildsOf

LEMMA RelSafeInit == ASSUME RelInit PROVE RelSafe
<1>1. PICK R \in {NoRelease} \cup {OldRelease(u) : u \in Uploads} :
        /\ manifest = R
        /\ dir = [n \in Names |-> IF n \in NamesOf(R) THEN Old ELSE Absent]
  BY DEF RelInit
<1>2. R \in RelReleases /\ \A b \in BuildsOf(R) : b.sha = Old
  BY RelEmpty, OldReleaseFacts
<1>3. \A r \in Publishers : /\ req[r] \in RelRequest /\ req[r].pc = "new"
  <2>1. <<>> \in Seq([variant : Variants, name : Names])
    OBVIOUS
  <2> QED BY <2>1 DEF RelInit, RelRequest, RelPoints
<1>4. RelTypes
  <2>1. req \in [Publishers -> RelRequest]
    BY <1>3 DEF RelInit
  <2>2. dir \in [Names -> Bytes] /\ pending \in [Names -> Bytes]
    BY <1>1, RelShas DEF RelInit
  <2> QED BY <1>1, <1>2, <2>1, <2>2, RelEmpty DEF RelInit, RelTypes
<1>5. RelPlaces
  BY <1>3, ConstantsAssumption DEF RelPlaces, Place, RelHolding, RelInit, Free
<1>6. RelExists
  <2>1. \A n \in NamesOf(R) : n \in Names /\ dir[n] # Absent
    BY <1>1, <1>2, RelListed, RelShas
  <2> QED BY <1>1, <1>3, <2>1 DEF RelExists, ServedExists
<1>7. RelOwn
  <2>1. Owned(BuildsOf(R), R.code) /\ Owned(BuildsOf(NoRelease), NoRelease.code)
    BY <1>2, RelEmpty DEF Owned
  <2> QED BY <1>1, <2>1 DEF RelOwn, RelInit
<1>8. RelCached /\ RelUnique
  BY RelEmpty DEF RelCached, RelUnique, Single, RelInit
<1> QED BY <1>4, <1>5, <1>6, <1>7, <1>8 DEF RelSafe

\* Whatever fails and whenever the process dies, every build the manifest advertises has its
\* file, a release is of builds uploaded for its own version (EnsureActive, AppendBuild and
\* CommitActive take the mutex one after the other, not once), and the cached release is the
\* one pending.json holds as long as no file operation failed.
THEOREM ReleasesStand == RelSpec => [](ServedExists /\ NoMixedRelease /\ CacheMatchesDisk)
<1>1. RelInit => RelSafe
  BY RelSafeInit
<1>2. RelSafe /\ [RelNext]_relVars => RelSafe'
  BY RelSafeNext
<1>3. RelSafe => ServedExists /\ NoMixedRelease /\ CacheMatchesDisk
  <2> SUFFICES ASSUME RelSafe PROVE ServedExists /\ NoMixedRelease /\ CacheMatchesDisk
    OBVIOUS
  <2>1. ServedExists
    BY DEF RelSafe, RelExists
  <2>2. NoMixedRelease
    BY DEF RelSafe, RelOwn, Owned, NoMixedRelease
  <2>3. CacheMatchesDisk
    <3> SUFFICES ASSUME lock = Free, loaded, failures = 0 PROVE active = sidecar
      BY DEF CacheMatchesDisk
    <3>1. RelNobody({"save"})
      BY ConstantsAssumption DEF RelSafe, RelPlaces, Place, RelNobody, RelHolding, Free
    <3> QED BY <3>1 DEF RelSafe, RelCached
  <2> QED BY <2>1, <2>2, <2>3
<1> QED BY <1>1, <1>2, <1>3, PTL DEF RelSpec

-----------------------------------------------------------------------------
(* What holds while nothing fails.                                         *)

\* Builds of two variants never have one filename.
NameTells ==
    \A u, v \in Uploads : \A i \in DOMAIN u, j \in DOMAIN v :
        u[i].name = v[j].name => u[i].variant = v[j].variant

LEMMA NamesApart ==
    ASSUME NameTells, NEW a, NEW b, RelUploaded(a), RelUploaded(b), a.name = b.name
    PROVE  a.variant = b.variant
BY DEF NameTells, RelUploaded

LEMMA SingleApart ==
    ASSUME NameTells, NEW R \in RelReleases, Single(R), NEW a \in BuildsOf(R), NEW b \in BuildsOf(R)
    PROVE  /\ a.variant = b.variant => a = b
           /\ a.name = b.name => a = b
<1>1. a.variant = b.variant => a = b
  BY DEF Single, BuildsOf
<1> QED BY <1>1, NamesApart DEF Single

\* A handler's step, seen from the files.
LEMMA RelWholeStep ==
    ASSUME RelSafe, RelWhole, NEW r \in Publishers, NEW pc \in RelPoints,
           req'[r].pc = pc, lock' = (IF pc \in RelHolding THEN r ELSE Free),
           failures' = failures \/ failures' = failures + 1, crashes' = crashes,
           Faultless /\ Faultless' =>
             /\ pc \in {"start", "clear"} => RelStaged({})' /\ RelMatch({})'
             /\ pc = "write" => RelStaged({b \in BuildsOf(active) : b.variant # Part(r).variant})'
             /\ pc = "promote" => (RelStaged(BuildsOf(active) \ RelMoved(r)) /\ RelServes(RelMoved(r)))'
             /\ pc \in {"start", "write", "save"} => RelServes({})'
             /\ pc \in {"save", "rotate"} => RelStaged(BuildsOf(active))'
             /\ pc = "rotate" => RelMatch({})'
             /\ pc \notin RelHolding => RelStaged(BuildsOf(active))' /\ RelServes({})'
    PROVE  RelWhole'
<1>1. Faultless' => Faultless
  BY DEF Faultless, RelSafe, RelTypes
<1>2. CASE pc \in RelHolding
  <2>1. lock' = r /\ r # Free /\ \A q \in Publishers : lock' = q => q = r
    BY <1>2, ConstantsAssumption DEF Free
  <2> QED BY <1>1, <1>2, <2>1 DEF RelWhole, RelPending, RelServed, RelHolding
<1>3. CASE pc \notin RelHolding
  <2>1. \A q \in Publishers : lock' # q
    BY <1>3, ConstantsAssumption DEF Free
  <2> QED BY <1>1, <1>3, <2>1 DEF RelWhole, RelPending, RelServed
<1> QED BY <1>2, <1>3

\* What a step that leaves the files and the releases alone keeps.
LEMMA RelStagedStays ==
    ASSUME pending' = pending, NEW B, RelStaged(B)
    PROVE  /\ \A b \in B : pending'[b.name] = b.sha
           /\ \A n \in Names : pending'[n] # Absent => \E b \in B : b.name = n
BY DEF RelStaged

LEMMA RelServesStays ==
    ASSUME manifest' = manifest, dir' = dir
    PROVE  /\ RelServes({}) => RelServes({})'
           /\ RelMatch({}) => RelMatch({})'
BY DEF RelServes, RelMatch, BuildsOf

LEMMA FailWhole == ASSUME RelSafe, failures' # 0 \/ crashes' # 0 PROVE RelWhole'
BY DEF RelWhole, RelPending, RelServed, Faultless

\* The releases and the files stay, and so does the mutex, free.
LEMMA FreeWhole ==
    ASSUME RelSafe, RelWhole, lock = Free, lock' = Free, failures' = failures, crashes' = crashes,
           UNCHANGED <<dir, pending, manifest, active>>
    PROVE  RelWhole'
<1>1. PICK A : A = active /\ A = active'
  OBVIOUS
<1>2. \A q \in Publishers : lock' # q
  BY ConstantsAssumption DEF Free
<1>3. Faultless' => Faultless
  BY DEF Faultless
<1>4. Faultless => RelStaged(BuildsOf(A)) /\ RelServes({})
  BY <1>1 DEF RelWhole, RelPending, RelServed
<1>5. RelStaged(BuildsOf(A)) => RelStaged(BuildsOf(active))'
  BY <1>1 DEF RelStaged, BuildsOf
<1> QED BY <1>2, <1>3, <1>4, <1>5, RelServesStays DEF RelWhole, RelPending, RelServed

LEMMA EnsureActiveWhole ==
    ASSUME NameTells, RelSafe, RelWhole, NEW r \in Publishers, EnsureActive(r) PROVE RelWhole'
<1>1. CASE UNCHANGED <<pending, lock>>
  BY <1>1, FreeWhole DEF EnsureActive
<1>2. CASE /\ lock' = r /\ pending' = Without(pending, NamesOf(active)) /\ Continue(r, "start")
  <2>1. req'[r].pc = "start"
    BY <1>2, RelAt, RelSteps DEF Stepped, RelPoints, RelHolding
  <2>2. lock = Free /\ UNCHANGED <<dir, manifest, failures, crashes>>
    BY DEF EnsureActive
  <2>3. ASSUME Faultless PROVE RelStaged({})' /\ RelServes({})' /\ RelMatch({})'
    <3>1. RelStaged(BuildsOf(active)) /\ RelServes({}) /\ RelMatch({})
      BY <2>2, <2>3 DEF RelWhole, RelPending, RelServed, RelServes
    <3>2. \A n \in Names : pending'[n] = Absent
      <4>1. \A n \in Names : pending[n] # Absent => n \in NamesOf(active)
        BY <3>1, RelAt, RelListed DEF RelStaged
      <4> QED BY <1>2, <4>1, RelAt, WithoutFacts
    <3> QED BY <2>2, <3>1, <3>2, RelServesStays DEF RelStaged
  <2> QED BY <1>2, <2>1, <2>2, <2>3, RelWholeStep DEF RelPoints, RelHolding
<1> QED BY <1>1, <1>2 DEF EnsureActive

LEMMA StartActiveWhole ==
    ASSUME NameTells, RelSafe, RelWhole, NEW r \in Publishers, StartActive(r) PROVE RelWhole'
<1>1. CASE failures' = failures + 1
  BY <1>1, RelAt, FailWhole
<1>2. CASE /\ sidecar' = [code |-> req[r].code, builds |-> <<>>] /\ active' = sidecar'
           /\ lock' = Free /\ Continue(r, "append") /\ UNCHANGED failures
  <2>1. req'[r].pc = "append"
    BY <1>2, RelAt, RelSteps DEF Stepped, RelPoints, RelHolding
  <2>2. req[r].pc = "start" /\ lock = r /\ UNCHANGED <<dir, pending, manifest, crashes>>
    BY RelAt DEF StartActive, RelHolding
  <2>3. ASSUME Faultless PROVE RelStaged(BuildsOf(active))' /\ RelServes({})'
    <3>1. RelStaged({}) /\ RelServes({})
      BY <2>2, <2>3 DEF RelWhole, RelPending, RelServed
    <3>2. BuildsOf(active)' = {}
      BY <1>2 DEF BuildsOf
    <3> QED BY <2>2, <3>1, <3>2, RelServesStays DEF RelStaged
  <2> QED BY <1>2, <2>1, <2>2, <2>3, RelWholeStep DEF RelPoints, RelHolding
<1> QED BY <1>1, <1>2 DEF StartActive, GiveUp

LEMMA AppendBuildWhole ==
    ASSUME NameTells, RelSafe, RelWhole, NEW r \in Publishers, AppendBuild(r) PROVE RelWhole'
<1>1. CASE UNCHANGED <<pending, lock>>
  BY <1>1, FreeWhole DEF AppendBuild
<1>2. CASE /\ lock' = r /\ Continue(r, "write")
           /\ pending' = Without(pending, {b.name : b \in {a \in BuildsOf(active) :
                                                   a.variant = Part(r).variant}})
  <2>1. Stepped(r, "write", req[r].i)
    BY <1>2, RelAt, RelSteps DEF RelPoints, RelHolding
  <2>2. lock = Free /\ UNCHANGED <<dir, manifest, active, failures, crashes>>
    BY DEF AppendBuild
  <2>3. PICK A, v, W : /\ A = active /\ v = Part(r).variant
                       /\ W = {b.name : b \in {a \in BuildsOf(active) : a.variant = Part(r).variant}}
    OBVIOUS
  <2>4. active' = A /\ Part(r)'.variant = v
    BY <2>1, <2>2, <2>3 DEF Part, Stepped
  <2>5. ASSUME Faultless PROVE RelStaged({b \in BuildsOf(active) : b.variant # Part(r).variant})'
    <3>1. RelStaged(BuildsOf(A))
      BY <2>2, <2>3, <2>5 DEF RelWhole, RelPending
    <3>2. \A n \in Names : pending'[n] = IF n \in W THEN Absent ELSE pending[n]
      BY <1>2, <2>3, RelAt, WithoutFacts
    <3>3. \A b \in BuildsOf(A) : b.name \in Names /\ RelUploaded(b)
      BY <2>3, RelAt, RelListed DEF RelSafe, RelUnique, Single
    <3>4. \A b \in BuildsOf(A) : b.name \in W <=> b.variant = v
      BY <2>3, <3>3, NamesApart
    <3>5. PICK B : B = {b \in BuildsOf(A) : b.variant # v}
      OBVIOUS
    <3>6. \A b \in B : pending'[b.name] = b.sha
      BY <3>1, <3>2, <3>3, <3>4, <3>5 DEF RelStaged
    <3>7. \A n \in Names : pending'[n] # Absent => \E b \in B : b.name = n
      BY <3>1, <3>2, <3>4, <3>5 DEF RelStaged
    <3>8. \A b : b \in B <=> b \in BuildsOf(active)' /\ b.variant # Part(r)'.variant
      BY <2>4, <3>5 DEF BuildsOf
    <3> QED BY <3>6, <3>7, <3>8 DEF RelStaged
  <2>6. ASSUME Faultless PROVE RelServes({})'
    BY <2>2, <2>6, RelServesStays DEF RelWhole, RelServed
  <2>7. req'[r].pc = "write"
    BY <2>1 DEF Stepped
  <2> QED BY <1>2, <2>2, <2>5, <2>6, <2>7, RelWholeStep DEF RelPoints, RelHolding
<1> QED BY <1>1, <1>2 DEF AppendBuild

LEMMA WriteBuildFileWhole ==
    ASSUME NameTells, RelSafe, RelWhole, NEW r \in Publishers, WriteBuildFile(r) PROVE RelWhole'
<1>1. CASE failures' = failures + 1
  BY <1>1, RelAt, FailWhole
<1>2. CASE /\ pending' = [pending EXCEPT ![Part(r).name] = Sha(r)]
           /\ active' = Listed(r) /\ Continue(r, "save") /\ UNCHANGED <<lock, failures>>
  <2>1. Stepped(r, "save", req[r].i)
    BY <1>2, RelAt, RelSteps DEF RelPoints, RelHolding
  <2>2. /\ req[r].pc = "write" /\ lock = r /\ UNCHANGED <<dir, manifest, crashes>>
        /\ req[r].parts \in Uploads /\ req[r].i \in DOMAIN req[r].parts
    BY RelAt DEF WriteBuildFile, RelSafe, RelPlaces, Place, RelHolding
  <2>3. PICK v, e, l : v = Part(r).variant /\ e = NewBuild(r) /\ l = Listed(r)
    OBVIOUS
  <2>4. PICK B : B = {b \in BuildsOf(active) : b.variant # v}
    OBVIOUS
  <2>5. BuildsOf(l) = B \cup {e} /\ active' = l
    BY <1>2, <2>2, <2>3, <2>4, RelAt, ListedFacts DEF RelSafe, RelUnique
  <2>6. /\ e.name \in Names /\ e.variant = v /\ RelUploaded(e) /\ e.sha = Sha(r)
        /\ pending' = [pending EXCEPT ![e.name] = e.sha]
    BY <1>2, <2>2, <2>3, RelAt, RelParts
  <2>7. ASSUME Faultless PROVE RelStaged(BuildsOf(active))'
    <3>1. RelStaged(B)
      BY <2>2, <2>3, <2>4, <2>7 DEF RelWhole, RelPending
    <3>2. \A b \in B : b.name \in Names /\ b.name # e.name
      BY <2>4, <2>6, NamesApart, RelAt, RelListed DEF RelSafe, RelUnique, Single
    <3>3. \A b \in B \cup {e} : pending'[b.name] = b.sha
      BY <2>6, <3>1, <3>2, RelAt DEF RelStaged
    <3>4. \A n \in Names : pending'[n] # Absent => \E b \in B \cup {e} : b.name = n
      BY <2>6, <3>1, RelAt DEF RelStaged
    <3>5. \A b : b \in B \cup {e} <=> b \in BuildsOf(active)'
      BY <2>5 DEF BuildsOf
    <3> QED BY <3>3, <3>4, <3>5 DEF RelStaged
  <2>8. ASSUME Faultless PROVE RelServes({})'
    BY <2>2, <2>8, RelServesStays DEF RelWhole, RelServed
  <2>9. req'[r].pc = "save"
    BY <2>1 DEF Stepped
  <2> QED BY <1>2, <2>2, <2>7, <2>8, <2>9, RelWholeStep DEF RelPoints, RelHolding
<1> QED BY <1>1, <1>2 DEF WriteBuildFile, GiveUp

LEMMA SaveActiveWhole ==
    ASSUME NameTells, RelSafe, RelWhole, NEW r \in Publishers, SaveActive(r) PROVE RelWhole'
<1>1. CASE failures' = failures + 1
  BY <1>1, RelAt, FailWhole
<1>2. CASE /\ lock' = Free /\ UNCHANGED <<pending, failures>>
           /\ req' = [req EXCEPT ![r].pc = AfterAppend(r), ![r].i = @ + 1]
  <2>1. req'[r].pc \in {"append", "commit", "done"}
    <3>1. PICK pc, i : pc = AfterAppend(r) /\ i = req[r].i + 1
      OBVIOUS
    <3>2. pc \in {"append", "commit", "done"} /\ i \in Nat
      BY <3>1, RelAt DEF AfterAppend
    <3>3. req' = [req EXCEPT ![r].pc = pc, ![r].i = i]
      BY <1>2, <3>1, RelAt
    <3> QED BY <3>2, <3>3, RelAt, RelSteps DEF Stepped, RelPoints
  <2>2. req[r].pc = "save" /\ lock = r /\ UNCHANGED <<dir, manifest, active, crashes>>
    BY RelAt DEF SaveActive, RelHolding
  <2>3. ASSUME Faultless PROVE RelStaged(BuildsOf(active))' /\ RelServes({})'
    <3>1. RelStaged(BuildsOf(active)) /\ RelServes({})
      BY <2>2, <2>3 DEF RelWhole, RelPending, RelServed
    <3>2. RelStaged(BuildsOf(active))'
      BY <1>2, <2>2, <3>1 DEF RelStaged, BuildsOf
    <3> QED BY <2>2, <3>1, <3>2, RelServesStays
  <2> QED BY <1>2, <2>1, <2>2, <2>3, RelWholeStep DEF RelPoints, RelHolding
<1> QED BY <1>1, <1>2 DEF SaveActive, GiveUp

LEMMA BeginCommitWhole ==
    ASSUME NameTells, RelSafe, RelWhole, NEW r \in Publishers, BeginCommit(r) PROVE RelWhole'
<1>1. CASE UNCHANGED lock
  BY <1>1, FreeWhole DEF BeginCommit
<1>2. CASE lock' = r /\ req' = [req EXCEPT ![r].pc = "promote", ![r].i = 1]
  <2>1. req'[r].pc = "promote" /\ req'[r].i = 1
    <3>1. Stepped(r, "promote", 1)
      BY <1>2, RelAt, RelSteps DEF RelPoints, RelHolding
    <3> QED BY <3>1 DEF Stepped
  <2>2. lock = Free /\ UNCHANGED <<dir, pending, manifest, active, failures, crashes>>
    BY DEF BeginCommit
  <2>3. RelMoved(r)' = {}
    BY <2>1 DEF RelMoved, FirstOf
  <2>4. ASSUME Faultless PROVE (RelStaged(BuildsOf(active) \ RelMoved(r)) /\ RelServes(RelMoved(r)))'
    <3>1. RelStaged(BuildsOf(active)) /\ RelServes({})
      BY <2>2, <2>4 DEF RelWhole, RelPending, RelServed
    <3>2. RelServes({})'
      BY <2>2, <3>1, RelServesStays
    <3>3. RelServes(RelMoved(r))'
      BY <2>3, <3>2 DEF RelServes, RelMatch
    <3>4. RelStaged(BuildsOf(active) \ RelMoved(r))'
      BY <2>2, <2>3, <3>1 DEF RelStaged, BuildsOf
    <3> QED BY <3>3, <3>4
  <2> QED BY <1>2, <2>1, <2>2, <2>4, RelWholeStep DEF RelPoints, RelHolding
<1> QED BY <1>1, <1>2 DEF BeginCommit

\* A commit in progress: the builds moved, the one at hand and those that wait.
LEMMA PromoteWhole ==
    ASSUME NameTells, RelSafe, RelWhole, NEW r \in Publishers, Promote(r) PROVE RelWhole'
<1>1. PICK A, i, M : A = active /\ i = req[r].i /\ M = RelMoved(r)
  OBVIOUS
<1>2. /\ req[r].pc = "promote" /\ lock = r /\ i \in Nat /\ A \in RelReleases
      /\ i \in 1..(Len(A.builds) + 1) /\ i \in 1..Len(A.builds) /\ Single(A)
      /\ UNCHANGED <<manifest, active, crashes>>
  <2>1. /\ req[r].pc = "promote" /\ lock = r /\ i \in Nat /\ A \in RelReleases
        /\ i \in 1..(Len(A.builds) + 1) /\ i <= Len(A.builds) /\ Single(A)
        /\ UNCHANGED <<manifest, active, crashes>>
    BY <1>1, RelAt DEF Promote, RelSafe, RelPlaces, Place, RelHolding, RelUnique
  <2>2. Len(A.builds) \in Nat
    BY <2>1, RelListed
  <2> QED BY <2>1, <2>2
<1>3. PICK b : b = A.builds[i]
  OBVIOUS
<1>4. b.name \in Names /\ b \in BuildsOf(A) /\ b.sha # Absent
  BY <1>2, <1>3, RelListed
<1>5. /\ M \subseteq BuildsOf(A)
      /\ FirstOf(A.builds, i + 1 - 1) = M \cup {b}
      /\ b \notin M
  <2>1. M = FirstOf(A.builds, i - 1)
    BY <1>1 DEF RelMoved
  <2>2. M \subseteq BuildsOf(A) /\ FirstOf(A.builds, i + 1 - 1) = M \cup {b}
    <3>1. ~(i > Len(A.builds))
      BY <1>2, RelListed
    <3> QED BY <1>2, <1>3, <2>1, <3>1, RelMovedFacts
  <2>3. b \notin M
    <3>1. SUFFICES ASSUME NEW j \in 1..(i - 1), A.builds[j] = b PROVE FALSE
      BY <2>1 DEF FirstOf
    <3>2. j \in DOMAIN A.builds /\ i \in DOMAIN A.builds /\ j # i
      BY <1>2, RelListed
    <3> QED BY <1>2, <1>3, <3>1, <3>2 DEF Single
  <2> QED BY <2>2, <2>3
<1>6. CASE failures' = failures + 1
  BY <1>6, RelAt, FailWhole
<1>7. CASE /\ pending[b.name] # Absent
           /\ dir' = [dir EXCEPT ![b.name] = pending[b.name]]
           /\ pending' = Without(pending, {b.name})
           /\ req' = [req EXCEPT ![r].i = @ + 1]
           /\ UNCHANGED <<lock, failures>>
  <2>1. req'[r].pc = "promote" /\ req'[r].i = i + 1
    <3>1. PICK p \in RelRequest : p = req[r]
      BY RelAt
    <3>2. PICK q : q = [p EXCEPT !.i = @ + 1]
      OBVIOUS
    <3>3. q.pc = p.pc /\ q.i = p.i + 1
      BY <3>2 DEF RelRequest
    <3>4. req' = [req EXCEPT ![r] = q]
      BY <1>7, <3>1, <3>2
    <3> QED BY <1>1, <1>2, <3>1, <3>3, <3>4, RelAt
  <2>2. RelMoved(r)' = M \cup {b}
    <3>1. \A c : c \in RelMoved(r)' <=> \E j \in 1..(i + 1 - 1) : A.builds[j] = c
      <4>1. req'[r].i = i + 1 /\ active' = A /\ i \in Nat
        BY <1>1, <1>2, <2>1
      <4> QED BY <4>1 DEF RelMoved, FirstOf
    <3>2. \A c : c \in FirstOf(A.builds, i + 1 - 1) <=> \E j \in 1..(i + 1 - 1) : A.builds[j] = c
      BY DEF FirstOf
    <3> QED BY <1>5, <3>1, <3>2
  <2>3. \A c \in BuildsOf(A) : c.name \in Names /\ (c.name = b.name => c = b)
    BY <1>2, <1>4, RelListed, SingleApart
  <2>4. \A n \in Names : /\ pending'[n] = IF n = b.name THEN Absent ELSE pending[n]
                         /\ dir'[n] = IF n = b.name THEN pending[b.name] ELSE dir[n]
    BY <1>4, <1>7, RelAt, WithoutFacts
  <2>5. ASSUME Faultless PROVE (RelStaged(BuildsOf(active) \ RelMoved(r)) /\ RelServes(RelMoved(r)))'
    <3>1. RelStaged(BuildsOf(A) \ M) /\ RelServes(M)
      BY <1>1, <1>2, <2>5 DEF RelWhole, RelPending, RelServed
    <3>2. pending[b.name] = b.sha
      BY <1>4, <1>5, <3>1 DEF RelStaged
    <3>3. RelStaged(BuildsOf(active) \ RelMoved(r))'
      <4>1. \A c : c \in (BuildsOf(active) \ RelMoved(r))' <=> c \in BuildsOf(A) /\ c \notin M /\ c # b
        BY <1>1, <1>2, <2>2 DEF BuildsOf
      <4>2. \A c \in BuildsOf(A) : c \notin M /\ c # b => pending'[c.name] = c.sha
        BY <2>3, <2>4, <3>1 DEF RelStaged
      <4>3. \A n \in Names : pending'[n] # Absent =>
                \E c \in BuildsOf(A) : c \notin M /\ c # b /\ c.name = n
        BY <2>4, <3>1 DEF RelStaged
      <4> QED BY <4>1, <4>2, <4>3 DEF RelStaged
    <3>4. \A c \in M \cup {b} : dir'[c.name] = c.sha
      BY <1>4, <1>5, <2>3, <2>4, <3>1, <3>2 DEF RelServes
    <3>5. \A c \in BuildsOf(manifest) : dir'[c.name] = c.sha \/ \E a \in M \cup {b} : a.name = c.name
      <4>1. \A c \in BuildsOf(manifest) : c.name \in Names
        BY RelAt, RelListed
      <4> QED BY <2>4, <3>1, <4>1 DEF RelServes, RelMatch
    <3>6. \A n \in Names : dir'[n] # Absent =>
            (\E c \in BuildsOf(manifest) : c.name = n) \/ \E a \in M \cup {b} : a.name = n
      BY <2>4, <3>1 DEF RelServes
    <3>7. RelServes(RelMoved(r))'
      BY <1>2, <2>2, <3>4, <3>5, <3>6 DEF RelServes, RelMatch, BuildsOf
    <3> QED BY <3>3, <3>7
  <2> QED BY <1>2, <1>7, <2>1, <2>5, RelWholeStep DEF RelPoints, RelHolding
<1>8. CASE pending[b.name] = Absent /\ failures' = failures
  <2>1. ~Faultless
    <3> SUFFICES ASSUME Faultless PROVE FALSE
      OBVIOUS
    <3>1. RelStaged(BuildsOf(A) \ M)
      BY <1>1, <1>2 DEF RelWhole, RelPending
    <3> QED BY <1>4, <1>5, <1>8, <3>1 DEF RelStaged
  <2> QED BY <1>2, <1>8, <2>1, FailWhole DEF Faultless
<1> QED BY <1>1, <1>3, <1>6, <1>7, <1>8 DEF Promote, GiveUp

LEMMA WriteManifestWhole ==
    ASSUME NameTells, RelSafe, RelWhole, NEW r \in Publishers, WriteManifest(r) PROVE RelWhole'
<1>1. CASE failures' = failures + 1
  BY <1>1, RelAt, FailWhole
<1>2. CASE manifest' = active /\ Continue(r, "clear") /\ UNCHANGED <<lock, failures>>
  <2>1. PICK A, i : A = active /\ i = req[r].i
    OBVIOUS
  <2>2. /\ req[r].pc = "promote" /\ lock = r /\ A \in RelReleases
        /\ i \in 1..(Len(A.builds) + 1) /\ i > Len(A.builds)
        /\ UNCHANGED <<dir, pending, active, crashes>>
    BY <2>1, RelAt DEF WriteManifest, Promoted, RelSafe, RelPlaces, Place, RelHolding
  <2>3. req'[r].pc = "clear"
    BY <1>2, RelAt, RelSteps DEF Stepped, RelPoints, RelHolding
  <2>4. RelMoved(r) = BuildsOf(A)
    BY <2>1, <2>2, RelMovedFacts DEF RelMoved
  <2>5. ASSUME Faultless PROVE RelStaged({})' /\ RelMatch({})'
    <3>1. RelStaged(BuildsOf(A) \ BuildsOf(A)) /\ RelServes(BuildsOf(A))
      BY <2>1, <2>2, <2>4, <2>5 DEF RelWhole, RelPending, RelServed
    <3>2. RelStaged({})'
      BY <2>2, <3>1 DEF RelStaged
    <3>3. RelMatch({})'
      BY <1>2, <2>1, <2>2, <3>1 DEF RelServes, RelMatch, BuildsOf
    <3> QED BY <3>2, <3>3
  <2> QED BY <1>2, <2>2, <2>3, <2>5, RelWholeStep DEF RelPoints, RelHolding
<1> QED BY <1>1, <1>2 DEF WriteManifest, GiveUp

LEMMA ClearActiveWhole ==
    ASSUME NameTells, RelSafe, RelWhole, NEW r \in Publishers, ClearActive(r) PROVE RelWhole'
<1>1. /\ req[r].pc = "clear" /\ lock = r /\ lock' = r /\ active' = NoRelease
      /\ failures' = failures \/ failures' = failures + 1
      /\ UNCHANGED <<dir, pending, manifest, crashes>>
  BY RelAt DEF ClearActive, RelHolding
<1>2. req'[r].pc = "rotate"
  BY RelAt, RelSteps DEF ClearActive, Stepped, RelPoints, RelHolding
<1>3. ASSUME Faultless PROVE RelStaged(BuildsOf(active))' /\ RelMatch({})'
  <2>1. RelStaged({}) /\ RelMatch({})
    BY <1>1, <1>3 DEF RelWhole, RelPending, RelServed
  <2>2. BuildsOf(active)' = {}
    BY <1>1, RelEmpty DEF BuildsOf
  <2> QED BY <1>1, <2>1, <2>2, RelServesStays DEF RelStaged
<1> QED BY <1>1, <1>2, <1>3, RelWholeStep DEF RelPoints, RelHolding

LEMMA RotateWhole ==
    ASSUME NameTells, RelSafe, RelWhole, NEW r \in Publishers, Rotate(r) PROVE RelWhole'
<1>1. CASE failures' = failures + 1
  BY <1>1, RelAt, FailWhole
<1>2. CASE dir' = Without(dir, Orphans) /\ Continue(r, "done") /\ UNCHANGED failures
  <2>1. /\ req[r].pc = "rotate" /\ lock = r /\ lock' = Free /\ active = NoRelease
        /\ UNCHANGED <<pending, manifest, active, crashes>>
    BY RelAt DEF Rotate, RelHolding, RelSafe, RelPlaces, Place
  <2>2. req'[r].pc = "done"
    BY <1>2, RelAt, RelSteps DEF Stepped, RelPoints, RelHolding
  <2>3. ASSUME Faultless PROVE RelStaged(BuildsOf(active))' /\ RelServes({})'
    <3>1. RelStaged(BuildsOf(active)) /\ RelMatch({})
      BY <2>1, <2>3 DEF RelWhole, RelPending, RelServed
    <3>2. RelStaged(BuildsOf(active))'
      BY <2>1, <3>1 DEF RelStaged, BuildsOf
    <3>3. \A n \in Names : dir'[n] = IF n \in NamesOf(manifest) THEN dir[n] ELSE Absent
      BY <1>2, RelAt, WithoutFacts DEF Orphans
    <3>4. \A b \in BuildsOf(manifest) : b.name \in Names /\ b.name \in NamesOf(manifest) /\ dir'[b.name] = b.sha
      BY <3>1, <3>3, RelAt, RelListed DEF RelMatch
    <3>5. \A n \in Names : dir'[n] # Absent => \E b \in BuildsOf(manifest) : b.name = n
      BY <3>3, RelAt, RelListed
    <3>6. RelServes({})'
      BY <2>1, <3>4, <3>5 DEF RelServes, RelMatch, BuildsOf
    <3> QED BY <3>2, <3>6
  <2> QED BY <1>2, <2>1, <2>2, <2>3, RelWholeStep DEF RelPoints, RelHolding
<1> QED BY <1>1, <1>2 DEF Rotate

LEMMA ReceiveWhole ==
    ASSUME NameTells, RelSafe, RelWhole, NEW r \in Publishers, Receive(r) PROVE RelWhole'
<1>1. /\ req[r].pc = "new" /\ lock # r /\ \A q \in Publishers : q # r => req'[q] = req[q]
      /\ active' = IF loaded THEN active ELSE sidecar
      /\ UNCHANGED <<dir, pending, manifest, lock, failures, crashes>>
  BY RelAt DEF Receive, RelSafe, RelPlaces, Place, RelHolding
<1>2. Faultless' => Faultless
  BY <1>1 DEF Faultless
<1>3. CASE lock = Free
  <2>1. ASSUME Faultless PROVE active' = active
    <3>1. RelNobody({"save"})
      BY <1>3, ConstantsAssumption DEF RelSafe, RelPlaces, Place, RelNobody, RelHolding, Free
    <3>2. active = sidecar
      BY <2>1, <3>1 DEF RelSafe, RelCached, Faultless
    <3> QED BY <1>1, <3>2
  <2>2. CASE active' = active
    BY <1>1, <1>3, <2>2, FreeWhole
  <2>3. CASE ~Faultless
    BY <1>1, <2>3, FailWhole DEF Faultless
  <2> QED BY <2>1, <2>2, <2>3
<1>4. ASSUME NEW q \in Publishers, lock = q PROVE RelWhole'
  <2>1. q # r /\ req'[q] = req[q] /\ loaded
    BY <1>1, <1>4 DEF RelSafe, RelPlaces, Place, RelHolding
  <2>2. active' = active /\ lock' = q /\ q # Free
    BY <1>1, <1>4, <2>1, ConstantsAssumption DEF Free
  <2>3. \A p \in Publishers : lock' = p => req'[p] = req[p]
    BY <2>1, <2>2
  <2>4. Part(q)' = Part(q) /\ RelMoved(q)' = RelMoved(q) /\ BuildsOf(active)' = BuildsOf(active)
    BY <2>1, <2>2 DEF Part, RelMoved, BuildsOf, FirstOf
  <2>5. ASSUME Faultless PROVE
            /\ req[q].pc \in {"start", "clear"} => RelStaged({})'
            /\ req[q].pc = "write" =>
                RelStaged({b \in BuildsOf(active) : b.variant # Part(q).variant})'
            /\ req[q].pc = "promote" => RelStaged(BuildsOf(active) \ RelMoved(q))'
            /\ req[q].pc \in {"save", "rotate"} => RelStaged(BuildsOf(active))'
    BY <1>1, <1>4, <2>4, <2>5 DEF RelWhole, RelPending, RelStaged
  <2>6. ASSUME Faultless PROVE
            /\ req[q].pc \in {"start", "write", "save"} => RelServes({})'
            /\ req[q].pc = "promote" => RelServes(RelMoved(q))'
            /\ req[q].pc \in {"clear", "rotate"} => RelMatch({})'
    BY <1>1, <1>4, <2>4, <2>6 DEF RelWhole, RelServed, RelServes, RelMatch, BuildsOf
  <2> QED BY <1>2, <2>1, <2>2, <2>5, <2>6 DEF RelWhole, RelPending, RelServed
<1> QED BY <1>3, <1>4 DEF RelSafe, RelTypes

LEMMA IdleWhole == ASSUME RelWhole, RelIdle PROVE RelWhole'
<1>1. RelPending'
  BY DEF RelWhole, RelIdle, RelPending, RelStaged, Faultless, BuildsOf, RelMoved, FirstOf, Part
<1>2. RelServed'
  BY DEF RelWhole, RelIdle, RelServed, RelServes, RelMatch, Faultless, BuildsOf, RelMoved, FirstOf
<1> QED BY <1>1, <1>2 DEF RelWhole

LEMMA RelWholeNext ==
    ASSUME NameTells, RelSafe, RelWhole, [RelNext]_relVars PROVE RelWhole'
<1>1. ASSUME NEW r \in Publishers, Handle(r) PROVE RelWhole'
  BY <1>1, EnsureActiveWhole, StartActiveWhole, AppendBuildWhole, WriteBuildFileWhole, SaveActiveWhole,
     BeginCommitWhole, PromoteWhole, WriteManifestWhole, ClearActiveWhole, RotateWhole DEF Handle
<1>2. ASSUME Crash PROVE RelWhole'
  BY <1>2, CrashSafe, FailWhole
<1> QED BY <1>1, <1>2, ReceiveWhole, UpdateIdle, IdleWhole DEF RelNext

LEMMA RelWholeInit == ASSUME RelInit PROVE RelWhole
<1>1. PICK R \in {NoRelease} \cup {OldRelease(u) : u \in Uploads} :
        /\ manifest = R
        /\ dir = [n \in Names |-> IF n \in NamesOf(R) THEN Old ELSE Absent]
  BY DEF RelInit
<1>2. R \in RelReleases /\ \A b \in BuildsOf(R) : b.sha = Old
  BY RelEmpty, OldReleaseFacts
<1>3. lock = Free /\ active = NoRelease /\ pending = [n \in Names |-> Absent]
  BY DEF RelInit
<1>4. RelStaged(BuildsOf(active))
  BY <1>3, RelEmpty DEF RelStaged
<1>5. RelServes({})
  <2>1. \A b \in BuildsOf(R) : b.name \in Names /\ b.name \in NamesOf(R)
    BY <1>2, RelListed
  <2>2. \A n \in Names : n \in NamesOf(R) <=> \E b \in BuildsOf(R) : b.name = n
    BY <1>2, RelListed
  <2> QED BY <1>1, <1>2, <2>1, <2>2 DEF RelServes, RelMatch
<1>6. \A q \in Publishers : lock # q
  BY <1>3, ConstantsAssumption DEF Free
<1> QED BY <1>4, <1>5, <1>6 DEF RelWhole, RelPending, RelServed

\* When builds of two variants never share a filename, what the manifest promises can be
\* downloaded and is what it says, at every step of every commit and upload as long as nothing
\* failed (AppendBuild and CommitActive keep files by name and builds by variant).
THEOREM ReleasesServed == ASSUME NameTells PROVE RelSpec => []ServedWhole
<1>1. RelInit => RelSafe /\ RelWhole
  BY RelSafeInit, RelWholeInit
<1>2. RelSafe /\ RelWhole /\ [RelNext]_relVars => (RelSafe /\ RelWhole)'
  BY RelSafeNext, RelWholeNext
<1>3. RelSafe /\ RelWhole => ServedWhole
  <2> SUFFICES ASSUME RelSafe, RelWhole PROVE ServedWhole
    OBVIOUS
  <2>1. ServedExists /\ NoMixedRelease
    BY DEF RelSafe, RelExists, RelOwn, Owned, NoMixedRelease
  <2>2. ASSUME Faultless, NEW b \in BuildsOf(manifest) PROVE dir[b.name] = b.sha \/ Swapping(b.name)
    <3>1. CASE lock = Free
      BY <2>2, <3>1 DEF RelWhole, RelServed, RelServes, RelMatch
    <3>2. ASSUME NEW r \in Publishers, lock = r PROVE dir[b.name] = b.sha \/ Swapping(b.name)
      <4>1. req[r].pc \in RelHolding
        BY <3>2 DEF RelSafe, RelPlaces, Place
      <4>2. CASE req[r].pc # "promote"
        BY <2>2, <3>2, <4>1, <4>2 DEF RelWhole, RelServed, RelServes, RelMatch, RelHolding
      <4>3. CASE req[r].pc = "promote"
        <5>1. RelServes(RelMoved(r))
          BY <2>2, <3>2, <4>3 DEF RelWhole, RelServed
        <5>2. RelMoved(r) \subseteq BuildsOf(active)
          BY <4>3, RelAt, RelMovedFacts DEF RelMoved, RelSafe, RelPlaces, Place
        <5> QED BY <4>3, <5>1, <5>2 DEF RelServes, RelMatch, Swapping
      <4> QED BY <4>2, <4>3
    <3> QED BY <3>1, <3>2 DEF RelSafe, RelTypes
  <2> QED BY <2>1, <2>2 DEF ServedWhole, ServedMatches
<1> QED BY <1>1, <1>2, <1>3, PTL DEF RelSpec

\* Under the same condition nothing leaks: between two operations, as long as nothing failed,
\* every file lying next to the manifest is of the release served and every file in pending/
\* of the release in progress (deleteOrphanedBuildsLocked, EnsureActive).
THEOREM ReleasesTidy == ASSUME NameTells PROVE RelSpec => []NothingLeaks
<1>1. RelInit => RelSafe /\ RelWhole
  BY RelSafeInit, RelWholeInit
<1>2. RelSafe /\ RelWhole /\ [RelNext]_relVars => (RelSafe /\ RelWhole)'
  BY RelSafeNext, RelWholeNext
<1>3. RelSafe /\ RelWhole => NothingLeaks
  <2> SUFFICES ASSUME RelSafe, RelWhole PROVE NothingLeaks
    OBVIOUS
  <2>1. CacheMatchesDisk
    <3> SUFFICES ASSUME lock = Free, loaded, failures = 0 PROVE active = sidecar
      BY DEF CacheMatchesDisk
    <3>1. RelNobody({"save"})
      BY ConstantsAssumption DEF RelSafe, RelPlaces, Place, RelNobody, RelHolding, Free
    <3> QED BY <3>1 DEF RelSafe, RelCached
  <2>2. ASSUME lock = Free, Faultless
        PROVE  /\ \A n \in Names : dir[n] # Absent => n \in NamesOf(manifest)
               /\ \A n \in Names : pending[n] # Absent => n \in NamesOf(active)
    <3>1. RelServes({}) /\ RelStaged(BuildsOf(active))
      BY <2>2 DEF RelWhole, RelPending, RelServed
    <3> QED BY <3>1, RelAt, RelListed DEF RelServes, RelStaged, NamesOf
  <2> QED BY <2>1, <2>2 DEF NothingLeaks
<1> QED BY <1>1, <1>2, <1>3, PTL DEF RelSpec
=============================================================================
