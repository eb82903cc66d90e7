---------------------------- MODULE ReleaseStore ----------------------------
(***************************************************************************)
(* The auto-update store of one track: updates/store.go, the publish and   *)
(* download handlers of handlers_updates.go, and a client app that keeps   *)
(* itself up to date.                                                      *)
(*                                                                         *)
(* A publish handler runs EnsureActive, one AppendBuild per build of its   *)
(* body and, when it finalizes, CommitActive.  Each of the three holds the *)
(* store's mutex; between them it is free.  Readers take no lock, and the  *)
(* process may crash, so every file operation under the mutex is a step.   *)
(*                                                                         *)
(* A release with no versionCode (0) is no release.  A build's sha256      *)
(* stands for its bytes: the request and the part they were uploaded with. *)
(***************************************************************************)
EXTENDS Integers, Sequences, FiniteSets

CONSTANTS
    Publishers,       \* publish requests, each made once
    Variants,       \* build variants of the track
    Names,          \* build filenames
    Codes,          \* versionCodes published
    Uploads,        \* the builds a request may carry: sequences of parts
    Mine,           \* the variant the client app runs
    MaxFailures,    \* file operations that fail
    MaxCrashes      \* crashes of the process

ASSUME ConstantsAssumption ==
    /\ Codes \subseteq Nat \ {0}
    /\ Uploads \subseteq Seq([variant : Variants, name : Names]) \ {<<>>}
    /\ MaxFailures \in Nat /\ MaxCrashes \in Nat
    /\ {"absent", "old"} \cap Publishers = {} /\ <<"free">> \notin Publishers

VARIABLES
    dir,        \* build files next to the manifest: name -> bytes, or Absent
    pending,    \* build files in pending/: name -> bytes, or Absent
    manifest,   \* manifest.json
    sidecar,    \* pending.json
    active,     \* Store.active, the cached pending.json
    loaded,     \* has the registry created the Store since the last start
    lock,       \* the request that holds Store.mu, or Free
    req,        \* the publish requests
    app,     \* the client app
    failures, crashes

files == <<dir, pending>>
releases == <<manifest, sidecar, active>>
faults == <<failures, crashes>>
relVars == <<dir, pending, manifest, sidecar, active, loaded, lock, req, app,
          failures, crashes>>

Absent == <<"absent", 0>>
Old == <<"old", 0>>
Free == <<"free">>

Bytes == {Absent, Old} \cup (Publishers \X Nat)
Build == [variant : Variants, name : Names, sha : Bytes]
Releases == [code : Nat, builds : Seq(Build)]
NoRelease == [code |-> 0, builds |-> <<>>]

BuildsOf(release) == {release.builds[i] : i \in DOMAIN release.builds}
NamesOf(release) == {b.name : b \in BuildsOf(release)}
Without(files_, names) == [n \in Names |-> IF n \in names THEN Absent ELSE files_[n]]

-----------------------------------------------------------------------------
(* A track whose current release, if any, was published in the past.       *)

OldRelease(u) == [code |-> CHOOSE c \in Codes : \A d \in Codes : c <= d,
                  builds |-> [i \in DOMAIN u |-> [variant |-> u[i].variant,
                                                  name |-> u[i].name, sha |-> Old]]]

RelInit ==
    /\ \E r \in {NoRelease} \cup {OldRelease(u) : u \in Uploads} :
        /\ manifest = r
        /\ dir = [n \in Names |-> IF n \in NamesOf(r) THEN Old ELSE Absent]
    /\ pending = [n \in Names |-> Absent]
    /\ sidecar = NoRelease /\ active = NoRelease /\ loaded = FALSE
    /\ lock = Free
    /\ req = [r \in Publishers |-> [pc |-> "new", code |-> 0, parts |-> <<>>,
                                  finalize |-> FALSE, i |-> 1]]
    /\ app = [pc |-> "idle", build |-> {}, installed |-> Absent]
    /\ failures = 0 /\ crashes = 0

\* No client app and no publisher: nothing ever moves.
RelOff ==
    /\ manifest = NoRelease /\ sidecar = NoRelease /\ active = NoRelease /\ loaded = FALSE
    /\ dir = [n \in Names |-> Absent] /\ pending = dir
    /\ lock = Free
    /\ req = [r \in Publishers |-> [pc |-> "done", code |-> 0, parts |-> <<>>,
                                    finalize |-> FALSE, i |-> 1]]
    /\ app = [pc |-> "off", build |-> {}, installed |-> Absent]
    /\ failures = 0 /\ crashes = 0

Continue(r, pc) == req' = [req EXCEPT ![r].pc = pc]
Part(r) == req[r].parts[req[r].i]
Sha(r) == <<r, req[r].i>>

\* A file operation fails and the operation in progress gives up.  (The faulty
\* form keeps the mutex.)
FaultyGiveUp(r) ==
    /\ failures < MaxFailures /\ failures' = failures + 1
    /\ UNCHANGED lock /\ Continue(r, "failed")
GiveUp(r) ==
    /\ failures < MaxFailures /\ failures' = failures + 1
    /\ lock' = Free /\ Continue(r, "failed")

-----------------------------------------------------------------------------
(* handleAppUpdatesPublish: the body is parsed, the store taken from the   *)
(* registry, which loads pending.json the first time.                      *)
Receive(r) ==
    /\ req[r].pc = "new"
    /\ \E c \in Codes, u \in Uploads, f \in BOOLEAN :
        req' = [req EXCEPT ![r] = [pc |-> "ensure", code |-> c, parts |-> u,
                                   finalize |-> f, i |-> 1]]
    /\ active' = IF loaded THEN active ELSE sidecar
    /\ loaded' = TRUE
    /\ UNCHANGED <<dir, pending, manifest, sidecar, lock, app, failures, crashes>>

\* EnsureActive continues the active release of the request's version, or
\* discards whatever is in progress: first its build files...
EnsureActive(r) ==
    /\ req[r].pc = "ensure" /\ lock = Free
    /\ \/ /\ active.code = req[r].code
          /\ Continue(r, "append")
          /\ UNCHANGED <<pending, lock>>
       \/ /\ active.code # req[r].code
          /\ lock' = r
          /\ pending' = Without(pending, NamesOf(active))
          /\ Continue(r, "start")
    /\ UNCHANGED <<dir, manifest, sidecar, active, loaded, app, failures, crashes>>

\* ... then pending.json and the cached copy.
StartActive(r) ==
    /\ req[r].pc = "start"
    /\ \/ /\ sidecar' = [code |-> req[r].code, builds |-> <<>>]
          /\ active' = sidecar'
          /\ lock' = Free /\ Continue(r, "append")
          /\ UNCHANGED failures
       \/ /\ GiveUp(r)
          /\ UNCHANGED <<sidecar, active>>
    /\ UNCHANGED <<dir, pending, manifest, loaded, app, crashes>>

\* AppendBuild refuses a request whose version is no longer the active one.
FaultySameVersion(r) == active.code # 0
SameVersion(r) == active.code = req[r].code

\* AppendBuild removes the file of the build it replaces...
AppendBuild(r) ==
    /\ req[r].pc = "append" /\ lock = Free
    /\ \/ /\ ~SameVersion(r)
          /\ Continue(r, "failed")
          /\ UNCHANGED <<pending, lock>>
       \/ /\ SameVersion(r)
          /\ lock' = r
          /\ pending' = Without(pending, {b.name : b \in {a \in BuildsOf(active) :
                                                   a.variant = Part(r).variant}})
          /\ Continue(r, "write")
    /\ UNCHANGED <<dir, manifest, sidecar, active, loaded, app, failures, crashes>>

\* The builds of a list that are of other variants, in their order.
OtherVariants(builds, variant) ==
    LET kept[i \in 0..Len(builds)] ==
            IF i = 0 THEN <<>>
            ELSE IF builds[i].variant = variant THEN kept[i - 1]
            ELSE Append(kept[i - 1], builds[i])
    IN kept[Len(builds)]

\* ... writes the new one (a .tmp and a rename: whole or not at all) and puts it
\* at the end of the list in memory...
FaultyListed(r) ==
    [active EXCEPT !.builds =
        Append(active.builds,
               [variant |-> Part(r).variant, name |-> Part(r).name, sha |-> Sha(r)])]
Listed(r) ==
    [active EXCEPT !.builds =
        Append(OtherVariants(active.builds, Part(r).variant),
               [variant |-> Part(r).variant, name |-> Part(r).name, sha |-> Sha(r)])]

WriteBuildFile(r) ==
    /\ req[r].pc = "write"
    /\ \/ /\ pending' = [pending EXCEPT ![Part(r).name] = Sha(r)]
          /\ active' = Listed(r)
          /\ Continue(r, "save")
          /\ UNCHANGED <<lock, failures>>
       \/ /\ GiveUp(r)
          /\ UNCHANGED <<pending, active>>
    /\ UNCHANGED <<dir, manifest, sidecar, loaded, app, crashes>>

\* ... and saves the list.  When that fails the new file is removed, while the
\* list in memory keeps it.
AfterAppend(r) ==
    IF req[r].i < Len(req[r].parts) THEN "append"
    ELSE IF req[r].finalize THEN "commit" ELSE "done"

SaveActive(r) ==
    /\ req[r].pc = "save"
    /\ \/ /\ sidecar' = active
          /\ lock' = Free
          /\ req' = [req EXCEPT ![r].pc = AfterAppend(r), ![r].i = @ + 1]
          /\ UNCHANGED <<pending, failures>>
       \/ /\ GiveUp(r)
          /\ pending' = Without(pending, {Part(r).name})
          /\ UNCHANGED sidecar
    /\ UNCHANGED <<dir, manifest, active, loaded, app, crashes>>

-----------------------------------------------------------------------------
(* CommitActive commits what is active, whichever version the request      *)
(* that finalizes has appended to.                                         *)
BeginCommit(r) ==
    /\ req[r].pc = "commit" /\ lock = Free
    /\ \/ /\ active.code = 0
          /\ Continue(r, "failed")
          /\ UNCHANGED lock
       \/ /\ active.code # 0
          /\ lock' = r
          /\ req' = [req EXCEPT ![r].pc = "promote", ![r].i = 1]
    /\ UNCHANGED <<dir, pending, manifest, sidecar, active, loaded, app, failures, crashes>>

\* Each build is renamed next to the manifest.  One that is not in pending/ is
\* taken to be in place already when a file of its name is.
Promote(r) ==
    /\ req[r].pc = "promote" /\ req[r].i <= Len(active.builds)
    /\ LET name == active.builds[req[r].i].name IN
       \/ /\ pending[name] # Absent
          /\ dir' = [dir EXCEPT ![name] = pending[name]]
          /\ pending' = Without(pending, {name})
          /\ req' = [req EXCEPT ![r].i = @ + 1]
          /\ UNCHANGED <<lock, failures>>
       \/ /\ pending[name] = Absent /\ dir[name] # Absent
          /\ req' = [req EXCEPT ![r].i = @ + 1]
          /\ UNCHANGED <<dir, pending, lock, failures>>
       \/ /\ pending[name] = Absent /\ dir[name] = Absent
          /\ lock' = Free /\ Continue(r, "failed")
          /\ UNCHANGED <<dir, pending, failures>>
       \/ /\ GiveUp(r)
          /\ UNCHANGED <<dir, pending>>
    /\ UNCHANGED <<manifest, sidecar, active, loaded, app, crashes>>

FaultyPromoted(r) == req[r].i >= Len(active.builds)
Promoted(r) == req[r].i > Len(active.builds)

WriteManifest(r) ==
    /\ req[r].pc = "promote" /\ Promoted(r)
    /\ \/ /\ manifest' = active
          /\ Continue(r, "clear")
          /\ UNCHANGED <<lock, failures>>
       \/ /\ GiveUp(r)
          /\ UNCHANGED manifest
    /\ UNCHANGED <<dir, pending, sidecar, active, loaded, app, crashes>>

\* The removal of pending.json is best-effort.
FaultyCleared == sidecar
Cleared == NoRelease

ClearActive(r) ==
    /\ req[r].pc = "clear"
    /\ active' = NoRelease
    /\ \/ /\ sidecar' = Cleared
          /\ UNCHANGED failures
       \/ /\ failures < MaxFailures /\ failures' = failures + 1
          /\ UNCHANGED sidecar
    /\ Continue(r, "rotate")
    /\ UNCHANGED <<dir, pending, manifest, loaded, lock, app, crashes>>

\* deleteOrphanedBuildsLocked: everything but the new release's files goes; one
\* that cannot be removed does not stop the others, and the commit reports it.
FaultyOrphans == {n \in Names : dir[n] = Old}
Orphans == Names \ NamesOf(manifest)

Rotate(r) ==
    /\ req[r].pc = "rotate"
    /\ \/ /\ dir' = Without(dir, Orphans)
          /\ Continue(r, "done")
          /\ UNCHANGED failures
       \/ /\ failures < MaxFailures /\ failures' = failures + 1
          /\ \E n \in Orphans : dir[n] # Absent /\ dir' = Without(dir, Orphans \ {n})
          /\ Continue(r, "failed")
    /\ lock' = Free
    /\ UNCHANGED <<pending, manifest, sidecar, active, loaded, app, crashes>>

\* The process dies at any step and starts again: the requests in progress are
\* gone, the files stay.
Crash ==
    /\ crashes < MaxCrashes /\ crashes' = crashes + 1
    /\ active' = NoRelease /\ loaded' = FALSE /\ lock' = Free
    /\ req' = [r \in Publishers |-> IF req[r].pc \in {"new", "done"} THEN req[r]
                                  ELSE [req[r] EXCEPT !.pc = "failed"]]
    /\ app' = [app EXCEPT !.pc = "idle", !.build = {}]
    /\ UNCHANGED <<dir, pending, manifest, sidecar, failures>>

-----------------------------------------------------------------------------
(* The client app asks for the manifest, downloads its build and keeps it  *)
(* when its sha256 is the advertised one.                                  *)

CurrentBuilds == {b \in BuildsOf(manifest) : b.variant = Mine}

\* handleAppUpdate
FetchManifest ==
    /\ app.pc = "idle"
    /\ \E b \in CurrentBuilds : /\ b.sha # app.installed
                          /\ app' = [app EXCEPT !.pc = "asks", !.build = {b}]
    /\ UNCHANGED <<dir, pending, manifest, sidecar, active, loaded, lock, req, failures, crashes>>

\* handleAppUpdateFile: a name the manifest does not list is not found...
LookUpFile ==
    /\ app.pc = "asks"
    /\ \E b \in app.build :
        app' = [app EXCEPT !.pc = IF b.name \in NamesOf(manifest) THEN "opens" ELSE "idle"]
    /\ UNCHANGED <<dir, pending, manifest, sidecar, active, loaded, lock, req, failures, crashes>>

\* ... and the file is opened after the manifest was read.
ReadBuild ==
    /\ app.pc = "opens"
    /\ \E b \in app.build :
        app' = [pc |-> "idle", build |-> {},
                   installed |-> IF dir[b.name] = b.sha THEN b.sha ELSE app.installed]
    /\ UNCHANGED <<dir, pending, manifest, sidecar, active, loaded, lock, req, failures, crashes>>

-----------------------------------------------------------------------------
Handle(r) ==
    \/ EnsureActive(r) \/ StartActive(r)
    \/ AppendBuild(r) \/ WriteBuildFile(r) \/ SaveActive(r)
    \/ BeginCommit(r) \/ Promote(r) \/ WriteManifest(r) \/ ClearActive(r) \/ Rotate(r)

Update == FetchManifest \/ LookUpFile \/ ReadBuild

RelNext == (\E r \in Publishers : Receive(r) \/ Handle(r)) \/ Crash \/ Update

RelSpec == RelInit /\ [][RelNext]_relVars

\* A handler runs to its end once its body arrived, and the client keeps asking.
RelFairness == (\A r \in Publishers : WF_relVars(Handle(r))) /\ WF_relVars(Update)

RelFairSpec == RelSpec /\ RelFairness

-----------------------------------------------------------------------------
\* Releases hold lists of builds, files hold bytes, and the mutex is held by a
\* request inside one of the three locked operations.
RelTypeOK ==
    /\ dir \in [Names -> Bytes] /\ pending \in [Names -> Bytes]
    /\ manifest \in Releases /\ sidecar \in Releases /\ active \in Releases
    /\ loaded \in BOOLEAN
    /\ \A r \in Publishers :
        (lock = r) <=> req[r].pc \in {"start", "write", "save", "promote", "clear", "rotate"}
    /\ failures \in 0..MaxFailures /\ crashes \in 0..MaxCrashes

\* Every build the manifest advertises has its file next to the manifest, at
\* every instant a reader may look: commits move files in before the manifest
\* and remove the old ones after it, whatever fails or crashes in between.
ServedExists == \A n \in NamesOf(manifest) : dir[n] # Absent

\* As long as nothing fails, a served file has the bytes the manifest
\* advertises, but for the time in which a commit has moved the same-named file
\* of the next release in and not yet replaced the manifest: uploads in progress
\* never show, although a CI may use the same filename for every release.
Faultless == failures = 0 /\ crashes = 0
Swapping(name) ==
    \E r \in Publishers : /\ req[r].pc = "promote"
                        /\ \E a \in BuildsOf(active) : a.name = name /\ a.sha = dir[name]
ServedMatches ==
    Faultless => \A b \in BuildsOf(manifest) : dir[b.name] = b.sha \/ Swapping(b.name)

\* A release is made of builds uploaded for its own versionCode, although the
\* mutex is free between the EnsureActive of a request and its AppendBuilds and
\* another request may have discarded the release meanwhile.
NoMixedRelease ==
    \A release \in {manifest, sidecar, active} : \A b \in BuildsOf(release) :
        b.sha # Old => req[b.sha[1]].code = release.code

\* What the manifest promises to a client can be downloaded, is what it says and is of
\* one release.
ServedWhole == ServedExists /\ ServedMatches /\ NoMixedRelease

\* With the mutex free, the cached release is the one pending.json holds, after
\* any crash: what is acknowledged survives a restart, and a release that was
\* committed or discarded does not come back with it.
CacheMatchesDisk == lock = Free /\ loaded /\ failures = 0 => active = sidecar

\* And nothing leaks: with the mutex free and no fault, the directory holds the
\* current release's files and pending/ the files of the release in progress.
NothingLeaks ==
    /\ CacheMatchesDisk
    /\ lock = Free /\ Faultless =>
        /\ \A n \in Names : dir[n] # Absent => n \in NamesOf(manifest)
        /\ \A n \in Names : pending[n] # Absent => n \in NamesOf(active)

\* A client that keeps asking ends up with its build of the current release,
\* whichever commits its downloads raced with, as long as nothing failed.
ClientUpdated ==
    []Faultless => <>[](\A b \in CurrentBuilds : app.installed = b.sha)

=============================================================================
