-------------------------- MODULE MissionDelivery ---------------------------
(***************************************************************************)
(* How a patrol mission reaches the phone.  The planner server writes       *)
(* mission.kmz and mission_meta.json to its storage and then commits their  *)
(* rows and the answer that names them (routers/inspection.py, missions.py, *)
(* mission_materialization.py, artifacts.py, storage.py).  The Android app  *)
(* asks for the assigned bundle, downloads both files, verifies and caches  *)
(* them (data/sync/ServerMissionRepository.kt); a logout empties the cache. *)
(*                                                                         *)
(* A build is one materialization, its two files and their checksums: two   *)
(* builds of a mission differ in both.  Every build of a mission has the    *)
(* same storage keys and, because the storage numbers every write 1, the    *)
(* same version.  The button that starts a sync is always enabled and the   *)
(* repository has no lock, so that syncs overlap.  Left out: what a mission *)
(* contains, the statuses copied to missions and schedules for display, and *)
(* the mission's reports, which have files of their own.                    *)
(***************************************************************************)
EXTENDS Naturals, FiniteSets

CONSTANTS
    Missions,
    Builds,
    missionOf,   \* the mission a build is made for
    NoBuild,
    Threads,     \* request threads of the server
    Syncs,       \* syncs of the app that may overlap
    FaultKinds,  \* "lost", "fails", "crash", "torn", "logout"
    MaxFaults    \* bound: faults of a behaviour

ASSUME DeliveryAssumption ==
    /\ IsFiniteSet(Missions)
    /\ missionOf \in [Builds -> Missions]
    /\ NoBuild \notin Builds
    /\ MaxFaults \in Nat

VARIABLES
    begun,      \* builds some thread has begun
    web,        \* per thread: the materialization it works on
    dispatch,   \* per mission: is it assigned to this operator?
    rank,       \* order of the dispatches by updated_at, the newest is 0
    response,   \* per mission: the build Mission.response_json names
    rows,       \* per mission: builds that have artifact rows
    object,     \* per mission: the contents of its two storage keys
    committed,  \* builds that were committed (history)
    active,     \* missions/active in the app's files
    backup,     \* missions/active-backup
    staging,    \* missions/staging/<mission>
    sync,       \* the syncs
    attached,   \* the bundle the console holds
    user,       \* "in", "leaving", "clearing" or "out"
    held,       \* the build a sync installed last (history)
    disturbed,  \* syncs overlapped or were cut while they installed (history)
    faults

serverVars == <<begun, web, dispatch, rank, response, rows, object, committed>>
diskVars == <<active, backup, staging>>
phoneVars == <<diskVars, sync, attached, user, held, disturbed>>
vars == <<serverVars, phoneVars, faults>>

BuildOrNone == Builds \cup {NoBuild}
Work == [at : {"idle", "kmz", "meta", "select", "commit"}, build : BuildOrNone,
         seen : SUBSET Builds, dispatches : BOOLEAN]
NoWork == [at |-> "idle", build |-> NoBuild, seen |-> {}, dispatches |-> FALSE]

(***************************************************************************)
(* A directory of the cache.  kmz files carry their checksum in the name,   *)
(* so that several fit; a manifest names a build and the directory its      *)
(* paths point to, or is half written.                                      *)
(***************************************************************************)
Directory == [there : BOOLEAN, kmz : SUBSET Builds, meta : BuildOrNone,
              manifest : BuildOrNone, paths : {"none", "staging", "active", "torn"}]
Missing == [there |-> FALSE, kmz |-> {}, meta |-> NoBuild, manifest |-> NoBuild, paths |-> "none"]
Empty == [Missing EXCEPT !.there = TRUE]

Sync == [at : {"idle", "ask", "check", "kmz", "meta", "write", "manifest", "aside", "install", "finish"},
         build : BuildOrNone,   \* the build the answer named
         kmz : BuildOrNone, meta : BuildOrNone,     \* bytes downloaded
         headers : BOOLEAN]     \* the headers named the answer's checksums, so far
NoSync == [at |-> "idle", build |-> NoBuild, kmz |-> NoBuild, meta |-> NoBuild, headers |-> TRUE]

Bundle == [build : BuildOrNone, verified : BOOLEAN, asked : BuildOrNone]
NoBundle == [build |-> NoBuild, verified |-> FALSE, asked |-> NoBuild]

DeliveryTypeOK ==
    /\ begun \subseteq Builds
    /\ web \in [Threads -> Work]
    /\ dispatch \in [Missions -> {"none", "open", "closed"}]
    /\ rank \in [Missions -> Nat]
    /\ response \in [Missions -> BuildOrNone]
    /\ rows \in [Missions -> SUBSET Builds]
    /\ object \in [Missions -> [kmz : BuildOrNone, meta : BuildOrNone]]
    /\ committed \subseteq Builds
    /\ active \in Directory /\ backup \in Directory
    /\ staging \in [Missions -> Directory]
    /\ sync \in [Syncs -> Sync]
    /\ attached \in Bundle
    /\ user \in {"in", "leaving", "clearing", "out"}
    /\ held \in BuildOrNone
    /\ disturbed \in BOOLEAN
    /\ faults \in 0 .. MaxFaults

Init ==
    /\ begun = {}
    /\ web = [t \in Threads |-> NoWork]
    /\ dispatch = [m \in Missions |-> "none"]
    /\ rank \in [Missions -> 0 .. Cardinality(Missions)]
    /\ \A m, n \in Missions : rank[m] = rank[n] => m = n
    /\ response = [m \in Missions |-> NoBuild]
    /\ rows = [m \in Missions |-> {}]
    /\ object = [m \in Missions |-> [kmz |-> NoBuild, meta |-> NoBuild]]
    /\ committed = {}
    /\ active = Missing /\ backup = Missing
    /\ staging = [m \in Missions |-> Missing]
    /\ sync = [s \in Syncs |-> NoSync]
    /\ attached = NoBundle
    /\ user = "in"
    /\ held = NoBuild
    /\ disturbed = FALSE
    /\ faults = 0

Fault(k) ==
    /\ k \in FaultKinds
    /\ faults < MaxFaults
    /\ faults' = faults + 1

-----------------------------------------------------------------------------
(***************************************************************************)
(* The server                                                              *)
(***************************************************************************)
Of(t) == missionOf[web[t].build]

\* updated_at of a dispatch is now.
Touched(m) ==
    [n \in Missions |-> IF n = m THEN 0
                        ELSE IF rank[n] < rank[m] THEN rank[n] + 1 ELSE rank[n]]

\* POST missions/{id}/dispatch and PATCH inspection/dispatch: the dispatch is
\* given to this operator, or to somebody else, or is closed.
SetDispatch(m, state) ==
    /\ response[m] # NoBuild
    /\ state \in {"open", "closed"}
    /\ dispatch' = [dispatch EXCEPT ![m] = state]
    /\ rank' = Touched(m)
    /\ UNCHANGED <<begun, web, response, rows, object, committed, phoneVars, faults>>

\* plan_mission and create_route_flight_task make a mission, the second one
\* with its dispatch; materialize_dispatch makes a mission's files again.
BeginBuild(t, b, dispatches) ==
    LET m == missionOf[b]
    IN  /\ web[t].at = "idle"
        /\ b \notin begun
        /\ \/ /\ response[m] = NoBuild
              /\ object[m].kmz = NoBuild
              /\ \A u \in Threads : web[u].at # "idle" => Of(u) # m
           \/ response[m] # NoBuild /\ dispatch[m] # "none" /\ ~dispatches
        /\ begun' = begun \cup {b}
        /\ web' = [web EXCEPT ![t] = [NoWork EXCEPT !.at = "kmz", !.build = b,
                                                    !.dispatches = dispatches]]
        /\ UNCHANGED <<dispatch, rank, response, rows, object, committed, phoneVars, faults>>

\* generate_and_store: the archive is written first,
WriteKmz(t) ==
    /\ web[t].at = "kmz"
    /\ object' = [object EXCEPT ![Of(t)].kmz = web[t].build]
    /\ web' = [web EXCEPT ![t].at = "meta"]
    /\ UNCHANGED <<begun, dispatch, rank, response, rows, committed, phoneVars, faults>>

\* and then the metadata with the archive's checksum.
WriteMeta(t) ==
    /\ web[t].at = "meta"
    /\ object' = [object EXCEPT ![Of(t)].meta = web[t].build]
    /\ web' = [web EXCEPT ![t].at = "select"]
    /\ UNCHANGED <<begun, dispatch, rank, response, rows, committed, phoneVars, faults>>

\* _replace_mission_artifacts deletes the rows it has selected.  Another
\* materialization that selected the same rows deletes nothing.
SelectRows(t) ==
    /\ web[t].at = "select"
    /\ web' = [web EXCEPT ![t].at = "commit", ![t].seen = rows[Of(t)]]
    /\ UNCHANGED <<begun, dispatch, rank, response, rows, object, committed, phoneVars, faults>>

CommitBuild(t) ==
    LET m == Of(t)
        b == web[t].build
    IN  /\ web[t].at = "commit"
        /\ rows' = [rows EXCEPT ![m] = (@ \ web[t].seen) \cup {b}]
        /\ response' = [response EXCEPT ![m] = b]
        /\ committed' = committed \cup {b}
        /\ IF web[t].dispatches
           THEN dispatch' = [dispatch EXCEPT ![m] = "open"] /\ rank' = Touched(m)
           ELSE UNCHANGED <<dispatch, rank>>
        /\ web' = [web EXCEPT ![t] = NoWork]
        /\ UNCHANGED <<begun, object, phoneVars, faults>>

\* An exception or the end of the server: the transaction is rolled back and
\* what was written to the storage stays.
FailBuild(t) ==
    /\ web[t].at # "idle"
    /\ Fault("fails")
    /\ web' = [web EXCEPT ![t] = NoWork]
    /\ UNCHANGED <<begun, dispatch, rank, response, rows, object, committed, phoneVars>>

\* get_operator_active_bundle: the operator's dispatch that changed last.
Serves(m) ==
    /\ dispatch[m] = "open"
    /\ \A n \in Missions : dispatch[n] = "open" => rank[m] <= rank[n]

-----------------------------------------------------------------------------
(***************************************************************************)
(* The cache                                                               *)
(***************************************************************************)
\* The directory the manifest's paths point to.
Files(dir, stages) == IF dir.paths = "active" THEN dir ELSE stages[missionOf[dir.manifest]]

Readable(dir) == dir.there /\ dir.manifest # NoBuild /\ dir.paths # "torn"

\* isVerified of recordToBundle: both files are there with the checksums of
\* the manifest.
Verified(dir, stages) ==
    /\ dir.manifest \in Files(dir, stages).kmz
    /\ Files(dir, stages).meta = dir.manifest

Loaded(dir, stages) ==
    IF Readable(dir) THEN [build |-> dir.manifest, verified |-> Verified(dir, stages), asked |-> NoBuild]
    ELSE NoBundle

-----------------------------------------------------------------------------
(***************************************************************************)
(* syncMissionBundle                                                       *)
(***************************************************************************)
Target(s) == missionOf[sync[s].build]
Ends(s) == sync' = [sync EXCEPT ![s] = NoSync]
Goto(s, place) == sync' = [sync EXCEPT ![s].at = place]
Others(s) == \E o \in Syncs \ {s} : sync[o].at # "idle"

\* The tap on the button.
StartSync(s) ==
    /\ sync[s].at = "idle" /\ user = "in"
    /\ sync' = [sync EXCEPT ![s] = [NoSync EXCEPT !.at = "ask"]]
    /\ disturbed' = (disturbed \/ Others(s))
    /\ UNCHANGED <<serverVars, diskVars, attached, user, held, faults>>

\* A request that fails for good, after its retries, or finds no session.
RequestFails(s) ==
    /\ sync[s].at \in {"ask", "kmz", "meta"}
    /\ \/ Fault("lost")
       \/ /\ user # "in" \/ (sync[s].at = "ask" /\ ~\E m \in Missions : Serves(m))
          /\ UNCHANGED faults
    /\ Ends(s)
    /\ UNCHANGED <<serverVars, diskVars, attached, user, held, disturbed>>

Ask(s) ==
    /\ sync[s].at = "ask" /\ user = "in"
    /\ \E m \in Missions :
         /\ Serves(m)
         /\ sync' = [sync EXCEPT ![s].at = "check", ![s].build = response[m]]
    /\ UNCHANGED <<serverVars, diskVars, attached, user, held, disturbed, faults>>

\* Mutant: the versions are compared, which are always 1, and not the mission.
IsAnyMission(s) == Readable(active)

\* The manifest is of this mission, and so of these versions.
IsCached(s) == Readable(active) /\ missionOf[active.manifest] = Target(s)

ReuseCache(s) ==
    /\ sync[s].at = "check" /\ IsCached(s)
    /\ attached' = [Loaded(active, staging) EXCEPT !.asked = sync[s].build]
    /\ Ends(s)
    /\ UNCHANGED <<serverVars, diskVars, user, held, disturbed, faults>>

ClearStaging(s) ==
    /\ sync[s].at = "check" /\ ~IsCached(s)
    /\ staging' = [staging EXCEPT ![Target(s)] = Empty]
    /\ Goto(s, "kmz")
    /\ UNCHANGED <<serverVars, active, backup, attached, user, held, disturbed, faults>>

\* get_mission_kmz and get_mission_meta answer with what the storage holds and
\* with the checksum of a row, any one if there are several.
GetKmz(s) ==
    /\ sync[s].at = "kmz" /\ user = "in"
    /\ \E row \in rows[Target(s)] :
         sync' = [sync EXCEPT ![s].at = "meta", ![s].kmz = object[Target(s)].kmz,
                              ![s].headers = (row = sync[s].build)]
    /\ UNCHANGED <<serverVars, diskVars, attached, user, held, disturbed, faults>>

GetMeta(s) ==
    /\ sync[s].at = "meta" /\ user = "in"
    /\ \E row \in rows[Target(s)] :
         sync' = [sync EXCEPT ![s].at = "write", ![s].meta = object[Target(s)].meta,
                              ![s].headers = (@ /\ row = sync[s].build)]
    /\ UNCHANGED <<serverVars, diskVars, attached, user, held, disturbed, faults>>

\* Mutant: the checksums of the downloaded bytes are not compared.
HeadersAgree(s) == sync[s].headers

\* verifyArtifact for both files.
ArtifactsAgree(s) ==
    sync[s].headers /\ sync[s].kmz = sync[s].build /\ sync[s].meta = sync[s].build

WriteFiles(s) ==
    LET m == Target(s)
    IN  /\ sync[s].at = "write"
        /\ ArtifactsAgree(s) /\ staging[m].there
        /\ staging' = [staging EXCEPT ![m].kmz = @ \cup {sync[s].kmz}, ![m].meta = sync[s].meta]
        /\ Goto(s, "manifest")
        /\ UNCHANGED <<serverVars, active, backup, attached, user, held, disturbed, faults>>

WriteManifest(s) ==
    LET m == Target(s)
    IN  /\ sync[s].at = "manifest" /\ staging[m].there
        /\ staging' = [staging EXCEPT ![m].manifest = sync[s].build, ![m].paths = "staging"]
        /\ Goto(s, "aside")
        /\ UNCHANGED <<serverVars, active, backup, attached, user, held, disturbed, faults>>

\* A file does not verify, or another sync or a logout took the directory away.
GiveUp(s) ==
    /\ \/ sync[s].at = "write" /\ ~(ArtifactsAgree(s) /\ staging[Target(s)].there)
       \/ sync[s].at = "manifest" /\ ~staging[Target(s)].there
       \/ sync[s].at = "finish" /\ ~active.there
    /\ Ends(s)
    /\ UNCHANGED <<serverVars, diskVars, attached, user, held, disturbed, faults>>

\* promoteToActive: the old bundle becomes the backup,
SetAside(s) ==
    /\ sync[s].at = "aside"
    /\ backup' = active
    /\ active' = Missing
    /\ Goto(s, "install")
    /\ UNCHANGED <<serverVars, staging, attached, user, held, disturbed, faults>>

\* the staged one takes its place and the backup is deleted;
Install(s) ==
    LET m == Target(s)
    IN  /\ sync[s].at = "install" /\ staging[m].there
        /\ active' = staging[m]
        /\ staging' = [staging EXCEPT ![m] = Missing]
        /\ backup' = Missing
        /\ Goto(s, "finish")
        /\ UNCHANGED <<serverVars, attached, user, held, disturbed, faults>>

\* when there is none to install, the old one comes back.
RestoreBackup(s) ==
    /\ sync[s].at = "install" /\ ~staging[Target(s)].there
    /\ active' = backup
    /\ backup' = Missing
    /\ Ends(s)
    /\ UNCHANGED <<serverVars, staging, attached, user, held, disturbed, faults>>

\* Mutant: the manifest keeps the paths of the staging directory.
NotRewritten(s) == active

\* The manifest is written again with the paths the files have now.
Rewritten(s) == [active EXCEPT !.manifest = sync[s].build, !.paths = "active"]

FinishSync(s) ==
    /\ sync[s].at = "finish" /\ active.there
    /\ active' = Rewritten(s)
    /\ attached' = [Loaded(Rewritten(s), staging) EXCEPT !.asked = sync[s].build]
    /\ held' = sync[s].build
    /\ Ends(s)
    /\ UNCHANGED <<serverVars, backup, staging, user, disturbed, faults>>

-----------------------------------------------------------------------------
(***************************************************************************)
(* Logout and the app's process                                            *)
(***************************************************************************)
Installing == \E s \in Syncs : sync[s].at \in {"install", "finish"}
Syncing == \E s \in Syncs : sync[s].at # "idle"

\* The tokens are removed; the syncs under way go on.
Logout ==
    /\ user = "in"
    /\ Fault("logout")
    /\ user' = "leaving"
    /\ disturbed' = (disturbed \/ Syncing)
    /\ UNCHANGED <<serverVars, diskVars, sync, attached, held>>

\* clearCachedMissionBundle, one directory after the other.
ClearActive ==
    /\ user = "leaving"
    /\ user' = "clearing"
    /\ active' = Missing
    /\ held' = NoBuild
    /\ UNCHANGED <<serverVars, backup, staging, sync, attached, disturbed, faults>>

ClearTheRest ==
    /\ user = "clearing"
    /\ user' = "out"
    /\ staging' = [m \in Missions |-> Missing]
    /\ backup' = Missing
    /\ attached' = NoBundle
    /\ UNCHANGED <<serverVars, active, sync, held, disturbed, faults>>

Login ==
    /\ user = "out"
    /\ user' = "in"
    /\ UNCHANGED <<serverVars, diskVars, sync, attached, held, disturbed, faults>>

\* The process ends, perhaps while it writes the manifest again, and the app
\* starts with what the cache holds.
Crash ==
    /\ \/ Fault("crash") /\ UNCHANGED active
       \/ /\ Fault("torn")
          /\ active.there /\ \E s \in Syncs : sync[s].at = "finish"
          /\ active' = [active EXCEPT !.manifest = NoBuild, !.paths = "torn"]
    /\ sync' = [s \in Syncs |-> NoSync]
    /\ attached' = Loaded(active', staging)
    /\ user' = IF user = "in" THEN "in" ELSE "out"
    /\ disturbed' = (disturbed \/ Installing \/ user \in {"leaving", "clearing"})
    /\ UNCHANGED <<serverVars, backup, staging, held>>

-----------------------------------------------------------------------------
BuildStep(t) == WriteKmz(t) \/ WriteMeta(t) \/ SelectRows(t) \/ CommitBuild(t)

SyncStep(s) ==
    \/ RequestFails(s) \/ Ask(s)
    \/ ReuseCache(s) \/ ClearStaging(s)
    \/ GetKmz(s) \/ GetMeta(s)
    \/ WriteFiles(s) \/ WriteManifest(s) \/ GiveUp(s)
    \/ SetAside(s) \/ Install(s) \/ RestoreBackup(s) \/ FinishSync(s)

ServerNext ==
    \/ \E m \in Missions, state \in {"open", "closed"} : SetDispatch(m, state)
    \/ \E t \in Threads :
         \/ \E b \in Builds, d \in BOOLEAN : BeginBuild(t, b, d)
         \/ BuildStep(t)
         \/ FailBuild(t)

PhoneNext ==
    \/ \E s \in Syncs : StartSync(s) \/ SyncStep(s)
    \/ Logout \/ ClearActive \/ ClearTheRest \/ Login
    \/ Crash

Next == ServerNext \/ PhoneNext

Spec == Init /\ [][Next]_vars

\* Handlers and coroutines go on; nothing is assumed of people.
FairSpec ==
    /\ Spec
    /\ \A t \in Threads : WF_vars(BuildStep(t))
    /\ \A s \in Syncs : WF_vars(SyncStep(s))
    /\ WF_vars(ClearActive) /\ WF_vars(ClearTheRest)

-----------------------------------------------------------------------------
(***************************************************************************)
(* Whatever fails, the cache keeps the bundle installed last, verified: a   *)
(* failed download, a file of another build or a crash cost nothing.  Not   *)
(* so when syncs overlap or one is cut while it installs (disturbed).       *)
(***************************************************************************)
KeepsLastGood ==
    ~disturbed /\ ~Installing =>
        \/ held = NoBuild /\ ~active.there
        \/ Readable(active) /\ Verified(active, staging) /\ active.manifest = held

\* The storage and the rows hold what the answer names.
Consistent(m) ==
    rows[m] = {response[m]} /\ object[m] = [kmz |-> response[m], meta |-> response[m]]

(***************************************************************************)
(* When the server stays with one consistent mission, an operator who asks  *)
(* again and again gets it, unless overlapping or cut syncs have spoilt the *)
(* cache.                                                                   *)
(***************************************************************************)
GetsTheMission ==
    \A m \in Missions :
        /\ <>[](Serves(m) /\ Consistent(m) /\ user = "in")
        /\ []<>Syncing
        => []<>(disturbed \/ (attached.verified /\ missionOf[attached.build] = m))

-----------------------------------------------------------------------------
(***************************************************************************)
(* docs/mission-bundle-flow.md: "Checksum mismatch invalidates the bundle.  *)
(* Expected checksums come from the authenticated plan response": after a   *)
(* sync the bundle is the one the answer named.                             *)
(***************************************************************************)
SyncedIsAnswered == attached.asked # NoBuild => attached.build = attached.asked

(***************************************************************************)
(* The same document: "App promotes the staging directory to active/ only   *)
(* after both artifacts validate".                                          *)
(***************************************************************************)
OnlyValidatedInstalled == attached.asked # NoBuild => attached.verified

(***************************************************************************)
(* The same document: "Partial download never replaces the previously valid *)
(* bundle": outside the installation there is a bundle if there was one.    *)
(***************************************************************************)
CrashKeepsABundle ==
    held # NoBuild /\ ~Installing => Readable(active) /\ Verified(active, staging)

=============================================================================
