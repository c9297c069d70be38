-------------------------- MODULE IndustrialEngine --------------------------
(***************************************************************************)
(* The Industrial Data Engine (app/industrial_data_engine).  A web user      *)
(* asks for a job; the request stores its photos and commits the job as      *)
(* queued (router.py).  A worker process polls for the oldest queued job     *)
(* and runs its twenty stages, each of which asks a provider (providers.py)  *)
(* and writes objects to the shared storage (pipeline.py, storage.py); the   *)
(* last one copies the objects that make up the data set to the exports      *)
(* the web page offers for download.                                         *)
(*                                                                         *)
(* A provider's answer is "good", has one of the defects the validators and *)
(* the schemas tell apart, is an "error" (which every bounded call turns    *)
(* into, at the latest by its timeout), or never comes: the gsplat, Boxer   *)
(* and EGO commands are run without a timeout.  Left out: what a scene, a   *)
(* frame or a card contains, access control, and the DTOs.                  *)
(***************************************************************************)
EXTENDS Naturals, Sequences, FiniteSets

CONSTANTS
    Jobs,
    Workers,
    NoJob,
    Samples,      \* the samples a run judges
    Verdicts,     \* what the judge may say: functions of Samples
    Requests,     \* mode, qualityThreshold and the file names of the photos, in
                  \* upload order; names are numbers
    DefaultThreshold,
    MaxImages,    \* WORLDLABS_RECONSTRUCTION_MAX_IMAGES
    EgoPlanner,   \* settings.enable_ego_planner
    FaultKinds,   \* "storage", "database", "crash"
    MaxFaults     \* bound: faults of a behaviour

ASSUME EngineAssumption ==
    /\ IsFiniteSet(Jobs) /\ NoJob \notin Jobs
    /\ Verdicts \subseteq [Samples -> [score : Nat, accept : BOOLEAN]]
    /\ Requests \subseteq [mode : {"text", "photos"}, asked : Nat, photos : Seq(Nat)]
    /\ DefaultThreshold \in Nat \ {0}
    /\ MaxImages \in Nat \ {0, 1}
    /\ EgoPlanner \in BOOLEAN
    /\ MaxFaults \in Nat

VARIABLES
    job,      \* the rows of IndustrialEngineJob
    row,      \* the rows of IndustrialEngineJobStage, by sequence
    object,   \* per job: what its storage keys hold
    kept,     \* per job: the photos in storage, by position in the upload
    dataset,  \* per job: the samples in quality/dataset_samples_accepted.jsonl
    worker,
    sent,     \* per job: the photos the world was made from (history)
    verdict,  \* per job: the set of verdicts given on its samples (history)
    struck,   \* jobs that met a fault or a command that hangs (history)
    faults

vars == <<job, row, object, kept, dataset, worker, sent, verdict, struck, faults>>
historyVars == <<sent, verdict, struck>>

-----------------------------------------------------------------------------
(***************************************************************************)
(* The twenty stages.  asks: the provider; rejects: the answers that make   *)
(* the stage fail; reads: the objects it needs from the storage; writes:    *)
(* the objects it stores that are read again, by a stage or by the web page. *)
(***************************************************************************)
Stages == <<"validate", "scene", "prompt", "image", "world", "metric", "poses", "frames", "boxes",
            "targets", "morePoses", "moreFrames", "moreBoxes", "incidents", "tasks", "samples",
            "quality", "cards", "siteState", "export">>

Numbers == 1 .. Len(Stages)
Stage(asks, rejects, reads, writes) ==
    [asks |-> asks, rejects |-> rejects, reads |-> reads, writes |-> writes]

\* Bounded calls end in an error; a command that hangs is waited for.
ProbeAnswers == {"good", "error"}
TextAnswers == {"good", "incomplete", "empty", "error"}
ListAnswers == TextAnswers \cup {"excessive"}    \* where the schema bounds the list
ImageAnswers == {"good", "error"}
WorldAnswers == {"good", "error"}
JudgeAnswers == {"good", "error"}
FrameAnswers == {"good", "error"}    \* the renders hold RGB and depth frames, or not
Command == {"error", "hangs"}
RenderAnswers == {"good"} \cup Command
PlannerAnswers == IF EgoPlanner THEN {"good"} \cup Command ELSE {"good"}

\* A run of Boxer must leave the raw and the 3-D annotations; the scene graph
\* is optional, and it may find nothing.
BoxerAnswers == {"good", "noGraph", "nothing"} \cup Command

Answers == [probe |-> ProbeAnswers, text |-> TextAnswers, list |-> ListAnswers,
            image |-> ImageAnswers, world |-> WorldAnswers, render |-> RenderAnswers,
            boxer |-> BoxerAnswers, planner |-> PlannerAnswers, judge |-> JudgeAnswers,
            frames |-> FrameAnswers, none |-> {"good"}]

\* What the validators refuse besides an error.
SceneDefects == {"incomplete", "empty", "excessive"}
IncidentDefects == {"incomplete", "empty", "excessive"}
\* Mutant: an empty list of tasks is let through.
UncheckedTaskDefects == {"incomplete", "excessive"}
TaskDefects == {"incomplete", "empty", "excessive"}
CardDefects == {"incomplete", "empty"}
SiteStateDefects == {"incomplete", "empty"}

Probe == Stage("probe", {}, {}, {})
Scene == Stage("list", SceneDefects, {}, {})
ReferencePrompt == Stage("text", {}, {}, {})
ReferenceImage == Stage("image", {}, {}, {"image"})
World == Stage("world", {}, {}, {"world"})
MetricWorld == Stage("none", {}, {}, {})
InitialPoses == Stage("none", {}, {}, {})
Render == Stage("render", {}, {"world"}, {})
FirstBoxer == Stage("boxer", {}, {}, {})
Refinement == Stage("none", {}, {}, {})
ExtraViews == Stage("planner", {}, {}, {})
FinalBoxer == Stage("boxer", {"nothing"}, {}, {"boxes3d", "graph"})
Incidents == Stage("list", IncidentDefects, {}, {"incidents"})
Tasks == Stage("list", TaskDefects, {}, {"tasks"})
SampleSet == Stage("frames", {}, {}, {})
Quality == Stage("judge", {}, {}, {"judgement", "accepted"})
EvidenceCards == Stage("text", CardDefects, {}, {"cards"})
SiteState == Stage("text", SiteStateDefects, {}, {"siteState"})

\* What export_dataset copies, and what it makes itself.
Copied == {"accepted", "boxes3d", "graph", "incidents", "tasks", "cards", "siteState",
           "judgement", "world"}
Made == {"coco", "metadata", "zips"}
Export == Stage("none", {}, Copied, Made)

Table == <<Probe, Scene, ReferencePrompt, ReferenceImage, World, MetricWorld, InitialPoses,
           Render, FirstBoxer, Refinement, ExtraViews, Render, FinalBoxer,
           Incidents, Tasks, SampleSet, Quality, EvidenceCards, SiteState, Export>>

Artifacts == UNION {Table[n].writes : n \in Numbers}
Defects == {"incomplete", "empty", "excessive"}

-----------------------------------------------------------------------------
Ended == {"succeeded", "failed"}
Job == [status : {"none", "open", "queued", "running", "refused"} \cup Ended,
        born : Nat,                  \* order of created_at
        stage : {0} \cup Numbers,    \* current_stage
        reason : {"none", "between"} \cup {Stages[n] : n \in Numbers},
        mode : {"text", "photos"},
        asked : Nat,
        photos : Seq(Nat),
        exports : SUBSET Artifacts]
NoRequest == [status |-> "none", born |-> 0, stage |-> 0, reason |-> "none", mode |-> "text",
              asked |-> 0, photos |-> <<>>, exports |-> {}]

Row == {"pending", "running", "succeeded", "failed", "skipped"}
Content == {"absent", "good", "flawed"}

\* Where a worker is: "between" two stages, "inputs" between the first two.
Worker == [at : {"idle", "picked", "between", "inputs", "running", "hung", "raising", "ending"},
           job : Jobs \cup {NoJob},
           stage : {0} \cup Numbers,
           why : {"none", "between"} \cup {Stages[n] : n \in Numbers},
           inputs : SUBSET Nat]      \* photos in the inputs directory
IdleWorker == [at |-> "idle", job |-> NoJob, stage |-> 0, why |-> "none", inputs |-> {}]

EngineTypeOK ==
    /\ job \in [Jobs -> Job]
    /\ row \in [Jobs -> [Numbers -> Row]]
    /\ object \in [Jobs -> [stored : [Artifacts -> Content], exported : [Artifacts -> Content]]]
    /\ kept \in [Jobs -> SUBSET Nat]
    /\ dataset \in [Jobs -> [accepted : SUBSET Samples, exported : SUBSET Samples]]
    /\ worker \in [Workers -> Worker]
    /\ sent \in [Jobs -> SUBSET Nat]
    /\ verdict \in [Jobs -> SUBSET Verdicts]
    /\ struck \subseteq Jobs
    /\ faults \in 0 .. MaxFaults

Nothing == [x \in Artifacts |-> "absent"]

Init ==
    /\ job = [j \in Jobs |-> NoRequest]
    /\ row = [j \in Jobs |-> [n \in Numbers |-> "pending"]]
    /\ object = [j \in Jobs |-> [stored |-> Nothing, exported |-> Nothing]]
    /\ kept = [j \in Jobs |-> {}]
    /\ dataset = [j \in Jobs |-> [accepted |-> {}, exported |-> {}]]
    /\ worker = [w \in Workers |-> IdleWorker]
    /\ sent = [j \in Jobs |-> {}]
    /\ verdict = [j \in Jobs |-> {}]
    /\ struck = {}
    /\ faults = 0

Fault(kind) ==
    /\ kind \in FaultKinds
    /\ faults < MaxFaults
    /\ faults' = faults + 1

-----------------------------------------------------------------------------
(***************************************************************************)
(* The request                                                             *)
(***************************************************************************)
\* The row takes its created_at here; nobody sees it before the commit.
Open(j, r) ==
    /\ job[j].status = "none"
    /\ r.mode = "photos" => r.photos # <<>>
    /\ job' = [job EXCEPT ![j] =
                  [NoRequest EXCEPT !.status = "open", !.mode = r.mode, !.asked = r.asked,
                      !.photos = r.photos,
                      !.born = Cardinality({k \in Jobs : job[k].status # "none"})]]
    /\ UNCHANGED <<row, object, kept, dataset, worker, historyVars, faults>>

\* The key of a photo starts with a fresh uuid.
StorePhoto(j) ==
    LET next == Cardinality(kept[j]) + 1
    IN  /\ job[j].status = "open"
        /\ next <= Len(job[j].photos)
        /\ kept' = [kept EXCEPT ![j] = @ \cup {next}]
        /\ UNCHANGED <<job, row, object, dataset, worker, historyVars, faults>>

Commit(j) ==
    /\ job[j].status = "open"
    /\ Cardinality(kept[j]) = Len(job[j].photos)
    /\ job' = [job EXCEPT ![j].status = "queued"]
    /\ UNCHANGED <<row, object, kept, dataset, worker, historyVars, faults>>

\* An empty photo is refused; the rows are rolled back, the objects stay.
EmptyPhoto(j) ==
    /\ job[j].status = "open"
    /\ Cardinality(kept[j]) < Len(job[j].photos)
    /\ job' = [job EXCEPT ![j].status = "refused"]
    /\ UNCHANGED <<row, object, kept, dataset, worker, historyVars, faults>>

\* The server stops, or a store or the commit fails.
RequestFails(j) ==
    /\ job[j].status = "open"
    /\ \E kind \in FaultKinds : Fault(kind)
    /\ job' = [job EXCEPT ![j].status = "refused"]
    /\ UNCHANGED <<row, object, kept, dataset, worker, historyVars>>

Downloadable(j, x) == x \in job[j].exports /\ object[j].exported[x] # "absent"

-----------------------------------------------------------------------------
(***************************************************************************)
(* The worker                                                              *)
(***************************************************************************)
\* Mutant: failed jobs are tried again.
QueuedOrFailed == {j \in Jobs : job[j].status \in {"queued", "failed"}}
Queued == {j \in Jobs : job[j].status = "queued"}
Oldest == {j \in Queued : \A k \in Queued : job[j].born <= job[k].born}

\* process_next_queued_job reads the row without a lock.
Pick(w) ==
    /\ worker[w].at = "idle"
    /\ \E j \in Oldest :
          worker' = [worker EXCEPT ![w] = [IdleWorker EXCEPT !.at = "picked", !.job = j]]
    /\ UNCHANGED <<job, row, object, kept, dataset, historyVars, faults>>

Start(w) ==
    LET j == worker[w].job
    IN  /\ worker[w].at = "picked"
        /\ job' = [job EXCEPT ![j].status = "running"]
        /\ worker' = [worker EXCEPT ![w].at = "between", ![w].stage = 1]
        /\ UNCHANGED <<row, object, kept, dataset, historyVars, faults>>

\* Mutant: current_stage is not moved.
BeginStageSilently(w) ==
    LET j == worker[w].job
    IN  /\ worker[w].at = "between"
        /\ row' = [row EXCEPT ![j][worker[w].stage] = "running"]
        /\ worker' = [worker EXCEPT ![w].at = "running"]
        /\ UNCHANGED <<job, object, kept, dataset, historyVars, faults>>

BeginStage(w) ==
    LET j == worker[w].job
        n == worker[w].stage
    IN  /\ worker[w].at = "between"
        /\ row' = [row EXCEPT ![j][n] = "running"]
        /\ job' = [job EXCEPT ![j].stage = n]
        /\ worker' = [worker EXCEPT ![w].at = "running"]
        /\ UNCHANGED <<object, kept, dataset, historyVars, faults>>

In(w, name) == worker[w].at = "running" /\ Stages[worker[w].stage] = name
Now(w) == Table[worker[w].stage]

\* The stage's row and the worker's place after its operation.
StageEnds(w, status) ==
    LET n == worker[w].stage
    IN  /\ row' = [row EXCEPT ![worker[w].job][n] = status]
        /\ worker' = [worker EXCEPT ![w].at =
                         IF n = Len(Stages) THEN "ending" ELSE IF n = 1 THEN "inputs" ELSE "between",
                         ![w].stage = IF n = Len(Stages) THEN n ELSE n + 1]

StageRaises(w) ==
    /\ row' = [row EXCEPT ![worker[w].job][worker[w].stage] = "failed"]
    /\ worker' = [worker EXCEPT ![w].at = "raising", ![w].why = Stages[worker[w].stage]]

Settles(a) == a \notin {"error", "hangs"}
Accepts(w, a) == a \in Answers[Now(w).asks] \ Now(w).rejects /\ Settles(a)
Refuses(w, a) == a \in Answers[Now(w).asks] /\ (a = "error" \/ a \in Now(w).rejects)

\* shared storage has what the stage reads
ReadsOf(w) == Now(w).reads \cup (IF Stages[worker[w].stage] = "export" /\ job[worker[w].job].mode = "text"
                                 THEN {"image"} ELSE {})
HasReads(w) == \A x \in ReadsOf(w) : object[worker[w].job].stored[x] # "absent"

WrittenBy(w, a) == IF a = "noGraph" THEN Now(w).writes \ {"graph"} ELSE Now(w).writes
Store(w, a) ==
    object' = [object EXCEPT ![worker[w].job].stored =
                  [x \in Artifacts |-> IF x \notin WrittenBy(w, a) THEN @[x]
                                       ELSE IF a \in Defects THEN "flawed" ELSE "good"]]

Skippable(w) == In(w, "image") /\ job[worker[w].job].mode = "photos"
Plain(w) == /\ worker[w].at = "running"
            /\ Stages[worker[w].stage] \notin {"world", "quality", "export"}
            /\ ~Skippable(w)

StageSucceeds(w, a) ==
    /\ Plain(w) /\ Accepts(w, a) /\ HasReads(w)
    /\ Store(w, a)
    /\ StageEnds(w, "succeeded")
    /\ UNCHANGED <<job, kept, dataset, historyVars, faults>>

\* The reference image is drawn for text_to_world only.
SkipReferenceImage(w) ==
    /\ Skippable(w)
    /\ StageEnds(w, "skipped")
    /\ UNCHANGED <<job, object, kept, dataset, historyVars, faults>>

-----------------------------------------------------------------------------
(***************************************************************************)
(* Photos.  The worker copies each input to inputs/<file name>; of two      *)
(* photos with one name the later copy stays.  The world is made from at    *)
(* most MaxImages of the files, in the order of their names.                *)
(***************************************************************************)
SurvivorsOf(photos) ==
    LET at == DOMAIN photos
    IN  {S \in SUBSET at : \A p \in at : Cardinality({q \in S : photos[q] = photos[p]}) = 1}

CopyInputs(w) ==
    LET j == worker[w].job
    IN  /\ worker[w].at = "inputs"
        /\ \E S \in SurvivorsOf(job[j].photos) :
              worker' = [worker EXCEPT ![w].at = "between", ![w].inputs = S]
        /\ UNCHANGED <<job, row, object, kept, dataset, historyVars, faults>>

\* round(): to the nearest integer, a tie to the even one.
Rounded(a, b) ==
    LET q == a \div b
        r == a % b
    IN  IF 2 * r > b \/ (2 * r = b /\ q % 2 = 1) THEN q + 1 ELSE q

\* Mutant: the divisor is off by one.
SpacedFromTheEnd(n, max) == {Rounded(i * (n - 1), max) : i \in 0 .. max - 1}

\* _select_evenly_spaced_paths, as positions 0 .. n - 1.
Spaced(n, max) == {Rounded(i * (n - 1), max - 1) : i \in 0 .. max - 1}
Selected(n, max) ==
    IF n <= max THEN 0 .. n - 1
    ELSE LET free == (0 .. n - 1) \ Spaced(n, max)
             missing == max - Cardinality(Spaced(n, max))
         IN  Spaced(n, max) \cup {c \in free : Cardinality({d \in free : d < c}) < missing}

Place(p, S, photos) == Cardinality({q \in S : photos[q] < photos[p]})
Chosen(S, photos) == {p \in S : Place(p, S, photos) \in Selected(Cardinality(S), MaxImages)}

CreateWorld(w) ==
    LET j == worker[w].job
        S == worker[w].inputs
    IN  /\ In(w, "world")
        /\ job[j].mode = "photos" => S # {}
        /\ Store(w, "good")
        /\ sent' = [sent EXCEPT ![j] =
                       IF job[j].mode = "text" THEN {} ELSE Chosen(S, job[j].photos)]
        /\ StageEnds(w, "succeeded")
        /\ UNCHANGED <<job, kept, dataset, verdict, struck, faults>>

-----------------------------------------------------------------------------
\* float(qualityThreshold or 0.7)
Threshold(j) == IF job[j].asked = 0 THEN DefaultThreshold ELSE job[j].asked
\* Mutant: the judge's decision is not asked.
AcceptedByScore(v, threshold) == {s \in Samples : v[s].score >= threshold}
AcceptedBy(v, threshold) == {s \in Samples : v[s].accept /\ v[s].score >= threshold}

\* The judgements and both lists are written before an empty list is an error.
Judge(w, v) ==
    LET j == worker[w].job
        accepted == AcceptedBy(v, Threshold(j))
    IN  /\ In(w, "quality")
        /\ v \in Verdicts
        /\ Store(w, "good")
        /\ dataset' = [dataset EXCEPT ![j].accepted = accepted]
        /\ verdict' = [verdict EXCEPT ![j] = @ \cup {v}]
        /\ IF accepted = {} THEN StageRaises(w) ELSE StageEnds(w, "succeeded")
        /\ UNCHANGED <<job, kept, sent, struck, faults>>

\* export_dataset: its own objects first, then a copy of each source.
ExportDataset(w) ==
    LET j == worker[w].job
        stored == object[j].stored
    IN  /\ In(w, "export") /\ HasReads(w)
        /\ object' = [object EXCEPT ![j].exported =
                         [x \in Artifacts |-> IF x \in ReadsOf(w) THEN stored[x]
                                              ELSE IF x \in Made THEN "good" ELSE @[x]],
                         ![j].stored = [x \in Artifacts |-> IF x \in Made THEN "good" ELSE @[x]]]
        /\ dataset' = [dataset EXCEPT ![j].exported = dataset[j].accepted]
        /\ StageEnds(w, "succeeded")
        /\ UNCHANGED <<job, kept, historyVars, faults>>

\* A provider refuses or its answer does, or a source of the export is missing.
StageFails(w) ==
    /\ worker[w].at = "running" /\ ~Skippable(w)
    /\ \/ \E a \in Answers[Now(w).asks] : Refuses(w, a)
       \/ ~HasReads(w)
    /\ StageRaises(w)
    /\ UNCHANGED <<job, object, kept, dataset, historyVars, faults>>

\* _run_command waits for a command without a timeout.
StageHangs(w) ==
    /\ worker[w].at = "running"
    /\ "hangs" \in Answers[Now(w).asks]
    /\ worker' = [worker EXCEPT ![w].at = "hung"]
    /\ struck' = struck \cup {worker[w].job}
    /\ UNCHANGED <<job, row, object, kept, dataset, sent, verdict, faults>>

\* In a stage its handler names it; between two stages nothing names one.
RaisesHere(w) ==
    IF worker[w].at = "running" THEN StageRaises(w)
    ELSE /\ worker' = [worker EXCEPT ![w].at = "raising", ![w].why = "between"]
         /\ UNCHANGED row

StorageFails(w) ==
    /\ worker[w].at \in {"running", "inputs"} /\ ~Skippable(w)
    /\ Fault("storage")
    /\ RaisesHere(w)
    /\ UNCHANGED <<job, object, kept, dataset, historyVars>>

\* No connection for a read, and one again when the handlers commit.
ReadFails(w) ==
    /\ worker[w].at \in {"running", "inputs", "between"}
    /\ Fault("database")
    /\ RaisesHere(w)
    /\ UNCHANGED <<job, object, kept, dataset, historyVars>>

JobSucceeds(w) ==
    LET j == worker[w].job
    IN  /\ worker[w].at = "ending"
        /\ job' = [job EXCEPT ![j].status = "succeeded", ![j].stage = Len(Stages),
                              ![j].reason = "none",
                              ![j].exports = Copied \cup Made \cup
                                  (IF job[j].mode = "text" THEN {"image"} ELSE {})]
        /\ worker' = [worker EXCEPT ![w] = IdleWorker]
        /\ UNCHANGED <<row, object, kept, dataset, historyVars, faults>>

\* Mutant: the exception ends the worker's loop.
JobFailsAndStops(w) ==
    LET j == worker[w].job
    IN  /\ worker[w].at = "raising" /\ j # NoJob
        /\ job' = [job EXCEPT ![j].status = "failed", ![j].reason = worker[w].why]
        /\ worker' = [worker EXCEPT ![w].job = NoJob]
        /\ UNCHANGED <<row, object, kept, dataset, historyVars, faults>>

\* The exception is logged and the worker polls again.
JobFails(w) ==
    LET j == worker[w].job
    IN  /\ worker[w].at = "raising"
        /\ job' = [job EXCEPT ![j].status = "failed", ![j].reason = worker[w].why]
        /\ worker' = [worker EXCEPT ![w] = IdleWorker]
        /\ UNCHANGED <<row, object, kept, dataset, historyVars, faults>>

\* A commit fails, and then the one in the exception handler does: the session
\* was not rolled back.  Or the process is killed; systemd or Render starts it
\* again.  The rows stay as they are.
LosesTheJob(w) ==
    /\ worker[w].at # "idle"
    /\ \/ Fault("database") /\ worker[w].at # "hung"
       \/ Fault("crash")
    /\ struck' = struck \cup {worker[w].job}
    /\ worker' = [worker EXCEPT ![w] = IdleWorker]
    /\ UNCHANGED <<job, row, object, kept, dataset, sent, verdict>>

-----------------------------------------------------------------------------
Request(j) ==
    \/ \E r \in Requests : Open(j, r)
    \/ StorePhoto(j) \/ Commit(j) \/ EmptyPhoto(j) \/ RequestFails(j)

Operates(w) ==
    \/ \E a \in {"good", "noGraph", "nothing"} \cup Defects : StageSucceeds(w, a)
    \/ SkipReferenceImage(w) \/ CreateWorld(w)
    \/ \E v \in Verdicts : Judge(w, v)
    \/ ExportDataset(w)
    \/ StageFails(w) \/ StageHangs(w)

Works(w) ==
    \/ Pick(w) \/ Start(w) \/ BeginStage(w) \/ CopyInputs(w)
    \/ Operates(w) \/ JobSucceeds(w) \/ JobFails(w)

Next ==
    \/ \E j \in Jobs : Request(j)
    \/ \E w \in Workers : Works(w) \/ StorageFails(w) \/ ReadFails(w) \/ LosesTheJob(w)

Spec == Init /\ [][Next]_vars
FairSpec == Spec /\ \A w \in Workers : WF_vars(Works(w))

-----------------------------------------------------------------------------
(***************************************************************************)
(* Properties                                                              *)
(***************************************************************************)
\* What a succeeded job offers can be downloaded, is all of it, and none of it
\* has a defect a validator knows: pipeline.py:121-132, :597-663, router.py:190.
ExportsAreWhole ==
    \A j \in Jobs : job[j].status = "succeeded" =>
        /\ Copied \cup Made \subseteq job[j].exports
        /\ \A x \in job[j].exports : Downloadable(j, x) /\ object[j].exported[x] = "good"
        /\ \A n \in Numbers : row[j][n] \in {"succeeded", "skipped"}

\* The exported data set has a sample, and every sample of it was accepted by
\* the judge with a score the request asked for: pipeline.py:540-565.
OnlyAcceptedSamples ==
    \A j \in Jobs : job[j].status = "succeeded" =>
        /\ dataset[j].exported # {}
        /\ \A s \in dataset[j].exported : \E v \in verdict[j] :
              v[s].accept /\ v[s].score >= job[j].asked

\* A failed job names the stage that failed: the ones before it are closed, the
\* ones after it were not begun.  Inputs that cannot be copied and a read of the
\* database fail the job between two stages, with a reason that is no stage's;
\* it then names the last one that ended: pipeline.py:133-140, :144, :161-170, :668.
FailureIsTold ==
    \A j \in Jobs : job[j].status = "failed" =>
        LET n == job[j].stage
        IN  /\ \A k \in Numbers : k < n => row[j][k] \in {"succeeded", "skipped"}
            /\ \A k \in Numbers : k > n => row[j][k] = "pending"
            /\ \/ n \in Numbers /\ row[j][n] = "failed" /\ job[j].reason = Stages[n]
               \/ /\ n \in Numbers => row[j][n] \in {"succeeded", "skipped"}
                  /\ job[j].reason = "between"

\* A world made from photos used as many of them as it may, the first and the
\* last by name among them: pipeline.py:666-670, providers.py:647-666.
PhotosReachTheWorld ==
    \A j \in Jobs : job[j].mode = "photos" /\ row[j][5] = "succeeded" =>
        LET at == DOMAIN job[j].photos
            n == Cardinality(at)
        IN  /\ Cardinality(sent[j]) = (IF n < MaxImages THEN n ELSE MaxImages)
            /\ \A p \in at : Place(p, at, job[j].photos) \in {0, n - 1} => p \in sent[j]

\* An export fails for want of an object only when the storage failed: a
\* provider that left what it must leave is enough.  It does not hold, Boxer
\* need not leave the scene graph: providers.py:550, pipeline.py:404, :605,
\* docs/industrial-data-engine.md:54.
KeptContractsSuffice ==
    \A j \in Jobs : job[j].status = "failed" /\ job[j].reason = "export" => faults > 0

\* A failed job keeps a record of the stage that failed.  It does not hold for
\* inputs: pipeline.py:100, IndustrialDataEnginePage.tsx:185.
FailedStageIsKept ==
    \A j \in Jobs : job[j].status = "failed" => \E n \in Numbers : row[j][n] = "failed"

\* What the page shows of a job that ended never changes: no poll takes it again.
EndsStand ==
    [][\A j \in Jobs : job[j].status \in Ended =>
          /\ job'[j] = job[j] /\ row'[j] = row[j] /\ object'[j] = object[j]
          /\ dataset'[j] = dataset[j]]_vars

\* A job that waits is taken and ends, whatever became of the jobs before it,
\* unless it meets a fault or a worker waits for a command: worker.py:35-49.
JobsEnd ==
    \A j \in Jobs : job[j].status = "queued" ~>
        \/ job[j].status \in Ended
        \/ j \in struck
        \/ \E w \in Workers : worker[w].at = "hung"
=============================================================================
