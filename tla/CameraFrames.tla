---------------------------- MODULE CameraFrames ----------------------------
(***************************************************************************)
(* The frames of one factory camera, from the agent's spool to the          *)
(* analysis: planner-server/scripts/camera_agent.py captures a frame, keeps *)
(* it on disk and uploads it with three requests; routers/camera_ingest.py  *)
(* serves them, each in a thread and a session of its own;                  *)
(* camera_analysis_worker.py takes the oldest queued frame; an operator may *)
(* run scripts/purge_abnormal_camera_frames.py.                             *)
(*                                                                         *)
(* Frames are numbered in the order of their capture, which is the order of *)
(* their ids and of captured_at.  A handler has a read step and a commit    *)
(* step, because a session writes the attributes that differ from the ones  *)
(* it loaded, whatever the row holds by then.                               *)
(***************************************************************************)
EXTENDS Integers, FiniteSets, FiniteSetsExt

CONSTANTS
    MaxFrames,      \* frames the agent captures (bound)
    Pictures,       \* contents of a frame, told apart by their checksum
    Broken,         \* pictures _inspect_frame_image refuses
    Alerting,       \* pictures a watch zone raises an incident for
    Window,         \* captures within the duplicate window
    Threads,        \* request threads of the server
    FaultKinds,     \* the faults that may happen, see Fault
    MaxFaults,      \* faults of a behaviour (bound)
    Presigned       \* the storage gives presigned URLs (S3) or not (local files)

ASSUME CameraAssumption ==
    /\ MaxFrames \in Nat /\ MaxFaults \in Nat
    /\ Window \in Nat
    /\ Pictures # {}
    /\ Broken \subseteq Pictures /\ Alerting \subseteq Pictures
    /\ Presigned \in BOOLEAN

VARIABLES
    taken,          \* number of frames captured
    picture,        \* what each of them shows
    spool,          \* the files the agent has of it
    agent,          \* the agent's place in run_loop and its memory
    req,            \* the requests, one per thread
    row,            \* camera_frames
    object,         \* the frame is in the artifact storage
    camera,         \* latest_frame_id and last_frame_at of the camera's row
    worker,         \* the frame the analysis worker holds, and its verdict
    purge,          \* the purge script
    aged,           \* frames purge_expired_pending removed (history)
    purged,         \* frames the purge script removed (history)
    crossed,        \* frames two of whose completions overlapped (history)
    raised,         \* incidents committed for each frame
    faults          \* faults so far

agentVars == <<taken, picture, spool, agent, aged>>
rowVars == <<row, object, camera, crossed>>
workVars == <<worker, raised>>
purgeVars == <<purge, purged>>
vars == <<agentVars, req, rowVars, workVars, purgeVars, faults>>

Frames == 1 .. MaxFrames
Good(f) == picture[f] \notin Broken

NoRow == [upload |-> "none", analysis |-> "pending", expired |-> FALSE, seen |-> FALSE]
Row == [upload : {"none", "pending", "failed", "uploaded"},
        analysis : {"pending", "queued", "skipped", "failed", "succeeded"},
        expired : BOOLEAN,
        seen : BOOLEAN]     \* an equipment_state_observations row refers to it
Camera == [latest : 0 .. MaxFrames, lastAt : 0 .. MaxFrames]
NoCamera == [latest |-> 0, lastAt |-> 0]

NoRequest == [kind |-> "none", frame |-> 0, step |-> "sent", live |-> FALSE, ok |-> FALSE,
              url |-> FALSE, row |-> NoRow, camera |-> NoCamera]
Request == [kind : {"none", "intent", "put", "complete", "beat"},
            frame : 0 .. MaxFrames,     \* for a heartbeat, lastCapturedAt
            step : {"sent", "read", "answered"},
            live : BOOLEAN,             \* the agent still waits for the answer
            ok : BOOLEAN, url : BOOLEAN,
            row : Row, camera : Camera] \* what the session loaded
Agent == [pc : {"purge", "flush", "intent", "put", "complete", "wait", "image", "metadata",
                "capture", "record", "beat"},
          at : 0 .. MaxFrames,          \* the spooled frame flush_pending is at
          second : BOOLEAN,             \* the flush after the capture
          lastAt : 0 .. MaxFrames]      \* last_captured_at, in memory only
Started == [pc |-> "purge", at |-> 0, second |-> FALSE, lastAt |-> 0]

(***************************************************************************)
(* A fault of kind k happens, if the model allows that kind.  "lost": no    *)
(* connection.  "late": the client gives up while the server works on.      *)
(* "crash": the agent stops and systemd restarts it.  "torn": it stops      *)
(* inside write_text.  "age": spooled files are older than local_spool_     *)
(* hours.  "expire": an upload intent ends.  "worker": an iteration of the  *)
(* worker is rolled back.  "purge": the operator starts the purge script.   *)
(***************************************************************************)
Fault(k) ==
    /\ k \in FaultKinds
    /\ faults < MaxFaults
    /\ faults' = faults + 1

(***************************************************************************)
(* The agent.                                                               *)
(***************************************************************************)
Metadata == {f \in 1 .. taken : spool[f] \in {"torn", "ready", "bare"}}
Goto(pc) == agent' = [agent EXCEPT !.pc = pc]
\* A round starts over: whatever an exception left, the heartbeat comes next.
Raise == Goto("beat")

PurgeExpired ==
    /\ agent.pc = "purge"
    /\ \E last \in 0 .. taken :
        LET old == {f \in Metadata : f <= last}
            torn == {f \in old : spool[f] = "torn"}
        IN  /\ IF old = {} THEN UNCHANGED faults ELSE Fault("age")
            /\ \E removed \in SUBSET (old \ torn) :
                /\ torn = {} => removed = old
                /\ spool' = [f \in Frames |-> IF f \in removed THEN "none" ELSE spool[f]]
                /\ aged' = aged \cup removed
            /\ IF torn = {}
               THEN agent' = [pc |-> "flush", at |-> 0, second |-> FALSE, lastAt |-> agent.lastAt]
               ELSE Raise
    /\ UNCHANGED <<taken, picture, req, rowVars, workVars, purgeVars>>

Left == {f \in Metadata : f > agent.at}
FlushNext ==
    /\ agent.pc = "flush"
    /\ \E f \in Left :
        /\ \A g \in Left : f <= g
        /\ \/ /\ spool[f] = "torn"         \* json.loads raises
              /\ Raise
              /\ UNCHANGED spool
           \/ /\ spool[f] = "bare"         \* no image: drop the metadata
              /\ spool' = [spool EXCEPT ![f] = "none"]
              /\ agent' = [agent EXCEPT !.at = f]
           \/ /\ spool[f] = "ready"
              /\ agent' = [agent EXCEPT !.at = f, !.pc = "intent"]
              /\ UNCHANGED spool
    /\ UNCHANGED <<taken, picture, req, rowVars, workVars, purgeVars, aged, faults>>
FlushEnd ==
    /\ agent.pc = "flush"
    /\ Left = {}
    /\ Goto(IF agent.second THEN "beat" ELSE "capture")
    /\ UNCHANGED <<taken, picture, spool, req, rowVars, workVars, purgeVars, aged, faults>>

Capture ==
    /\ agent.pc = "capture"
    /\ \/ /\ taken < MaxFrames
          /\ taken' = taken + 1
          /\ \E p \in Pictures : picture' = [picture EXCEPT ![taken + 1] = p]
          /\ spool' = [spool EXCEPT ![taken + 1] = "image"]
          /\ Goto("record")
       \/ /\ Raise                          \* the camera gives no picture
          /\ UNCHANGED <<taken, picture, spool>>
    /\ UNCHANGED <<req, rowVars, workVars, purgeVars, aged, faults>>
Record ==
    /\ agent.pc = "record"
    /\ spool' = [spool EXCEPT ![taken] = "ready"]
    /\ agent' = [pc |-> "flush", at |-> 0, second |-> TRUE, lastAt |-> taken]
    /\ UNCHANGED <<taken, picture, req, rowVars, workVars, purgeVars, aged, faults>>

\* One HTTP request of the agent reaches a thread of the server.
Send(t) ==
    /\ req[t].kind = "none"
    /\ agent.pc \in {"intent", "put", "complete", "beat"}
    /\ req' = [req EXCEPT ![t] =
                 [NoRequest EXCEPT !.kind = agent.pc, !.live = TRUE,
                                   !.frame = IF agent.pc = "beat" THEN agent.lastAt ELSE agent.at]]
    /\ Goto("wait")
    /\ UNCHANGED <<taken, picture, spool, aged, rowVars, workVars, purgeVars, faults>>
\* The heartbeat is not due yet.
SkipBeat ==
    /\ agent.pc = "beat"
    /\ Goto("purge")
    /\ UNCHANGED <<taken, picture, spool, aged, req, rowVars, workVars, purgeVars, faults>>

\* A mistake NeverLost rules out: flush_pending removes the files also after a complete that failed.
FailedDrops(kind) ==
    CASE kind = "beat" -> "purge" [] kind = "complete" -> "image" [] OTHER -> "flush"
\* flush_pending goes on with the next file; an error of the heartbeat is only logged.
Failed(kind) == IF kind = "beat" THEN "purge" ELSE "flush"
Unreachable ==
    /\ agent.pc \in {"intent", "put", "complete", "beat"}
    /\ Fault("lost")
    /\ Goto(Failed(agent.pc))
    /\ UNCHANGED <<taken, picture, spool, aged, req, rowVars, workVars, purgeVars>>

\* Where the answer of the server sends the agent.
ReceivedPc(t) ==
    IF ~req[t].ok THEN Failed(req[t].kind)
    ELSE CASE req[t].kind = "intent" -> IF req[t].url THEN "put" ELSE "complete"
           [] req[t].kind = "put" -> "complete"
           [] req[t].kind = "complete" -> "image"
           [] OTHER -> "purge"
Receive(t) ==
    /\ req[t].live
    /\ req[t].step = "answered"
    /\ Goto(ReceivedPc(t))
    /\ req' = [req EXCEPT ![t] = NoRequest]
    /\ UNCHANGED <<taken, picture, spool, aged, rowVars, workVars, purgeVars, faults>>

\* HTTPError and URLError go on with the next file, any other error ends the round.
GiveUp(t) ==
    /\ req[t].live
    /\ Fault("late")
    /\ req' = [req EXCEPT ![t].live = FALSE]
    /\ \/ Goto(Failed(req[t].kind))
       \/ req[t].kind # "beat" /\ Raise
    /\ UNCHANGED <<taken, picture, spool, aged, rowVars, workVars, purgeVars>>
\* A request nobody waits for never arrives, or its answer is thrown away.
Forget(t) ==
    /\ req[t].kind # "none"
    /\ ~req[t].live
    /\ req[t].step \in {"sent", "answered"}
    /\ req' = [req EXCEPT ![t] = NoRequest]
    /\ UNCHANGED <<agentVars, rowVars, workVars, purgeVars, faults>>

UnlinkImage ==
    /\ agent.pc = "image"
    /\ spool' = [spool EXCEPT ![agent.at] = "bare"]
    /\ Goto("metadata")
    /\ UNCHANGED <<taken, picture, aged, req, rowVars, workVars, purgeVars, faults>>
UnlinkMetadata ==
    /\ agent.pc = "metadata"
    /\ spool' = [spool EXCEPT ![agent.at] = "none"]
    /\ Goto("flush")
    /\ UNCHANGED <<taken, picture, aged, req, rowVars, workVars, purgeVars, faults>>

Crash ==
    /\ \/ Fault("crash") /\ UNCHANGED spool
       \/ /\ agent.pc = "record"
          /\ Fault("torn")
          /\ spool' = [spool EXCEPT ![taken] = "torn"]
    /\ agent' = Started
    /\ req' = [t \in Threads |-> [req[t] EXCEPT !.live = FALSE]]
    /\ UNCHANGED <<taken, picture, aged, rowVars, workVars, purgeVars>>

(***************************************************************************)
(* The server: the first half of a handler loads the row and the camera and *)
(* judges them, the second half commits.                                    *)
(***************************************************************************)
Answered(t, ok, url) ==
    req' = [req EXCEPT ![t] =
              [req[t] EXCEPT !.step = "answered", !.ok = ok, !.url = url,
                             !.row = NoRow, !.camera = NoCamera]]
Refused(t) == Answered(t, FALSE, FALSE)
Accepted(t) == Answered(t, TRUE, FALSE)
Loaded(t, r, c) == req' = [req EXCEPT ![t].step = "read", ![t].row = r, ![t].camera = c]

UploadExpired(r) == r.expired
Refuses(t) ==
    LET r == row[req[t].frame]
    IN  CASE req[t].kind = "put" -> ~Presigned /\ (r.upload = "none" \/ UploadExpired(r))
          [] req[t].kind = "complete" ->
                \/ r.upload = "none"
                \/ r.upload # "uploaded" /\ (UploadExpired(r) \/ ~object[req[t].frame])
          [] OTHER -> FALSE
ReadRow(t) ==
    /\ req[t].kind \in {"intent", "put", "complete"}
    /\ req[t].step = "sent"
    /\ \/ Refuses(t) /\ Refused(t)
       \/ /\ ~Refuses(t)
          /\ CASE req[t].kind = "intent" -> Loaded(t, row[req[t].frame], NoCamera)
               [] req[t].kind = "put" -> Loaded(t, NoRow, NoCamera)
               [] OTHER -> Loaded(t, row[req[t].frame], camera)
    /\ UNCHANGED <<agentVars, rowVars, workVars, purgeVars, faults>>
ReadCamera(t) ==
    /\ req[t].kind = "beat"
    /\ req[t].step = "sent"
    /\ Loaded(t, NoRow, camera)
    /\ UNCHANGED <<agentVars, rowVars, workVars, purgeVars, faults>>

Serving(t, kind) == req[t].kind = kind /\ req[t].step = "read"

\* A mistake UploadedStays rules out: the intent writes the whole row it read.
IntendedWhole(r, loaded) ==
    IF loaded.upload = "uploaded" THEN r
    ELSE [r EXCEPT !.expired = FALSE, !.upload = "pending"]

\* A mistake Delivered rules out: the intent does not renew the expiry of a pending row.
IntendedOnce(r, loaded) ==
    IF loaded.upload \in {"uploaded", "pending"} THEN r
    ELSE [r EXCEPT !.expired = FALSE, !.upload = "pending"]
\* A new row, a fresh expiry for one that is not uploaded, nothing for one that is.
Intended(r, loaded) ==
    IF loaded.upload = "uploaded" THEN r
    ELSE [r EXCEPT !.expired = FALSE,
                   !.upload = IF loaded.upload = "pending" THEN r.upload ELSE "pending"]
CommitIntent(t) ==
    LET f == req[t].frame
        loaded == req[t].row
    IN  /\ Serving(t, "intent")
        /\ IF loaded.upload # "uploaded" /\ (loaded.upload = "none") # (row[f].upload = "none")
           THEN /\ Refused(t)           \* a second insert, or an update of no row
                /\ UNCHANGED row
           ELSE /\ row' = [row EXCEPT ![f] = Intended(row[f], loaded)]
                /\ Answered(t, TRUE, row'[f].upload # "uploaded")
        /\ UNCHANGED <<agentVars, object, camera, crossed, workVars, purgeVars, faults>>

CommitPut(t) ==
    /\ Serving(t, "put")
    /\ object' = [object EXCEPT ![req[t].frame] = TRUE]
    /\ Accepted(t)
    /\ UNCHANGED <<agentVars, row, camera, crossed, workVars, purgeVars, faults>>

\* A session writes an attribute only if the handler changed what it had loaded.
Written(now, loaded, value) == IF value = loaded THEN now ELSE value
PointsTo(f, loaded) ==
    IF f < loaded.lastAt /\ loaded.latest # 0
    THEN camera
    ELSE [latest |-> Written(camera.latest, loaded.latest, f),
          lastAt |-> Written(camera.lastAt, loaded.lastAt, f)]
Completed(r) == [r EXCEPT !.upload = "uploaded", !.analysis = "queued"]
MarkedFailed(r, loaded) ==
    [r EXCEPT !.upload = "failed",
              !.analysis = Written(r.analysis, loaded.analysis, "pending")]
CommitComplete(t) ==
    LET f == req[t].frame
        loaded == req[t].row
    IN  /\ Serving(t, "complete")
        /\ \/ /\ loaded.upload = "uploaded"         \* it was completed before
              /\ camera' = PointsTo(f, req[t].camera)
              /\ Accepted(t)
              /\ UNCHANGED <<row, crossed>>
           \/ /\ loaded.upload # "uploaded"
              /\ row[f].upload = "none"             \* the row is gone
              /\ Refused(t)
              /\ UNCHANGED <<row, camera, crossed>>
           \/ /\ loaded.upload # "uploaded" /\ row[f].upload # "none" /\ ~Good(f)
              /\ row' = [row EXCEPT ![f] = MarkedFailed(row[f], loaded)]
              /\ Refused(t)
              /\ UNCHANGED <<camera, crossed>>
           \/ /\ loaded.upload # "uploaded" /\ row[f].upload # "none" /\ Good(f)
              /\ row' = [row EXCEPT ![f] = Completed(row[f])]
              /\ camera' = PointsTo(f, req[t].camera)
              \* The session had loaded it before another one completed it.
              /\ crossed' = IF row[f].upload = "uploaded" THEN crossed \cup {f} ELSE crossed
              /\ Accepted(t)
        /\ UNCHANGED <<agentVars, object, workVars, purgeVars, faults>>

\* A mistake PointerServes rules out: the heartbeat moves the pointer along with the time.
BeatenPoints(t) ==
    IF req[t].frame = 0 THEN camera ELSE [latest |-> req[t].frame, lastAt |-> req[t].frame]
\* lastCapturedAt of the heartbeat, if there is one, becomes last_frame_at.
Beaten(t) ==
    IF req[t].frame = 0 THEN camera
    ELSE [camera EXCEPT !.lastAt = Written(@, req[t].camera.lastAt, req[t].frame)]
CommitBeat(t) ==
    /\ Serving(t, "beat")
    /\ camera' = Beaten(t)
    /\ Accepted(t)
    /\ UNCHANGED <<agentVars, row, object, crossed, workVars, purgeVars, faults>>

\* The time of an upload intent runs out.
Expire ==
    /\ \E f \in Frames :
        /\ row[f].upload \in {"pending", "failed"}
        /\ ~row[f].expired
        /\ row' = [row EXCEPT ![f].expired = TRUE]
    /\ Fault("expire")
    /\ UNCHANGED <<agentVars, req, object, camera, crossed, workVars, purgeVars>>

(***************************************************************************)
(* The analysis worker.                                                     *)
(***************************************************************************)
Idle == [frame |-> 0, verdict |-> "failed", saw |-> FALSE]
Queued == {f \in Frames : row[f].upload = "uploaded" /\ row[f].analysis = "queued"}
SameChecksum(f) ==
    {g \in Frames \ {f} : row[g].upload = "uploaded" /\ picture[g] = picture[f]}
\* The newest other frame with this checksum, though it be the later one of the two.
ShouldSkipDuplicate(f) ==
    \E g \in SameChecksum(f) :
        /\ \A h \in SameChecksum(f) : h <= g
        /\ f - g < Window

TakeFrame ==
    /\ worker = Idle
    /\ \E f \in Queued :
        /\ \A g \in Queued : f <= g
        /\ \/ /\ ~object[f]
              /\ worker' = [frame |-> f, verdict |-> "failed", saw |-> FALSE]
           \/ /\ object[f] /\ ShouldSkipDuplicate(f)
              /\ worker' = [frame |-> f, verdict |-> "skipped", saw |-> FALSE]
           \/ /\ object[f] /\ ~ShouldSkipDuplicate(f)
              /\ \E v \in {"failed", "succeeded"} :
                    worker' = [frame |-> f, verdict |-> v, saw |-> TRUE]
    /\ UNCHANGED <<agentVars, req, rowVars, raised, purgeVars, faults>>

\* A mistake Settled rules out: a duplicate is skipped without a note in its row.
AnalysedSilently(r) ==
    IF worker.verdict = "skipped" THEN r
    ELSE [r EXCEPT !.analysis = worker.verdict, !.seen = @ \/ worker.saw]
Analysed(r) == [r EXCEPT !.analysis = worker.verdict, !.seen = @ \/ worker.saw]
Raises == worker.verdict = "succeeded" /\ picture[worker.frame] \in Alerting
CommitAnalysis ==
    LET f == worker.frame
    IN  /\ worker # Idle
        /\ row[f].upload # "none"
        /\ row' = [row EXCEPT ![f] = Analysed(row[f])]
        /\ raised' = [raised EXCEPT ![f] = IF Raises THEN @ + 1 ELSE @]
        /\ worker' = Idle
        /\ UNCHANGED <<agentVars, req, object, camera, crossed, purgeVars, faults>>

\* A mistake RaisedOnce rules out: create_incident commits by itself.
RollBackKeeps ==
    /\ worker # Idle
    /\ IF row[worker.frame].upload = "none" THEN UNCHANGED faults ELSE Fault("worker")
    /\ worker' = Idle
    /\ raised' = [raised EXCEPT ![worker.frame] = IF Raises THEN @ + 1 ELSE @]
    /\ UNCHANGED <<agentVars, req, rowVars, purgeVars>>
\* An exception or a restart rolls the whole iteration back, incidents included.
RollBack ==
    /\ worker # Idle
    /\ IF row[worker.frame].upload = "none" THEN UNCHANGED faults ELSE Fault("worker")
    /\ worker' = Idle
    /\ UNCHANGED <<agentVars, req, rowVars, raised, purgeVars>>

(***************************************************************************)
(* The purge script, run by hand.                                           *)
(***************************************************************************)
Off == [step |-> "off", kept |-> {}, batch |-> {}]
Failing == {f \in Frames : /\ row[f].upload # "none"
                           /\ row[f].upload = "failed" \/ row[f].analysis = "failed"}

\* The frames to keep are read once, before the first batch.
StartPurge ==
    /\ purge = Off
    /\ Fault("purge")
    /\ purge' = [step |-> "scan", kept |-> {camera.latest}, batch |-> {}]
    /\ UNCHANGED <<agentVars, req, rowVars, workVars, purged>>
SelectBatch ==
    /\ purge.step = "scan"
    /\ LET batch == Failing \ purge.kept
       IN  purge' = IF batch = {} THEN Off ELSE [purge EXCEPT !.step = "delete", !.batch = batch]
    /\ UNCHANGED <<agentVars, req, rowVars, workVars, purged, faults>>
DeleteObjects ==
    /\ purge.step = "delete"
    /\ object' = [f \in Frames |-> object[f] /\ f \notin purge.batch]
    /\ purge' = [purge EXCEPT !.step = "commit"]
    /\ UNCHANGED <<agentVars, req, row, camera, crossed, workVars, purged, faults>>
\* The foreign key of an observation refuses the whole batch, and the script ends.
DeleteRows ==
    /\ purge.step = "commit"
    /\ IF \E f \in purge.batch : row[f].seen
       THEN /\ purge' = Off
            /\ UNCHANGED <<row, purged>>
       ELSE /\ row' = [f \in Frames |-> IF f \in purge.batch THEN NoRow ELSE row[f]]
            /\ purged' = purged \cup purge.batch
            /\ purge' = [purge EXCEPT !.step = "scan", !.batch = {}]
    /\ UNCHANGED <<agentVars, req, object, camera, crossed, workVars, faults>>
StopPurge ==
    /\ purge # Off
    /\ purge' = Off
    /\ UNCHANGED <<agentVars, req, rowVars, workVars, purged, faults>>

-----------------------------------------------------------------------------
Init ==
    /\ taken = 0
    /\ picture \in [Frames -> {CHOOSE p \in Pictures : TRUE}]
    /\ spool = [f \in Frames |-> "none"]
    /\ agent = Started
    /\ req = [t \in Threads |-> NoRequest]
    /\ row = [f \in Frames |-> NoRow]
    /\ object = [f \in Frames |-> FALSE]
    /\ camera = NoCamera
    /\ worker = Idle
    /\ purge = Off
    /\ aged = {} /\ purged = {} /\ crossed = {}
    /\ raised = [f \in Frames |-> 0]
    /\ faults = 0

AgentStep ==
    \/ PurgeExpired \/ FlushNext \/ FlushEnd \/ Capture \/ Record
    \/ SkipBeat \/ UnlinkImage \/ UnlinkMetadata
    \/ \E t \in Threads : Send(t) \/ Receive(t)
Serve(t) ==
    \/ ReadRow(t) \/ ReadCamera(t)
    \/ CommitIntent(t) \/ CommitPut(t) \/ CommitComplete(t) \/ CommitBeat(t)
    \/ Forget(t)
WorkerStep == TakeFrame \/ CommitAnalysis
PurgeStep == StartPurge \/ SelectBatch \/ DeleteObjects \/ DeleteRows \/ StopPurge
FaultStep == Unreachable \/ Crash \/ Expire \/ RollBack \/ \E t \in Threads : GiveUp(t)

Next ==
    \/ AgentStep
    \/ \E t \in Threads : Serve(t)
    \/ WorkerStep
    \/ PurgeStep
    \/ FaultStep

Spec == Init /\ [][Next]_vars

(***************************************************************************)
(* systemd keeps the agent and Render the worker running; a request thread  *)
(* ends.  Faults are bounded and happen or not.  The heartbeat needs no     *)
(* fairness of its own.                                                     *)
(***************************************************************************)
FairSpec ==
    /\ Spec
    /\ WF_vars(AgentStep)
    /\ \A t \in Threads : WF_vars(Serve(t))
    /\ WF_vars(WorkerStep)

-----------------------------------------------------------------------------
TypeOK ==
    /\ taken \in 0 .. MaxFrames
    /\ picture \in [Frames -> Pictures]
    /\ spool \in [Frames -> {"none", "image", "torn", "ready", "bare"}]
    /\ agent \in Agent
    /\ req \in [Threads -> Request]
    /\ row \in [Frames -> Row]
    /\ object \in [Frames -> BOOLEAN]
    /\ camera \in Camera
    /\ worker \in [frame : 0 .. MaxFrames, verdict : {"skipped", "failed", "succeeded"},
                   saw : BOOLEAN]
    /\ purge \in [step : {"off", "scan", "delete", "commit"}, kept : SUBSET (0 .. MaxFrames),
                  batch : SUBSET Frames]
    /\ aged \subseteq Frames /\ purged \subseteq Frames /\ crossed \subseteq Frames
    /\ raised \in [Frames -> Nat]
    /\ faults \in 0 .. MaxFaults

(***************************************************************************)
(* The spool lets go of a frame only when the server has it: files are      *)
(* removed after a complete that answered well (flush_pending), so that     *)
(* whatever was lost, late or interrupted, a sound frame without its files  *)
(* is an uploaded row, unless it grew too old or the script removed it.     *)
(***************************************************************************)
Uploaded(f) == row[f].upload = "uploaded"
NeverLost ==
    \A f \in 1 .. taken :
        Good(f) /\ spool[f] \in {"none", "bare"} => Uploaded(f) \/ f \in aged \cup purged

(***************************************************************************)
(* An uploaded row stays uploaded until the purge script deletes it: an     *)
(* intent or a completion that read the row before another request          *)
(* completed it does not take that back.                                    *)
(***************************************************************************)
UploadedStays == [][\A f \in Frames : Uploaded(f) => Uploaded(f)' \/ f \in purged']_vars

(***************************************************************************)
(* A frame raises at most one incident: an iteration that is rolled back, a *)
(* restart of the worker, a complete request sent again after the first one *)
(* was committed, and a row the script removed and the agent uploads again  *)
(* raise no second one (_maybe_create_incident commits with the frame's     *)
(* status).  Two complete requests that both loaded the row before either   *)
(* committed are excepted: complete_upload queues the frame twice.          *)
(***************************************************************************)
RaisedOnce == \A f \in Frames \ crossed : raised[f] <= 1

\* Without the exception: one incident a frame, though its completions overlap.
OneIncident == \A f \in Frames : raised[f] <= 1

(***************************************************************************)
(* The camera's pointer names a frame whose image can be served: it is set  *)
(* in the commit that uploads the frame, and only the script removes rows.  *)
(***************************************************************************)
PointerServes == camera.latest # 0 => Uploaded(camera.latest) \/ camera.latest \in purged

\* The view shows the newest uploaded frame (docs/factory-camera-latest-frame-view.md:6).
LatestIsNewest ==
    \A f \in Frames : camera.latest # 0 /\ Uploaded(f) => f <= camera.latest

(***************************************************************************)
(* What a network failure or a restart left in the spool is uploaded        *)
(* afterwards (flush_pending; the runbook's smoke test), unless it grew too *)
(* old meanwhile.                                                           *)
(***************************************************************************)
Delivered ==
    \A f \in Frames :
        spool[f] = "ready" /\ Good(f) ~> Uploaded(f) \/ f \in aged \cup purged

(***************************************************************************)
(* The agent comes back to its capture again and again: "capture one JPEG   *)
(* every 10 seconds" (docs/factory-camera-ingest.md:125).                   *)
(***************************************************************************)
KeepsCapturing == []<>(agent.pc = "capture")

\* A queued frame does not stay queued: the worker gets to it.
Settled == \A f \in Frames : f \in Queued ~> f \notin Queued

=============================================================================
