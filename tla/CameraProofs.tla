---------------------------- MODULE CameraProofs ----------------------------
(***************************************************************************)
(* Proofs about CameraFrames, for any number of frames, threads and faults. *)
(***************************************************************************)
EXTENDS CameraFrames, TLAPS

LEMMA NoRequestTyped == NoRequest \in Request /\ NoRow \in Row /\ NoCamera \in Camera
  BY CameraAssumption DEF NoRequest, Request, NoRow, Row, NoCamera, Camera

\* Who the agent waits for and which frame it is at.
InStep ==
    /\ agent.pc \in {"intent", "put", "complete", "image", "metadata"} => agent.at \in 1 .. taken
    /\ agent.pc = "record" => taken >= 1
    /\ agent.lastAt <= taken
    /\ \A t \in Threads :
        /\ req[t].live => agent.pc = "wait"
        /\ req[t].live /\ req[t].kind # "beat" => req[t].frame = agent.at
        /\ req[t].kind \in {"intent", "put", "complete"} => req[t].frame \in 1 .. taken
        /\ req[t].kind = "none" => ~req[t].live
        /\ \A u \in Threads : req[t].live /\ req[u].live => t = u

\* A request's frame, read or answered, keeps its type.
LEMMA AnsweredTyped ==
    ASSUME TypeOK, NEW t \in Threads, NEW ok \in BOOLEAN, NEW url \in BOOLEAN,
           Answered(t, ok, url)
    PROVE  req' \in [Threads -> Request]
<1>1. req[t] \in Request
  BY DEF TypeOK
<1>2. [req[t] EXCEPT !.step = "answered", !.ok = ok, !.url = url,
                     !.row = NoRow, !.camera = NoCamera] \in Request
  BY <1>1, NoRequestTyped DEF Request
<1>. QED
  BY <1>2 DEF Answered, TypeOK

LEMMA LoadedTyped ==
    ASSUME TypeOK, NEW t \in Threads, NEW r \in Row, NEW c \in Camera, Loaded(t, r, c)
    PROVE  req' \in [Threads -> Request]
<1>1. req[t] \in Request
  BY DEF TypeOK
<1>2. [req[t] EXCEPT !.step = "read", !.row = r, !.camera = c] \in Request
  BY <1>1 DEF Request
<1>. QED
  BY <1>2 DEF Loaded, TypeOK

LEMMA WrittenTyped ==
    ASSUME TypeOK, NEW c \in Camera, NEW f \in Frames
    PROVE  PointsTo(f, c) \in Camera
  BY CameraAssumption DEF TypeOK, PointsTo, Written, Camera, Frames

LEMMA TypeStep == TypeOK /\ InStep /\ [Next]_vars => TypeOK'
<1>. SUFFICES ASSUME TypeOK, InStep, [Next]_vars PROVE TypeOK'
  OBVIOUS
<1>. USE CameraAssumption
<1>0. /\ agent \in Agent
      /\ \A t \in Threads : req[t] \in Request
      /\ \A f \in Frames : row[f] \in Row
      /\ camera \in Camera
  BY DEF TypeOK
<1>1. CASE UNCHANGED vars
  BY <1>1 DEF TypeOK, vars, agentVars, rowVars, workVars, purgeVars
<1>2. CASE PurgeExpired
  <2>1. agent' \in Agent
    <3>1. \/ agent' = [pc |-> "flush", at |-> 0, second |-> FALSE, lastAt |-> agent.lastAt]
          \/ agent' = [agent EXCEPT !.pc = "beat"]
      BY <1>2 DEF PurgeExpired, Raise, Goto
    <3>2. agent \in Agent
      BY <1>0
    <3>3. [pc |-> "flush", at |-> 0, second |-> FALSE, lastAt |-> agent.lastAt] \in Agent
      BY <3>2 DEF Agent
    <3>4. [agent EXCEPT !.pc = "beat"] \in Agent
      BY <3>2 DEF Agent
    <3>. QED
      BY <3>1, <3>3, <3>4
  <2>2. spool' \in [Frames -> {"none", "image", "torn", "ready", "bare"}] /\ aged' \subseteq Frames
    <3>1. PICK removed \in SUBSET Metadata :
            /\ spool' = [f \in Frames |-> IF f \in removed THEN "none" ELSE spool[f]]
            /\ aged' = aged \cup removed
      BY <1>2 DEF PurgeExpired
    <3>2. Metadata \subseteq Frames
      BY DEF Metadata, Frames, TypeOK
    <3>. QED
      BY <3>1, <3>2 DEF TypeOK
  <2>3. faults' \in 0 .. MaxFaults
    BY <1>2 DEF TypeOK, PurgeExpired, Fault
  <2>. QED
    BY <2>1, <2>2, <2>3, <1>2 DEF TypeOK, PurgeExpired, rowVars, workVars, purgeVars
<1>3. CASE FlushNext
  <2>0. PICK f \in Left : \/ Raise /\ UNCHANGED spool
                          \/ /\ spool' = [spool EXCEPT ![f] = "none"]
                             /\ agent' = [agent EXCEPT !.at = f]
                          \/ /\ agent' = [agent EXCEPT !.at = f, !.pc = "intent"]
                             /\ UNCHANGED spool
    BY <1>3 DEF FlushNext
  <2>1. f \in Frames /\ f \in 0 .. MaxFrames
    BY DEF Left, Metadata, Frames, TypeOK
  <2>2. agent' \in Agent
    BY <2>0, <2>1, <1>0 DEF Raise, Goto, Agent
  <2>3. spool' \in [Frames -> {"none", "image", "torn", "ready", "bare"}]
    BY <2>0, <2>1 DEF TypeOK
  <2>. QED
    BY <2>2, <2>3, <1>3 DEF TypeOK, FlushNext, rowVars, workVars, purgeVars
<1>4. CASE FlushEnd
  BY <1>4, <1>0 DEF TypeOK, FlushEnd, Goto, Agent, rowVars, workVars, purgeVars
<1>5. CASE Capture
  <2>1. agent' \in Agent
    BY <1>5, <1>0 DEF Capture, Raise, Goto, Agent
  <2>2. taken' \in 0 .. MaxFrames
    BY <1>5 DEF TypeOK, Capture
  <2>3. picture' \in [Frames -> Pictures] /\ spool' \in [Frames -> {"none", "image", "torn", "ready", "bare"}]
    <3>1. CASE UNCHANGED <<picture, spool>>
      BY <3>1 DEF TypeOK
    <3>2. CASE /\ \E p \in Pictures : picture' = [picture EXCEPT ![taken + 1] = p]
               /\ spool' = [spool EXCEPT ![taken + 1] = "image"]
      <4>1. PICK p \in Pictures : picture' = [picture EXCEPT ![taken + 1] = p]
        BY <3>2
      <4>2. picture' \in [Frames -> Pictures]
        BY <4>1 DEF TypeOK
      <4>3. spool' \in [Frames -> {"none", "image", "torn", "ready", "bare"}]
        BY <3>2 DEF TypeOK
      <4>. QED
        BY <4>2, <4>3
    <3>. QED
      BY <3>1, <3>2, <1>5 DEF Capture
  <2>. QED
    BY <2>1, <2>2, <2>3, <1>5 DEF TypeOK, Capture, rowVars, workVars, purgeVars
<1>6. CASE Record
  <2>1. agent' \in Agent
    BY <1>6 DEF Record, Agent, TypeOK
  <2>2. spool' \in [Frames -> {"none", "image", "torn", "ready", "bare"}]
    BY <1>6 DEF TypeOK, Record
  <2>. QED
    BY <2>1, <2>2, <1>6 DEF TypeOK, Record, rowVars, workVars, purgeVars
<1>7. CASE SkipBeat
  BY <1>7, <1>0 DEF TypeOK, SkipBeat, Goto, Agent, rowVars, workVars, purgeVars
<1>8. CASE UnlinkImage
  BY <1>8, <1>0 DEF TypeOK, UnlinkImage, Goto, Agent, rowVars, workVars, purgeVars
<1>9. CASE UnlinkMetadata
  BY <1>9, <1>0 DEF TypeOK, UnlinkMetadata, Goto, Agent, rowVars, workVars, purgeVars
<1>10. ASSUME NEW t \in Threads, Send(t) PROVE TypeOK'
  <2>1. [NoRequest EXCEPT !.kind = agent.pc, !.live = TRUE,
                          !.frame = IF agent.pc = "beat" THEN agent.lastAt ELSE agent.at] \in Request
    BY <1>10, <1>0, NoRequestTyped DEF Send, Request, Agent
  <2>2. agent' \in Agent
    BY <1>10, <1>0 DEF Send, Goto, Agent
  <2>. QED
    BY <2>1, <2>2, <1>10 DEF TypeOK, Send, rowVars, workVars, purgeVars
<1>11. ASSUME NEW t \in Threads, Receive(t) PROVE TypeOK'
  <2>1. agent' \in Agent
    BY <1>11, <1>0 DEF Receive, ReceivedPc, Goto, Agent, Failed
  <2>. QED
    BY <2>1, <1>11, NoRequestTyped DEF TypeOK, Receive, rowVars, workVars, purgeVars
<1>12. ASSUME NEW t \in Threads, ReadRow(t) PROVE TypeOK'
  <2>1. CASE Refused(t)
    <3>1. req' \in [Threads -> Request]
      BY <2>1, AnsweredTyped DEF Refused
    <3>. QED
      BY <3>1, <1>12 DEF TypeOK, ReadRow, agentVars, rowVars, workVars, purgeVars
  <2>2. CASE ~Refused(t)
    <3>1. PICK r \in Row, c \in Camera : Loaded(t, r, c)
      <4>1. row[req[t].frame] \in Row
        BY <1>12, <1>0 DEF ReadRow, InStep, TypeOK, Frames
      <4>. QED
        BY <4>1, <2>2, <1>12, <1>0, NoRequestTyped DEF ReadRow
    <3>2. req' \in [Threads -> Request]
      BY <3>1, LoadedTyped
    <3>. QED
      BY <3>2, <1>12 DEF TypeOK, ReadRow, agentVars, rowVars, workVars, purgeVars
  <2>. QED
    BY <2>1, <2>2
<1>13. ASSUME NEW t \in Threads, ReadCamera(t) PROVE TypeOK'
  <2>1. req' \in [Threads -> Request]
    BY <1>13, <1>0, NoRequestTyped, LoadedTyped DEF ReadCamera
  <2>. QED
    BY <2>1, <1>13 DEF TypeOK, ReadCamera, agentVars, rowVars, workVars, purgeVars
<1>14. ASSUME NEW t \in Threads, CommitIntent(t) PROVE TypeOK'
  <2>0. req[t].frame \in Frames
    BY <1>14, <1>0 DEF CommitIntent, Serving, InStep, TypeOK, Frames
  <2>1. Intended(row[req[t].frame], req[t].row) \in Row
    BY <2>0, <1>0 DEF Intended, Row
  <2>2. row' \in [Frames -> Row]
    BY <2>0, <2>1, <1>14 DEF CommitIntent, TypeOK
  <2>3. req' \in [Threads -> Request]
    BY <1>14, AnsweredTyped DEF CommitIntent, Refused
  <2>. QED
    BY <2>2, <2>3, <1>14 DEF TypeOK, CommitIntent, agentVars, workVars, purgeVars
<1>15. ASSUME NEW t \in Threads, CommitPut(t) PROVE TypeOK'
  <2>1. req' \in [Threads -> Request]
    BY <1>15, AnsweredTyped DEF CommitPut, Accepted
  <2>. QED
    BY <2>1, <1>15 DEF TypeOK, CommitPut, agentVars, workVars, purgeVars
<1>16. ASSUME NEW t \in Threads, CommitComplete(t) PROVE TypeOK'
  <2>0. req[t].frame \in Frames /\ req[t].camera \in Camera /\ req[t].row \in Row
    BY <1>16, <1>0 DEF CommitComplete, Serving, InStep, TypeOK, Frames, Request
  <2>1. PointsTo(req[t].frame, req[t].camera) \in Camera
    BY <2>0, WrittenTyped
  <2>2. Completed(row[req[t].frame]) \in Row /\ MarkedFailed(row[req[t].frame], req[t].row) \in Row
    BY <2>0, <1>0 DEF Completed, MarkedFailed, Written, Row
  <2>3. row' \in [Frames -> Row]
    BY <2>0, <2>2, <1>16 DEF CommitComplete, TypeOK
  <2>4. camera' \in Camera
    BY <2>1, <1>0, <1>16 DEF CommitComplete
  <2>5. crossed' \subseteq Frames
    BY <2>0, <1>16 DEF CommitComplete, TypeOK
  <2>6. req' \in [Threads -> Request]
    BY <1>16, AnsweredTyped DEF CommitComplete, Refused, Accepted
  <2>. QED
    BY <2>3, <2>4, <2>5, <2>6, <1>16 DEF TypeOK, CommitComplete, agentVars, workVars, purgeVars
<1>17. ASSUME NEW t \in Threads, CommitBeat(t) PROVE TypeOK'
  <2>1. req' \in [Threads -> Request]
    BY <1>17, AnsweredTyped DEF CommitBeat, Accepted
  <2>2. camera' \in Camera
    BY <1>17, <1>0 DEF CommitBeat, Beaten, Written, Camera, Request
  <2>. QED
    BY <2>1, <2>2, <1>17 DEF TypeOK, CommitBeat, agentVars, workVars, purgeVars
<1>18. ASSUME NEW t \in Threads, Forget(t) PROVE TypeOK'
  BY <1>18, NoRequestTyped DEF TypeOK, Forget, agentVars, rowVars, workVars, purgeVars
<1>19. CASE TakeFrame
  <2>1. PICK f \in Queued :
            \E v \in {"skipped", "failed", "succeeded"}, b \in BOOLEAN :
                worker' = [frame |-> f, verdict |-> v, saw |-> b]
    BY <1>19 DEF TakeFrame
  <2>2. f \in 0 .. MaxFrames
    BY DEF Queued, Frames
  <2>. QED
    BY <2>1, <2>2, <1>19 DEF TypeOK, TakeFrame, agentVars, rowVars, purgeVars
<1>20. CASE CommitAnalysis
  <2>0. worker.verdict \in {"skipped", "failed", "succeeded"} /\ worker.saw \in BOOLEAN
    BY DEF TypeOK
  <2>1. ASSUME worker.frame \in Frames PROVE Analysed(row[worker.frame]) \in Row
    <3>1. row[worker.frame] \in Row
      BY <2>1, <1>0
    <3>2. (row[worker.frame].seen \/ worker.saw) \in BOOLEAN
      OBVIOUS
    <3>. QED
      BY <3>1, <3>2, <2>0 DEF Analysed, Row
  <2>2. row' \in [Frames -> Row]
    BY <2>1, <1>20 DEF CommitAnalysis, TypeOK
  <2>3. raised' \in [Frames -> Nat]
    <3>1. \/ raised' = raised
          \/ raised' = [raised EXCEPT ![worker.frame] = @ + 1]
          \/ raised' = [raised EXCEPT ![worker.frame] = @]
      BY <1>20 DEF CommitAnalysis
    <3>. QED
      BY <3>1 DEF TypeOK
  <2>4. worker' \in [frame : 0 .. MaxFrames, verdict : {"skipped", "failed", "succeeded"}, saw : BOOLEAN]
    BY <1>20 DEF CommitAnalysis, Idle
  <2>. QED
    BY <2>2, <2>3, <2>4, <1>20 DEF CommitAnalysis, TypeOK, agentVars, purgeVars
<1>21. CASE StartPurge
  BY <1>21 DEF TypeOK, StartPurge, Fault, Camera, agentVars, rowVars, workVars
<1>22. CASE SelectBatch
  BY <1>22 DEF TypeOK, SelectBatch, Off, Failing, agentVars, rowVars, workVars
<1>23. CASE DeleteObjects
  BY <1>23 DEF TypeOK, DeleteObjects, agentVars, workVars
<1>24. CASE DeleteRows
  <2>1. row' \in [Frames -> Row] /\ purged' \subseteq Frames
    BY <1>24, <1>0, NoRequestTyped DEF TypeOK, DeleteRows
  <2>2. purge' \in [step : {"off", "scan", "delete", "commit"}, kept : SUBSET (0 .. MaxFrames),
                     batch : SUBSET Frames]
    <3>1. \/ purge' = [step |-> "off", kept |-> {}, batch |-> {}]
          \/ purge' = [purge EXCEPT !.step = "scan", !.batch = {}]
      BY <1>24 DEF DeleteRows, Off
    <3>2. purge \in [step : {"off", "scan", "delete", "commit"}, kept : SUBSET (0 .. MaxFrames),
                     batch : SUBSET Frames]
      BY DEF TypeOK
    <3>3. [purge EXCEPT !.step = "scan", !.batch = {}] \in
             [step : {"off", "scan", "delete", "commit"}, kept : SUBSET (0 .. MaxFrames),
              batch : SUBSET Frames]
      BY <3>2
    <3>4. [step |-> "off", kept |-> {}, batch |-> {}] \in
             [step : {"off", "scan", "delete", "commit"}, kept : SUBSET (0 .. MaxFrames),
              batch : SUBSET Frames]
      OBVIOUS
    <3>. QED
      BY <3>1, <3>3, <3>4
  <2>. QED
    BY <2>1, <2>2, <1>24 DEF TypeOK, DeleteRows, agentVars, workVars
<1>25. CASE StopPurge
  BY <1>25 DEF TypeOK, StopPurge, Off, agentVars, rowVars, workVars
<1>26. CASE Unreachable
  BY <1>26, <1>0 DEF TypeOK, Unreachable, Fault, Goto, Failed, Agent, rowVars, workVars, purgeVars
<1>27. CASE Crash
  <2>1. \A t \in Threads : [req[t] EXCEPT !.live = FALSE] \in Request
    BY <1>0 DEF Request
  <2>. QED
    BY <2>1, <1>27 DEF TypeOK, Crash, Fault, Started, Agent, rowVars, workVars, purgeVars
<1>28. CASE Expire
  <2>1. \A f \in Frames : [row[f] EXCEPT !.expired = TRUE] \in Row
    BY <1>0 DEF Row
  <2>. QED
    BY <2>1, <1>28 DEF TypeOK, Expire, Fault, agentVars, workVars, purgeVars
<1>29. CASE RollBack
  BY <1>29 DEF TypeOK, RollBack, Fault, Idle, agentVars, rowVars, purgeVars
<1>30. ASSUME NEW t \in Threads, GiveUp(t) PROVE TypeOK'
  <2>1. [req[t] EXCEPT !.live = FALSE] \in Request
    BY <1>0 DEF Request
  <2>2. agent' \in Agent
    BY <1>30, <1>0 DEF GiveUp, Goto, Raise, Failed, Agent
  <2>. QED
    BY <2>1, <2>2, <1>30 DEF TypeOK, GiveUp, Fault, rowVars, workVars, purgeVars
<1>. QED
  BY <1>1, <1>2, <1>3, <1>4, <1>5, <1>6, <1>7, <1>8, <1>9, <1>10, <1>11, <1>12, <1>13, <1>14,
     <1>15, <1>16, <1>17, <1>18, <1>19, <1>20, <1>21, <1>22, <1>23, <1>24, <1>25, <1>26, <1>27,
     <1>28, <1>29, <1>30
     DEF Next, AgentStep, Serve, WorkerStep, PurgeStep, FaultStep

LEMMA InStepStep == TypeOK /\ InStep /\ [Next]_vars => InStep'
<1>. SUFFICES ASSUME TypeOK, InStep, [Next]_vars PROVE InStep'
  OBVIOUS
<1>. USE CameraAssumption
<1>0. /\ taken \in Nat
      /\ agent \in Agent
      /\ \A t \in Threads : req[t] \in Request
      /\ \A t \in Threads : req[t].kind = "none" => ~req[t].live
  BY DEF TypeOK, InStep
<1>1. ASSUME UNCHANGED <<taken, agent, req>> PROVE InStep'
  BY <1>1 DEF InStep
\* The agent's steps that leave the requests alone: nobody is waited for.
<1>2. ASSUME agent.pc # "wait", UNCHANGED req, taken' \in Nat, taken' >= taken,
             agent'.lastAt <= taken',
             agent'.pc \in {"intent", "put", "complete", "image", "metadata"} => agent'.at \in 1 .. taken',
             agent'.pc = "record" => taken' >= 1
      PROVE  InStep'
  <2>1. \A t \in Threads : ~req[t].live
    BY <1>2 DEF InStep
  <2>. QED
    BY <2>1, <1>2, <1>0 DEF InStep
\* The server's steps: an answer or a load changes neither frame, kind nor live.
<1>3. ASSUME NEW t \in Threads,
             (\E ok, url : Answered(t, ok, url)) \/ (\E r, c : Loaded(t, r, c)),
             UNCHANGED <<taken, agent>>
      PROVE  InStep'
  <2>0. req[t] \in Request /\ req \in [Threads -> Request]
    BY DEF TypeOK
  <2>1. /\ req'[t].kind = req[t].kind /\ req'[t].live = req[t].live /\ req'[t].frame = req[t].frame
        /\ \A u \in Threads \ {t} : req'[u] = req[u]
    <3>1. CASE \E ok, url : Answered(t, ok, url)
      BY <3>1, <2>0 DEF Answered, Request
    <3>2. CASE \E r, c : Loaded(t, r, c)
      BY <3>2, <2>0 DEF Loaded, Request
    <3>. QED
      BY <3>1, <3>2, <1>3
  <2>. QED
    BY <2>1, <1>3 DEF InStep
\* A request is freed.
<1>4. ASSUME NEW t \in Threads, req' = [req EXCEPT ![t] = NoRequest], UNCHANGED taken,
             agent' = agent \/ (req[t].live /\ agent'.lastAt = agent.lastAt /\ agent'.at = agent.at
                                /\ agent'.pc # "record"
                                /\ (agent'.pc \in {"intent", "put", "complete", "image", "metadata"} =>
                                       agent'.at \in 1 .. taken)
                                /\ \A u \in Threads \ {t} : ~req[u].live)
      PROVE  InStep'
  <2>1. /\ req'[t].kind = "none" /\ ~req'[t].live
        /\ \A u \in Threads \ {t} : req'[u] = req[u]
    BY <1>4 DEF NoRequest, TypeOK
  <2>. QED
    BY <2>1, <1>4 DEF InStep
<1>5. CASE PurgeExpired
  <2>1. agent'.lastAt = agent.lastAt /\ agent'.pc \in {"flush", "beat"}
    BY <1>5, <1>0 DEF PurgeExpired, Raise, Goto, Agent
  <2>. QED
    BY <2>1, <1>5, <1>2, <1>0 DEF PurgeExpired, InStep
<1>6. CASE FlushNext
  <2>1. /\ agent'.lastAt = agent.lastAt
        /\ agent'.pc \in {"flush", "beat"} \/ (agent'.pc = "intent" /\ agent'.at \in 1 .. taken)
    BY <1>6, <1>0 DEF FlushNext, Raise, Goto, Agent, Left, Metadata
  <2>. QED
    BY <2>1, <1>6, <1>2, <1>0 DEF FlushNext, InStep
<1>7. CASE FlushEnd
  <2>1. agent'.lastAt = agent.lastAt /\ agent'.pc \in {"capture", "beat"}
    BY <1>7, <1>0 DEF FlushEnd, Goto, Agent
  <2>. QED
    BY <2>1, <1>7, <1>2, <1>0 DEF FlushEnd, InStep
<1>8. CASE Capture
  <2>1. /\ agent'.lastAt = agent.lastAt
        /\ \/ agent'.pc = "record" /\ taken' = taken + 1
           \/ agent'.pc = "beat" /\ taken' = taken
    BY <1>8, <1>0 DEF Capture, Goto, Raise, Agent
  <2>2. taken' \in Nat /\ taken' >= taken /\ (agent'.pc = "record" => taken' >= 1)
    BY <2>1, <1>0
  <2>3. agent'.lastAt <= taken'
    BY <2>1, <1>0 DEF InStep, Agent
  <2>. QED
    BY <2>1, <2>2, <2>3, <1>8, <1>2, <1>0 DEF Capture
<1>9. CASE Record
  <2>1. agent'.lastAt = taken /\ agent'.pc = "flush" /\ taken' = taken
    BY <1>9 DEF Record
  <2>. QED
    BY <2>1, <1>9, <1>2, <1>0 DEF Record
<1>10. CASE SkipBeat \/ UnlinkMetadata \/ Unreachable
  <2>1. agent'.lastAt = agent.lastAt /\ agent'.pc \in {"flush", "purge"} /\ taken' = taken
    BY <1>10, <1>0 DEF SkipBeat, UnlinkMetadata, Unreachable, Failed, Goto, Agent
  <2>2. agent.pc # "wait" /\ req' = req
    BY <1>10 DEF SkipBeat, UnlinkMetadata, Unreachable
  <2>. QED
    BY <2>1, <2>2, <1>2, <1>0 DEF InStep
<1>11. CASE UnlinkImage
  <2>1. agent'.lastAt = agent.lastAt /\ agent'.pc = "metadata" /\ agent'.at = agent.at
    BY <1>11, <1>0 DEF UnlinkImage, Goto, Agent
  <2>. QED
    BY <2>1, <1>11, <1>2, <1>0 DEF UnlinkImage, InStep
<1>12. ASSUME NEW t \in Threads, Send(t) PROVE InStep'
  <2>1. /\ agent'.pc = "wait" /\ agent'.at = agent.at /\ agent'.lastAt = agent.lastAt
        /\ agent.pc \in {"intent", "put", "complete", "beat"} /\ taken' = taken
    BY <1>12, <1>0 DEF Send, Goto, Agent
  <2>2. /\ req'[t].kind = agent.pc /\ req'[t].live
        /\ req'[t].frame = IF agent.pc = "beat" THEN agent.lastAt ELSE agent.at
        /\ \A u \in Threads \ {t} : req'[u] = req[u]
    BY <1>12 DEF Send, NoRequest, TypeOK
  <2>3. \A u \in Threads : ~req[u].live
    BY <2>1 DEF InStep
  <2>. QED
    BY <2>1, <2>2, <2>3 DEF InStep
<1>13. ASSUME NEW t \in Threads, Receive(t) PROVE InStep'
  <2>1. agent'.at = agent.at /\ agent'.lastAt = agent.lastAt /\ agent'.pc # "record"
    BY <1>13, <1>0 DEF Receive, ReceivedPc, Goto, Agent, Failed
  <2>2. CASE req[t].kind = "beat"
    <3>1. agent'.pc = "purge"
      BY <1>13, <1>0, <2>2 DEF Receive, ReceivedPc, Goto, Agent, Failed
    <3>. QED
      BY <2>1, <3>1, <1>13, <1>4 DEF Receive, InStep
  <2>3. CASE req[t].kind # "beat"
    <3>1. agent.at \in 1 .. taken
      <4>1. req[t].kind \in {"intent", "put", "complete"}
        BY <1>13, <1>0, <2>3 DEF Receive, Request
      <4>. QED
        BY <4>1, <1>13 DEF Receive, InStep
    <3>. QED
      BY <2>1, <3>1, <1>13, <1>4 DEF Receive, InStep
  <2>. QED
    BY <2>2, <2>3
<1>14. ASSUME NEW t \in Threads, GiveUp(t) PROVE InStep'
  <2>1. agent'.at = agent.at /\ agent'.lastAt = agent.lastAt /\ agent'.pc \in {"purge", "flush", "beat"}
        /\ taken' = taken
    BY <1>14, <1>0 DEF GiveUp, Goto, Raise, Failed, Agent
  <2>2. /\ req'[t].kind = req[t].kind /\ ~req'[t].live /\ req'[t].frame = req[t].frame
        /\ \A u \in Threads \ {t} : req'[u] = req[u]
    <3>1. req[t] \in Request /\ req \in [Threads -> Request]
      BY DEF TypeOK
    <3>. QED
      BY <3>1, <1>14 DEF GiveUp, Request
  <2>3. \A u \in Threads \ {t} : ~req[u].live
    BY <1>14 DEF GiveUp, InStep
  <2>. QED
    BY <2>1, <2>2, <2>3 DEF InStep
<1>15. CASE Crash
  <2>1. agent'.lastAt = 0 /\ agent'.pc = "purge" /\ taken' = taken
    BY <1>15 DEF Crash, Started
  <2>2. \A t \in Threads : /\ req'[t].kind = req[t].kind /\ ~req'[t].live
                           /\ req'[t].frame = req[t].frame
    BY <1>15, <1>0 DEF Crash, Request
  <2>. QED
    BY <2>1, <2>2, <1>0 DEF InStep
<1>16. ASSUME NEW t \in Threads,
              ReadRow(t) \/ ReadCamera(t) \/ CommitIntent(t) \/ CommitPut(t)
              \/ CommitComplete(t) \/ CommitBeat(t)
       PROVE  InStep'
  <2>1. UNCHANGED <<taken, agent>>
    BY <1>16 DEF ReadRow, ReadCamera, CommitIntent, CommitPut, CommitComplete, CommitBeat, agentVars
  <2>2. (\E ok, url : Answered(t, ok, url)) \/ (\E r, c : Loaded(t, r, c))
    <3>1. CASE ReadRow(t)
      <4>1. Refused(t) \/ \E r, c : Loaded(t, r, c)
        BY <3>1, Zenon DEF ReadRow
      <4>. QED
        BY <4>1, Zenon DEF Refused
    <3>2. CASE ReadCamera(t)
      BY <3>2, Zenon DEF ReadCamera
    <3>3. CASE CommitIntent(t)
      BY <3>3, Zenon DEF CommitIntent, Refused
    <3>4. CASE CommitPut(t)
      BY <3>4, Zenon DEF CommitPut, Accepted
    <3>5. CASE CommitComplete(t)
      BY <3>5, Zenon DEF CommitComplete, Accepted, Refused
    <3>6. CASE CommitBeat(t)
      BY <3>6, Zenon DEF CommitBeat, Accepted
    <3>. QED
      BY <3>1, <3>2, <3>3, <3>4, <3>5, <3>6, <1>16
  <2>. QED
    BY <2>1, <2>2, <1>3
<1>17. ASSUME NEW t \in Threads, Forget(t) PROVE InStep'
  BY <1>17, <1>4 DEF Forget, agentVars
<1>18. CASE WorkerStep \/ PurgeStep \/ Expire \/ RollBack \/ UNCHANGED vars
  BY <1>18, <1>1
     DEF WorkerStep, TakeFrame, CommitAnalysis, PurgeStep, StartPurge, SelectBatch, DeleteObjects,
         DeleteRows, StopPurge, Expire, RollBack, agentVars, vars
<1>. QED
  BY <1>5, <1>6, <1>7, <1>8, <1>9, <1>10, <1>11, <1>12, <1>13, <1>14, <1>15, <1>16, <1>17, <1>18
     DEF Next, AgentStep, Serve, FaultStep

-----------------------------------------------------------------------------
(***************************************************************************)
(* Why no frame is lost.  Only a sound picture is ever uploaded, and only   *)
(* an unsound one is marked failed; a session that loaded "failed" thus     *)
(* writes to a row no other session completes.  Whoever acts on "uploaded", *)
(* be it a loaded row, an answer or the agent's next step, finds the frame  *)
(* served from then on.                                                     *)
(***************************************************************************)
Served(f) == Uploaded(f) \/ f \in purged

Sound ==
    /\ \A f \in Frames :
        /\ row[f].upload # "none" => f <= taken
        /\ Uploaded(f) => Good(f)
        /\ row[f].upload = "failed" => ~Good(f)
    /\ \A t \in Threads :
        req[t].step = "read" /\ req[t].kind \in {"intent", "complete"} =>
            /\ req[t].row.upload = "failed" => ~Good(req[t].frame)
            /\ req[t].row.upload = "uploaded" => Served(req[t].frame)
Trusted ==
    /\ \A t \in Threads :
        req[t].kind = "complete" /\ req[t].step = "answered" /\ req[t].ok => Served(req[t].frame)
    /\ agent.pc \in {"image", "metadata"} => Served(agent.at)

\* Pictures of captured frames do not change.
LEMMA GoodKept ==
    ASSUME TypeOK, [Next]_vars, NEW f \in 1 .. taken
    PROVE  Good(f)' = Good(f) /\ taken' >= taken
<1>. USE CameraAssumption
<1>1. taken \in Nat
  BY DEF TypeOK
<1>2. UNCHANGED <<picture, taken>> \/ Capture
  BY DEF Next, AgentStep, Serve, WorkerStep, PurgeStep, FaultStep, PurgeExpired, FlushNext, FlushEnd,
         Record, SkipBeat, UnlinkImage, UnlinkMetadata, Send, Receive, ReadRow, ReadCamera,
         CommitIntent, CommitPut, CommitComplete, CommitBeat, Forget, TakeFrame, CommitAnalysis,
         StartPurge, SelectBatch, DeleteObjects, DeleteRows, StopPurge, Unreachable, Crash, Expire,
         RollBack, GiveUp, vars, agentVars
<1>3. CASE UNCHANGED <<picture, taken>>
  BY <1>1, <1>3 DEF Good
<1>4. CASE Capture
  <2>1. taken' >= taken
    BY <1>1, <1>4 DEF Capture
  <2>2. picture'[f] = picture[f]
    <3>1. f # taken + 1
      BY <1>1
    <3>2. picture' = picture \/ \E p \in Pictures : picture' = [picture EXCEPT ![taken + 1] = p]
      BY <1>4 DEF Capture
    <3>3. f \in Frames
      BY DEF Frames, TypeOK
    <3>. QED
      BY <3>1, <3>2, <3>3 DEF TypeOK
  <2>. QED
    BY <2>1, <2>2 DEF Good
<1>. QED
  BY <1>2, <1>3, <1>4

\* Which steps write a row.
LEMMA RowWriters ==
    [Next]_vars =>
        \/ UNCHANGED row
        \/ \E t \in Threads : CommitIntent(t) \/ CommitComplete(t)
        \/ Expire \/ CommitAnalysis \/ DeleteRows
  BY DEF Next, AgentStep, Serve, WorkerStep, PurgeStep, FaultStep, PurgeExpired, FlushNext, FlushEnd,
         Capture, Record, SkipBeat, UnlinkImage, UnlinkMetadata, Send, Receive, ReadRow, ReadCamera,
         CommitPut, CommitBeat, Forget, TakeFrame,
         StartPurge, SelectBatch, DeleteObjects, StopPurge, Unreachable, Crash,
         RollBack, GiveUp, vars, rowVars

\* What a step may make of the upload status of a row.
LEMMA UploadChange ==
    ASSUME TypeOK, InStep, Sound, [Next]_vars, NEW f \in Frames
    PROVE  \/ row'[f].upload = row[f].upload
           \/ row'[f].upload = "pending" /\ ~Uploaded(f) /\ f <= taken
           \/ row'[f].upload = "failed" /\ ~Good(f) /\ f <= taken
           \/ row'[f].upload = "uploaded" /\ Good(f) /\ f <= taken
           \/ row'[f].upload = "none" /\ f \in purged'
<1>0. /\ \A g \in Frames : row[g] \in Row
      /\ row \in [Frames -> Row]
  BY DEF TypeOK
<1>1. CASE UNCHANGED row
  BY <1>1
<1>2. ASSUME NEW t \in Threads, CommitIntent(t)
      PROVE  \/ row'[f].upload = row[f].upload
             \/ row'[f].upload = "pending" /\ ~Uploaded(f) /\ f <= taken
  <2>0. CASE row' = row
    BY <2>0
  <2>1. CASE row' # row /\ f # req[t].frame
    BY <2>1, <1>2, <1>0 DEF CommitIntent
  <2>2. CASE row' # row /\ f = req[t].frame
    <3>1. row'[f] = Intended(row[f], req[t].row)
      BY <2>2, <1>2, <1>0 DEF CommitIntent
    <3>2. (req[t].row.upload = "none") = (row[f].upload = "none") \/ req[t].row.upload = "uploaded"
      BY <2>2, <1>2 DEF CommitIntent
    <3>3. f <= taken
      BY <2>2, <1>2 DEF CommitIntent, Serving, InStep
    <3>4. req[t].row.upload = "failed" => ~Good(f)
      BY <2>2, <1>2 DEF CommitIntent, Serving, Sound
    <3>5. row[f] \in Row /\ req[t].row \in Row
      BY <1>0 DEF TypeOK, Request
    <3>6. CASE req[t].row.upload = "uploaded"
      BY <3>1, <3>6 DEF Intended
    <3>7. CASE req[t].row.upload = "pending"
      BY <3>1, <3>5, <3>7 DEF Intended, Row
    <3>8. CASE req[t].row.upload \in {"none", "failed"}
      <4>1. row'[f].upload = "pending"
        BY <3>1, <3>5, <3>8 DEF Intended, Row
      <4>2. ~Uploaded(f)
        BY <3>2, <3>4, <3>8 DEF Sound, Uploaded
      <4>. QED
        BY <4>1, <4>2, <3>3
    <3>. QED
      BY <3>5, <3>6, <3>7, <3>8 DEF Row
  <2>. QED
    BY <2>0, <2>1, <2>2
<1>3. ASSUME NEW t \in Threads, CommitComplete(t)
      PROVE  \/ row'[f].upload = row[f].upload
             \/ row'[f].upload = "failed" /\ ~Good(f) /\ f <= taken
             \/ row'[f].upload = "uploaded" /\ Good(f) /\ f <= taken
  <2>0. req[t].frame \in Frames /\ req[t].frame <= taken
    <3>1. req[t].frame \in 1 .. taken
      BY <1>3 DEF CommitComplete, Serving, InStep
    <3>. QED
      BY <3>1, CameraAssumption DEF Frames, TypeOK
  <2>1. \/ row' = row
        \/ /\ row' = [row EXCEPT ![req[t].frame] = MarkedFailed(row[req[t].frame], req[t].row)]
           /\ ~Good(req[t].frame)
        \/ /\ row' = [row EXCEPT ![req[t].frame] = Completed(row[req[t].frame])]
           /\ Good(req[t].frame)
    BY <1>3 DEF CommitComplete
  <2>2. /\ MarkedFailed(row[req[t].frame], req[t].row).upload = "failed"
        /\ Completed(row[req[t].frame]).upload = "uploaded"
    BY <2>0, <1>0 DEF MarkedFailed, Completed, Row
  <2>3. CASE row' = row
    BY <2>3
  <2>4. CASE row' # row /\ f # req[t].frame
    BY <2>4, <2>1, <1>0
  <2>5. CASE row' # row /\ f = req[t].frame
    BY <2>5, <2>0, <2>1, <2>2, <1>0
  <2>. QED
    BY <2>3, <2>4, <2>5
<1>4. CASE Expire
  BY <1>4, <1>0 DEF Expire, Row
<1>5. CASE CommitAnalysis
  <2>1. row' = [row EXCEPT ![worker.frame] = Analysed(row[worker.frame])]
    BY <1>5 DEF CommitAnalysis
  <2>2. CASE f = worker.frame
    <3>1. row'[f] = Analysed(row[f])
      BY <2>1, <2>2, <1>0
    <3>. QED
      BY <3>1, <1>0 DEF Analysed, Row
  <2>3. CASE f # worker.frame
    BY <2>1, <2>3, <1>0
  <2>. QED
    BY <2>2, <2>3
<1>6. CASE DeleteRows
  BY <1>6 DEF DeleteRows, NoRow
<1>. QED
  BY <1>1, <1>2, <1>3, <1>4, <1>5, <1>6, RowWriters

LEMMA PurgedGrows == [Next]_vars => purged \subseteq purged'
  BY DEF Next, AgentStep, Serve, WorkerStep, PurgeStep, FaultStep, PurgeExpired, FlushNext, FlushEnd,
         Capture, Record, SkipBeat, UnlinkImage, UnlinkMetadata, Send, Receive, ReadRow, ReadCamera,
         CommitIntent, CommitPut, CommitComplete, CommitBeat, Forget, TakeFrame, CommitAnalysis,
         StartPurge, SelectBatch, DeleteObjects, DeleteRows, StopPurge, Unreachable, Crash, Expire,
         RollBack, GiveUp, vars, purgeVars

LEMMA ServedKept ==
    ASSUME TypeOK, InStep, Sound, [Next]_vars, NEW f \in Frames
    PROVE  /\ Uploaded(f) => Uploaded(f)' \/ f \in purged'
           /\ Served(f) => Served(f)'
<1>1. Uploaded(f) => Good(f)
  BY DEF Sound
<1>2. Uploaded(f) => Uploaded(f)' \/ f \in purged'
  BY <1>1, UploadChange DEF Uploaded
<1>. QED
  BY <1>2, PurgedGrows DEF Served

\* What a step may make of one request.
LEMMA RequestChange ==
    ASSUME TypeOK, [Next]_vars, NEW t \in Threads
    PROVE  \/ req'[t] = req[t] \/ req'[t] = NoRequest \/ req'[t] = [req[t] EXCEPT !.live = FALSE]
           \/ Send(t) \/ ReadRow(t) \/ ReadCamera(t)
           \/ CommitIntent(t) \/ CommitPut(t) \/ CommitComplete(t) \/ CommitBeat(t)
<1>1. req \in [Threads -> Request]
  BY DEF TypeOK
<1>2. \A u \in Threads :
        Send(u) \/ ReadRow(u) \/ ReadCamera(u) \/ CommitIntent(u) \/ CommitPut(u)
        \/ CommitComplete(u) \/ CommitBeat(u) => u = t \/ req'[t] = req[t]
  BY <1>1 DEF Send, ReadRow, ReadCamera, CommitIntent, CommitPut, CommitComplete, CommitBeat,
              Refused, Accepted, Answered, Loaded
<1>3. \A u \in Threads :
        /\ Receive(u) \/ Forget(u) => req'[t] = req[t] \/ req'[t] = NoRequest
        /\ GiveUp(u) => req'[t] = req[t] \/ req'[t] = [req[t] EXCEPT !.live = FALSE]
  BY <1>1 DEF Receive, Forget, GiveUp
<1>4. Crash => req'[t] = [req[t] EXCEPT !.live = FALSE]
  BY DEF Crash
<1>5. \/ UNCHANGED req \/ Crash
      \/ \E u \in Threads :
            \/ Send(u) \/ ReadRow(u) \/ ReadCamera(u) \/ CommitIntent(u) \/ CommitPut(u)
            \/ CommitComplete(u) \/ CommitBeat(u) \/ Receive(u) \/ Forget(u) \/ GiveUp(u)
  BY DEF Next, AgentStep, Serve, WorkerStep, PurgeStep, FaultStep, PurgeExpired, FlushNext, FlushEnd,
         Capture, Record, SkipBeat, UnlinkImage, UnlinkMetadata, TakeFrame, CommitAnalysis,
         StartPurge, SelectBatch, DeleteObjects, DeleteRows, StopPurge, Unreachable, Expire,
         RollBack, vars
<1>. QED
  BY <1>2, <1>3, <1>4, <1>5

LEMMA SoundStep == TypeOK /\ InStep /\ Sound /\ [Next]_vars => Sound'
<1>. SUFFICES ASSUME TypeOK, InStep, Sound, [Next]_vars PROVE Sound'
  OBVIOUS
<1>1. ASSUME NEW f \in Frames
      PROVE  /\ row'[f].upload # "none" => f <= taken'
             /\ Uploaded(f)' => Good(f)'
             /\ row'[f].upload = "failed" => ~Good(f)'
  <2>1. taken \in Nat /\ taken' \in Nat
    BY CameraAssumption, TypeStep DEF TypeOK
  <2>2. row'[f].upload # "none" => f <= taken /\ (Uploaded(f)' => Good(f))
                                            /\ (row'[f].upload = "failed" => ~Good(f))
    <3>1. Uploaded(f) => Good(f)
      BY DEF Sound
    <3>2. row[f].upload = "failed" => ~Good(f)
      BY DEF Sound
    <3>3. row[f].upload # "none" => f <= taken
      BY DEF Sound
    <3>. QED
      BY <3>1, <3>2, <3>3, UploadChange DEF Uploaded
  <2>3. f <= taken => Good(f)' = Good(f) /\ taken' >= taken
    <3>1. f <= taken => f \in 1 .. taken
      BY <2>1 DEF Frames
    <3>. QED
      BY <3>1, GoodKept
  <2>. QED
    BY <2>1, <2>2, <2>3 DEF Frames, Uploaded
<1>2. ASSUME NEW t \in Threads, req'[t].step = "read", req'[t].kind \in {"intent", "complete"},
             NEW f, f = req'[t].frame
      PROVE  /\ req'[t].row.upload = "failed" => ~Good(f)'
             /\ req'[t].row.upload = "uploaded" => Served(f)'
  <2>0. req[t] \in Request /\ req \in [Threads -> Request]
    BY DEF TypeOK
  <2>1. CASE ReadRow(t)
    <3>1. CASE Refused(t)
      BY <3>1, <2>0, <1>2 DEF Refused, Answered
    <3>2. CASE ~Refused(t)
      <4>1. PICK r, c : Loaded(t, r, c)
        BY <3>2, <2>1, Zenon DEF ReadRow
      <4>2. req'[t].kind = req[t].kind /\ req'[t].frame = req[t].frame
        BY <4>1, <2>0 DEF Loaded, Request
      <4>3. \E d : Loaded(t, row[req[t].frame], d)
        BY <3>2, <2>1, <4>2, <1>2 DEF ReadRow
      <4>4. req'[t].row = row[req[t].frame]
        BY <4>3, <2>0 DEF Loaded, Request
      <4>5. f = req[t].frame /\ f \in 1 .. taken /\ f \in Frames
        BY <4>2, <1>2, <2>1, CameraAssumption DEF InStep, TypeOK, Frames
      <4>6. Good(f)' = Good(f)
        BY <4>5, GoodKept
      <4>7. Served(f) => Served(f)'
        BY <4>5, ServedKept
      <4>8. row[f].upload = "failed" => ~Good(f)
        BY <4>5 DEF Sound
      <4>9. row[f].upload = "uploaded" => Served(f)
        BY DEF Served, Uploaded
      <4>. QED
        BY <4>2, <4>4, <4>5, <4>6, <4>7, <4>8, <4>9
    <3>. QED
      BY <3>1, <3>2
  <2>2. CASE ReadCamera(t)
    BY <2>2, <2>0, <1>2 DEF ReadCamera, Loaded, Request
  <2>3. CASE Send(t)
    BY <2>3, <2>0, <1>2 DEF Send, NoRequest
  <2>4. CASE CommitIntent(t) \/ CommitPut(t) \/ CommitComplete(t) \/ CommitBeat(t)
    <3>1. PICK ok, url : Answered(t, ok, url)
      BY <2>4, Zenon DEF CommitIntent, CommitPut, CommitComplete, CommitBeat, Refused, Accepted
    <3>. QED
      BY <3>1, <2>0, <1>2 DEF Answered, Request
  <2>5. CASE req'[t] = NoRequest
    BY <2>5, <1>2 DEF NoRequest
  <2>6. CASE req'[t] = req[t] \/ req'[t] = [req[t] EXCEPT !.live = FALSE]
    <3>1. /\ req'[t].kind = req[t].kind /\ req'[t].frame = req[t].frame
          /\ req'[t].step = req[t].step /\ req'[t].row = req[t].row
      BY <2>6, <2>0 DEF Request
    <3>2. f = req[t].frame /\ f \in 1 .. taken /\ f \in Frames
      BY <3>1, <1>2, CameraAssumption DEF InStep, TypeOK, Frames
    <3>3. Good(f)' = Good(f)
      BY <3>2, GoodKept
    <3>4. Served(f) => Served(f)'
      BY <3>2, ServedKept
    <3>5. /\ req[t].row.upload = "failed" => ~Good(f)
          /\ req[t].row.upload = "uploaded" => Served(f)
      BY <3>1, <3>2, <1>2 DEF Sound
    <3>. QED
      BY <3>1, <3>3, <3>4, <3>5
  <2>. QED
    BY <2>1, <2>2, <2>3, <2>4, <2>5, <2>6, RequestChange
<1>. QED
  BY <1>1, <1>2 DEF Sound, Good, Served, Uploaded

LEMMA TrustedStep == TypeOK /\ InStep /\ Sound /\ Trusted /\ [Next]_vars => Trusted'
<1>. SUFFICES ASSUME TypeOK, InStep, Sound, Trusted, [Next]_vars PROVE Trusted'
  OBVIOUS
<1>. USE CameraAssumption
<1>0. agent \in Agent /\ req \in [Threads -> Request]
  BY DEF TypeOK
<1>1. ASSUME NEW t \in Threads, req'[t].kind = "complete", req'[t].step = "answered", req'[t].ok,
             NEW f, f = req'[t].frame
      PROVE  Served(f)'
  <2>1. CASE ReadRow(t)
    <3>1. CASE Refused(t)
      BY <3>1, <1>0, <1>1 DEF Refused, Answered, Request
    <3>2. CASE ~Refused(t)
      <4>1. PICK r, c : Loaded(t, r, c)
        BY <3>2, <2>1, Zenon DEF ReadRow
      <4>. QED
        BY <4>1, <1>0, <1>1 DEF Loaded, Request
    <3>. QED
      BY <3>1, <3>2
  <2>2. CASE ReadCamera(t)
    BY <2>2, <1>0, <1>1 DEF ReadCamera, Loaded, Request
  <2>3. CASE Send(t)
    BY <2>3, <1>0, <1>1 DEF Send, NoRequest
  <2>4. CASE CommitIntent(t) \/ CommitPut(t) \/ CommitBeat(t)
    <3>1. PICK ok, url : Answered(t, ok, url)
      BY <2>4, Zenon DEF CommitIntent, CommitPut, CommitBeat, Refused, Accepted
    <3>2. req'[t].kind = req[t].kind
      BY <3>1, <1>0 DEF Answered, Request
    <3>. QED
      BY <3>2, <2>4, <1>1 DEF CommitIntent, CommitPut, CommitBeat, Serving
  <2>5. CASE CommitComplete(t)
    <3>0. f = req[t].frame /\ req[t].frame \in 1 .. taken /\ req[t].frame \in Frames
      <4>1. PICK ok, url : Answered(t, ok, url)
        BY <2>5, Zenon DEF CommitComplete, Refused, Accepted
      <4>2. req'[t].frame = req[t].frame
        BY <4>1, <1>0 DEF Answered, Request
      <4>3. req[t].frame \in 1 .. taken
        BY <2>5 DEF CommitComplete, Serving, InStep
      <4>. QED
        BY <4>2, <4>3, <1>1 DEF Frames, TypeOK
    <3>1. ~Refused(t)
      BY <1>0, <1>1 DEF Refused, Answered, Request
    <3>2. \/ req[t].row.upload = "uploaded"
          \/ row' = [row EXCEPT ![f] = Completed(row[f])]
      BY <3>0, <3>1, <2>5 DEF CommitComplete
    <3>3. CASE req[t].row.upload = "uploaded"
      <4>1. Served(f)
        BY <3>3, <3>0, <2>5 DEF CommitComplete, Serving, Sound
      <4>. QED
        BY <4>1, <3>0, ServedKept
    <3>4. CASE row' = [row EXCEPT ![f] = Completed(row[f])]
      <4>1. row[f] \in Row /\ row \in [Frames -> Row]
        BY <3>0 DEF TypeOK
      <4>. QED
        BY <4>1, <3>0, <3>4 DEF Completed, Row, Served, Uploaded
    <3>. QED
      BY <3>2, <3>3, <3>4
  <2>6. CASE req'[t] = NoRequest
    BY <2>6, <1>1 DEF NoRequest
  <2>7. CASE req'[t] = req[t] \/ req'[t] = [req[t] EXCEPT !.live = FALSE]
    <3>1. /\ req'[t].kind = req[t].kind /\ req'[t].frame = req[t].frame
          /\ req'[t].step = req[t].step /\ req'[t].ok = req[t].ok
      BY <2>7, <1>0 DEF Request
    <3>2. f = req[t].frame /\ f \in Frames
      <4>1. f = req[t].frame /\ req[t].frame \in 1 .. taken
        BY <3>1, <1>1 DEF InStep
      <4>. QED
        BY <4>1 DEF TypeOK, Frames
    <3>3. Served(f)
      BY <3>1, <3>2, <1>1 DEF Trusted
    <3>. QED
      BY <3>2, <3>3, ServedKept
  <2>. QED
    BY <2>1, <2>2, <2>3, <2>4, <2>5, <2>6, <2>7, RequestChange
<1>2. ASSUME agent'.pc \in {"image", "metadata"}, NEW f, f = agent'.at PROVE Served(f)'
  <2>1. \/ agent.pc \in {"image", "metadata"} /\ agent'.at = agent.at
        \/ /\ agent'.at = agent.at
           /\ \E t \in Threads : /\ Receive(t) /\ req[t].kind = "complete" /\ req[t].ok
    <3>1. CASE UNCHANGED agent
      BY <3>1, <1>2
    <3>2. CASE UnlinkImage
      BY <3>2, <1>0 DEF UnlinkImage, Goto, Agent
    <3>3. ASSUME NEW t \in Threads, Receive(t)
          PROVE  agent'.at = agent.at /\ req[t].kind = "complete" /\ req[t].ok
      <4>1. agent'.at = agent.at
        BY <3>3, <1>0 DEF Receive, ReceivedPc, Goto, Agent
      <4>2. agent'.pc \in {"image", "metadata"} => req[t].kind = "complete" /\ req[t].ok
        <5>1. CASE ~req[t].ok
          <6>1. agent' = [agent EXCEPT !.pc = Failed(req[t].kind)]
            BY <5>1, <3>3 DEF Receive, Goto, ReceivedPc
          <6>. QED
            BY <6>1, <1>0 DEF Failed, Agent
        <5>2. CASE req[t].ok /\ req[t].kind = "intent"
          BY <5>2, <3>3, <1>0 DEF Receive, ReceivedPc, Goto, Agent
        <5>3. CASE req[t].ok /\ req[t].kind # "intent" /\ req[t].kind # "complete"
          BY <5>3, <3>3, <1>0 DEF Receive, ReceivedPc, Goto, Agent
        <5>. QED
          BY <5>1, <5>2, <5>3
      <4>. QED
        BY <4>1, <4>2, <1>2
    <3>4. CASE PurgeExpired \/ FlushNext \/ FlushEnd \/ Capture \/ Record \/ SkipBeat
               \/ UnlinkMetadata \/ Unreachable \/ Crash
               \/ (\E t \in Threads : Send(t) \/ GiveUp(t))
      <4>1. agent'.pc \notin {"image", "metadata"}
        <5>1. CASE PurgeExpired \/ FlushNext \/ FlushEnd
          <6>1. PurgeExpired => agent'.pc \in {"flush", "beat"}
            BY <1>0 DEF PurgeExpired, Goto, Raise, Agent
          <6>2. FlushNext => agent'.pc \in {"flush", "beat", "intent"}
            BY <1>0 DEF FlushNext, Goto, Raise, Agent
          <6>3. FlushEnd => agent'.pc \in {"beat", "capture"}
            BY <1>0 DEF FlushEnd, Goto, Agent
          <6>. QED
            BY <5>1, <6>1, <6>2, <6>3
        <5>2. CASE Capture \/ Record \/ SkipBeat \/ UnlinkMetadata
          BY <5>2, <1>0 DEF Capture, Record, SkipBeat, UnlinkMetadata, Goto, Raise, Agent
        <5>3. CASE Unreachable
          BY <5>3, <1>0 DEF Unreachable, Failed, Goto, Agent
        <5>4. CASE Crash
          BY <5>4 DEF Crash, Started
        <5>5. ASSUME NEW t \in Threads, Send(t) PROVE agent'.pc \notin {"image", "metadata"}
          BY <5>5, <1>0 DEF Send, Goto, Agent
        <5>6. ASSUME NEW t \in Threads, GiveUp(t) PROVE agent'.pc \notin {"image", "metadata"}
          BY <5>6, <1>0 DEF GiveUp, Goto, Raise, Failed, Agent
        <5>. QED
          BY <3>4, <5>1, <5>2, <5>3, <5>4, <5>5, <5>6
      <4>. QED
        BY <4>1, <1>2
    <3>. QED
      BY <3>1, <3>2, <3>3, <3>4
         DEF Next, AgentStep, Serve, WorkerStep, PurgeStep, FaultStep, ReadRow, ReadCamera,
             CommitIntent, CommitPut, CommitComplete, CommitBeat, Forget, TakeFrame, CommitAnalysis,
             StartPurge, SelectBatch, DeleteObjects, DeleteRows, StopPurge, Expire, RollBack,
             vars, agentVars
  <2>2. CASE agent.pc \in {"image", "metadata"} /\ agent'.at = agent.at
    <3>1. f \in Frames
      BY <2>2, <1>2 DEF InStep, TypeOK, Frames
    <3>2. Served(f)
      BY <2>2, <1>2 DEF Trusted
    <3>. QED
      BY <3>1, <3>2, ServedKept
  <2>3. ASSUME agent'.at = agent.at,
               NEW t \in Threads, Receive(t), req[t].kind = "complete", req[t].ok
        PROVE  Served(f)'
    <3>1. req[t].frame = agent.at /\ req[t].frame \in 1 .. taken
      BY <2>3 DEF Receive, InStep
    <3>2. f \in Frames
      BY <3>1, <2>3, <1>2 DEF TypeOK, Frames
    <3>3. Served(f)
      BY <3>1, <2>3, <1>2 DEF Receive, Trusted
    <3>. QED
      BY <3>2, <3>3, ServedKept
  <2>. QED
    BY <2>1, <2>2, <2>3
<1>. QED
  BY <1>1, <1>2 DEF Trusted, Served, Uploaded

LEMMA NeverLostStep ==
    TypeOK /\ InStep /\ Sound /\ Trusted /\ NeverLost /\ [Next]_vars => NeverLost'
<1>. SUFFICES ASSUME TypeOK, InStep, Sound, Trusted, NeverLost, [Next]_vars,
                     NEW f \in 1 .. taken', Good(f)', spool'[f] \in {"none", "bare"}
              PROVE  Uploaded(f)' \/ f \in (aged \cup purged)'
  BY DEF NeverLost
<1>. USE CameraAssumption
<1>0. taken \in Nat /\ taken' \in 0 .. MaxFrames /\ f \in Frames
      /\ spool \in [Frames -> {"none", "image", "torn", "ready", "bare"}]
  <2>1. TypeOK'
    BY TypeStep
  <2>2. taken' \in 0 .. MaxFrames
    BY <2>1 DEF TypeOK
  <2>3. f \in Frames
    BY <2>2 DEF Frames
  <2>. QED
    BY <2>2, <2>3 DEF TypeOK
<1>1. aged \subseteq aged'
  BY DEF Next, AgentStep, Serve, WorkerStep, PurgeStep, FaultStep, PurgeExpired, FlushNext, FlushEnd,
         Capture, Record, SkipBeat, UnlinkImage, UnlinkMetadata, Send, Receive, ReadRow, ReadCamera,
         CommitIntent, CommitPut, CommitComplete, CommitBeat, Forget, TakeFrame, CommitAnalysis,
         StartPurge, SelectBatch, DeleteObjects, DeleteRows, StopPurge, Unreachable, Crash, Expire,
         RollBack, GiveUp, vars, agentVars
<1>2. ASSUME f <= taken, spool[f] \in {"none", "bare"} PROVE Uploaded(f)' \/ f \in (aged \cup purged)'
  <2>1. Good(f)
    BY <1>0, <1>2, GoodKept
  <2>2. Uploaded(f) \/ f \in aged \cup purged
    BY <2>1, <1>0, <1>2 DEF NeverLost
  <2>. QED
    BY <2>2, <1>0, <1>1, ServedKept DEF Served
<1>3. ASSUME Served(f) PROVE Uploaded(f)' \/ f \in (aged \cup purged)'
  BY <1>0, <1>3, ServedKept DEF Served
<1>4. CASE UNCHANGED <<spool, taken>>
  BY <1>2, <1>4, <1>0
<1>5. CASE PurgeExpired
  <2>1. f <= taken /\ (f \in aged' \/ spool'[f] = spool[f])
    BY <1>5, <1>0 DEF PurgeExpired
  <2>. QED
    BY <2>1, <1>2
<1>6. CASE FlushNext
  <2>1. f <= taken /\ (spool'[f] = spool[f] \/ spool[f] = "bare")
    BY <1>6, <1>0 DEF FlushNext
  <2>. QED
    BY <2>1, <1>2
<1>7. CASE Capture
  <2>1. CASE f = taken + 1
    BY <2>1, <1>7, <1>0 DEF Capture
  <2>2. CASE f # taken + 1
    <3>1. f <= taken /\ spool'[f] = spool[f]
      BY <2>2, <1>7, <1>0 DEF Capture
    <3>. QED
      BY <3>1, <1>2
  <2>. QED
    BY <2>1, <2>2
<1>8. CASE Record
  <2>1. spool'[f] = "ready" \/ spool'[f] = spool[f]
    BY <1>8, <1>0 DEF Record
  <2>. QED
    BY <2>1, <1>8, <1>2, <1>0 DEF Record
<1>9. CASE UnlinkImage \/ UnlinkMetadata
  <2>1. f = agent.at \/ spool'[f] = spool[f]
    BY <1>9, <1>0 DEF UnlinkImage, UnlinkMetadata
  <2>2. taken' = taken /\ agent.pc \in {"image", "metadata"}
    BY <1>9 DEF UnlinkImage, UnlinkMetadata
  <2>. QED
    BY <2>1, <2>2, <1>0, <1>2, <1>3 DEF Trusted
<1>10. CASE Crash
  <2>1. taken' = taken /\ (spool'[f] = "torn" \/ spool'[f] = spool[f])
    BY <1>10, <1>0 DEF Crash
  <2>. QED
    BY <2>1, <1>2, <1>0
<1>. QED
  BY <1>4, <1>5, <1>6, <1>7, <1>8, <1>9, <1>10
     DEF Next, AgentStep, Serve, WorkerStep, PurgeStep, FaultStep, FlushEnd, SkipBeat,
         Send, Receive, ReadRow, ReadCamera, CommitIntent, CommitPut, CommitComplete, CommitBeat,
         Forget, TakeFrame, CommitAnalysis, StartPurge, SelectBatch, DeleteObjects, DeleteRows,
         StopPurge, Unreachable, Expire, RollBack, GiveUp, vars, agentVars

LEMMA PointerStep ==
    TypeOK /\ InStep /\ Sound /\ PointerServes /\ [Next]_vars => PointerServes'
<1>. SUFFICES ASSUME TypeOK, InStep, Sound, PointerServes, [Next]_vars,
                     NEW f, f = camera'.latest, f # 0
              PROVE  Served(f)'
  BY DEF PointerServes, Served, Uploaded
<1>. USE CameraAssumption
<1>0. camera \in Camera /\ req \in [Threads -> Request]
  BY DEF TypeOK
<1>1. ASSUME camera'.latest = camera.latest PROVE Served(f)'
  <2>1. f \in Frames
    BY <1>0, <1>1 DEF Camera, Frames
  <2>2. Served(f)
    BY <1>1 DEF PointerServes, Served
  <2>. QED
    BY <2>1, <2>2, ServedKept
<1>2. ASSUME NEW t \in Threads, CommitComplete(t) PROVE Served(f)'
  <2>0. req[t].frame \in 1 .. taken /\ req[t].frame \in Frames
    <3>1. req[t].frame \in 1 .. taken
      BY <1>2 DEF CommitComplete, Serving, InStep
    <3>. QED
      BY <3>1 DEF Frames, TypeOK
  <2>1. CASE f = camera.latest
    BY <2>1, <1>1
  <2>2. CASE f # camera.latest
    <3>1. camera' = PointsTo(req[t].frame, req[t].camera)
      BY <2>2, <1>2 DEF CommitComplete
    <3>2. f = req[t].frame
      BY <3>1, <2>2 DEF PointsTo, Written
    <3>3. CASE req[t].row.upload = "uploaded"
      <4>1. Served(f)
        BY <3>2, <3>3, <1>2 DEF CommitComplete, Serving, Sound
      <4>. QED
        BY <4>1, <3>2, <2>0, ServedKept
    <3>4. CASE row' = [row EXCEPT ![f] = Completed(row[f])]
      <4>1. row[f] \in Row /\ row \in [Frames -> Row]
        BY <2>0, <3>2 DEF TypeOK
      <4>. QED
        BY <4>1, <2>0, <3>2, <3>4 DEF Completed, Row, Served, Uploaded
    <3>5. camera' # camera
      BY <2>2
    <3>. QED
      BY <3>2, <3>3, <3>4, <3>5, <1>2 DEF CommitComplete
  <2>. QED
    BY <2>1, <2>2
<1>3. ASSUME NEW t \in Threads, CommitBeat(t) PROVE camera'.latest = camera.latest
  BY <1>3, <1>0 DEF CommitBeat, Beaten, Camera
<1>4. UNCHANGED camera \/ \E t \in Threads : CommitComplete(t) \/ CommitBeat(t)
  BY DEF Next, AgentStep, Serve, WorkerStep, PurgeStep, FaultStep, PurgeExpired, FlushNext, FlushEnd,
         Capture, Record, SkipBeat, UnlinkImage, UnlinkMetadata, Send, Receive, ReadRow, ReadCamera,
         CommitIntent, CommitPut, Forget, TakeFrame, CommitAnalysis,
         StartPurge, SelectBatch, DeleteObjects, DeleteRows, StopPurge, Unreachable, Crash, Expire,
         RollBack, GiveUp, vars, rowVars
<1>. QED
  BY <1>1, <1>2, <1>3, <1>4

(***************************************************************************)
(* What keeps a frame to one incident while its completions do not overlap: *)
(* it is analysed only after it is uploaded, the worker has it only while   *)
(* it is queued, and once it raised an incident an observation refers to    *)
(* its row, so that the purge script cannot make room for a second upload.  *)
(***************************************************************************)
InBatch(f) == purge.step \in {"delete", "commit"} /\ f \in purge.batch
Single(f) ==
    /\ raised[f] <= 1
    /\ ~Uploaded(f) => row[f].analysis = "pending"
    /\ worker.frame = f => Uploaded(f) /\ row[f].analysis = "queued"
    /\ raised[f] = 1 => /\ Uploaded(f) /\ row[f].seen
                        /\ row[f].analysis = "succeeded" /\ worker.frame # f
    /\ InBatch(f) => f <= taken /\ (~Good(f) \/ row[f].analysis = "failed")
Once ==
    /\ worker.verdict = "succeeded" => worker.saw
    /\ \A f \in Frames \ crossed : Single(f)

\* A step that leaves the worker, the incidents, the script and a frame's analysis alone.
LEMMA SingleKept ==
    ASSUME TypeOK, [Next]_vars, NEW f \in Frames, Single(f),
           UNCHANGED <<worker, raised, purge>>,
           row'[f].analysis = row[f].analysis, row'[f].seen = row[f].seen,
           Uploaded(f)' = Uploaded(f)
    PROVE  Single(f)'
<1>1. taken \in Nat /\ taken' \in Int
  <2>1. taken \in Nat
    BY CameraAssumption DEF TypeOK
  <2>2. UNCHANGED taken \/ Capture
    BY DEF Next, AgentStep, Serve, WorkerStep, PurgeStep, FaultStep, PurgeExpired, FlushNext, FlushEnd,
         Record, SkipBeat, UnlinkImage, UnlinkMetadata, Send, Receive, ReadRow, ReadCamera,
         CommitIntent, CommitPut, CommitComplete, CommitBeat, Forget, TakeFrame, CommitAnalysis,
         StartPurge, SelectBatch, DeleteObjects, DeleteRows, StopPurge, Unreachable, Crash, Expire,
         RollBack, GiveUp, vars, agentVars
  <2>. QED
    BY <2>1, <2>2 DEF Capture
<1>2. InBatch(f)' = InBatch(f)
  BY DEF InBatch
<1>3. InBatch(f) => f <= taken' /\ (~Good(f)' \/ row[f].analysis = "failed")
  <2>1. f <= taken => Good(f)' = Good(f) /\ taken' >= taken
    BY <1>1, GoodKept DEF Frames
  <2>2. f \in Int
    BY CameraAssumption DEF Frames
  <2>. QED
    BY <1>1, <2>1, <2>2 DEF Single
<1>. QED
  BY <1>2, <1>3 DEF Single

LEMMA SawStep ==
    TypeOK /\ Once /\ [Next]_vars => (worker.verdict = "succeeded" => worker.saw)'
<1>. SUFFICES ASSUME TypeOK, Once, [Next]_vars
              PROVE  worker'.verdict = "succeeded" => worker'.saw
  OBVIOUS
<1>1. UNCHANGED worker \/ worker' = Idle \/ TakeFrame
  BY DEF Next, AgentStep, Serve, WorkerStep, PurgeStep, FaultStep, PurgeExpired, FlushNext, FlushEnd,
         Capture, Record, SkipBeat, UnlinkImage, UnlinkMetadata, Send, Receive, ReadRow, ReadCamera,
         CommitIntent, CommitPut, CommitComplete, CommitBeat, Forget, CommitAnalysis,
         StartPurge, SelectBatch, DeleteObjects, DeleteRows, StopPurge, Unreachable, Crash, Expire,
         RollBack, GiveUp, vars, workVars
<1>. QED
  BY <1>1 DEF Once, Idle, TakeFrame

LEMMA SingleStep ==
    ASSUME TypeOK, InStep, Sound, Once, [Next]_vars, NEW f \in Frames, f \notin crossed'
    PROVE  Single(f)'
<1>. USE CameraAssumption
<1>0. /\ raised \in [Frames -> Nat] /\ row \in [Frames -> Row] /\ row[f] \in Row
      /\ req \in [Threads -> Request] /\ worker.frame \in 0 .. MaxFrames
      /\ taken \in Nat /\ f \in Nat \ {0}
      /\ purge \in [step : {"off", "scan", "delete", "commit"}, kept : SUBSET (0 .. MaxFrames),
                    batch : SUBSET Frames]
  BY DEF TypeOK, Frames
<1>1. Single(f)
  <2>1. UNCHANGED crossed \/ \E t \in Threads : CommitComplete(t)
    BY DEF Next, AgentStep, Serve, WorkerStep, PurgeStep, FaultStep, PurgeExpired, FlushNext, FlushEnd,
         Capture, Record, SkipBeat, UnlinkImage, UnlinkMetadata, Send, Receive, ReadRow, ReadCamera,
         CommitIntent, CommitPut, CommitBeat, Forget, TakeFrame, CommitAnalysis,
         StartPurge, SelectBatch, DeleteObjects, DeleteRows, StopPurge, Unreachable, Crash, Expire,
         RollBack, GiveUp, vars, rowVars
  <2>2. f \notin crossed
    BY <2>1 DEF CommitComplete
  <2>. QED
    BY <2>2 DEF Once
<1>2. /\ Uploaded(f) => Good(f)
      /\ row[f].upload = "failed" => ~Good(f)
      /\ row[f].upload # "none" => f <= taken
  BY DEF Sound
<1>3. ASSUME NEW t \in Threads, CommitIntent(t) PROVE Single(f)'
  <2>0. UNCHANGED <<worker, raised, purge>>
    BY <1>3 DEF CommitIntent, workVars, purgeVars
  <2>1. CASE row'[f] = row[f]
    BY <2>0, <2>1, <1>1, SingleKept DEF Uploaded
  <2>2. CASE row'[f] # row[f]
    <3>1. f = req[t].frame /\ row'[f] = Intended(row[f], req[t].row)
      BY <2>2, <1>3, <1>0 DEF CommitIntent
    <3>2. req[t].row.upload # "uploaded"
      BY <3>1, <2>2 DEF Intended
    <3>3. Uploaded(f) => req[t].row.upload \notin {"none", "failed"}
      <4>1. req[t].row.upload = "none" => row[f].upload = "none"
        BY <3>1, <3>2, <2>2, <1>3 DEF CommitIntent
      <4>2. req[t].row.upload = "failed" => ~Good(f)
        BY <3>1, <1>3 DEF Sound, CommitIntent, Serving
      <4>. QED
        BY <4>1, <4>2, <1>2 DEF Uploaded
    <3>4. /\ row'[f].analysis = row[f].analysis /\ row'[f].seen = row[f].seen
          /\ Uploaded(f)' = Uploaded(f)
      <4>1. req[t].row.upload \in {"none", "pending", "failed"}
        BY <3>2, <1>0 DEF Request, Row
      <4>. QED
        BY <4>1, <3>1, <3>2, <3>3, <1>0 DEF Intended, Uploaded, Row
    <3>. QED
      BY <2>0, <3>4, <1>1, SingleKept
  <2>. QED
    BY <2>1, <2>2
<1>4. ASSUME NEW t \in Threads, CommitComplete(t) PROVE Single(f)'
  <2>0. UNCHANGED <<worker, raised, purge, taken, picture>>
    BY <1>4 DEF CommitComplete, workVars, purgeVars, agentVars
  <2>1. CASE row'[f] = row[f]
    BY <2>0, <2>1, <1>1, SingleKept DEF Uploaded
  <2>2. CASE row'[f] # row[f] /\ ~Good(req[t].frame)
    <3>1. f = req[t].frame /\ row'[f] = MarkedFailed(row[f], req[t].row)
      BY <2>2, <1>4, <1>0 DEF CommitComplete
    <3>2. ~Uploaded(f) /\ row[f].analysis = "pending"
      BY <3>1, <2>2, <1>2, <1>1 DEF Single
    <3>3. row'[f].analysis = "pending" /\ row'[f].seen = row[f].seen /\ ~Uploaded(f)'
      BY <3>1, <3>2, <1>0 DEF MarkedFailed, Written, Uploaded, Row
    <3>4. Uploaded(f)' = Uploaded(f)
      BY <3>2, <3>3 DEF Uploaded
    <3>. QED
      BY <2>0, <3>2, <3>3, <3>4, <1>1, SingleKept
  <2>3. CASE row'[f] # row[f] /\ Good(req[t].frame)
    <3>1. /\ f = req[t].frame /\ row'[f] = Completed(row[f])
          /\ row[f].upload # "uploaded"
      BY <2>3, <1>4, <1>0 DEF CommitComplete
    <3>2. ~Uploaded(f) /\ row[f].analysis = "pending" /\ raised[f] = 0 /\ worker.frame # f
      BY <3>1, <1>0, <1>1 DEF Single, Uploaded
    <3>3. ~InBatch(f)
      BY <3>1, <3>2, <2>3, <1>1 DEF Single
    <3>4. row'[f].analysis = "queued" /\ Uploaded(f)'
      BY <3>1, <1>0 DEF Completed, Uploaded, Row
    <3>. QED
      BY <2>0, <3>2, <3>3, <3>4 DEF Single, InBatch
  <2>. QED
    BY <2>1, <2>2, <2>3
<1>5. CASE Expire
  <2>1. /\ row'[f].analysis = row[f].analysis /\ row'[f].seen = row[f].seen
        /\ row'[f].upload = row[f].upload
    BY <1>5, <1>0 DEF Expire, Row
  <2>2. UNCHANGED <<worker, raised, purge>>
    BY <1>5 DEF Expire, workVars, purgeVars
  <2>. QED
    BY <2>1, <2>2, <1>1, SingleKept DEF Uploaded
<1>6. CASE TakeFrame
  <2>0. UNCHANGED <<row, raised, purge, taken, picture>>
    BY <1>6 DEF TakeFrame, rowVars, purgeVars, agentVars
  <2>1. worker'.frame \in Queued
    BY <1>6 DEF TakeFrame
  <2>2. worker'.frame = f => Uploaded(f) /\ row[f].analysis = "queued"
    BY <2>1 DEF Queued, Uploaded
  <2>. QED
    BY <2>0, <2>2, <1>1 DEF Single, InBatch, Good, Uploaded
<1>7. CASE CommitAnalysis
  <2>0. UNCHANGED <<purge, taken, picture>> /\ worker' = Idle
    BY <1>7 DEF CommitAnalysis, purgeVars, agentVars
  <2>1. CASE f # worker.frame
    <3>1. row'[f] = row[f] /\ raised'[f] = raised[f]
      BY <2>1, <1>7, <1>0 DEF CommitAnalysis
    <3>. QED
      BY <2>0, <3>1, <1>1, <1>0 DEF Single, InBatch, Good, Uploaded, Idle
  <2>2. CASE f = worker.frame
    <3>1. /\ row'[f] = Analysed(row[f])
          /\ raised'[f] = IF Raises THEN raised[f] + 1 ELSE raised[f]
      BY <2>2, <1>7, <1>0 DEF CommitAnalysis
    <3>2. Uploaded(f) /\ Good(f) /\ row[f].analysis = "queued" /\ raised[f] = 0
      BY <2>2, <1>0, <1>1, <1>2 DEF Single
    <3>3. ~InBatch(f)
      BY <3>2, <1>1 DEF Single
    <3>4. Uploaded(f)' /\ row'[f].analysis = worker.verdict
          /\ row'[f].seen = (row[f].seen \/ worker.saw)
      BY <3>1, <3>2, <1>0 DEF Analysed, Uploaded, Row
    <3>5. Raises => worker.verdict = "succeeded" /\ worker.saw
      BY DEF Raises, Once
    <3>6. ~InBatch(f)' /\ worker'.frame # f
      BY <2>0, <3>3, <1>0 DEF InBatch, Idle
    <3>7. raised'[f] <= 1
      BY <3>1, <3>2
    <3>8. raised'[f] = 1 => row'[f].seen /\ row'[f].analysis = "succeeded"
      <4>1. raised'[f] = 1 => Raises
        BY <3>1, <3>2
      <4>2. worker.saw => row'[f].seen
        BY <3>4, Zenon
      <4>. QED
        BY <4>1, <4>2, <3>4, <3>5, Zenon
    <3>. QED
      BY <3>4, <3>6, <3>7, <3>8 DEF Single
  <2>. QED
    BY <2>1, <2>2
<1>8. CASE RollBack
  <2>1. UNCHANGED <<row, raised, purge, taken, picture>> /\ worker' = Idle
    BY <1>8 DEF RollBack, rowVars, purgeVars, agentVars
  <2>. QED
    BY <2>1, <1>1, <1>0 DEF Single, InBatch, Good, Uploaded, Idle
<1>9. CASE StartPurge \/ SelectBatch \/ DeleteObjects \/ StopPurge
  <2>1. UNCHANGED <<row, raised, worker, taken, picture>>
    BY <1>9 DEF StartPurge, SelectBatch, DeleteObjects, StopPurge, rowVars, workVars, agentVars
  <2>2. InBatch(f)' => InBatch(f) \/ f \in Failing
    <3>1. CASE SelectBatch
      BY <3>1, <1>0 DEF SelectBatch, InBatch, Off
    <3>2. CASE DeleteObjects
      BY <3>2, <1>0 DEF DeleteObjects, InBatch
    <3>3. CASE StartPurge \/ StopPurge
      BY <3>3 DEF StartPurge, StopPurge, InBatch, Off
    <3>. QED
      BY <1>9, <3>1, <3>2, <3>3
  <2>3. f \in Failing => f <= taken /\ (~Good(f) \/ row[f].analysis = "failed")
    BY <1>2 DEF Failing
  <2>. QED
    BY <2>1, <2>2, <2>3, <1>1 DEF Single, Good, Uploaded
<1>10. CASE DeleteRows
  <2>0. /\ UNCHANGED <<raised, worker, taken, picture>> /\ ~InBatch(f)'
        /\ row' = row \/ \A g \in purge.batch : ~row[g].seen
    <3>1. purge'.step \notin {"delete", "commit"}
      <4>1. purge' = Off \/ purge' = [purge EXCEPT !.step = "scan", !.batch = {}]
        BY <1>10 DEF DeleteRows
      <4>2. [purge EXCEPT !.step = "scan", !.batch = {}].step = "scan"
        BY <1>0
      <4>. QED
        <5>1. CASE purge' = Off
          BY <5>1 DEF Off
        <5>2. CASE purge' = [purge EXCEPT !.step = "scan", !.batch = {}]
          <6>1. purge'.step = "scan"
            BY <4>2, <5>2, Zenon
          <6>. QED
            BY <6>1
        <5>. QED
          BY <4>1, <5>1, <5>2
    <3>2. row' = row \/ \A g \in purge.batch : ~row[g].seen
      BY <1>10 DEF DeleteRows
    <3>. QED
      BY <3>1, <3>2, <1>10 DEF DeleteRows, InBatch, workVars, agentVars
  <2>1. CASE row'[f] = row[f]
    BY <2>0, <2>1, <1>1 DEF Single, Uploaded
  <2>2. CASE row'[f] # row[f]
    <3>1. InBatch(f) /\ row'[f] = NoRow /\ ~row[f].seen
      BY <2>0, <2>2, <1>10, <1>0 DEF DeleteRows, InBatch
    <3>2. raised[f] = 0 /\ worker.frame # f
      BY <3>1, <1>0, <1>1, <1>2 DEF Single
    <3>. QED
      BY <2>0, <3>1, <3>2 DEF Single, NoRow
  <2>. QED
    BY <2>1, <2>2
<1>11. CASE UNCHANGED <<row, worker, raised, purge>>
  BY <1>11, <1>1, SingleKept DEF Uploaded
<1>. QED
  BY <1>3, <1>4, <1>5, <1>6, <1>7, <1>8, <1>9, <1>10, <1>11
     DEF Next, AgentStep, Serve, WorkerStep, PurgeStep, FaultStep, PurgeExpired, FlushNext, FlushEnd,
         Capture, Record, SkipBeat, UnlinkImage, UnlinkMetadata, Send, Receive, ReadRow, ReadCamera,
         CommitPut, CommitBeat, Forget, Unreachable, Crash, GiveUp,
         vars, rowVars, workVars, purgeVars

LEMMA OnceStep == TypeOK /\ InStep /\ Sound /\ Once /\ [Next]_vars => Once'
<1>. SUFFICES ASSUME TypeOK, InStep, Sound, Once, [Next]_vars PROVE Once'
  OBVIOUS
<1>. QED
  BY SawStep, SingleStep DEF Once

-----------------------------------------------------------------------------
CameraInv == TypeOK /\ InStep /\ Sound /\ Trusted /\ NeverLost /\ PointerServes /\ Once

LEMMA CameraInit == Init => CameraInv
<1>. SUFFICES ASSUME Init PROVE CameraInv
  OBVIOUS
<1>. USE CameraAssumption
<1>1. TypeOK
  <2>1. (CHOOSE p \in Pictures : TRUE) \in Pictures
    OBVIOUS
  <2>2. picture \in [Frames -> Pictures]
    BY <2>1 DEF Init
  <2>3. /\ agent \in Agent /\ req \in [Threads -> Request] /\ row \in [Frames -> Row]
        /\ camera \in Camera
    BY NoRequestTyped DEF Init, Started, Agent
  <2>. QED
    BY <2>2, <2>3 DEF Init, TypeOK, Idle, Off
<1>2. InStep
  BY DEF Init, InStep, Started, NoRequest
<1>3. Sound /\ Trusted
  BY DEF Init, Sound, Trusted, Uploaded, NoRow, NoRequest, Started
<1>4. NeverLost /\ PointerServes
  BY DEF Init, NeverLost, PointerServes, NoCamera
<1>5. Once
  BY DEF Init, Once, Single, InBatch, Off, Idle, NoRow, Frames, Uploaded
<1>. QED
  BY <1>1, <1>2, <1>3, <1>4, <1>5 DEF CameraInv

LEMMA CameraStep == CameraInv /\ [Next]_vars => CameraInv'
  BY TypeStep, InStepStep, SoundStep, TrustedStep, NeverLostStep, PointerStep, OnceStep DEF CameraInv

\* The typing invariant of the model.
THEOREM CameraTyped == Spec => []TypeOK
<1>1. CameraInv => TypeOK
  BY DEF CameraInv
<1>. QED
  BY <1>1, CameraInit, CameraStep, PTL DEF Spec

(***************************************************************************)
(* NeverLost: whatever requests are lost, late or repeated and wherever the *)
(* agent is restarted, the spool lets go only of frames the server has.     *)
(***************************************************************************)
THEOREM FramesKept == Spec => []NeverLost
<1>1. CameraInv => NeverLost
  BY DEF CameraInv
<1>. QED
  BY <1>1, CameraInit, CameraStep, PTL DEF Spec

\* UploadedStays: no session takes back what another one completed.
THEOREM UploadsFinal == Spec => UploadedStays
<1>1. CameraInv /\ [Next]_vars => [\A f \in Frames : Uploaded(f) => Uploaded(f)' \/ f \in purged']_vars
  BY ServedKept DEF CameraInv
<1>. QED
  BY <1>1, CameraInit, CameraStep, PTL DEF Spec, UploadedStays

\* PointerServes: the camera's pointer names a frame that was uploaded.
THEOREM PointerSound == Spec => []PointerServes
<1>1. CameraInv => PointerServes
  BY DEF CameraInv
<1>. QED
  BY <1>1, CameraInit, CameraStep, PTL DEF Spec

(***************************************************************************)
(* RaisedOnce: a frame whose completions did not overlap raises at most one *)
(* incident.                                                                *)
(***************************************************************************)
THEOREM IncidentRaisedOnce == Spec => []RaisedOnce
<1>1. CameraInv => RaisedOnce
  BY DEF CameraInv, Once, Single, RaisedOnce
<1>. QED
  BY <1>1, CameraInit, CameraStep, PTL DEF Spec
=============================================================================
