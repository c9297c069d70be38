---------------------------- MODULE OpenBmcProofs ----------------------------
(***************************************************************************)
(* Proofs about the command workflow, for any number of commands, web      *)
(* requests, leases and faults: of the rows alone, for every connector, and *)
(* then of the whole workflow: typing, that its rows behave as the rows     *)
(* alone, and that no lease is dispatched twice.  The last part is about    *)
(* the feed of readings and events.                                         *)
(***************************************************************************)
EXTENDS OpenBmc, OpenBmcFeed, SequenceTheorems, FiniteSetTheorems, TLAPS

-----------------------------------------------------------------------------
(***************************************************************************)
(* The rows of one device.                                                 *)
(***************************************************************************)
(* A device's active command holds its slot, and the slot has one holder.    *)
(* OneActiveCommand alone is not inductive: it is the slot a confirm tests   *)
(* when it commits, and not the statuses.                                    *)
ActiveHasSlot == \A c \in Commands : status[c] \in ActiveStatuses => slot[c]
SlotUnique == \A c, d \in Commands : slot[c] /\ slot[d] => c = d

SlotInv == ActiveHasSlot /\ SlotUnique

LEMMA LeaseFacts ==
    /\ MaxLeases \in Nat \ {0} /\ MaxFaults \in Nat
    /\ Leases \subseteq Nat \ {0} /\ LocalIds \subseteq Nat \ {0}
  BY BoundsAssumption DEF Leases, LocalIds

-----------------------------------------------------------------------------
(* Types.                                                                    *)

\* The sweep keeps rows well typed.
LEMMA SweepTyped ==
    ASSUME CloudTypeOK
    PROVE  /\ SweptStatus \in [Commands -> Statuses]
           /\ SweptSlot \in [Commands -> BOOLEAN]
  BY DEF CloudTypeOK, SweptStatus, SweptSlot, Statuses, TerminalStatuses

LEMMA WebTyped ==
    ASSUME CloudTypeOK, WebSide
    PROVE  CloudTypeOK'
<1>1. CASE ReadDevices
  BY <1>1, SweepTyped DEF CloudTypeOK, ReadDevices, deadlineVars
<1>2. ASSUME NEW c \in Commands, Propose(c)
      PROVE  CloudTypeOK'
  BY <1>2, SweepTyped DEF CloudTypeOK, Propose, deadlineVars, Statuses
<1>3. ASSUME NEW u \in Users, NEW c \in Commands, NEW op \in {"confirm", "cancel"},
             BeginRequest(u, op, c)
      PROVE  CloudTypeOK'
  <2>1. [op |-> op, cmd |-> c, status |-> status[c], slot |-> slot[c]] \in WebRequests
    BY DEF CloudTypeOK, WebRequests
  <2> QED
    BY <1>3, <2>1 DEF CloudTypeOK, BeginRequest, deadlineVars
<1>4. ASSUME NEW u \in Users, FinishRequest(u)
      PROVE  CloudTypeOK'
  <2>1. web[u].op # "none" => web[u] \in WebRequests
    BY DEF CloudTypeOK, NoRequest
  <2>2. ASSUME EndRequest(u) PROVE web' \in [Users -> WebRequests \cup {NoRequest}]
    BY <2>2 DEF CloudTypeOK, EndRequest
  <2>3. CASE RefuseRequest(u)
    BY <2>2, <2>3, SweepTyped DEF CloudTypeOK, RefuseRequest, deadlineVars
  <2>4. CASE Cancel(u)
    BY <2>2, <2>4, SweepTyped DEF CloudTypeOK, Cancel, deadlineVars, Statuses, TerminalStatuses
  <2>5. CASE ConfirmTooLate(u)
    BY <2>2, <2>5, SweepTyped DEF CloudTypeOK, ConfirmTooLate, deadlineVars, Statuses, TerminalStatuses
  <2>6. CASE ConfirmChecks(u)
    <3>1. [web[u] EXCEPT !.op = "commit"] \in WebRequests
      BY <2>1, <2>6 DEF ConfirmChecks, WebRequests
    <3> QED
      BY <2>6, <3>1, SweepTyped DEF CloudTypeOK, ConfirmChecks, deadlineVars
  <2>7. CASE ConfirmCommits(u)
    BY <2>2, <2>7 DEF CloudTypeOK, ConfirmCommits, Statuses, ActiveStatuses
  <2>8. CASE ConfirmRollsBack(u)
    BY <2>2, <2>8 DEF CloudTypeOK, ConfirmRollsBack, deadlineVars
  <2> QED
    BY <1>4, <2>3, <2>4, <2>5, <2>6, <2>7, <2>8 DEF FinishRequest
<1> QED
  BY <1>1, <1>2, <1>3, <1>4 DEF WebSide

LEMMA ConnectorTyped ==
    ASSUME CloudTypeOK, ConnectorSide
    PROVE  CloudTypeOK'
<1>1. CASE ClaimNothing
  BY <1>1, SweepTyped DEF CloudTypeOK, ClaimNothing, deadlineVars
<1>2. ASSUME NEW c \in Commands, ClaimRejects(c)
      PROVE  CloudTypeOK'
  BY <1>2, SweepTyped DEF CloudTypeOK, ClaimRejects, deadlineVars, Statuses, TerminalStatuses
<1>3. ASSUME NEW c \in Commands, ClaimGrants(c)
      PROVE  CloudTypeOK'
  <2>1. leases + 1 \in Leases /\ leases + 1 \in 0..MaxLeases
    BY <1>3, LeaseFacts DEF CloudTypeOK, ClaimGrants, Leases
  <2> QED
    BY <1>3, <2>1, SweepTyped DEF CloudTypeOK, ClaimGrants, Statuses, ActiveStatuses
<1>4. ASSUME NEW c \in Commands, NEW ok \in BOOLEAN, LateCall(c, ok)
      PROVE  CloudTypeOK'
  BY <1>4 DEF CloudTypeOK, LateCall, deadlineVars, Statuses, TerminalStatuses
<1>5. ASSUME NEW c \in Commands, NEW l \in Leases, NEW s \in ProgressStatuses,
             NEW id \in LocalIds \cup {NoLocalId}, NEW ok \in BOOLEAN, Progress(c, l, s, id, ok)
      PROVE  CloudTypeOK'
  <2>1. CASE UNCHANGED cloudVars
    BY <2>1 DEF CloudTypeOK, cloudVars
  <2>2. CASE RecordProgress(c, s, id, ok)
    BY <2>2 DEF CloudTypeOK, RecordProgress, deadlineVars, ProgressStatuses, Statuses, ActiveStatuses
  <2> QED
    BY <1>4, <1>5, <2>1, <2>2 DEF Progress, RefuseCall
<1>6. ASSUME NEW c \in Commands, NEW l \in Leases, NEW p \in Payloads, NEW ok \in BOOLEAN,
             Finish(c, l, p, ok)
      PROVE  CloudTypeOK'
  <2>1. CASE UNCHANGED cloudVars
    BY <2>1 DEF CloudTypeOK, cloudVars
  <2>2. CASE RecordResult(c, p, ok)
    <3>1. p.status \in Statuses /\ p.localId \in LocalIds \cup {NoLocalId}
      BY DEF Payloads, ResultStatuses, Statuses, TerminalStatuses
    <3> QED
      BY <2>2, <3>1 DEF CloudTypeOK, RecordResult, deadlineVars
  <2> QED
    BY <1>4, <1>6, <2>1, <2>2 DEF Finish, RefuseCall
<1> QED
  BY <1>1, <1>2, <1>3, <1>5, <1>6 DEF ConnectorSide

\* The rows are well typed in every reachable state.
THEOREM RowsTyped == CloudSpec => []CloudTypeOK
<1>1. CloudInit => CloudTypeOK
  BY LeaseFacts DEF CloudInit, CloudTypeOK, Statuses
<1>2. CloudTypeOK /\ [CloudNext]_cloudVars => CloudTypeOK'
  <2> SUFFICES ASSUME CloudTypeOK, [CloudNext]_cloudVars PROVE CloudTypeOK'
    OBVIOUS
  <2>1. CASE WebSide
    BY <2>1, WebTyped
  <2>2. CASE ConnectorSide
    BY <2>2, ConnectorTyped
  <2>3. CASE ServerClock
    BY <2>3 DEF CloudTypeOK, ServerClock, ConfirmationEnds, QueueTimeEnds, LeaseEnds
  <2>4. CASE UNCHANGED cloudVars
    BY <2>4 DEF CloudTypeOK, cloudVars
  <2> QED
    BY <2>1, <2>2, <2>3, <2>4 DEF CloudNext
<1> QED
  BY <1>1, <1>2, PTL DEF CloudSpec

-----------------------------------------------------------------------------
(* One active command per device.                                            *)

\* The sweep frees the slot of exactly the rows it ends.
LEMMA SweepKeepsSlot ==
    ASSUME CloudTypeOK, SlotInv
    PROVE  /\ \A c \in Commands : SweptStatus[c] \in ActiveStatuses => SweptSlot[c]
           /\ \A c, d \in Commands : SweptSlot[c] /\ SweptSlot[d] => c = d
  BY DEF CloudTypeOK, SlotInv, ActiveHasSlot, SlotUnique, SweptStatus, SweptSlot, ActiveStatuses

LEMMA WebKeepsSlot ==
    ASSUME CloudTypeOK, SlotInv, WebSide
    PROVE  SlotInv'
<1> USE SweepTyped, SweepKeepsSlot
<1>1. CASE ReadDevices
  BY <1>1 DEF ReadDevices, SlotInv, ActiveHasSlot, SlotUnique
<1>2. ASSUME NEW c \in Commands, Propose(c)
      PROVE  SlotInv'
  BY <1>2 DEF Propose, SlotInv, ActiveHasSlot, SlotUnique, ActiveStatuses
<1>3. ASSUME NEW u \in Users, NEW c \in Commands, NEW op \in {"confirm", "cancel"},
             BeginRequest(u, op, c)
      PROVE  SlotInv'
  BY <1>3 DEF BeginRequest, SlotInv, ActiveHasSlot, SlotUnique
<1>4. ASSUME NEW u \in Users, FinishRequest(u)
      PROVE  SlotInv'
  <2>1. CASE RefuseRequest(u)
    BY <2>1 DEF RefuseRequest, SlotInv, ActiveHasSlot, SlotUnique
  <2>2. CASE Cancel(u)
    BY <2>2 DEF Cancel, SlotInv, ActiveHasSlot, SlotUnique, ActiveStatuses
  <2>3. CASE ConfirmTooLate(u)
    BY <2>3 DEF ConfirmTooLate, SlotInv, ActiveHasSlot, SlotUnique, ActiveStatuses
  <2>4. CASE ConfirmChecks(u)
    BY <2>4 DEF ConfirmChecks, SlotInv, ActiveHasSlot, SlotUnique
  <2>5. CASE ConfirmCommits(u)
    BY <2>5 DEF ConfirmCommits, SlotIsFree, CloudTypeOK, SlotInv, ActiveHasSlot, SlotUnique
  <2>6. CASE ConfirmRollsBack(u)
    BY <2>6 DEF ConfirmRollsBack, SlotInv, ActiveHasSlot, SlotUnique
  <2> QED
    BY <1>4, <2>1, <2>2, <2>3, <2>4, <2>5, <2>6 DEF FinishRequest
<1> QED
  BY <1>1, <1>2, <1>3, <1>4 DEF WebSide

LEMMA ConnectorKeepsSlot ==
    ASSUME CloudTypeOK, SlotInv, ConnectorSide
    PROVE  SlotInv'
<1> USE SweepTyped, SweepKeepsSlot
<1>1. CASE ClaimNothing
  BY <1>1 DEF ClaimNothing, SlotInv, ActiveHasSlot, SlotUnique
<1>2. ASSUME NEW c \in Commands, ClaimRejects(c)
      PROVE  SlotInv'
  BY <1>2 DEF ClaimRejects, SlotInv, ActiveHasSlot, SlotUnique, ActiveStatuses
<1>3. ASSUME NEW c \in Commands, ClaimGrants(c)
      PROVE  SlotInv'
  BY <1>3 DEF ClaimGrants, SlotInv, ActiveHasSlot, SlotUnique, ActiveStatuses
<1>4. ASSUME NEW c \in Commands, NEW ok \in BOOLEAN, LateCall(c, ok)
      PROVE  SlotInv'
  BY <1>4 DEF LateCall, CloudTypeOK, SlotInv, ActiveHasSlot, SlotUnique, ActiveStatuses
<1>5. ASSUME NEW c \in Commands, NEW l \in Leases, NEW s \in ProgressStatuses,
             NEW id \in LocalIds \cup {NoLocalId}, NEW ok \in BOOLEAN, Progress(c, l, s, id, ok)
      PROVE  SlotInv'
  <2>1. CASE UNCHANGED cloudVars
    BY <2>1 DEF cloudVars, SlotInv, ActiveHasSlot, SlotUnique
  <2>2. CASE MayProgress(c, s, id) /\ RecordProgress(c, s, id, ok)
    <3>1. status[c] \in ActiveStatuses
      BY <2>2 DEF MayProgress, AllowedProgress, ActiveStatuses
    <3> QED
      BY <2>2, <3>1 DEF RecordProgress, CloudTypeOK, SlotInv, ActiveHasSlot, SlotUnique
  <2> QED
    BY <1>4, <1>5, <2>1, <2>2 DEF Progress, RefuseCall
<1>6. ASSUME NEW c \in Commands, NEW l \in Leases, NEW p \in Payloads, NEW ok \in BOOLEAN,
             Finish(c, l, p, ok)
      PROVE  SlotInv'
  <2>1. CASE UNCHANGED cloudVars
    BY <2>1 DEF cloudVars, SlotInv, ActiveHasSlot, SlotUnique
  <2>2. CASE RecordResult(c, p, ok)
    BY <2>2 DEF RecordResult, CloudTypeOK, Payloads, ResultStatuses, ActiveStatuses,
                SlotInv, ActiveHasSlot, SlotUnique
  <2> QED
    BY <1>4, <1>6, <2>1, <2>2 DEF Finish, RefuseCall
<1> QED
  BY <1>1, <1>2, <1>3, <1>5, <1>6 DEF ConnectorSide

\* A device never has two active commands: not two confirms at once, nor a
\* confirm that races a claim, a cancel or the sweep, can bring it about.
THEOREM AtMostOneActive == CloudSpec => []OneActiveCommand
<1>1. CloudInit => SlotInv
  BY DEF CloudInit, SlotInv, ActiveHasSlot, SlotUnique, ActiveStatuses
<1>2. CloudTypeOK /\ SlotInv /\ [CloudNext]_cloudVars => SlotInv'
  <2> SUFFICES ASSUME CloudTypeOK, SlotInv, [CloudNext]_cloudVars PROVE SlotInv'
    OBVIOUS
  <2>1. CASE WebSide
    BY <2>1, WebKeepsSlot
  <2>2. CASE ConnectorSide
    BY <2>2, ConnectorKeepsSlot
  <2>3. CASE ServerClock
    BY <2>3 DEF ServerClock, ConfirmationEnds, QueueTimeEnds, LeaseEnds,
                SlotInv, ActiveHasSlot, SlotUnique
  <2>4. CASE UNCHANGED cloudVars
    BY <2>4 DEF cloudVars, SlotInv, ActiveHasSlot, SlotUnique
  <2> QED
    BY <2>1, <2>2, <2>3, <2>4 DEF CloudNext
<1>3. SlotInv => OneActiveCommand
  BY DEF SlotInv, ActiveHasSlot, SlotUnique, OneActiveCommand
<1> QED
  BY <1>1, <1>2, <1>3, RowsTyped, PTL DEF CloudSpec

-----------------------------------------------------------------------------
(* Ended rows.                                                               *)

\* A finished or refused web request leaves a trace in web: no step of one
\* looks like a step of the connector.
LEMMA RequestsShow ==
    ASSUME CloudTypeOK, NEW u \in Users,
           FinishRequest(u) \/ \E c \in Commands, op \in {"confirm", "cancel"} : BeginRequest(u, op, c)
    PROVE  web' # web
<1>1. ASSUME NEW c \in Commands, NEW op \in {"confirm", "cancel"}, BeginRequest(u, op, c)
      PROVE  web' # web
  BY <1>1 DEF BeginRequest, NoRequest, CloudTypeOK
<1>2. ASSUME web[u].op # "none", EndRequest(u) PROVE web' # web
  BY <1>2 DEF EndRequest, NoRequest, CloudTypeOK
<1>3. CASE ConfirmChecks(u)
  <2>1. web[u] \in WebRequests
    BY <1>3 DEF ConfirmChecks, CloudTypeOK, NoRequest
  <2>2. web'[u].op = "commit" /\ web[u].op = "confirm"
    BY <1>3, <2>1 DEF ConfirmChecks, CloudTypeOK, WebRequests
  <2> QED
    BY <2>2
<1> QED
  BY <1>1, <1>2, <1>3 DEF FinishRequest, RefuseRequest, Cancel, ConfirmTooLate,
                          ConfirmCommits, ConfirmRollsBack

\* What a row ended with stays: no claim, progress, result or deadline, however
\* late or often it comes, changes it. Only a web request can.
THEOREM EndsKept == CloudSpec => ConnectorKeepsEnds
<1> DEFINE Kept == \A c \in Commands : status[c] \in TerminalStatuses =>
                                          status'[c] = status[c] /\ result'[c] = result[c]
<1>1. CloudTypeOK /\ [CloudNext]_cloudVars => (web' = web => Kept)
  <2> SUFFICES ASSUME CloudTypeOK, [CloudNext]_cloudVars, web' = web PROVE Kept
    OBVIOUS
  <2>1. \A c \in Commands : status[c] \in TerminalStatuses =>
           SweptStatus[c] = status[c] /\ status[c] \notin LeasedStatuses \cup {"queued", "none"}
    BY DEF SweptStatus, Expirable, TerminalStatuses, LeasedStatuses, CloudTypeOK
  <2>2. CASE WebSide
    BY <2>1, <2>2, RequestsShow, SweepTyped DEF WebSide, ReadDevices, Propose
  <2>3. CASE ConnectorSide
    <3>1. ASSUME NEW c \in Commands, NEW ok \in BOOLEAN, LateCall(c, ok)
          PROVE  Kept
      BY <3>1 DEF LateCall, CloudTypeOK
    <3>2. ASSUME NEW c \in Commands, NEW l \in Leases, NEW s \in ProgressStatuses,
                 NEW id \in LocalIds \cup {NoLocalId}, NEW ok \in BOOLEAN, Progress(c, l, s, id, ok)
          PROVE  Kept
      <4>1. CASE UNCHANGED cloudVars
        BY <4>1 DEF cloudVars
      <4>2. CASE MayProgress(c, s, id) /\ RecordProgress(c, s, id, ok)
        <5>1. status[c] \in LeasedStatuses
          BY <4>2 DEF MayProgress, AllowedProgress, LeasedStatuses
        <5> QED
          BY <2>1, <4>2, <5>1 DEF RecordProgress, CloudTypeOK
      <4> QED
        BY <3>1, <3>2, <4>1, <4>2 DEF Progress, RefuseCall
    <3>3. ASSUME NEW c \in Commands, NEW l \in Leases, NEW p \in Payloads, NEW ok \in BOOLEAN,
                 Finish(c, l, p, ok)
          PROVE  Kept
      <4>1. CASE UNCHANGED cloudVars
        BY <4>1 DEF cloudVars
      <4>2. CASE MayFinish(c, p) /\ RecordResult(c, p, ok)
        BY <2>1, <4>2 DEF MayFinish, RecordResult, CloudTypeOK
      <4> QED
        BY <3>1, <3>3, <4>1, <4>2 DEF Finish, RefuseCall
    <3>4. CASE ClaimNothing
      BY <2>1, <3>4 DEF ClaimNothing
    <3>5. ASSUME NEW c \in Commands, ClaimRejects(c) \/ ClaimGrants(c)
          PROVE  Kept
      BY <2>1, <3>5, SweepTyped DEF ClaimRejects, ClaimGrants
    <3> QED
      BY <2>3, <3>2, <3>3, <3>4, <3>5 DEF ConnectorSide
  <2>4. CASE ServerClock
    BY <2>4 DEF ServerClock, ConfirmationEnds, QueueTimeEnds, LeaseEnds
  <2>5. CASE UNCHANGED cloudVars
    BY <2>5 DEF cloudVars
  <2> QED
    BY <2>2, <2>3, <2>4, <2>5 DEF CloudNext
<1> QED
  BY <1>1, RowsTyped, PTL DEF CloudSpec, ConnectorKeepsEnds

-----------------------------------------------------------------------------
(***************************************************************************)
(* The whole workflow.                                                     *)
(***************************************************************************)

(* A local id the connector knows of is one the collector has handed out.    *)
KnownId(id) == id # NoLocalId => id \in DOMAIN local
IdsKnown ==
    /\ \A m \in {mem, disk} : m # NoCommand => KnownId(m.localId)
    /\ reply.kind = "accepted" => KnownId(reply.localId)

\* While it waits for an answer about a command, the connector remembers one.
WaitsForOne ==
    /\ call.kind \in {"execute", "progress", "result"} => mem # NoCommand
    /\ pc = "refuse" => mem # NoCommand /\ Idle

ConnectorInv == ConnectorTypeOK /\ IdsKnown /\ WaitsForOne

-----------------------------------------------------------------------------
(* Types of the connector.                                                   *)

LEMMA TerminalTyped ==
    ASSUME ConnectorTypeOK, NEW m \in ActiveCommands, NEW outcome \in ResultStatuses
    PROVE  /\ WithTerminal(m, outcome) \in ActiveCommands
           /\ WithTerminal(m, outcome).localId = m.localId
  BY DEF WithTerminal, ActiveCommands, Payloads, ConnectorTypeOK

LEMMA ClaimTyped ==
    ASSUME ConnectorTypeOK, Claimed, NEW phase \in {"claimed", "dispatching"}
    PROVE  NewCommand(phase) \in ActiveCommands /\ NewCommand(phase).localId = NoLocalId
<1>1. reply.cmd \in Commands /\ reply.lease \in Leases
  BY DEF ConnectorTypeOK, Claimed, Replies
<1> QED
  BY <1>1 DEF NewCommand, ActiveCommands

LEMMA RepliesTyped == NoReply \in Replies /\ NoReply.kind # "accepted"
  BY DEF NoReply, Replies

\* A save that works or fails leaves a command, and the same known ids.
LEMMA SaveTyped ==
    ASSUME ConnectorInv, NEW m \in ActiveCommands \cup {NoCommand},
           m # NoCommand => KnownId(m.localId),
           local' = local, reply' \in {reply, NoReply},
           Saved(m) \/ SaveFails(m)
    PROVE  /\ mem' \in ActiveCommands \cup {NoCommand}
           /\ disk' \in ActiveCommands \cup {NoCommand}
           /\ faults' \in 0..MaxFaults
           /\ SaveFails(m) => pc' = "rest" /\ snap' = "unpolled"
           /\ IdsKnown'
  BY LeaseFacts, RepliesTyped DEF ConnectorInv, ConnectorTypeOK, IdsKnown, KnownId, Saved, SaveFails, Fault, EndCycle

LEMMA ActiveTyped ==
    ASSUME ConnectorInv, mem # NoCommand
    PROVE  /\ mem \in ActiveCommands /\ KnownId(mem.localId)
           /\ ResultCall(mem) \in Calls \/ mem.terminal = NoPayload
           /\ \A s \in ProgressStatuses : ProgressCall(mem, s) \in Calls
           /\ ExecuteCall(mem) \in Calls
  BY DEF ConnectorInv, ConnectorTypeOK, IdsKnown, ActiveCommands, ResultCall, ProgressCall,
         ExecuteCall, Calls, ResultCalls, ProgressCalls, ExecuteCalls

\* What a poll shows is what the collector and the agent have done.
LEMMA EvidenceTyped ==
    ASSUME ConnectorInv
    PROVE  Evidence \subseteq Views
<1>1. CASE mem = NoCommand \/ mem.localId = NoLocalId
  BY <1>1 DEF Evidence, Views
<1>2. CASE mem # NoCommand /\ mem.localId # NoLocalId
  <2> DEFINE outcomes == {event.outcome : event \in {e \in EventsNaming(mem.localId) : Reconciled(e)}}
  <2>1. outcomes \subseteq ResultStatuses
    BY FormerAssumption DEF EventsNaming
  <2>2. Evidence \subseteq {"unpolled", "nothing"} \cup outcomes \cup {"delivered"}
    BY <1>2 DEF Evidence
  <2> QED
    BY <2>1, <2>2 DEF Views, ResultStatuses
<1> QED
  BY <1>1, <1>2

LEMMA SendTyped ==
    ASSUME ConnectorTypeOK, NEW m \in Calls, Send(m)
    PROVE  call' \in Calls /\ reply' = NoReply /\ net' \subseteq Calls
  BY DEF Send, ConnectorTypeOK

\* Steps that only send, or only end a cycle.
LEMMA QuietTyped ==
    ASSUME ConnectorInv,
           \/ StartCycle \/ NothingToSettle \/ FlushTerminal \/ PostAccepted \/ PostDelivered
           \/ KeepWaiting \/ ClaimNotDue \/ SendClaim \/ NothingClaimed
           \/ ProgressRefused \/ ResultRefused \/ \E m \in net : LoseRequest(m)
    PROVE  ConnectorInv'
<1> USE RepliesTyped DEF ConnectorInv, ConnectorTypeOK, IdsKnown, KnownId, WaitsForOne, Idle, NoCall
<1>1. CASE StartCycle
  BY <1>1, EvidenceTyped DEF StartCycle, NoSend
<1>2. CASE NothingToSettle
  BY <1>2 DEF NothingToSettle, NoSend, Views
<1>3. CASE FlushTerminal
  <2>1. ResultCall(mem) \in Calls
    BY <1>3, ActiveTyped DEF FlushTerminal, Settled
  <2> QED
    BY <1>3, <2>1, SendTyped DEF FlushTerminal, Settled
<1>4. CASE PostAccepted \/ PostDelivered
  <2>1. PICK s \in ProgressStatuses : Send(ProgressCall(mem, s))
    BY <1>4 DEF PostAccepted, PostDelivered, ProgressStatuses
  <2>2. ProgressCall(mem, s) \in Calls
    BY <1>4, ActiveTyped DEF PostAccepted, PostDelivered, Working
  <2> QED
    BY <1>4, <2>1, <2>2, SendTyped DEF PostAccepted, PostDelivered, Recovering, Working
<1>5. CASE SendClaim
  <2>1. ClaimCall \in Calls
    BY DEF Calls
  <2> QED
    BY <1>5, <2>1, SendTyped DEF SendClaim, Send, ClaimCall, NoCall
<1>6. CASE KeepWaiting \/ ClaimNotDue
  BY <1>6 DEF KeepWaiting, ClaimNotDue, EndCycle, NoSend, Views
<1>7. CASE NothingClaimed \/ ProgressRefused \/ ResultRefused
  BY <1>7 DEF NothingClaimed, ProgressRefused, ResultRefused, EndCycle, Answered, Views
<1>8. ASSUME NEW m \in net, LoseRequest(m) PROVE ConnectorInv'
  BY <1>8 DEF LoseRequest
<1> QED
  BY <1>1, <1>2, <1>3, <1>4, <1>5, <1>6, <1>7, <1>8

\* Steps that queue a terminal payload.
LEMMA SettlingTyped ==
    ASSUME ConnectorInv,
           DispatchUnknown \/ RecordOutcome \/ GiveUp \/ LocallyRefused \/ QueueRefusal
    PROVE  ConnectorInv'
<1>1. mem # NoCommand
  BY DEF DispatchUnknown, RecordOutcome, GiveUp, LocallyRefused, QueueRefusal, Unresolved, Working,
         ConnectorInv, WaitsForOne
<1>2. PICK outcome \in ResultStatuses :
         Saved(WithTerminal(mem, outcome)) \/ SaveFails(WithTerminal(mem, outcome))
  BY DEF DispatchUnknown, RecordOutcome, GiveUp, LocallyRefused, QueueRefusal, QueueTerminal,
         Outcome, ResultStatuses
<1>3. WithTerminal(mem, outcome) \in ActiveCommands /\ KnownId(WithTerminal(mem, outcome).localId)
  BY <1>1, ActiveTyped, TerminalTyped DEF ConnectorInv
<1>4. /\ local' = local /\ reply' \in {reply, NoReply}
      /\ call' \in {call, NoCall} /\ net' = net /\ pc' \in {pc, "rest", "dispatch"}
      /\ snap' \in {snap, "unpolled"} /\ UNCHANGED <<reconcileDue, leaseDue>>
  BY DEF DispatchUnknown, RecordOutcome, GiveUp, LocallyRefused, QueueRefusal, QueueTerminal,
         SaveFails, EndCycle, GoOn, NoSend, Answered
<1>5. pc' = "refuse" => call' = NoCall
  BY <1>4 DEF ConnectorInv, WaitsForOne, Idle
<1>6. mem' # NoCommand
  BY <1>2, <1>3, LeaseFacts DEF Saved, SaveFails, ActiveCommands, NoCommand, NoLease
<1> QED
  BY <1>2, <1>3, <1>4, <1>5, <1>6, SaveTyped, RepliesTyped
     DEF ConnectorInv, ConnectorTypeOK, WaitsForOne, Idle, Views

\* A command is never the absence of one: its lease is not NoLease.
LEMMA CommandsAreSome == NoCommand \notin ActiveCommands
  BY LeaseFacts DEF NoCommand, NoLease, ActiveCommands

\* Steps that take an answer and save what it says.
LEMMA AnswerTyped ==
    ASSUME ConnectorInv,
           RefuseClaim \/ Dispatch \/ LocallyAccepted \/ ProgressPosted \/ ResultPosted
    PROVE  ConnectorInv'
<1> USE CommandsAreSome, RepliesTyped
<1> USE DEF ConnectorInv, ConnectorTypeOK, WaitsForOne, Idle, Views, NoCall
<1>1. CASE RefuseClaim
  <2>1. NewCommand("claimed") \in ActiveCommands /\ KnownId(NewCommand("claimed").localId)
    BY <1>1, ClaimTyped DEF RefuseClaim, KnownId
  <2>2. IdsKnown' /\ mem' \in ActiveCommands
    BY <1>1, <2>1, SaveTyped DEF RefuseClaim, Answered, Saved, SaveFails
  <2> QED
    BY <1>1, <2>1, <2>2, SaveTyped DEF RefuseClaim, Answered, Saved, SaveFails
<1>2. CASE Dispatch
  <2>1. NewCommand("dispatching") \in ActiveCommands /\ KnownId(NewCommand("dispatching").localId)
    BY <1>2, ClaimTyped DEF Dispatch, KnownId
  <2>2. ExecuteCall(NewCommand("dispatching")) \in Calls
    BY <2>1 DEF ExecuteCall, Calls, ExecuteCalls, ActiveCommands
  <2>3. CASE Send(ExecuteCall(NewCommand("dispatching"))) /\ Saved(NewCommand("dispatching"))
             /\ pc' = "dispatch" /\ snap' = snap /\ UNCHANGED <<local, reconcileDue, leaseDue>>
    <3>1. call' \in Calls /\ reply' = NoReply /\ net' \subseteq Calls
      BY <2>2, <2>3, SendTyped
    <3>2. IdsKnown' /\ mem' \in ActiveCommands
      BY <2>1, <2>3, <3>1, SaveTyped DEF Saved
    <3> QED
      BY <2>1, <2>3, <3>1, <3>2, SaveTyped
  <2>4. CASE SaveFails(NewCommand("dispatching")) /\ Answered
             /\ UNCHANGED <<local, reconcileDue, leaseDue>>
    <3>1. IdsKnown' /\ mem' \in ActiveCommands
      BY <2>1, <2>4, SaveTyped DEF SaveFails, Answered
    <3> QED
      BY <2>1, <2>4, <3>1, SaveTyped DEF Answered
  <2> QED
    BY <1>2, <2>3, <2>4 DEF Dispatch
<1>3. CASE LocallyAccepted
  <2> DEFINE m == [mem EXCEPT !.phase = "local_accepted", !.localId = reply.localId]
  <2>1. mem \in ActiveCommands /\ reply.localId \in LocalIds /\ KnownId(reply.localId)
    BY <1>3 DEF LocallyAccepted, IdsKnown, Replies
  <2>2. m \in ActiveCommands /\ KnownId(m.localId)
    BY <2>1 DEF ActiveCommands
  <2>3. ProgressCall(m, "accepted_by_collector") \in Calls
    BY <2>2 DEF ProgressCall, Calls, ProgressCalls, ProgressStatuses, ActiveCommands
  <2>4. UNCHANGED <<local, reconcileDue, leaseDue>>
    BY <1>3 DEF LocallyAccepted
  <2> HIDE DEF m
  <2>5. CASE Saved(m) /\ GoOn /\ Send(ProgressCall(m, "accepted_by_collector"))
    <3>1. call' \in Calls /\ reply' = NoReply /\ net' \subseteq Calls
      BY <2>3, <2>5, SendTyped
    <3>2. IdsKnown' /\ mem' \in ActiveCommands
      BY <2>2, <2>4, <2>5, <3>1, SaveTyped DEF Saved
    <3>3. pc' # "refuse"
      BY <1>3, <2>5 DEF GoOn, LocallyAccepted
    <3> QED
      BY <2>2, <2>4, <2>5, <3>1, <3>2, <3>3, SaveTyped DEF GoOn
  <2>6. CASE SaveFails(m) /\ Answered
    <3>1. IdsKnown' /\ mem' \in ActiveCommands
      BY <2>2, <2>4, <2>6, SaveTyped DEF SaveFails, Answered
    <3> QED
      BY <2>2, <2>4, <2>6, <3>1, SaveTyped DEF Answered
  <2> QED
    BY <1>3, <2>5, <2>6 DEF LocallyAccepted, m
<1>4. CASE ProgressPosted
  <2> DEFINE m == [mem EXCEPT !.phase = call.status]
  <2>1. mem \in ActiveCommands /\ KnownId(mem.localId) /\ call.status \in ProgressStatuses
    BY <1>4, ActiveTyped DEF ProgressPosted, Calls, ResultCalls, ExecuteCalls, ProgressCalls,
       ClaimCall
  <2>2. m \in ActiveCommands /\ KnownId(m.localId)
    BY <2>1 DEF ActiveCommands
  <2>3. ((Saved(m) /\ NextPart) \/ SaveFails(m)) /\ Answered
        /\ UNCHANGED <<local, reconcileDue, leaseDue>>
    BY <1>4 DEF ProgressPosted
  <2> HIDE DEF m
  <2>4. IdsKnown' /\ mem' \in ActiveCommands
    BY <2>2, <2>3, SaveTyped DEF Saved, SaveFails, Answered
  <2> QED
    BY <2>2, <2>3, <2>4, SaveTyped DEF Answered, NextPart, EndCycle, GoOn
<1>5. CASE ResultPosted
  <2>1. IdsKnown' /\ pc # "refuse"
    BY <1>5, SaveTyped DEF ResultPosted, Answered
  <2> QED
    BY <1>5, <2>1, SaveTyped DEF ResultPosted, Answered, NextPart, EndCycle, GoOn
<1> QED
  BY <1>1, <1>2, <1>3, <1>4, <1>5

LEMMA FaultyTyped ==
    ASSUME ConnectorInv, Faulty
    PROVE  ConnectorInv'
<1> USE CommandsAreSome, RepliesTyped, LeaseFacts
<1> USE DEF ConnectorInv, ConnectorTypeOK, WaitsForOne, IdsKnown, KnownId, Idle, Views, NoCall,
            Answered, Fault, EndCycle, GoOn
<1>1. CASE CloudTimeOut
  BY <1>1 DEF CloudTimeOut
<1>2. CASE LocalTimeOut
  <2>1. mem \in ActiveCommands
    BY <1>2 DEF LocalTimeOut
  <2>2. mem' \in ActiveCommands /\ mem'.localId = mem.localId
    BY <1>2, <2>1, TerminalTyped DEF LocalTimeOut, ResultStatuses
  <2> QED
    BY <1>2, <2>1, <2>2 DEF LocalTimeOut
<1>3. CASE Crash
  BY <1>3 DEF Crash
<1> QED
  BY <1>1, <1>2, <1>3 DEF Faulty

\* Handing an answer to a connector that may or may not wait for it.
LEMMA AnswersTyped ==
    ASSUME ConnectorInv, NEW m \in net, NEW r \in Replies, Answer(m, r),
           r.kind = "accepted" => r.localId \in (DOMAIN local)', DOMAIN local \subseteq (DOMAIN local)',
           UNCHANGED <<mem, disk, pc, snap, reconcileDue, leaseDue, faults>>,
           local' \in Seq(LocalCommands)
    PROVE  ConnectorInv'
  BY DEF Answer, ConnectorInv, ConnectorTypeOK, IdsKnown, KnownId, WaitsForOne, Idle

LEMMA SiteTyped ==
    ASSUME ConnectorInv, Site
    PROVE  ConnectorInv'
<1>1. ASSUME NEW m \in net, CollectorAccepts(m)
      PROVE  ConnectorInv'
  <2>1. m.cmd \in Commands /\ m.lease \in Leases
    BY <1>1 DEF CollectorAccepts, ConnectorInv, ConnectorTypeOK, Calls, ClaimCall, ProgressCalls,
       ResultCalls, ExecuteCalls
  <2>2. [cmd |-> m.cmd, lease |-> m.lease, state |-> "pending"] \in LocalCommands
    BY <2>1 DEF LocalCommands
  <2>3. local \in Seq(LocalCommands)
    BY DEF ConnectorInv, ConnectorTypeOK
  <2>4. /\ local' \in Seq(LocalCommands)
        /\ DOMAIN local \subseteq (DOMAIN local)' /\ Len(local) + 1 \in (DOMAIN local)'
    BY <1>1, <2>2, <2>3 DEF CollectorAccepts
  <2>5. [kind |-> "accepted", localId |-> Len(local) + 1] \in Replies
    BY <1>1 DEF CollectorAccepts, Replies
  <2> QED
    BY <1>1, <2>4, <2>5, AnswersTyped DEF CollectorAccepts
<1>2. ASSUME NEW m \in net, CollectorRefuses(m)
      PROVE  ConnectorInv'
  <2>1. [kind |-> "refused"] \in Replies
    BY DEF Replies
  <2> QED
    BY <1>2, <2>1, AnswersTyped DEF CollectorRefuses, ConnectorInv, ConnectorTypeOK
<1>3. ASSUME NEW i \in DOMAIN local, NEW from, NEW to \in {"delivered", "succeeded", "failed"},
             AgentMoves(i, from, to)
      PROVE  ConnectorInv'
  <2>1. local \in Seq(LocalCommands) /\ local[i] \in LocalCommands
    BY DEF ConnectorInv, ConnectorTypeOK
  <2>2. [local[i] EXCEPT !.state = to] \in LocalCommands
    BY <2>1 DEF LocalCommands
  <2>3. local' = [local EXCEPT ![i] = [local[i] EXCEPT !.state = to]]
    BY <1>3 DEF AgentMoves
  <2>4. local' \in Seq(LocalCommands) /\ DOMAIN local' = DOMAIN local
    BY <2>1, <2>2, <2>3, ExceptSeq
  <2> QED
    BY <1>3, <2>4 DEF AgentMoves, ConnectorInv, ConnectorTypeOK, IdsKnown, KnownId, WaitsForOne, Idle
<1> QED
  BY <1>1, <1>2, <1>3 DEF Site, AgentTakes, AgentExecutes, ResultStatuses

-----------------------------------------------------------------------------
(* Types of the whole.                                                       *)

WorkflowInv == CloudTypeOK /\ ConnectorInv

\* Every request the cloud handles is one any connector may make of the rows.
LEMMA HandlersTyped ==
    ASSUME WorkflowInv, NEW m \in net, Handle(m)
    PROVE  WorkflowInv' /\ [CloudNext]_cloudVars
<1>1. ASSUME NEW r \in Replies, r.kind # "accepted", Answer(m, r), UNCHANGED othersOfConnector
      PROVE  ConnectorInv'
  BY <1>1, AnswersTyped DEF othersOfConnector, WorkflowInv, ConnectorInv, ConnectorTypeOK
<1>2. ASSUME ConnectorSide PROVE CloudTypeOK' /\ CloudNext
  BY <1>2, ConnectorTyped DEF WorkflowInv, CloudNext
<1>3. /\ [kind |-> "empty"] \in Replies
      /\ \A ok \in BOOLEAN : Verdict(ok) \in Replies /\ Verdict(ok).kind # "accepted"
  BY DEF Replies, Verdict
<1>4. CASE HandleClaim(m)
  <2>1. ConnectorSide
    BY <1>4 DEF HandleClaim, ConnectorSide
  <2>2. ASSUME NEW c \in Commands, ClaimGrants(c)
        PROVE  [kind |-> "granted", cmd |-> c, lease |-> leases + 1] \in Replies
    BY <2>2, LeaseFacts DEF ClaimGrants, WorkflowInv, CloudTypeOK, Replies, Leases
  <2> QED
    BY <1>1, <1>2, <1>3, <1>4, <2>1, <2>2 DEF HandleClaim, WorkflowInv
<1>5. CASE HandleProgress(m)
  <2>1. /\ m.cmd \in Commands /\ m.lease \in Leases /\ m.status \in ProgressStatuses
        /\ m.localId \in LocalIds \cup {NoLocalId}
    BY <1>5 DEF HandleProgress, WorkflowInv, ConnectorInv, ConnectorTypeOK, Calls, ClaimCall,
       ProgressCalls, ResultCalls, ExecuteCalls
  <2>2. ConnectorSide
    BY <1>5, <2>1 DEF HandleProgress, ConnectorSide
  <2> QED
    BY <1>1, <1>2, <1>3, <1>5, <2>2 DEF HandleProgress, WorkflowInv
<1>6. CASE HandleResult(m)
  <2>1. m.cmd \in Commands /\ m.lease \in Leases /\ m.payload \in Payloads
    BY <1>6 DEF HandleResult, WorkflowInv, ConnectorInv, ConnectorTypeOK, Calls, ClaimCall,
       ProgressCalls, ResultCalls, ExecuteCalls
  <2>2. ConnectorSide
    BY <1>6, <2>1 DEF HandleResult, ConnectorSide
  <2> QED
    BY <1>1, <1>2, <1>3, <1>6, <2>2 DEF HandleResult, WorkflowInv
<1>7. CASE HandleDisabled(m)
  <2>1. [kind |-> "refused"] \in Replies
    BY DEF Replies
  <2> QED
    BY <1>1, <1>7, <2>1 DEF HandleDisabled, WorkflowInv, CloudTypeOK, cloudVars
<1> QED
  BY <1>4, <1>5, <1>6, <1>7 DEF Handle

LEMMA StepsTyped ==
    ASSUME WorkflowInv, [Next]_vars
    PROVE  WorkflowInv' /\ [CloudNext]_cloudVars
<1>1. ASSUME UNCHANGED cloudVars PROVE CloudTypeOK' /\ [CloudNext]_cloudVars
  BY <1>1 DEF WorkflowInv, CloudTypeOK, cloudVars
<1>2. ASSUME UNCHANGED connectorVars PROVE ConnectorInv'
  BY <1>2 DEF WorkflowInv, ConnectorInv, ConnectorTypeOK, IdsKnown, KnownId, WaitsForOne, Idle,
     connectorVars
<1>3. CASE WebSide /\ UNCHANGED connectorVars
  BY <1>2, <1>3, WebTyped DEF WorkflowInv, CloudNext
<1>4. ASSUME NEW m \in net, Handle(m) PROVE WorkflowInv' /\ [CloudNext]_cloudVars
  BY <1>4, HandlersTyped
<1>5. CASE ConnectorStep /\ UNCHANGED cloudVars
  BY <1>1, <1>5, QuietTyped, SettlingTyped, AnswerTyped, FaultyTyped, SiteTyped
     DEF WorkflowInv, ConnectorStep, Runner, Recover, ClaimAndDispatch, TakeAnswer
<1>6. CASE ServerClock /\ UNCHANGED connectorVars
  BY <1>2, <1>6 DEF WorkflowInv, CloudTypeOK, CloudNext, ServerClock, ConfirmationEnds,
     QueueTimeEnds, LeaseEnds
<1>7. ASSUME NEW l \in 1..leases, ReconcileEnds(l) \/ LeaseRunsOut(l), UNCHANGED cloudVars
      PROVE  WorkflowInv' /\ [CloudNext]_cloudVars
  <2>1. l \in Leases
    BY LeaseFacts DEF WorkflowInv, CloudTypeOK, Leases
  <2> QED
    BY <1>1, <1>7, <2>1 DEF ReconcileEnds, LeaseRunsOut, WorkflowInv, ConnectorInv, ConnectorTypeOK,
       IdsKnown, KnownId, WaitsForOne, Idle
<1>8. CASE UNCHANGED vars
  BY <1>1, <1>2, <1>8 DEF vars, WorkflowInv
<1> QED
  BY <1>3, <1>4, <1>5, <1>6, <1>7, <1>8 DEF Next, Clocks

LEMMA WorkflowInvariant == Spec => []WorkflowInv
<1>1. Init => WorkflowInv
  BY LeaseFacts DEF Init, CloudInit, ConnectorInit, WorkflowInv, CloudTypeOK, ConnectorInv,
     ConnectorTypeOK, IdsKnown, WaitsForOne, Statuses, Views, Replies, NoReply, NoCall
<1> QED
  BY <1>1, StepsTyped, PTL DEF Spec

\* Rows, connector, messages and the collector's commands are well typed in
\* every reachable state.
THEOREM WorkflowTyped == Spec => []TypeOK
  BY WorkflowInvariant, PTL DEF WorkflowInv, ConnectorInv, TypeOK

\* In the whole workflow the rows behave as they do alone, so that what holds
\* of CloudSpec holds of the workflow.
THEOREM RowsRefined == Spec => CloudSpec
<1>1. Init => CloudInit
  BY DEF Init
<1> QED
  BY <1>1, StepsTyped, WorkflowInvariant, PTL DEF Spec, CloudSpec

\* One active command per device, and ends that no connector call disturbs, in
\* the whole workflow.
COROLLARY WorkflowOneActive == Spec => []OneActiveCommand
  BY RowsRefined, AtMostOneActive, PTL

COROLLARY WorkflowEndsKept == Spec => ConnectorKeepsEnds
  BY RowsRefined, EndsKept, PTL

-----------------------------------------------------------------------------
(* No lease is dispatched twice. What the collector has seen does not say    *)
(* why: it needs where a lease is on its way there. A lease just granted has *)
(* no execute call yet; a lease has one execute call in the network; and     *)
(* one that the collector has seen has none any more.                        *)

DispatchCalls == {m \in net : m.kind = "execute"}

GrantedIsFresh ==
    reply.kind = "granted" =>
        /\ reply.lease \in 1..leases
        /\ \A m \in DispatchCalls : m.lease # reply.lease
        /\ \A i \in DOMAIN local : local[i].lease # reply.lease
CallsAreFresh ==
    \A m \in DispatchCalls :
        /\ m.lease \in 1..leases
        /\ \A n \in DispatchCalls : n.lease = m.lease => n = m
        /\ \A i \in DOMAIN local : local[i].lease # m.lease
SeenWereGranted == \A i \in DOMAIN local : local[i].lease \in 1..leases

DispatchInv == GrantedIsFresh /\ CallsAreFresh /\ SeenWereGranted /\ DispatchedOnce

LEMMA DispatchInit == Init => DispatchInv
  BY DEF Init, ConnectorInit, NoReply, DispatchInv, GrantedIsFresh, CallsAreFresh, DispatchCalls,
     SeenWereGranted, DispatchedOnce

\* Steps that neither call the collector nor hear of a new lease.
LEMMA OtherSteps ==
    ASSUME WorkflowInv, DispatchInv, leases' \in Nat, leases <= leases',
           reply' = reply \/ reply'.kind # "granted",
           DispatchCalls' \subseteq DispatchCalls,
           DOMAIN local' = DOMAIN local,
           \A i \in DOMAIN local : local'[i].lease = local[i].lease
    PROVE  DispatchInv'
<1>1. leases \in Nat
  BY LeaseFacts DEF WorkflowInv, CloudTypeOK
<1>2. 1..leases \subseteq 1..leases'
  BY <1>1
<1> QED
  BY <1>2 DEF DispatchInv, GrantedIsFresh, CallsAreFresh, SeenWereGranted, DispatchedOnce

LEMMA RunnerDispatch ==
    ASSUME WorkflowInv, DispatchInv, ConnectorStep, UNCHANGED cloudVars
    PROVE  DispatchInv'
<1> USE DEF NoSend, Answered, NoReply, DispatchCalls
<1>1. leases \in Nat /\ leases' = leases
  BY LeaseFacts DEF WorkflowInv, CloudTypeOK, cloudVars
<1>2. ASSUME local' = local, NEW m, Send(m), m.kind # "execute" PROVE DispatchInv'
  BY <1>1, <1>2, OtherSteps DEF Send
<1>3. ASSUME local' = local, NoSend \/ Answered PROVE DispatchInv'
  BY <1>1, <1>3, OtherSteps
<1>4. CASE FlushTerminal \/ PostAccepted \/ PostDelivered \/ SendClaim
  BY <1>2, <1>4 DEF FlushTerminal, PostAccepted, PostDelivered, SendClaim, ResultCall,
     ProgressCall, ClaimCall
<1>5. CASE Dispatch
  <2>1. CASE Send(ExecuteCall(NewCommand("dispatching")))
    <3> DEFINE e == ExecuteCall(NewCommand("dispatching"))
    <3>1. reply.kind = "granted" /\ e.lease = reply.lease /\ local' = local
      BY <1>5 DEF Dispatch, Claimed, ExecuteCall, NewCommand
    <3>2. DispatchCalls' \subseteq DispatchCalls \cup {e} /\ reply'.kind # "granted"
      BY <2>1 DEF Send
    <3> HIDE DEF e
    <3> QED
      BY <1>1, <3>1, <3>2 DEF DispatchInv, GrantedIsFresh, CallsAreFresh, SeenWereGranted,
         DispatchedOnce
  <2> QED
    BY <1>3, <1>5, <2>1 DEF Dispatch
<1>6. CASE LocallyAccepted
  BY <1>2, <1>3, <1>6 DEF LocallyAccepted, ProgressCall
<1>7. CASE Site
  <2>1. ASSUME NEW m \in net, CollectorAccepts(m) PROVE DispatchInv'
    <3>1. local \in Seq(LocalCommands)
      BY DEF WorkflowInv, ConnectorInv, ConnectorTypeOK
    <3>2. /\ m \in DispatchCalls /\ DispatchCalls' = DispatchCalls \ {m}
          /\ reply' = reply \/ reply'.kind # "granted"
      BY <2>1 DEF CollectorAccepts, Answer
    <3>3. /\ DOMAIN local' = DOMAIN local \cup {Len(local) + 1}
          /\ \A i \in DOMAIN local : local'[i] = local[i]
          /\ local'[Len(local) + 1].lease = m.lease
      BY <2>1, <3>1 DEF CollectorAccepts
    <3> HIDE DEF DispatchCalls
    <3> QED
      BY <1>1, <3>2, <3>3 DEF DispatchInv, GrantedIsFresh, CallsAreFresh, SeenWereGranted,
         DispatchedOnce
  <2>2. ASSUME NEW m \in net, CollectorRefuses(m) PROVE DispatchInv'
    BY <1>1, <2>2, OtherSteps DEF CollectorRefuses, Answer
  <2>3. ASSUME NEW i \in DOMAIN local, NEW from, NEW to, AgentMoves(i, from, to) PROVE DispatchInv'
    <3>1. local[i] \in LocalCommands /\ local \in Seq(LocalCommands)
      BY DEF WorkflowInv, ConnectorInv, ConnectorTypeOK
    <3>2. DOMAIN local' = DOMAIN local /\ \A j \in DOMAIN local : local'[j].lease = local[j].lease
      BY <2>3, <3>1 DEF AgentMoves, LocalCommands
    <3> QED
      BY <1>1, <2>3, <3>2, OtherSteps DEF AgentMoves
  <2> QED
    BY <1>7, <2>1, <2>2, <2>3 DEF Site, AgentTakes, AgentExecutes
<1>8. ASSUME NEW m \in net, LoseRequest(m) PROVE DispatchInv'
  BY <1>1, <1>8, OtherSteps DEF LoseRequest
<1>9. CASE \/ StartCycle \/ NothingToSettle \/ DispatchUnknown \/ RecordOutcome \/ GiveUp
           \/ KeepWaiting \/ ClaimNotDue \/ NothingClaimed \/ RefuseClaim \/ QueueRefusal
           \/ LocallyRefused \/ TakeAnswer \/ Faulty
  BY <1>3, <1>9 DEF StartCycle, NothingToSettle, DispatchUnknown, RecordOutcome, GiveUp,
     KeepWaiting, ClaimNotDue, NothingClaimed, RefuseClaim, QueueRefusal, LocallyRefused, TakeAnswer,
     ProgressPosted, ProgressRefused, ResultPosted, ResultRefused,
     Faulty, CloudTimeOut, LocalTimeOut, Crash
<1> QED
  BY <1>4, <1>5, <1>6, <1>7, <1>8, <1>9 DEF ConnectorStep, Runner, Recover, ClaimAndDispatch

\* What the cloud does to the leases: it keeps their number or, with a claim,
\* grants the next one.
LEMMA LeasesStep ==
    ASSUME WorkflowInv, [CloudNext]_cloudVars
    PROVE  leases' = leases \/ (leases' = leases + 1 /\ leases + 1 \in Leases)
<1>1. leases \in Nat
  BY LeaseFacts DEF WorkflowInv, CloudTypeOK
<1>2. ASSUME NEW c \in Commands, NEW ok, LateCall(c, ok) PROVE leases' = leases
  BY <1>2 DEF LateCall
<1>3. ASSUME NEW c \in Commands, NEW l, NEW s, NEW id, NEW ok, Progress(c, l, s, id, ok)
      PROVE  leases' = leases
  BY <1>2, <1>3 DEF Progress, RefuseCall, RecordProgress, cloudVars
<1>4. ASSUME NEW c \in Commands, NEW l, NEW p, NEW ok, Finish(c, l, p, ok) PROVE leases' = leases
  BY <1>2, <1>4 DEF Finish, RefuseCall, RecordResult, cloudVars
<1>5. ASSUME NEW c \in Commands, ClaimGrants(c) PROVE leases' = leases + 1 /\ leases + 1 \in Leases
  BY <1>1, <1>5, LeaseFacts DEF ClaimGrants, Leases
<1>6. CASE ConnectorSide
  BY <1>3, <1>4, <1>5, <1>6 DEF ConnectorSide, ClaimNothing, ClaimRejects
<1>7. CASE WebSide
  BY <1>7 DEF WebSide, ReadDevices, Propose, BeginRequest, FinishRequest, RefuseRequest, Cancel,
     ConfirmTooLate, ConfirmChecks, ConfirmCommits, ConfirmRollsBack
<1>8. CASE ServerClock
  BY <1>8 DEF ServerClock, ConfirmationEnds, QueueTimeEnds, LeaseEnds
<1> QED
  BY <1>6, <1>7, <1>8 DEF CloudNext, cloudVars

LEMMA HandlerDispatch ==
    ASSUME WorkflowInv, DispatchInv, NEW m \in net, Handle(m)
    PROVE  DispatchInv'
<1>1. leases \in Nat /\ leases' \in Nat /\ leases <= leases'
  BY HandlersTyped, LeasesStep, LeaseFacts DEF WorkflowInv, CloudTypeOK
<1>2. local' = local /\ DispatchCalls' \subseteq DispatchCalls
  BY DEF Handle, HandleClaim, HandleProgress, HandleResult, HandleDisabled, othersOfConnector,
     Answer, DispatchCalls
<1>3. CASE reply' = reply \/ reply'.kind # "granted"
  BY <1>1, <1>2, <1>3, OtherSteps
<1>4. CASE reply'.kind = "granted" /\ leases' = leases + 1 /\ reply'.lease = leases + 1
  BY <1>1, <1>2, <1>4 DEF DispatchInv, GrantedIsFresh, CallsAreFresh, SeenWereGranted, DispatchedOnce
<1> QED
  BY <1>3, <1>4 DEF Handle, HandleClaim, HandleProgress, HandleResult, HandleDisabled, Answer,
     Verdict, ClaimGrants

LEMMA DispatchStep ==
    ASSUME WorkflowInv, DispatchInv, [Next]_vars
    PROVE  DispatchInv'
<1>1. leases \in Nat /\ leases' \in Nat /\ leases <= leases'
  BY StepsTyped, LeasesStep, LeaseFacts DEF WorkflowInv, CloudTypeOK
<1>2. ASSUME UNCHANGED <<net, reply, local>> PROVE DispatchInv'
  BY <1>1, <1>2, OtherSteps DEF DispatchCalls
<1>3. CASE (WebSide /\ UNCHANGED connectorVars) \/ UNCHANGED vars \/ Clocks
  BY <1>2, <1>3 DEF connectorVars, vars, Clocks, ReconcileEnds, LeaseRunsOut
<1>4. ASSUME NEW m \in net, Handle(m) PROVE DispatchInv'
  BY <1>4, HandlerDispatch
<1>5. CASE ConnectorStep /\ UNCHANGED cloudVars
  BY <1>5, RunnerDispatch
<1> QED
  BY <1>3, <1>4, <1>5 DEF Next

LEMMA DispatchInvariant == Spec => []DispatchInv
  BY DispatchInit, DispatchStep, WorkflowInvariant, PTL DEF Spec

\* The collector is called at most once under each lease, over any number of
\* crashes, failed saves, lost and late messages.
THEOREM NoSecondDispatch == Spec => []DispatchedOnce
  BY DispatchInvariant, PTL DEF DispatchInv

-----------------------------------------------------------------------------
(* Success is real. The row alone does not say who executed the command:     *)
(* every success on its way to the row (polled, recorded, saved or posted)   *)
(* stands for an execution in the collector's log, of the same command.      *)

Ran(log, id, c) == id \in DOMAIN log /\ log[id].cmd = c
Executed(log, id, c) == Ran(log, id, c) /\ log[id].state = "succeeded"

\* A payload that says succeeded is about an execution of c.
Backed(log, p, c) == p.status = "succeeded" => Executed(log, p.localId, c)
Held(log, m) ==
    m # NoCommand =>
        /\ m.localId # NoLocalId => Ran(log, m.localId, m.cmd)
        /\ Backed(log, m.terminal, m.cmd)
Posted(log, m) == m.kind = "result" => Backed(log, m.payload, m.cmd)

HeldInv == Held(local, mem) /\ Held(local, disk)
PostedInv == \A m \in net \cup {call} : Posted(local, m)
WaitingInv ==
    /\ call.kind = "execute" => call.cmd = mem.cmd /\ pc = "dispatch"
    /\ call.kind = "claim" => pc = "claim"
    /\ reply.kind = "accepted" => call.kind = "execute" /\ Ran(local, reply.localId, call.cmd)
PolledInv ==
    /\ snap # "unpolled" => pc = "recover"
    /\ snap = "succeeded" /\ mem # NoCommand => Executed(local, mem.localId, mem.cmd)

EvidenceInv == HeldInv /\ PostedInv /\ WaitingInv /\ PolledInv /\ SuccessIsReal

\* The collector's log only grows, and what was executed stays so.
LogKept ==
    \A id \in DOMAIN local :
        /\ id \in DOMAIN local' /\ local'[id].cmd = local[id].cmd
        /\ local[id].state = "succeeded" => local'[id].state = "succeeded"

LEMMA RanKept ==
    ASSUME LogKept
    PROVE  /\ \A id, c : Ran(local, id, c) => Ran(local', id, c)
           /\ \A id, c : Executed(local, id, c) => Executed(local', id, c)
           /\ \A m : Held(local, m) => Held(local', m)
           /\ \A m : Posted(local, m) => Posted(local', m)
  BY DEF LogKept, Ran, Executed, Held, Posted, Backed

\* What is recorded as the outcome of m is backed if m is.
LEMMA TerminalHeld ==
    ASSUME ConnectorTypeOK, NEW m \in ActiveCommands, Held(local, m), NEW outcome \in ResultStatuses,
           outcome = "succeeded" => Executed(local, m.localId, m.cmd)
    PROVE  Held(local, WithTerminal(m, outcome))
<1>1. /\ WithTerminal(m, outcome).localId = m.localId /\ WithTerminal(m, outcome).cmd = m.cmd
      /\ WithTerminal(m, outcome).terminal.status = outcome
      /\ WithTerminal(m, outcome).terminal.localId = m.localId
  BY DEF WithTerminal, ActiveCommands
<1>2. m # NoCommand
  BY CommandsAreSome
<1> QED
  BY <1>1, <1>2 DEF Held, Backed

LEMMA NewHeld ==
    ASSUME NEW phase
    PROVE  Held(local, NewCommand(phase)) /\ NewCommand(phase).localId = NoLocalId
  BY DEF Held, Backed, NewCommand, NoPayload

LEMMA NothingHeld == Held(local, NoCommand)
  BY DEF Held

LEMMA ResultIsPosted ==
    ASSUME Held(local, mem), mem # NoCommand
    PROVE  Posted(local, ResultCall(mem))
  BY DEF Held, Posted, ResultCall

\* What a step of the site side has to keep.
LEMMA EvidenceKept ==
    ASSUME EvidenceInv, UNCHANGED cloudVars, LogKept,
           Held(local', mem'), Held(local', disk'), Posted(local', call'),
           net' \subseteq net \cup {call'}, WaitingInv', PolledInv'
    PROVE  EvidenceInv'
<1>1. HeldInv'
  BY DEF HeldInv
<1>2. \A m \in net : Posted(local', m)
  BY RanKept DEF EvidenceInv, PostedInv
<1>3. PostedInv'
  BY <1>2 DEF PostedInv
<1>4. SuccessIsReal'
  BY RanKept DEF EvidenceInv, SuccessIsReal, Executed, Ran, cloudVars
<1> QED
  BY <1>1, <1>3, <1>4 DEF EvidenceInv

\* Nothing is posted, and what is remembered of the command stays or is backed.
LEMMA RecordEvidence ==
    ASSUME EvidenceInv, UNCHANGED <<cloudVars, local>>,
           (NoSend /\ Idle) \/ Answered,
           Held(local, mem'), disk' \in {disk, mem'}, PolledInv'
    PROVE  EvidenceInv'
<1>1. LogKept
  BY DEF LogKept
<1>2. Held(local', mem') /\ Held(local', disk')
  BY DEF EvidenceInv, HeldInv
<1>3. Posted(local', call') /\ net' \subseteq net \cup {call'}
  BY DEF NoSend, Idle, Answered, NoCall, Posted
<1>4. WaitingInv'
  BY DEF WaitingInv, EvidenceInv, NoSend, Idle, Answered, NoCall, NoReply
<1> QED
  BY <1>1, <1>2, <1>3, <1>4, EvidenceKept

\* A request is posted and nothing else changes.
LEMMA SendEvidence ==
    ASSUME EvidenceInv, UNCHANGED <<cloudVars, local, mem, disk, pc, snap>>,
           NEW m, Send(m), Posted(local, m), m.kind # "execute",
           m.kind = "claim" => pc = "claim"
    PROVE  EvidenceInv'
<1>1. LogKept
  BY DEF LogKept
<1>2. Held(local', mem') /\ Held(local', disk') /\ PolledInv'
  BY DEF EvidenceInv, HeldInv, PolledInv
<1>3. Posted(local', call') /\ net' \subseteq net \cup {call'} /\ WaitingInv'
  BY DEF Send, WaitingInv, NoReply
<1> QED
  BY <1>1, <1>2, <1>3, EvidenceKept

LEMMA RecoverEvidence ==
    ASSUME WorkflowInv, EvidenceInv, Recover \/ StartCycle, UNCHANGED cloudVars
    PROVE  EvidenceInv'
<1> USE DEF EvidenceInv
<1>1. CASE StartCycle
  <2>1. ASSUME snap' = "succeeded", mem # NoCommand PROVE Executed(local, mem.localId, mem.cmd)
    <3>1. mem.localId # NoLocalId /\ local[mem.localId].state = "succeeded"
      <4> DEFINE outcomes == {event.outcome : event \in {e \in EventsNaming(mem.localId) : Reconciled(e)}}
      <4>1. mem.localId # NoLocalId /\ "succeeded" \in outcomes
        BY <1>1, <2>1 DEF StartCycle, Evidence
      <4>2. outcomes \subseteq {local[mem.localId].state}
        BY DEF EventsNaming, Reconciled
      <4> QED
        BY <4>1, <4>2
    <3> QED
      BY <2>1, <3>1 DEF HeldInv, Held, Executed
  <2>2. PolledInv'
    BY <1>1, <2>1 DEF StartCycle, PolledInv
  <2> QED
    BY <1>1, <2>2, RecordEvidence DEF StartCycle, HeldInv
<1>2. CASE NothingToSettle
  BY <1>2, RecordEvidence DEF NothingToSettle, Recovering, HeldInv, PolledInv
<1>3. CASE KeepWaiting
  BY <1>3, RecordEvidence DEF KeepWaiting, Unresolved, Recovering, HeldInv, PolledInv, EndCycle
<1>4. CASE FlushTerminal
  <2>1. Posted(local, ResultCall(mem)) /\ ResultCall(mem).kind = "result"
    BY <1>4, ResultIsPosted DEF FlushTerminal, Settled, HeldInv, ResultCall
  <2> QED
    BY <1>4, <2>1, SendEvidence DEF FlushTerminal
<1>5. CASE PostAccepted \/ PostDelivered
  <2>1. PICK s : Send(ProgressCall(mem, s)) /\ UNCHANGED <<mem, disk, pc, snap, local>>
    BY <1>5 DEF PostAccepted, PostDelivered
  <2>2. ProgressCall(mem, s).kind = "progress" /\ Posted(local, ProgressCall(mem, s))
    BY DEF ProgressCall, Posted
  <2> QED
    BY <2>1, <2>2, SendEvidence
<1>6. CASE DispatchUnknown \/ RecordOutcome \/ GiveUp
  <2>1. /\ pc = "recover" /\ Idle /\ NoSend /\ local' = local
        /\ mem # NoCommand
    BY <1>6 DEF DispatchUnknown, RecordOutcome, GiveUp, Unresolved, Recovering, Working
  <2>2. PICK outcome \in ResultStatuses :
           /\ QueueTerminal(mem, outcome)
           /\ outcome = "succeeded" => snap = "succeeded"
    BY <1>6 DEF DispatchUnknown, RecordOutcome, GiveUp, ResultStatuses, Outcome
  <2>3. mem \in ActiveCommands
    BY <2>1 DEF WorkflowInv, ConnectorInv, ConnectorTypeOK
  <2>4. Held(local, WithTerminal(mem, outcome))
    BY <2>1, <2>2, <2>3, TerminalHeld DEF HeldInv, PolledInv, WorkflowInv, ConnectorInv
  <2>5. /\ mem' = WithTerminal(mem, outcome) /\ disk' \in {disk, mem'}
        /\ \/ pc' = pc /\ snap' = snap
           \/ snap' = "unpolled"
    BY <2>2 DEF QueueTerminal, Saved, SaveFails, GoOn, EndCycle
  <2>6. mem'.localId = mem.localId /\ mem'.cmd = mem.cmd
    BY <2>3, <2>5 DEF WithTerminal, ActiveCommands
  <2>7. PolledInv'
    BY <2>1, <2>5, <2>6 DEF PolledInv
  <2> QED
    BY <2>1, <2>4, <2>5, <2>7, RecordEvidence
<1> QED
  BY <1>1, <1>2, <1>3, <1>4, <1>5, <1>6 DEF Recover

\* A failure recorded for the command the connector remembers.
LEMMA FailureEvidence ==
    ASSUME WorkflowInv, EvidenceInv, UNCHANGED <<cloudVars, local>>, mem # NoCommand,
           (NoSend /\ Idle) \/ Answered,
           mem' = WithTerminal(mem, "failed"), disk' \in {disk, mem'},
           \/ snap' = "unpolled"
           \/ snap' = snap /\ (pc' = pc \/ snap = "unpolled")
    PROVE  EvidenceInv'
<1>1. mem \in ActiveCommands /\ "failed" \in ResultStatuses
  BY DEF WorkflowInv, ConnectorInv, ConnectorTypeOK, ResultStatuses
<1>2. Held(local, WithTerminal(mem, "failed"))
  BY <1>1, TerminalHeld DEF WorkflowInv, ConnectorInv, EvidenceInv, HeldInv
<1>3. mem'.localId = mem.localId /\ mem'.cmd = mem.cmd
  BY <1>1 DEF WithTerminal, ActiveCommands
<1>4. PolledInv'
  BY <1>3 DEF EvidenceInv, PolledInv
<1> QED
  BY <1>2, <1>4, RecordEvidence

LEMMA ClaimEvidence ==
    ASSUME WorkflowInv, EvidenceInv, ClaimAndDispatch, UNCHANGED cloudVars
    PROVE  EvidenceInv'
<1> USE DEF EvidenceInv
<1>1. CASE ClaimNotDue
  BY <1>1, RecordEvidence DEF ClaimNotDue, HeldInv, PolledInv, EndCycle
<1>2. CASE SendClaim
  BY <1>2, SendEvidence DEF SendClaim, ClaimCall, Posted
<1>3. CASE NothingClaimed
  BY <1>3, RecordEvidence DEF NothingClaimed, HeldInv, PolledInv, EndCycle
<1>4. ASSUME Claimed PROVE pc = "claim" /\ snap = "unpolled"
  BY <1>4 DEF Claimed, ClaimCall, WaitingInv, PolledInv
<1>5. CASE RefuseClaim
  <2>1. /\ mem' = NewCommand("claimed") /\ disk' \in {disk, mem'} /\ snap' = "unpolled"
        /\ Answered /\ local' = local
    BY <1>4, <1>5 DEF RefuseClaim, Saved, SaveFails, EndCycle
  <2>2. Held(local, mem') /\ PolledInv'
    BY <2>1, NewHeld DEF PolledInv
  <2> QED
    BY <2>1, <2>2, RecordEvidence
<1>6. CASE QueueRefusal
  <2>1. mem # NoCommand /\ snap = "unpolled"
    BY <1>6 DEF QueueRefusal, WorkflowInv, ConnectorInv, WaitsForOne, PolledInv
  <2>2. /\ mem' = WithTerminal(mem, "failed") /\ disk' \in {disk, mem'} /\ snap' = "unpolled"
        /\ NoSend /\ Idle /\ local' = local
    BY <1>6, <2>1 DEF QueueRefusal, Saved, SaveFails, EndCycle
  <2> QED
    BY <2>1, <2>2, FailureEvidence
<1>7. CASE Dispatch
  <2> DEFINE new == NewCommand("dispatching")
  <2>1. mem' = new /\ disk' \in {disk, new} /\ snap' = "unpolled" /\ local' = local
    BY <1>4, <1>7 DEF Dispatch, Saved, SaveFails, EndCycle
  <2>2. Held(local, new) /\ PolledInv'
    BY <2>1, NewHeld DEF PolledInv
  <2>3. CASE Answered
    BY <2>1, <2>2, <2>3, RecordEvidence
  <2>4. CASE Send(ExecuteCall(new)) /\ pc' = "dispatch"
    <3>1. ExecuteCall(new).kind = "execute" /\ ExecuteCall(new).cmd = new.cmd
      BY DEF ExecuteCall
    <3> HIDE DEF new
    <3>2. Posted(local', call') /\ net' \subseteq net \cup {call'} /\ WaitingInv'
      BY <2>1, <2>4, <3>1 DEF Send, Posted, WaitingInv, NoReply
    <3>3. LogKept /\ Held(local', mem') /\ Held(local', disk')
      BY <2>1, <2>2 DEF LogKept, HeldInv
    <3> QED
      BY <2>2, <3>2, <3>3, EvidenceKept
  <2> QED
    BY <1>7, <2>3, <2>4 DEF Dispatch
<1>8. CASE LocallyAccepted
  <2> DEFINE m == [mem EXCEPT !.phase = "local_accepted", !.localId = reply.localId]
  <2>1. /\ mem # NoCommand /\ mem \in ActiveCommands
        /\ pc = "dispatch" /\ snap = "unpolled" /\ call.cmd = mem.cmd
        /\ Ran(local, reply.localId, mem.cmd)
    BY <1>8 DEF LocallyAccepted, WorkflowInv, ConnectorInv, ConnectorTypeOK, WaitsForOne,
       WaitingInv, PolledInv
  <2>2. m.localId = reply.localId /\ m.cmd = mem.cmd /\ m.terminal = mem.terminal
    BY <2>1 DEF ActiveCommands
  <2>3. Held(local, m)
    BY <2>1, <2>2 DEF HeldInv, Held
  <2>4. mem' = m /\ disk' \in {disk, m} /\ snap' = "unpolled" /\ local' = local
    BY <1>8, <2>1 DEF LocallyAccepted, Saved, SaveFails, EndCycle, GoOn
  <2>5. PolledInv'
    BY <2>4 DEF PolledInv
  <2>6. CASE Answered
    BY <2>3, <2>4, <2>5, <2>6, RecordEvidence
  <2>7. CASE Send(ProgressCall(m, "accepted_by_collector"))
    <3>1. ProgressCall(m, "accepted_by_collector").kind = "progress"
      BY DEF ProgressCall
    <3> HIDE DEF m
    <3>2. Posted(local', call') /\ net' \subseteq net \cup {call'} /\ WaitingInv'
      BY <2>7, <3>1 DEF Send, Posted, WaitingInv, NoReply
    <3>3. LogKept /\ Held(local', mem') /\ Held(local', disk')
      BY <2>3, <2>4 DEF LogKept, HeldInv
    <3> QED
      BY <2>5, <3>2, <3>3, EvidenceKept
  <2> QED
    BY <1>8, <2>6, <2>7 DEF LocallyAccepted
<1>9. CASE LocallyRefused
  <2>1. mem # NoCommand /\ Answered /\ local' = local /\ mem' = WithTerminal(mem, "failed")
    BY <1>9 DEF LocallyRefused, QueueTerminal, Saved, SaveFails, WorkflowInv, ConnectorInv, WaitsForOne
  <2>2. /\ disk' \in {disk, mem'}
        /\ snap' = "unpolled" \/ (snap' = snap /\ pc' = pc)
    BY <1>9 DEF LocallyRefused, QueueTerminal, Saved, SaveFails, EndCycle, GoOn
  <2> QED
    BY <2>1, <2>2, FailureEvidence
<1> QED
  BY <1>1, <1>2, <1>3, <1>5, <1>6, <1>7, <1>8, <1>9 DEF ClaimAndDispatch

LEMMA AnswerEvidence ==
    ASSUME WorkflowInv, EvidenceInv, TakeAnswer \/ Faulty, UNCHANGED cloudVars
    PROVE  EvidenceInv'
<1> USE DEF EvidenceInv
<1>1. CASE ProgressPosted
  <2> DEFINE m == [mem EXCEPT !.phase = call.status]
  <2>1. mem # NoCommand /\ mem \in ActiveCommands
    BY <1>1 DEF ProgressPosted, WorkflowInv, ConnectorInv, ConnectorTypeOK, WaitsForOne
  <2>2. m.localId = mem.localId /\ m.cmd = mem.cmd /\ m.terminal = mem.terminal
    BY <2>1 DEF ActiveCommands
  <2>3. /\ mem' = m /\ disk' \in {disk, m} /\ local' = local /\ Answered
        /\ snap' = "unpolled" \/ (snap' = snap /\ pc' = pc)
    BY <1>1 DEF ProgressPosted, Saved, SaveFails, EndCycle, NextPart, GoOn
  <2>4. Held(local, m)
    BY <2>1, <2>2 DEF HeldInv, Held
  <2>5. PolledInv'
    BY <2>1, <2>2, <2>3 DEF PolledInv
  <2> QED
    BY <2>3, <2>4, <2>5, RecordEvidence
<1>2. CASE ResultPosted
  <2>1. /\ mem' = NoCommand /\ disk' \in {disk, mem'} /\ local' = local /\ Answered
        /\ snap' = "unpolled" \/ (snap' = snap /\ pc' = pc)
    BY <1>2 DEF ResultPosted, Saved, SaveFails, EndCycle, NextPart, GoOn
  <2>2. Held(local, mem') /\ PolledInv'
    BY <2>1, NothingHeld DEF PolledInv
  <2> QED
    BY <2>1, <2>2, RecordEvidence
<1>3. CASE ProgressRefused \/ ResultRefused \/ CloudTimeOut
  BY <1>3, RecordEvidence DEF ProgressRefused, ResultRefused, CloudTimeOut, HeldInv, PolledInv,
     EndCycle
<1>4. CASE Crash
  BY <1>4, RecordEvidence DEF Crash, HeldInv, PolledInv, EndCycle
<1>5. CASE LocalTimeOut
  BY <1>5, FailureEvidence DEF LocalTimeOut, EndCycle, GoOn, WorkflowInv, ConnectorInv, WaitsForOne
<1> QED
  BY <1>1, <1>2, <1>3, <1>4, <1>5 DEF TakeAnswer, Faulty

LEMMA SiteEvidence ==
    ASSUME WorkflowInv, EvidenceInv, UNCHANGED cloudVars,
           Site \/ \E m \in net : LoseRequest(m)
    PROVE  EvidenceInv'
<1> USE DEF EvidenceInv
<1>0. local \in Seq(LocalCommands)
  BY DEF WorkflowInv, ConnectorInv, ConnectorTypeOK
<1>1. ASSUME LogKept, UNCHANGED <<mem, disk, pc, snap, call>>, net' \subseteq net, WaitingInv'
      PROVE  EvidenceInv'
  <2>1. Held(local', mem') /\ Held(local', disk')
    BY <1>1, RanKept DEF HeldInv
  <2>2. Posted(local', call')
    BY <1>1, RanKept DEF PostedInv
  <2>3. PolledInv'
    BY <1>1, RanKept DEF PolledInv
  <2> QED
    BY <1>1, <2>1, <2>2, <2>3, EvidenceKept
<1>2. ASSUME NEW m \in net, CollectorAccepts(m) PROVE EvidenceInv'
  <2>1. /\ local' = Append(local, [cmd |-> m.cmd, lease |-> m.lease, state |-> "pending"])
        /\ m.kind = "execute" /\ net' \subseteq net /\ UNCHANGED <<mem, disk, pc, snap, call>>
        /\ reply' = IF call = m THEN [kind |-> "accepted", localId |-> Len(local) + 1] ELSE reply
    BY <1>2 DEF CollectorAccepts, Answer
  <2>2. /\ Len(local) + 1 \in DOMAIN local' /\ local'[Len(local) + 1].cmd = m.cmd
        /\ \A i \in DOMAIN local : i \in DOMAIN local' /\ local'[i] = local[i]
    BY <1>0, <2>1
  <2>3. LogKept /\ Ran(local', Len(local) + 1, m.cmd)
    BY <2>2 DEF LogKept, Ran
  <2>4. WaitingInv'
    BY <2>1, <2>3, RanKept DEF WaitingInv
  <2> QED
    BY <1>1, <2>1, <2>3, <2>4
<1>3. ASSUME NEW m \in net, CollectorRefuses(m) \/ LoseRequest(m) PROVE EvidenceInv'
  <2>1. /\ local' = local /\ UNCHANGED <<mem, disk, pc, snap, call>> /\ net' \subseteq net
        /\ reply' = reply \/ reply'.kind = "refused"
    BY <1>3 DEF CollectorRefuses, LoseRequest, Answer
  <2>2. LogKept /\ WaitingInv'
    BY <2>1 DEF LogKept, WaitingInv
  <2> QED
    BY <1>1, <2>1, <2>2
<1>4. ASSUME NEW i \in DOMAIN local, NEW from, NEW to, AgentMoves(i, from, to), from # "succeeded"
      PROVE  EvidenceInv'
  <2>1. local[i] \in LocalCommands
    BY <1>0
  <2>2. /\ DOMAIN local' = DOMAIN local /\ local'[i].cmd = local[i].cmd
        /\ \A j \in DOMAIN local : j # i => local'[j] = local[j]
    BY <1>0, <1>4, <2>1 DEF AgentMoves, LocalCommands
  <2>3. LogKept
    BY <1>4, <2>2 DEF AgentMoves, LogKept
  <2>4. UNCHANGED <<mem, disk, pc, snap, call, net, reply>>
    BY <1>4 DEF AgentMoves
  <2>5. WaitingInv'
    BY <2>3, <2>4, RanKept DEF WaitingInv
  <2> QED
    BY <1>1, <2>3, <2>4, <2>5
<1> QED
  BY <1>2, <1>3, <1>4 DEF Site, AgentTakes, AgentExecutes

\* What a step of the rows does to successes that are there already.
NoNewSuccess ==
    \A c \in Commands : status'[c] = "succeeded" =>
        status[c] = "succeeded" /\ localCommandId'[c] = localCommandId[c]

LEMMA SuccessStays ==
    ASSUME SuccessIsReal, local' = local, NoNewSuccess
    PROVE  SuccessIsReal'
  BY DEF SuccessIsReal, NoNewSuccess

LEMMA WebAddsNone ==
    ASSUME CloudTypeOK,
           \/ WebSide \/ ServerClock \/ ClaimNothing
           \/ \E c \in Commands : ClaimRejects(c) \/ ClaimGrants(c)
    PROVE  NoNewSuccess
<1>1. \A c \in Commands : SweptStatus[c] = "succeeded" => status[c] = "succeeded"
  BY DEF SweptStatus
<1>2. SweptStatus \in [Commands -> Statuses] /\ status \in [Commands -> Statuses]
  BY SweepTyped DEF CloudTypeOK
<1>3. localCommandId' = localCommandId
  BY DEF WebSide, ReadDevices, Propose, BeginRequest, FinishRequest, RefuseRequest, Cancel,
     ConfirmTooLate, ConfirmChecks, ConfirmCommits, ConfirmRollsBack, ServerClock,
     ConfirmationEnds, QueueTimeEnds, LeaseEnds, ClaimNothing, ClaimRejects, ClaimGrants
<1>4. \/ status' \in {status, SweptStatus}
      \/ \E c \in Commands, s \in Statuses \ {"succeeded"} :
            \/ status' = [status EXCEPT ![c] = s]
            \/ status' = [SweptStatus EXCEPT ![c] = s]
  <2>1. CASE ServerClock
    BY <2>1 DEF ServerClock, ConfirmationEnds, QueueTimeEnds, LeaseEnds
  <2>2. CASE ClaimNothing \/ \E c \in Commands : ClaimRejects(c) \/ ClaimGrants(c)
    BY <2>2 DEF ClaimNothing, ClaimRejects, ClaimGrants, Statuses, TerminalStatuses,
       ActiveStatuses
  <2>3. ASSUME NEW u \in Users,
               FinishRequest(u) \/ \E c \in Commands, op \in {"confirm", "cancel"} : BeginRequest(u, op, c)
        PROVE  \/ status' \in {status, SweptStatus}
               \/ \E c \in Commands, s \in Statuses \ {"succeeded"} :
                     \/ status' = [status EXCEPT ![c] = s]
                     \/ status' = [SweptStatus EXCEPT ![c] = s]
    <3>1. CASE RefuseRequest(u) \/ ConfirmChecks(u) \/ ConfirmRollsBack(u)
               \/ \E c \in Commands, op \in {"confirm", "cancel"} : BeginRequest(u, op, c)
      BY <3>1 DEF RefuseRequest, ConfirmChecks, ConfirmRollsBack, BeginRequest
    <3>2. CASE Cancel(u) \/ ConfirmTooLate(u) \/ ConfirmCommits(u)
      <4>1. web[u].cmd \in Commands
        <5>1. web[u] \in WebRequests \cup {NoRequest} /\ web[u].op # "none"
          BY <3>2 DEF CloudTypeOK, Cancel, ConfirmTooLate, ConfirmCommits
        <5> QED
          BY <5>1 DEF WebRequests, NoRequest
      <4> QED
        BY <3>2, <4>1 DEF Cancel, ConfirmTooLate, ConfirmCommits, Statuses, TerminalStatuses,
           ActiveStatuses
    <3> QED
      BY <2>3, <3>1, <3>2 DEF FinishRequest
  <2>4. CASE ReadDevices \/ \E c \in Commands : Propose(c)
    BY <2>4 DEF ReadDevices, Propose, Statuses
  <2> QED
    BY <2>1, <2>2, <2>3, <2>4 DEF WebSide
<1> QED
  BY <1>1, <1>2, <1>3, <1>4 DEF NoNewSuccess

\* A result makes a success of a row only when its payload is one, and then
\* under the payload's local id.
LEMMA CallAddsBacked ==
    ASSUME CloudTypeOK, SuccessIsReal, local' = local, NEW c \in Commands, NEW l, NEW ok,
           \/ \E s \in ProgressStatuses : \E id : Progress(c, l, s, id, ok)
           \/ \E p \in Payloads : Finish(c, l, p, ok) /\ Backed(local, p, c)
    PROVE  SuccessIsReal'
<1> USE DEF CloudTypeOK
<1>1. ASSUME LateCall(c, ok) \/ RefuseCall(ok) \/ UNCHANGED cloudVars PROVE SuccessIsReal'
  <2>1. NoNewSuccess
    BY <1>1 DEF LateCall, RefuseCall, cloudVars, NoNewSuccess
  <2> QED
    BY <2>1, SuccessStays
<1>2. ASSUME NEW s \in ProgressStatuses, NEW id, RecordProgress(c, s, id, ok) PROVE SuccessIsReal'
  <2>1. NoNewSuccess
    BY <1>2 DEF RecordProgress, NoNewSuccess, ProgressStatuses
  <2> QED
    BY <2>1, SuccessStays
<1>3. ASSUME NEW p \in Payloads, MayFinish(c, p), RecordResult(c, p, ok), Backed(local, p, c)
      PROVE  SuccessIsReal'
  <2>1. \A d \in Commands : d # c => status'[d] = status[d] /\ localCommandId'[d] = localCommandId[d]
    BY <1>3 DEF RecordResult
  <2>2. status'[c] = p.status
    BY <1>3 DEF RecordResult
  <2>3. p.status = "succeeded" => p.localId # NoLocalId /\ localCommandId'[c] = p.localId
    BY <1>3 DEF RecordResult, MayFinish
  <2>4. status'[c] = "succeeded" => Executed(local, localCommandId'[c], c)
    BY <1>3, <2>2, <2>3 DEF Backed
  <2> QED
    BY <2>1, <2>4 DEF SuccessIsReal, Executed, Ran
<1> QED
  BY <1>1, <1>2, <1>3 DEF Progress, Finish

LEMMA HandlerEvidence ==
    ASSUME WorkflowInv, EvidenceInv, NEW m \in net, Handle(m)
    PROVE  EvidenceInv'
<1> USE DEF EvidenceInv
<1>1. /\ UNCHANGED <<mem, disk, pc, snap, call, local>> /\ net' \subseteq net
      /\ reply' = reply \/ reply'.kind # "accepted"
  BY DEF Handle, HandleClaim, HandleProgress, HandleResult, HandleDisabled, othersOfConnector,
     Answer, Verdict
<1>2. HeldInv' /\ PostedInv' /\ WaitingInv' /\ PolledInv'
  BY <1>1 DEF HeldInv, PostedInv, WaitingInv, PolledInv
<1>3. CloudTypeOK /\ m \in Calls
  BY DEF WorkflowInv, ConnectorInv, ConnectorTypeOK
<1>4. CASE HandleClaim(m) \/ HandleDisabled(m)
  <2>1. NoNewSuccess
    BY <1>3, <1>4, WebAddsNone DEF HandleClaim, HandleDisabled, NoNewSuccess, cloudVars
  <2> QED
    BY <1>1, <1>2, <2>1, SuccessStays
<1>5. CASE HandleProgress(m)
  <2>1. m.cmd \in Commands /\ m.status \in ProgressStatuses
    BY <1>3, <1>5 DEF HandleProgress, Calls, ClaimCall, ProgressCalls, ResultCalls, ExecuteCalls
  <2> QED
    BY <1>1, <1>2, <1>3, <1>5, <2>1, CallAddsBacked DEF HandleProgress
<1>6. CASE HandleResult(m)
  <2>1. m.cmd \in Commands /\ m.payload \in Payloads
    BY <1>3, <1>6 DEF HandleResult, Calls, ClaimCall, ProgressCalls, ResultCalls, ExecuteCalls
  <2>2. Backed(local, m.payload, m.cmd)
    BY <1>6 DEF HandleResult, PostedInv, Posted
  <2> QED
    BY <1>1, <1>2, <1>3, <1>6, <2>1, <2>2, CallAddsBacked DEF HandleResult
<1> QED
  BY <1>4, <1>5, <1>6 DEF Handle

LEMMA EvidenceStep ==
    ASSUME WorkflowInv, EvidenceInv, [Next]_vars
    PROVE  EvidenceInv'
<1>1. ASSUME UNCHANGED <<mem, disk, pc, snap, call, reply, net, local>>, NoNewSuccess
      PROVE  EvidenceInv'
  BY <1>1, SuccessStays DEF EvidenceInv, HeldInv, PostedInv, WaitingInv, PolledInv
<1>2. ASSUME UNCHANGED cloudVars PROVE NoNewSuccess
  BY <1>2 DEF cloudVars, NoNewSuccess
<1>3. CASE WebSide /\ UNCHANGED connectorVars
  BY <1>1, <1>3, WebAddsNone DEF connectorVars, WorkflowInv
<1>4. CASE Clocks
  BY <1>1, <1>2, <1>4, WebAddsNone DEF Clocks, ReconcileEnds, LeaseRunsOut, connectorVars,
     WorkflowInv
<1>5. CASE UNCHANGED vars
  BY <1>1, <1>2, <1>5 DEF vars, connectorVars
<1>6. ASSUME NEW m \in net, Handle(m) PROVE EvidenceInv'
  BY <1>6, HandlerEvidence
<1>7. CASE ConnectorStep /\ UNCHANGED cloudVars
  BY <1>7, RecoverEvidence, ClaimEvidence, AnswerEvidence, SiteEvidence
     DEF ConnectorStep, Runner
<1> QED
  BY <1>3, <1>4, <1>5, <1>6, <1>7 DEF Next

\* A command the cloud calls succeeded was executed by the agent, for any number
\* of commands, leases and faults: in particular never on the evidence of an
\* earlier command, nor on a payload saved before a crash.
THEOREM SuccessesAreReal == Spec => []SuccessIsReal
<1>1. Init => EvidenceInv
  BY DEF Init, CloudInit, ConnectorInit, EvidenceInv, HeldInv, Held, PostedInv, Posted,
     WaitingInv, PolledInv, SuccessIsReal, NoCall, NoReply
<1> QED
  BY <1>1, EvidenceStep, WorkflowInvariant, PTL DEF Spec, EvidenceInv

-----------------------------------------------------------------------------
(***************************************************************************)
(* The feed.  What keeps a second row out is the unique constraint for one  *)
(* key (OneRowPerKey), and for the keys of one event that the connector has *)
(* had one instance id for every start without a state file, and one more:  *)
(* no row and no request carries a later one (InstancesCounted).            *)
(***************************************************************************)
OneRowPerKey ==
    /\ events \in [Keys(Events) -> {0, 1}]
    /\ readings \in [Keys(Readings) -> {0, 1}]

Known(table, S) == \A i \in Instances, n \in S : table[<<i, n>>] > 0 => i <= blank + 1

InstancesCounted ==
    /\ blank \in Nat
    /\ "inst" \in DOMAIN marks /\ marks.inst = blank + 1
    /\ saved # NoFile => "inst" \in DOMAIN saved /\ saved.inst = blank + 1
    /\ DOMAIN req = Threads
    /\ \A t \in Threads : "inst" \in DOMAIN req[t] /\ req[t].inst \in 1 .. blank + 1
    /\ Known(events, Events) /\ Known(readings, Readings)

FeedInv == OneRowPerKey /\ InstancesCounted

USE FeedAssumption

LEMMA FeedInitIsGood == FeedInit => FeedInv
  BY DEF FeedInit, FeedInv, OneRowPerKey, InstancesCounted, Known, NoPost, Keys

\* A commit that found no key taken stores one row of each new one, all of them
\* with the request's instance id.
LEMMA InsertKeeps ==
    ASSUME FeedInv, NEW t \in Threads, NEW S,
           NEW table \in [Keys(S) -> {0, 1}], Known(table, S), ~TakenMeanwhile(table, t)
    PROVE  Insert(table, t) \in [Keys(S) -> {0, 1}] /\ Known(Insert(table, t), S)
<1>1. \A n \in Items(t) \ req[t].known : ~(table[Key(t, n)] > 0)
  BY DEF TakenMeanwhile
<1>2. \A k \in Keys(S) : Insert(table, t)[k] =
         IF \E n \in Items(t) \ req[t].known : k = Key(t, n) THEN table[k] + 1 ELSE table[k]
  BY DEF Insert
<1>3. \A k \in Keys(S) : (\E n \in Items(t) \ req[t].known : k = Key(t, n)) => table[k] = 0
  BY <1>1
<1>4. \A k \in Keys(S) : Insert(table, t)[k] \in {0, 1}
  BY <1>2, <1>3
<1>5. Insert(table, t) \in [Keys(S) -> {0, 1}]
  BY <1>4 DEF Insert
<1>6. ASSUME NEW i \in Instances, NEW m \in S, Insert(table, t)[<<i, m>>] > 0
      PROVE  i <= blank + 1
  <2>1. <<i, m>> \in Keys(S)
    BY DEF Keys
  <2>2. CASE \E n \in Items(t) \ req[t].known : <<i, m>> = Key(t, n)
    <3>1. i = req[t].inst
      BY <2>2 DEF Key
    <3> QED
      BY <3>1 DEF FeedInv, InstancesCounted
  <2>3. CASE ~\E n \in Items(t) \ req[t].known : <<i, m>> = Key(t, n)
    BY <1>2, <1>6, <2>1, <2>3 DEF Known
  <2> QED
    BY <2>2, <2>3
<1> QED
  BY <1>5, <1>6 DEF Known

\* Steps that store nothing and start nothing: the requests keep their instance.
LEMMA RequestsKeep ==
    ASSUME FeedInv, UNCHANGED <<events, readings, blank, marks, saved>>, DOMAIN req' = Threads,
           \A t \in Threads : "inst" \in DOMAIN req'[t] /\ req'[t].inst \in {req[t].inst, 1, marks.inst}
    PROVE  FeedInv'
<1>1. \A t \in Threads : req'[t].inst \in 1 .. blank + 1
  BY DEF FeedInv, InstancesCounted
<1> QED
  BY <1>1 DEF FeedInv, OneRowPerKey, InstancesCounted, Known

LEMMA AnswersKeep ==
    ASSUME FeedInv, NEW t \in Threads, NEW ok, AnsweredWith(t, ok)
    PROVE  /\ DOMAIN req' = Threads
           /\ \A u \in Threads : "inst" \in DOMAIN req'[u] /\ req'[u].inst \in {req[u].inst, 1, marks.inst}
<1>1. DOMAIN req = Threads /\ \A u \in Threads : "inst" \in DOMAIN req[u]
  BY DEF FeedInv, InstancesCounted
<1> QED
  BY <1>1 DEF AnsweredWith, NoPost

LEMMA ConnectorKeeps ==
    ASSUME FeedInv, Cycle \/ Unreachable \/ \E t \in Threads : GiveUpPost(t) \/ Forget(t) \/ Begin(t)
    PROVE  FeedInv'
<1>0. DOMAIN req = Threads /\ \A u \in Threads : "inst" \in DOMAIN req[u]
  BY DEF FeedInv, InstancesCounted
<1>1. CASE SkipConfig \/ Poll \/ UploadEnd \/ SkipBeat \/ NextCycle \/ Unreachable
  BY <1>0, <1>1, RequestsKeep DEF SkipConfig, Poll, UploadEnd, SkipBeat, NextCycle, Unreachable, rows, store
<1>2. CASE Post
  <2>1. \E u \in Threads : req[u].kind = "none"
    BY <1>2 DEF Post
  <2>2. FreeThread \in Threads
    BY <2>1 DEF FreeThread
  <2> DEFINE p == [NoPost EXCEPT !.kind = run.pc, !.live = TRUE, !.token = run.token,
                                 !.inst = marks.inst, !.items = Posts(run.pc)]
  <2>3. req' = [req EXCEPT ![FreeThread] = p] /\ "inst" \in DOMAIN p /\ p.inst = marks.inst
    <3>1. req' = [req EXCEPT ![FreeThread] = p]
      BY <1>2 DEF Post
    <3>2. "inst" \in DOMAIN p /\ p.inst = marks.inst
      BY DEF NoPost
    <3> QED
      BY <3>1, <3>2
  <2>4. UNCHANGED <<events, readings, blank, marks, saved>>
    BY <1>2 DEF Post, rows, store
  <2> HIDE DEF p
  <2> QED
    BY <1>0, <2>2, <2>3, <2>4, RequestsKeep
<1>3. ASSUME NEW t \in Threads, GiveUpPost(t) PROVE FeedInv'
  BY <1>0, <1>3, RequestsKeep DEF GiveUpPost, rows, store
<1>4. ASSUME NEW t \in Threads, Forget(t) PROVE FeedInv'
  BY <1>0, <1>4, RequestsKeep DEF Forget, rows, store, NoPost
<1>5. ASSUME NEW t \in Threads, Begin(t) PROVE FeedInv'
  <2>1. UNCHANGED <<events, readings, blank, marks, saved>>
    BY <1>5 DEF Begin, rows, store
  <2>2. CASE \E ok : AnsweredWith(t, ok)
    BY <2>1, <2>2, AnswersKeep, RequestsKeep
  <2>3. CASE ~\E ok : AnsweredWith(t, ok)
    <3>1. req' = [req EXCEPT ![t].step = "read", ![t].known = Duplicates(t),
                             ![t].last = lastObserved, ![t].conn = connector]
      BY <1>5, <2>3 DEF Begin, AnswerConfig
    <3> QED
      BY <1>0, <2>1, <3>1, RequestsKeep
  <2> QED
    BY <2>2, <2>3
<1>6. ASSUME NEW t \in Threads, Receive(t) PROVE FeedInv'
  <2>1. req' = [req EXCEPT ![t] = NoPost] /\ UNCHANGED <<events, readings, blank>>
    BY <1>6 DEF Receive, rows
  <2>2. /\ DOMAIN req' = Threads
        /\ \A u \in Threads : "inst" \in DOMAIN req'[u] /\ req'[u].inst \in 1 .. blank + 1
    BY <1>0, <2>1 DEF FeedInv, InstancesCounted, NoPost
  <2>3. /\ "inst" \in DOMAIN marks' /\ marks'.inst = marks.inst
        /\ saved' = saved \/ saved' = marks'
    BY <1>6 DEF Receive, Save, Marked, store, FeedInv, InstancesCounted
  <2> QED
    BY <2>1, <2>2, <2>3 DEF FeedInv, OneRowPerKey, InstancesCounted, Known
<1> QED
  BY <1>1, <1>2, <1>3, <1>4, <1>5, <1>6 DEF Cycle

LEMMA RestartKeeps == ASSUME FeedInv, NEW token, Restart(token) PROVE FeedInv'
<1>0. DOMAIN req = Threads /\ \A u \in Threads : "inst" \in DOMAIN req[u]
  BY DEF FeedInv, InstancesCounted
<1>1. UNCHANGED <<events, readings, saved>>
  BY DEF Restart, rows
<1>2. /\ DOMAIN req' = Threads
      /\ \A u \in Threads : "inst" \in DOMAIN req'[u] /\ req'[u].inst = req[u].inst
  BY <1>0 DEF Restart
<1>3. CASE saved = NoFile
  <2>1. blank' = blank + 1 /\ "inst" \in DOMAIN marks' /\ marks'.inst = blank + 2
    BY <1>3 DEF Restart, Load, FeedInv, InstancesCounted
  <2>2. blank' \in Nat /\ marks'.inst = blank' + 1
    BY <2>1 DEF FeedInv, InstancesCounted
  <2>3. \A u \in Threads : req'[u].inst \in 1 .. blank' + 1
    BY <1>2, <2>1 DEF FeedInv, InstancesCounted
  <2>4. \A i \in Instances : i <= blank + 1 => i <= blank' + 1
    BY <2>1 DEF FeedInv, InstancesCounted, Instances
  <2>5. Known(events, Events)' /\ Known(readings, Readings)'
    BY <1>1, <2>4 DEF FeedInv, InstancesCounted, Known
  <2> QED
    BY <1>1, <1>2, <1>3, <2>1, <2>2, <2>3, <2>5 DEF FeedInv, OneRowPerKey, InstancesCounted
<1>4. CASE saved # NoFile
  <2>1. blank' = blank /\ marks' = saved
    BY <1>4 DEF Restart, Load
  <2> QED
    BY <1>1, <1>2, <1>4, <2>1 DEF FeedInv, OneRowPerKey, InstancesCounted, Known
<1> QED
  BY <1>3, <1>4

LEMMA CommitsKeep ==
    ASSUME FeedInv, NEW t \in Threads, CommitReading(t) \/ CommitEvents(t) \/ CommitBeat(t)
    PROVE  FeedInv'
<1>1. UNCHANGED <<blank, marks, saved>>
  BY DEF CommitReading, CommitEvents, CommitBeat, store
<1>2. PICK ok : AnsweredWith(t, ok)
  BY DEF CommitReading, CommitEvents, CommitBeat
<1>3. /\ DOMAIN req' = Threads
      /\ \A u \in Threads : "inst" \in DOMAIN req'[u] /\ req'[u].inst \in 1 .. blank + 1
  <2>1. /\ DOMAIN req' = Threads
        /\ \A u \in Threads : "inst" \in DOMAIN req'[u] /\ req'[u].inst \in {req[u].inst, 1, marks.inst}
    BY <1>2, AnswersKeep
  <2> QED
    BY <2>1 DEF FeedInv, InstancesCounted
<1>4. events' \in [Keys(Events) -> {0, 1}] /\ Known(events', Events)
  <2>0. events \in [Keys(Events) -> {0, 1}] /\ Known(events, Events)
    BY DEF FeedInv, OneRowPerKey, InstancesCounted
  <2>1. events' = events \/ (~TakenMeanwhile(events, t) /\ events' = Insert(events, t))
    BY DEF CommitReading, CommitEvents, CommitBeat, rows
  <2>2. CASE events' = events
    BY <2>0, <2>2
  <2>3. CASE ~TakenMeanwhile(events, t) /\ events' = Insert(events, t)
    <3>1. Insert(events, t) \in [Keys(Events) -> {0, 1}] /\ Known(Insert(events, t), Events)
      BY <2>0, <2>3, InsertKeeps
    <3> QED
      BY <2>3, <3>1
  <2> QED
    BY <2>1, <2>2, <2>3
<1>5. readings' \in [Keys(Readings) -> {0, 1}] /\ Known(readings', Readings)
  <2>0. readings \in [Keys(Readings) -> {0, 1}] /\ Known(readings, Readings)
    BY DEF FeedInv, OneRowPerKey, InstancesCounted
  <2>1. readings' = readings \/ (~TakenMeanwhile(readings, t) /\ readings' = Insert(readings, t))
    BY DEF CommitReading, CommitEvents, CommitBeat, rows
  <2>2. CASE readings' = readings
    BY <2>0, <2>2
  <2>3. CASE ~TakenMeanwhile(readings, t) /\ readings' = Insert(readings, t)
    <3>1. Insert(readings, t) \in [Keys(Readings) -> {0, 1}] /\ Known(Insert(readings, t), Readings)
      BY <2>0, <2>3, InsertKeeps
    <3> QED
      BY <2>3, <3>1
  <2> QED
    BY <2>1, <2>2, <2>3
<1> QED
  BY <1>1, <1>3, <1>4, <1>5 DEF FeedInv, OneRowPerKey, InstancesCounted, Known

LEMMA FeedStepsKeep == FeedInv /\ [FeedNext]_feedVars => FeedInv'
<1> SUFFICES ASSUME FeedInv, [FeedNext]_feedVars PROVE FeedInv'
  OBVIOUS
<1>1. CASE UNCHANGED <<events, readings, blank, marks, saved, req>>
  BY <1>1 DEF FeedInv, OneRowPerKey, InstancesCounted, Known
<1>2. CASE Log \/ Measure \/ TimePasses \/ RotateToken \/ Revoke \/ ProvisionDevice \/ UNCHANGED feedVars
  BY <1>1, <1>2 DEF Log, Measure, TimePasses, RotateToken, Revoke, ProvisionDevice, feedVars, rows, store
<1>3. CASE CrashFeed \/ Reinstall
  BY <1>3, RestartKeeps DEF CrashFeed, Reinstall
<1>4. CASE Cycle \/ Unreachable \/ \E t \in Threads : GiveUpPost(t) \/ Serve(t)
  BY <1>4, ConnectorKeeps, CommitsKeep DEF Serve
<1> QED
  BY <1>2, <1>3, <1>4 DEF FeedNext

\* There are k numbers from 1 to k.
LEMMA UpTo ==
    ASSUME NEW k \in Nat
    PROVE  IsFiniteSet(1 .. k) /\ Cardinality(1 .. k) = k
<1>1. \A a, b \in Int : IsFiniteSet(a .. b) /\ Cardinality(a .. b) = IF a > b THEN 0 ELSE b - a + 1
  BY FS_Interval, Zenon
<1>2. 1 \in Int /\ k \in Int
  OBVIOUS
<1>3. IsFiniteSet(1 .. k) /\ Cardinality(1 .. k) = IF 1 > k THEN 0 ELSE k - 1 + 1
  BY <1>1, <1>2, Zenon
<1> QED
  BY <1>3

\* Whatever is repeated, late or crashes: no key has two rows, and no event or
\* reading more keys than starts without a state file, and one.
THEOREM NothingTwice == FeedSpec => []StoredOnce
<1>1. FeedInv => StoredOnce
  <2> SUFFICES ASSUME FeedInv PROVE StoredOnce
    OBVIOUS
  <2>1. \A k \in Keys(Events) : events[k] <= 1
    BY DEF FeedInv, OneRowPerKey
  <2>2. \A k \in Keys(Readings) : readings[k] <= 1
    BY DEF FeedInv, OneRowPerKey
  <2>3. ASSUME NEW S, NEW table, Known(table, S), NEW n \in S
        PROVE  Cardinality(Copies(table, n)) <= blank + 1
    <3>1. blank + 1 \in Nat
      BY DEF FeedInv, InstancesCounted
    <3>2. IsFiniteSet(1 .. blank + 1) /\ Cardinality(1 .. blank + 1) = blank + 1
      BY <3>1, UpTo
    <3>3. Copies(table, n) \in SUBSET (1 .. blank + 1)
      BY <2>3, <3>1 DEF Copies, Known, Instances
    <3> QED
      BY <3>2, <3>3, FS_Subset
  <2>4. \A e \in Events : Cardinality(Copies(events, e)) <= blank + 1
    BY <2>3 DEF FeedInv, InstancesCounted
  <2>5. \A r \in Readings : Cardinality(Copies(readings, r)) <= blank + 1
    BY <2>3 DEF FeedInv, InstancesCounted
  <2> QED
    BY <2>1, <2>2, <2>4, <2>5 DEF StoredOnce, Keys
<1> QED
  BY <1>1, FeedInitIsGood, FeedStepsKeep, PTL DEF FeedSpec

-----------------------------------------------------------------------------
AdminTyped == connector \in [status : {"active", "revoked"}, token : Nat]

\* No request of the connector takes back a revoke or an older token.
THEOREM RevokesStand == FeedSpec => AdminStands
<1> DEFINE Step == /\ connector.status = "revoked" => connector'.status = "revoked"
                   /\ connector'.token >= connector.token
<1>1. FeedInit => AdminTyped
  BY DEF FeedInit, AdminTyped
<1>2. AdminTyped /\ [FeedNext]_feedVars => AdminTyped' /\ Step
  <2> SUFFICES ASSUME AdminTyped, [FeedNext]_feedVars PROVE AdminTyped' /\ Step
    OBVIOUS
  <2>1. CASE UNCHANGED connector
    BY <2>1 DEF AdminTyped
  <2>2. CASE RotateToken \/ Revoke
    BY <2>2 DEF RotateToken, Revoke, AdminTyped
  <2>3. CASE Cycle
    BY <2>1, <2>3 DEF Cycle, SkipConfig, Poll, UploadEnd, SkipBeat, NextCycle, Post, Receive, admin
  <2>4. ASSUME NEW t \in Threads, GiveUpPost(t) \/ Serve(t) PROVE UNCHANGED connector
    BY <2>4 DEF GiveUpPost, Serve, Begin, CommitReading, CommitEvents, CommitBeat, Beaten, Forget, admin
  <2>5. CASE Log \/ Measure \/ TimePasses \/ Unreachable \/ CrashFeed \/ Reinstall \/ ProvisionDevice
             \/ UNCHANGED feedVars
    BY <2>1, <2>5 DEF Log, Measure, TimePasses, Unreachable, CrashFeed, Reinstall, Restart,
         ProvisionDevice, feedVars, admin
  <2> QED
    BY <2>1, <2>2, <2>3, <2>4, <2>5 DEF FeedNext
<1>3. AdminTyped /\ [FeedNext]_feedVars => [Step]_feedVars
  BY <1>2
<1> QED
  BY <1>1, <1>2, <1>3, PTL DEF FeedSpec, AdminStands
=============================================================================
