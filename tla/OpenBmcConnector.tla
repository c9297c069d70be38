-------------------------- MODULE OpenBmcConnector --------------------------
(***************************************************************************)
(* The site connector (ConnectorRunner and StateStore of                   *)
(* planner-server/deploy/openbmc-connector) and the collector and agent it *)
(* drives, as far as commands go.                                          *)
(*                                                                         *)
(* run_once polls the collector, settles the command it remembers, and     *)
(* claims and dispatches a new one. Every call goes through the network    *)
(* and may get no answer; every save of the state file may fail, which     *)
(* ends the cycle with the change in memory and not on disk; the process   *)
(* may die between any two steps and restarts from the file. The bound on  *)
(* those faults is MaxFaults.                                              *)
(***************************************************************************)
EXTENDS OpenBmcTypes, Sequences

CONSTANT FormerOutcomes  \* what the collector's events still report, from before
                         \* a restart, under local ids it now hands out again

ASSUME FormerAssumption == FormerOutcomes \subseteq ResultStatuses

VARIABLES
    mem,           \* StateStore.data["activeCommand"]
    disk,          \* the same in the state file
    pc,            \* "rest" between cycles, else the part of run_once
    snap,          \* what this cycle's poll shows of the active command
    call,          \* the request run_once is waiting on
    reply,         \* the answer that has come back to it
    net,           \* requests sent and not handled (nor lost) yet
    local,         \* the collector's commands, by local id
    reconcileDue,  \* leases past reconcileDeadlineAt, by the connector's clock
    leaseDue,      \* leases past leaseExpiresAt, by the connector's clock
    faults         \* crashes, failed saves and lost answers so far

connectorVars == <<mem, disk, pc, snap, call, reply, net, local,
                   reconcileDue, leaseDue, faults>>

NoCommand == [lease |-> NoLease]
ActiveCommands == [cmd : Commands, lease : Leases,
                   phase : {"claimed", "dispatching", "local_accepted"} \cup ProgressStatuses,
                   localId : LocalIds \cup {NoLocalId},
                   terminal : Payloads \cup {NoPayload}]

NoCall == [kind |-> "none"]
ClaimCall == [kind |-> "claim"]
ProgressCall(m, s) == [kind |-> "progress", cmd |-> m.cmd, lease |-> m.lease,
                       status |-> s, localId |-> m.localId]
ResultCall(m) == [kind |-> "result", cmd |-> m.cmd, lease |-> m.lease,
                  payload |-> m.terminal]
ExecuteCall(m) == [kind |-> "execute", cmd |-> m.cmd, lease |-> m.lease]

ProgressCalls == [kind : {"progress"}, cmd : Commands, lease : Leases,
                  status : ProgressStatuses, localId : LocalIds \cup {NoLocalId}]
ResultCalls == [kind : {"result"}, cmd : Commands, lease : Leases,
                payload : Payloads]
ExecuteCalls == [kind : {"execute"}, cmd : Commands, lease : Leases]
Calls == {ClaimCall} \cup ProgressCalls \cup ResultCalls \cup ExecuteCalls

Replies == [kind : {"none", "ok", "refused", "empty"}]
           \cup [kind : {"granted"}, cmd : Commands, lease : Leases]
           \cup [kind : {"accepted"}, localId : LocalIds]
NoReply == [kind |-> "none"]

Views == {"unpolled", "nothing", "delivered", "succeeded", "failed"}
LocalCommands == [cmd : Commands, lease : Leases,
                  state : {"pending", "delivered", "succeeded", "failed"}]

ConnectorTypeOK ==
    /\ mem \in ActiveCommands \cup {NoCommand}
    /\ disk \in ActiveCommands \cup {NoCommand}
    /\ pc \in {"rest", "recover", "claim", "refuse", "dispatch"}
    /\ snap \in Views
    /\ call \in Calls \cup {NoCall}
    /\ reply \in Replies
    /\ net \subseteq Calls
    /\ local \in Seq(LocalCommands)
    /\ reconcileDue \subseteq Leases
    /\ leaseDue \subseteq Leases
    /\ faults \in 0..MaxFaults

ConnectorInit ==
    /\ mem = NoCommand /\ disk = NoCommand
    /\ pc = "rest" /\ snap = "unpolled"
    /\ call = NoCall /\ reply = NoReply /\ net = {}
    /\ local = <<>>
    /\ reconcileDue = {} /\ leaseDue = {}
    /\ faults = 0

-----------------------------------------------------------------------------
(* Pieces of a step.                                                         *)

Idle == call = NoCall

Send(m) ==
    /\ call' = m
    /\ reply' = NoReply
    /\ net' = net \cup {m}

NoSend == UNCHANGED <<call, reply, net>>
Answered == call' = NoCall /\ reply' = NoReply /\ UNCHANGED net

\* The poll is forgotten with the cycle.
EndCycle == pc' = "rest" /\ snap' = "unpolled"
GoOn == UNCHANGED <<pc, snap>>

Fault == faults < MaxFaults /\ faults' = faults + 1

\* set_active_command(m) where the write succeeds, and where it raises.
Saved(m) == mem' = m /\ disk' = m /\ UNCHANGED faults
SaveFails(m) == mem' = m /\ disk' = disk /\ Fault /\ EndCycle

\* _queue_terminal; the caller then flushes.
WithTerminal(m, outcome) ==
    [m EXCEPT !.terminal = [status |-> outcome, localId |-> m.localId, stamp |-> faults]]

QueueTerminal(m, outcome) ==
    \/ Saved(WithTerminal(m, outcome)) /\ GoOn
    \/ SaveFails(WithTerminal(m, outcome))

-----------------------------------------------------------------------------
(* run_once, up to the command part: what the poll shows of the active       *)
(* command. A poll may miss a row or an event; it never invents one.         *)

\* The agent's execution events that name the local id.
EventsNaming(id) ==
    [outcome : FormerOutcomes, former : {TRUE}]
    \cup [outcome : ResultStatuses \cap {local[id].state}, former : {FALSE}]

\* Mutant: the time of the event is not looked at.
AnyEvent(event) == TRUE

\* not_before: an event from before dispatchedAt is not of this command.
Reconciled(event) == ~event.former

Evidence ==
    {"unpolled", "nothing"} \cup
    (IF mem = NoCommand \/ mem.localId = NoLocalId THEN {}
     ELSE {event.outcome : event \in {e \in EventsNaming(mem.localId) : Reconciled(e)}}
          \cup (IF local[mem.localId].state = "pending" THEN {} ELSE {"delivered"}))

\* A save of what the poll uploaded writes the whole state, the command in
\* memory included.
StartCycle ==
    /\ pc = "rest" /\ Idle
    /\ snap' \in Evidence
    /\ disk' \in {disk, mem}
    /\ pc' = "recover"
    /\ NoSend
    /\ UNCHANGED <<mem, local, reconcileDue, leaseDue, faults>>

-----------------------------------------------------------------------------
(* _recover_or_reconcile, in the order of its tests.                         *)

Recovering == pc = "recover" /\ Idle
Outcome == snap \in ResultStatuses
Settled == mem # NoCommand /\ mem.terminal # NoPayload
Working == mem # NoCommand /\ mem.terminal = NoPayload

NothingToSettle ==
    /\ Recovering /\ mem = NoCommand
    /\ pc' = IF snap = "unpolled" THEN "rest" ELSE "claim"
    /\ snap' = "unpolled"
    /\ NoSend
    /\ UNCHANGED <<mem, disk, local, reconcileDue, leaseDue, faults>>

FlushTerminal ==
    /\ pc \in {"recover", "dispatch"} /\ Idle /\ Settled
    /\ Send(ResultCall(mem))
    /\ UNCHANGED <<mem, disk, pc, snap, local, reconcileDue, leaseDue, faults>>

\* Mutant: an interrupted dispatch is done again.
DispatchAgain ==
    /\ Recovering /\ Working /\ mem.phase = "dispatching"
    /\ Send(ExecuteCall(mem))
    /\ UNCHANGED <<mem, disk, pc, snap, local, reconcileDue, leaseDue, faults>>

DispatchUnknown ==
    /\ Recovering /\ Working /\ mem.phase = "dispatching"
    /\ QueueTerminal(mem, "failed")
    /\ NoSend
    /\ UNCHANGED <<local, reconcileDue, leaseDue>>

PostAccepted ==
    /\ Recovering /\ Working /\ mem.phase = "local_accepted"
    /\ Send(ProgressCall(mem, "accepted_by_collector"))
    /\ UNCHANGED <<mem, disk, pc, snap, local, reconcileDue, leaseDue, faults>>

PostDelivered ==
    /\ Recovering /\ Working /\ mem.phase = "accepted_by_collector"
    /\ snap = "delivered" \/ Outcome
    /\ Send(ProgressCall(mem, "delivered_to_agent"))
    /\ UNCHANGED <<mem, disk, pc, snap, local, reconcileDue, leaseDue, faults>>

RecordOutcome ==
    /\ Recovering /\ Working /\ mem.phase = "delivered_to_agent" /\ Outcome
    /\ QueueTerminal(mem, snap)
    /\ NoSend
    /\ UNCHANGED <<local, reconcileDue, leaseDue>>

\* A claim refused before its terminal was saved has no reconcile deadline.
Overdue == mem.lease \in (IF mem.phase = "claimed" THEN leaseDue ELSE reconcileDue)

Unresolved ==
    /\ Recovering /\ Working
    /\ \/ mem.phase = "claimed"
       \/ mem.phase = "accepted_by_collector" /\ snap \in {"unpolled", "nothing"}
       \/ mem.phase = "delivered_to_agent" /\ ~Outcome

GiveUp ==
    /\ Unresolved /\ Overdue
    /\ QueueTerminal(mem, "failed")
    /\ NoSend
    /\ UNCHANGED <<local, reconcileDue, leaseDue>>

KeepWaiting ==
    /\ Unresolved /\ ~Overdue
    /\ EndCycle
    /\ NoSend
    /\ UNCHANGED <<mem, disk, local, reconcileDue, leaseDue, faults>>

-----------------------------------------------------------------------------
(* _claim_and_dispatch.                                                      *)

ClaimNotDue ==
    /\ pc = "claim" /\ Idle
    /\ EndCycle
    /\ NoSend
    /\ UNCHANGED <<mem, disk, local, reconcileDue, leaseDue, faults>>

SendClaim ==
    /\ pc = "claim" /\ Idle
    /\ Send(ClaimCall)
    /\ UNCHANGED <<mem, disk, pc, snap, local, reconcileDue, leaseDue, faults>>

\* No command, or one whose claim does not check out: its lease has run out.
NothingClaimed ==
    /\ call = ClaimCall
    /\ \/ reply.kind \in {"empty", "refused"}
       \/ reply.kind = "granted" /\ reply.lease \in leaseDue
    /\ EndCycle
    /\ Answered
    /\ UNCHANGED <<mem, disk, local, reconcileDue, leaseDue, faults>>

NewCommand(phase) ==
    [cmd |-> reply.cmd, lease |-> reply.lease, phase |-> phase,
     localId |-> NoLocalId, terminal |-> NoPayload]

Claimed == call = ClaimCall /\ reply.kind = "granted" /\ reply.lease \notin leaseDue

\* Unsupported type, capability not allowed, collector not fresh, no fan.
RefuseClaim ==
    /\ Claimed
    /\ \/ Saved(NewCommand("claimed")) /\ pc' = "refuse" /\ UNCHANGED snap
       \/ SaveFails(NewCommand("claimed"))
    /\ Answered
    /\ UNCHANGED <<local, reconcileDue, leaseDue>>

QueueRefusal ==
    /\ pc = "refuse" /\ Idle
    /\ \/ Saved(WithTerminal(mem, "failed")) /\ pc' = "dispatch" /\ UNCHANGED snap
       \/ SaveFails(WithTerminal(mem, "failed"))
    /\ NoSend
    /\ UNCHANGED <<local, reconcileDue, leaseDue>>

\* The intent to dispatch is on disk before the collector is called.
Dispatch ==
    /\ Claimed
    /\ \/ /\ Saved(NewCommand("dispatching")) /\ pc' = "dispatch" /\ UNCHANGED snap
          /\ Send(ExecuteCall(NewCommand("dispatching")))
       \/ SaveFails(NewCommand("dispatching")) /\ Answered
    /\ UNCHANGED <<local, reconcileDue, leaseDue>>

\* Mutant: the phase is persisted before the cloud has taken it.
LocallyAcceptedEarly ==
    /\ call.kind = "execute" /\ reply.kind = "accepted"
    /\ LET m == [mem EXCEPT !.phase = "accepted_by_collector", !.localId = reply.localId]
       IN  \/ Saved(m) /\ GoOn /\ Send(ProgressCall(m, "accepted_by_collector"))
           \/ SaveFails(m) /\ Answered
    /\ UNCHANGED <<local, reconcileDue, leaseDue>>

LocallyAccepted ==
    /\ call.kind = "execute" /\ reply.kind = "accepted"
    /\ LET m == [mem EXCEPT !.phase = "local_accepted", !.localId = reply.localId]
       IN  \/ Saved(m) /\ GoOn /\ Send(ProgressCall(m, "accepted_by_collector"))
           \/ SaveFails(m) /\ Answered
    /\ UNCHANGED <<local, reconcileDue, leaseDue>>

LocallyRefused ==
    /\ call.kind = "execute" /\ reply.kind = "refused"
    /\ QueueTerminal(mem, "failed")
    /\ Answered
    /\ UNCHANGED <<local, reconcileDue, leaseDue>>

-----------------------------------------------------------------------------
(* The cloud's answers to progress and result, and no answer at all.         *)

NextPart == IF pc = "dispatch" THEN EndCycle ELSE GoOn

ProgressPosted ==
    /\ call.kind = "progress" /\ reply.kind = "ok"
    /\ LET m == [mem EXCEPT !.phase = call.status]
       IN  \/ Saved(m) /\ NextPart
           \/ SaveFails(m)
    /\ Answered
    /\ UNCHANGED <<local, reconcileDue, leaseDue>>

\* The ClientError leaves run_once's command part.
ProgressRefused ==
    /\ call.kind = "progress" /\ reply.kind = "refused"
    /\ EndCycle
    /\ Answered
    /\ UNCHANGED <<mem, disk, local, reconcileDue, leaseDue, faults>>

\* Mutant: only success counts as an answer.
ResultPostedOk ==
    /\ call.kind = "result" /\ reply.kind = "ok"
    /\ \/ Saved(NoCommand) /\ NextPart
       \/ SaveFails(NoCommand)
    /\ Answered
    /\ UNCHANGED <<local, reconcileDue, leaseDue>>

\* 404, 409 and 410 count as an answer once the lease has run out.
ResultPosted ==
    /\ call.kind = "result"
    /\ \/ reply.kind = "ok"
       \/ reply.kind = "refused" /\ mem.lease \in leaseDue
    /\ \/ Saved(NoCommand) /\ NextPart
       \/ SaveFails(NoCommand)
    /\ Answered
    /\ UNCHANGED <<local, reconcileDue, leaseDue>>

ResultRefused ==
    /\ call.kind = "result" /\ reply.kind = "refused" /\ mem.lease \notin leaseDue
    /\ EndCycle
    /\ Answered
    /\ UNCHANGED <<mem, disk, local, reconcileDue, leaseDue, faults>>

\* A timeout ends the cycle; the request may still be on its way.
CloudTimeOut ==
    /\ call.kind \in {"claim", "progress", "result"}
    /\ Fault
    /\ EndCycle
    /\ Answered
    /\ UNCHANGED <<mem, disk, local, reconcileDue, leaseDue>>

\* execute raises ClientError: the dispatch is reported failed.
LocalTimeOut ==
    /\ call.kind = "execute"
    /\ Fault
    /\ mem' = WithTerminal(mem, "failed")
    /\ \/ disk' = mem' /\ GoOn
       \/ disk' = disk /\ EndCycle
    /\ Answered
    /\ UNCHANGED <<local, reconcileDue, leaseDue>>

Crash ==
    /\ Fault
    /\ mem' = disk
    /\ EndCycle
    /\ Answered
    /\ UNCHANGED <<disk, local, reconcileDue, leaseDue>>

\* A request nobody waits for any more may never arrive.
LoseRequest(m) ==
    /\ m \in net /\ m # call
    /\ net' = net \ {m}
    /\ UNCHANGED <<mem, disk, pc, snap, call, reply, local, reconcileDue, leaseDue, faults>>

-----------------------------------------------------------------------------
(* The collector and the QEMU agent, outside src/.                           *)

\* Whoever handles m answers the connector if it is still waiting for m.
Answer(m, r) ==
    /\ m \in net
    /\ net' = net \ {m}
    /\ reply' = IF call = m THEN r ELSE reply
    /\ UNCHANGED call

CollectorAccepts(m) ==
    /\ m.kind = "execute"
    /\ Len(local) + 1 \in LocalIds
    /\ local' = Append(local, [cmd |-> m.cmd, lease |-> m.lease, state |-> "pending"])
    /\ Answer(m, [kind |-> "accepted", localId |-> Len(local) + 1])
    /\ UNCHANGED <<mem, disk, pc, snap, reconcileDue, leaseDue, faults>>

CollectorRefuses(m) ==
    /\ m.kind = "execute"
    /\ Answer(m, [kind |-> "refused"])
    /\ UNCHANGED <<mem, disk, pc, snap, local, reconcileDue, leaseDue, faults>>

AgentMoves(i, from, to) ==
    /\ local[i].state = from
    /\ local' = [local EXCEPT ![i].state = to]
    /\ UNCHANGED <<mem, disk, pc, snap, call, reply, net, reconcileDue, leaseDue, faults>>

AgentTakes(i) == AgentMoves(i, "pending", "delivered")
AgentExecutes(i) == \E outcome \in ResultStatuses : AgentMoves(i, "delivered", outcome)

-----------------------------------------------------------------------------
(* The connector's clock: the reconcile deadline is never after the lease's. *)

Watched(l) == \/ \E m \in {mem, disk} : m # NoCommand /\ m.lease = l
              \/ reply.kind = "granted" /\ reply.lease = l

ReconcileEnds(l) ==
    /\ Watched(l) /\ l \notin reconcileDue
    /\ reconcileDue' = reconcileDue \cup {l}
    /\ UNCHANGED <<mem, disk, pc, snap, call, reply, net, local, leaseDue, faults>>

LeaseRunsOut(l) ==
    /\ Watched(l) /\ l \notin leaseDue
    /\ leaseDue' = leaseDue \cup {l}
    /\ reconcileDue' = reconcileDue \cup {l}
    /\ UNCHANGED <<mem, disk, pc, snap, call, reply, net, local, faults>>

Recover == NothingToSettle \/ FlushTerminal \/ DispatchUnknown \/ PostAccepted
           \/ PostDelivered \/ RecordOutcome \/ GiveUp \/ KeepWaiting
ClaimAndDispatch == ClaimNotDue \/ SendClaim \/ NothingClaimed \/ RefuseClaim \/ QueueRefusal
                    \/ Dispatch \/ LocallyAccepted \/ LocallyRefused
TakeAnswer == ProgressPosted \/ ProgressRefused \/ ResultPosted \/ ResultRefused

Runner == StartCycle \/ Recover \/ ClaimAndDispatch \/ TakeAnswer
Faulty == CloudTimeOut \/ LocalTimeOut \/ Crash
Site == \/ \E m \in net : CollectorAccepts(m) \/ CollectorRefuses(m)
        \/ \E i \in DOMAIN local : AgentTakes(i) \/ AgentExecutes(i)
=============================================================================
