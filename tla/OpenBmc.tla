------------------------------ MODULE OpenBmc ------------------------------
(***************************************************************************)
(* The OpenBMC command workflow end to end: the cloud's rows, the site     *)
(* connector, the network between them, the collector and its agent.       *)
(***************************************************************************)
EXTENDS OpenBmcCloud, OpenBmcConnector

vars == <<cloudVars, connectorVars>>

TypeOK == CloudTypeOK /\ ConnectorTypeOK

Init == CloudInit /\ ConnectorInit

-----------------------------------------------------------------------------
(* The cloud's handling of one request of the connector.                     *)

othersOfConnector == <<mem, disk, pc, snap, local, reconcileDue, leaseDue, faults>>

HandleClaim(m) ==
    /\ m.kind = "claim"
    /\ \/ ClaimNothing /\ Answer(m, [kind |-> "empty"])
       \/ \E c \in Commands :
             \/ ClaimRejects(c) /\ Answer(m, [kind |-> "empty"])
             \/ ClaimGrants(c) /\ Answer(m, [kind |-> "granted", cmd |-> c, lease |-> leases + 1])
    /\ UNCHANGED othersOfConnector

Verdict(ok) == [kind |-> IF ok THEN "ok" ELSE "refused"]

HandleProgress(m) ==
    /\ m.kind = "progress"
    /\ \E ok \in BOOLEAN :
          Progress(m.cmd, m.lease, m.status, m.localId, ok) /\ Answer(m, Verdict(ok))
    /\ UNCHANGED othersOfConnector

HandleResult(m) ==
    /\ m.kind = "result"
    /\ \E ok \in BOOLEAN :
          Finish(m.cmd, m.lease, m.payload, ok) /\ Answer(m, Verdict(ok))
    /\ UNCHANGED othersOfConnector

\* 401, 403, 503: the connector or the execution flag is off. The same answer to
\* a progress or a result ends the cycle and changes no row: the connector sees
\* it as it sees no answer (LoseRequest, CloudTimeOut).
HandleDisabled(m) ==
    /\ m.kind = "claim"
    /\ Answer(m, [kind |-> "refused"])
    /\ UNCHANGED <<cloudVars, othersOfConnector>>

Handle(m) == HandleClaim(m) \/ HandleProgress(m) \/ HandleResult(m) \/ HandleDisabled(m)

Clocks ==
    \/ ServerClock /\ UNCHANGED connectorVars
    \/ \E l \in 1..leases : (ReconcileEnds(l) \/ LeaseRunsOut(l)) /\ UNCHANGED cloudVars

ConnectorStep ==
    \/ Runner \/ Faulty \/ Site
    \/ \E m \in net : LoseRequest(m)

Next ==
    \/ WebSide /\ UNCHANGED connectorVars
    \/ \E m \in net : Handle(m)
    \/ ConnectorStep /\ UNCHANGED cloudVars
    \/ Clocks

Spec == Init /\ [][Next]_vars

(* The runner keeps cycling (run_forever, systemd Restart=always), requests    *)
(* that arrive are handled, clocks advance, and the web console keeps reading  *)
(* devices. Faults are bounded by MaxFaults, so they end.                      *)
Fairness ==
    /\ WF_vars(Runner /\ UNCHANGED cloudVars)
    /\ WF_vars(\E m \in net : Handle(m))
    /\ WF_vars(Site /\ UNCHANGED cloudVars)
    /\ WF_vars(ReadDevices /\ UNCHANGED connectorVars)
    /\ WF_vars(Clocks)

FairSpec == Spec /\ Fairness

-----------------------------------------------------------------------------
(* Safety.                                                                   *)

\* The collector is called at most once per claim lease, over crashes, failed
\* saves and lost answers: the connector never repeats a side effect it may
\* already have had (_recover_or_reconcile, phase "dispatching").
DispatchedOnce ==
    \A i, j \in DOMAIN local : local[i].lease = local[j].lease => i = j

\* A command the cloud calls succeeded was executed by the agent, and under
\* the local id the row shows: neither its delivery nor an event that an earlier
\* command left under the same local id is taken for its success.
SuccessIsReal ==
    \A c \in Commands : status[c] = "succeeded" =>
        /\ localCommandId[c] \in DOMAIN local
        /\ local[localCommandId[c]].cmd = c
        /\ local[localCommandId[c]].state = "succeeded"

\* The connector's record never runs ahead of the row: a phase is persisted
\* only after the cloud has taken it, so while the lease is the row's, the row
\* shows that phase, a later one or an end.
PhaseBehindStatus ==
    \A m \in {mem, disk} :
        m # NoCommand /\ m.phase \in ProgressStatuses /\ claimLease[m.cmd] = m.lease =>
            status[m.cmd] \in TerminalStatuses \cup {"delivered_to_agent", m.phase}

\* "cancelled" is a status from before the claim (architecture document, line
\* 371): what the collector was asked to do is never shown as cancelled.
CancelledNeverDispatched ==
    \A c \in Commands : status[c] = "cancelled" =>
        \A i \in DOMAIN local : local[i].cmd # c

-----------------------------------------------------------------------------
(* Liveness.                                                                 *)

\* No command stays active for ever: a deadline sweep ends what the connector
\* never reports on.
CommandsSettle ==
    \A c \in Commands : status[c] \in ActiveStatuses ~> status[c] \notin ActiveStatuses

\* A result the connector has recorded is eventually handed over or, after the
\* lease, given up: it does not block the next claim for ever.
ResultsLeave == Settled ~> ~Settled

\* The connector's README (line 47): "If the event cannot be reconciled before
\* the lease expires, it reports `execution_unverified`" - so a command the
\* connector holds is let go in the end, and the next one can be claimed.
\* Commands cancelled after their claim are left out of this.
ConnectorReleases ==
    [](\A c \in Commands : status[c] # "cancelled") => (mem # NoCommand ~> mem = NoCommand)
=============================================================================
