---------------------------- MODULE OpenBmcCloud ----------------------------
(***************************************************************************)
(* The command rows of one OpenBMC device and every endpoint that changes  *)
(* them (planner-server/app/routers/openbmc.py).                           *)
(*                                                                         *)
(* The database is PostgreSQL. The connector's endpoints read their row    *)
(* FOR UPDATE and commit: each is one step. The web endpoints confirm and  *)
(* cancel are two: they load the row without a lock (session.get) before   *)
(* the access check, and the FOR UPDATE select that follows does not       *)
(* refresh an object the session already holds, unless the expiry sweep in *)
(* between committed something, which expires every loaded object. So the  *)
(* endpoint decides on the copy, and flushes only the attributes it        *)
(* changed with respect to the copy.                                       *)
(*                                                                         *)
(* Deadlines are sets of commands whose deadline lies in the past by the   *)
(* server's clock. Freshness of the device, its capabilities, the feature  *)
(* flags and the proposal hash are an arbitrary verdict at each check.     *)
(***************************************************************************)
EXTENDS OpenBmcTypes

VARIABLES
    status,          \* OpenBmcCommand.status of each row ("none": no row yet)
    slot,            \* OpenBmcCommand.active_slot
    claimLease,      \* the lease whose hash is in claim_lease_hash
    localCommandId,  \* OpenBmcCommand.local_command_id
    result,          \* the terminal payload recorded in the row
    confirmOver,     \* commands past confirmation_expires_at
    queueOver,       \* commands past execution_expires_at
    leaseOver,       \* commands past claim_expires_at
    leases,          \* how many leases were ever handed out
    web              \* the confirm or cancel request in progress, per user

deadlineVars == <<confirmOver, queueOver, leaseOver>>
cloudVars == <<status, slot, claimLease, localCommandId, result,
               confirmOver, queueOver, leaseOver, leases, web>>

NoRequest == [op |-> "none"]
WebRequests == [op : {"confirm", "cancel", "commit"}, cmd : Commands,
                status : Statuses, slot : BOOLEAN]

CloudTypeOK ==
    /\ status \in [Commands -> Statuses]
    /\ slot \in [Commands -> BOOLEAN]
    /\ claimLease \in [Commands -> Leases \cup {NoLease}]
    /\ localCommandId \in [Commands -> LocalIds \cup {NoLocalId}]
    /\ result \in [Commands -> Payloads \cup {NoPayload}]
    /\ confirmOver \subseteq Commands
    /\ queueOver \subseteq Commands
    /\ leaseOver \subseteq Commands
    /\ leases \in 0..MaxLeases
    /\ web \in [Users -> WebRequests \cup {NoRequest}]

CloudInit ==
    /\ status = [c \in Commands |-> "none"]
    /\ slot = [c \in Commands |-> FALSE]
    /\ claimLease = [c \in Commands |-> NoLease]
    /\ localCommandId = [c \in Commands |-> NoLocalId]
    /\ result = [c \in Commands |-> NoPayload]
    /\ confirmOver = {} /\ queueOver = {} /\ leaseOver = {}
    /\ leases = 0
    /\ web = [u \in Users |-> NoRequest]

-----------------------------------------------------------------------------
(* expire_unclaimed_commands: the sweep that most endpoints run first.       *)

\* Mutant: only the queue deadline is looked at.
ExpirableQueued(c) == status[c] = "queued" /\ c \in queueOver

Expirable(c) ==
    \/ status[c] = "queued" /\ c \in queueOver
    \/ status[c] \in LeasedStatuses /\ c \in leaseOver

SweptStatus == [c \in Commands |-> IF Expirable(c) THEN "expired" ELSE status[c]]
SweptSlot == [c \in Commands |-> slot[c] /\ ~Expirable(c)]

\* The list and detail endpoints sweep and return what they read.
ReadDevices ==
    /\ \E c \in Commands : Expirable(c)
    /\ status' = SweptStatus
    /\ slot' = SweptSlot
    /\ UNCHANGED <<claimLease, localCommandId, result, deadlineVars, leases, web>>

Propose(c) ==
    /\ status[c] = "none"
    /\ status' = [SweptStatus EXCEPT ![c] = "awaiting_confirmation"]
    /\ slot' = SweptSlot
    /\ UNCHANGED <<claimLease, localCommandId, result, deadlineVars, leases, web>>

-----------------------------------------------------------------------------
(* confirm_openbmc_command and cancel_openbmc_command.                       *)

\* session.get, then the access check: the row is read, not locked. A request
\* whose copy is in no status it can act on only sweeps: that is ReadDevices.
Actionable(op) == IF op = "confirm" THEN {"awaiting_confirmation"}
                  ELSE {"awaiting_confirmation", "queued"}

BeginRequest(u, op, c) ==
    /\ web[u] = NoRequest
    /\ status[c] \in Actionable(op)
    /\ web' = [web EXCEPT ![u] = [op |-> op, cmd |-> c,
                                  status |-> status[c], slot |-> slot[c]]]
    /\ UNCHANGED <<status, slot, claimLease, localCommandId, result, deadlineVars, leases>>

\* What the object of request u shows after the locking select.
Loaded(u) ==
    LET c == web[u].cmd
    IN  IF \E d \in Commands : Expirable(d)
        THEN [status |-> SweptStatus[c], slot |-> SweptSlot[c]]
        ELSE [status |-> web[u].status, slot |-> web[u].slot]

EndRequest(u) == web' = [web EXCEPT ![u] = NoRequest]

\* The row lock: a request between its check and its commit holds it.
Unlocked(u) == \A v \in Users \ {u} : web[v].op = "commit" => web[v].cmd # web[u].cmd

\* The sweep is committed even when the request is then refused. A confirm
\* can also fail on the proposal hash or on the freshness guards.
RefuseRequest(u) ==
    /\ web[u].op \in {"confirm", "cancel"} /\ Unlocked(u)
    /\ web[u].op = "cancel" => Loaded(u).status \notin {"awaiting_confirmation", "queued"}
    /\ status' = SweptStatus
    /\ slot' = SweptSlot
    /\ EndRequest(u)
    /\ UNCHANGED <<claimLease, localCommandId, result, deadlineVars, leases>>

ConfirmTooLate(u) ==
    LET c == web[u].cmd
    IN  /\ web[u].op = "confirm" /\ Unlocked(u)
        /\ Loaded(u).status = "awaiting_confirmation"
        /\ c \in confirmOver
        /\ status' = [SweptStatus EXCEPT ![c] = "expired"]
        /\ slot' = SweptSlot
        /\ EndRequest(u)
        /\ UNCHANGED <<claimLease, localCommandId, result, deadlineVars, leases>>

\* Every check passes, among them that the device has no active command.
ConfirmChecks(u) ==
    LET c == web[u].cmd
    IN  /\ web[u].op = "confirm" /\ Unlocked(u)
        /\ Loaded(u).status = "awaiting_confirmation"
        /\ c \notin confirmOver
        /\ \A d \in Commands : SweptStatus[d] \notin ActiveStatuses
        /\ status' = SweptStatus
        /\ slot' = SweptSlot
        /\ web' = [web EXCEPT ![u].op = "commit"]
        /\ UNCHANGED <<claimLease, localCommandId, result, deadlineVars, leases>>

\* The unique constraint on (device_id, active_slot) has the last word.
\* Mutant: no such constraint.
SlotUnchecked(c) == TRUE

SlotIsFree(c) == \A d \in Commands \ {c} : ~slot[d]

ConfirmCommits(u) ==
    LET c == web[u].cmd
    IN  /\ web[u].op = "commit"
        /\ SlotIsFree(c)
        /\ status' = [status EXCEPT ![c] = "queued"]
        /\ slot' = [slot EXCEPT ![c] = TRUE]
        /\ queueOver' = queueOver \ {c}
        /\ EndRequest(u)
        /\ UNCHANGED <<claimLease, localCommandId, result, confirmOver, leaseOver, leases>>

ConfirmRollsBack(u) ==
    /\ web[u].op = "commit"
    /\ ~SlotIsFree(web[u].cmd)
    /\ EndRequest(u)
    /\ UNCHANGED <<status, slot, claimLease, localCommandId, result, deadlineVars, leases>>

\* active_slot = None is flushed only if the copy had the slot.
Cancel(u) ==
    LET c == web[u].cmd
    IN  /\ web[u].op = "cancel" /\ Unlocked(u)
        /\ Loaded(u).status \in {"awaiting_confirmation", "queued"}
        /\ status' = [SweptStatus EXCEPT ![c] = "cancelled"]
        /\ slot' = [SweptSlot EXCEPT ![c] = @ /\ ~Loaded(u).slot]
        /\ EndRequest(u)
        /\ UNCHANGED <<claimLease, localCommandId, result, deadlineVars, leases>>

-----------------------------------------------------------------------------
(* claim_openbmc_command.                                                    *)

ClaimNothing ==
    /\ \A c \in Commands : SweptStatus[c] # "queued"
    /\ status' = SweptStatus
    /\ slot' = SweptSlot
    /\ UNCHANGED <<claimLease, localCommandId, result, deadlineVars, leases, web>>

\* The confirming user lost the authority, or a guard no longer holds.
ClaimRejects(c) ==
    /\ SweptStatus[c] = "queued"
    /\ status' = [SweptStatus EXCEPT ![c] = "rejected"]
    /\ slot' = [SweptSlot EXCEPT ![c] = FALSE]
    /\ UNCHANGED <<claimLease, localCommandId, result, deadlineVars, leases, web>>

ClaimGrants(c) ==
    /\ SweptStatus[c] = "queued"
    /\ leases < MaxLeases
    /\ leases' = leases + 1
    /\ status' = [SweptStatus EXCEPT ![c] = "claimed"]
    /\ slot' = SweptSlot
    /\ claimLease' = [claimLease EXCEPT ![c] = leases + 1]
    /\ leaseOver' = leaseOver \ {c}
    /\ UNCHANGED <<localCommandId, result, confirmOver, queueOver, web>>

-----------------------------------------------------------------------------
(* progress_openbmc_command and finish_openbmc_command: called with a lease; *)
(* ok is TRUE if the endpoint answers 200, FALSE if it answers 409 or 404.   *)

\* _assert_live_lease: a call that comes after the lease expires the command.
LateCall(c, ok) ==
    /\ c \in leaseOver
    /\ ~ok
    /\ IF status[c] \in TerminalStatuses
       THEN UNCHANGED <<status, slot>>
       ELSE /\ status' = [status EXCEPT ![c] = "expired"]
            /\ slot' = [slot EXCEPT ![c] = FALSE]
    /\ UNCHANGED <<claimLease, localCommandId, result, deadlineVars, leases, web>>

RefuseCall(ok) == ~ok /\ UNCHANGED cloudVars

AllowedProgress == [s \in {"claimed", "accepted_by_collector"} |->
                      IF s = "claimed" THEN "accepted_by_collector" ELSE "delivered_to_agent"]

LocalIdsAgree(c, id) ==
    localCommandId[c] # NoLocalId /\ id # NoLocalId => localCommandId[c] = id

MayProgress(c, s, id) ==
    /\ status[c] \in DOMAIN AllowedProgress
    /\ AllowedProgress[status[c]] = s
    /\ LocalIdsAgree(c, id)

RecordProgress(c, s, id, ok) ==
    /\ ok
    /\ status' = [status EXCEPT ![c] = s]
    /\ localCommandId' = [localCommandId EXCEPT ![c] = IF id = NoLocalId THEN @ ELSE id]
    /\ UNCHANGED <<slot, claimLease, result, deadlineVars, leases, web>>

Progress(c, l, s, id, ok) ==
    \/ claimLease[c] # l /\ RefuseCall(ok)
    \/ claimLease[c] = l /\ LateCall(c, ok)
    \/ /\ claimLease[c] = l /\ c \notin leaseOver
       /\ \/ status[c] = s /\ ok = (localCommandId[c] = id) /\ UNCHANGED cloudVars
          \/ status[c] # s /\ MayProgress(c, s, id) /\ RecordProgress(c, s, id, ok)
          \/ status[c] # s /\ ~MayProgress(c, s, id) /\ RefuseCall(ok)

\* Mutant: the status the row has is not asked for.
MayAlwaysFinish(c, p) == LocalIdsAgree(c, p.localId)

MayFinish(c, p) ==
    /\ status[c] \in LeasedStatuses
    /\ LocalIdsAgree(c, p.localId)
    /\ p.status = "succeeded" =>
          /\ status[c] = "delivered_to_agent"
          /\ p.localId # NoLocalId
          /\ localCommandId[c] = p.localId

\* Mutant: the slot is not released.
RecordResultOnly(c, p, ok) ==
    /\ ok
    /\ status' = [status EXCEPT ![c] = p.status]
    /\ localCommandId' = [localCommandId EXCEPT
                            ![c] = IF p.localId = NoLocalId THEN @ ELSE p.localId]
    /\ result' = [result EXCEPT ![c] = p]
    /\ UNCHANGED <<slot, claimLease, deadlineVars, leases, web>>

RecordResult(c, p, ok) ==
    /\ ok
    /\ status' = [status EXCEPT ![c] = p.status]
    /\ slot' = [slot EXCEPT ![c] = FALSE]
    /\ localCommandId' = [localCommandId EXCEPT
                            ![c] = IF p.localId = NoLocalId THEN @ ELSE p.localId]
    /\ result' = [result EXCEPT ![c] = p]
    /\ UNCHANGED <<claimLease, deadlineVars, leases, web>>

Finish(c, l, p, ok) ==
    \/ claimLease[c] # l /\ RefuseCall(ok)
    \/ /\ claimLease[c] = l /\ status[c] \in ResultStatuses
       /\ ok = (result[c] = p /\ localCommandId[c] = p.localId)
       /\ UNCHANGED cloudVars
    \/ claimLease[c] = l /\ status[c] \notin ResultStatuses /\ LateCall(c, ok)
    \/ /\ claimLease[c] = l /\ status[c] \notin ResultStatuses /\ c \notin leaseOver
       /\ \/ MayFinish(c, p) /\ RecordResult(c, p, ok)
          \/ ~MayFinish(c, p) /\ RefuseCall(ok)

-----------------------------------------------------------------------------
(* The server's clock. A deadline is noticed while something can look at it: *)
(* a lease deadline is not looked at in a row that has ended.                *)

ConfirmationEnds(c) ==
    /\ c \notin confirmOver
    /\ \/ status[c] = "awaiting_confirmation"
       \/ \E u \in Users : web[u].op = "confirm" /\ web[u].cmd = c
    /\ confirmOver' = confirmOver \cup {c}
    /\ UNCHANGED <<status, slot, claimLease, localCommandId, result,
                   queueOver, leaseOver, leases, web>>

QueueTimeEnds(c) ==
    /\ status[c] = "queued" /\ c \notin queueOver
    /\ queueOver' = queueOver \cup {c}
    /\ UNCHANGED <<status, slot, claimLease, localCommandId, result,
                   confirmOver, leaseOver, leases, web>>

LeaseEnds(c) ==
    /\ claimLease[c] # NoLease /\ c \notin leaseOver
    /\ status[c] \notin TerminalStatuses
    /\ leaseOver' = leaseOver \cup {c}
    /\ UNCHANGED <<status, slot, claimLease, localCommandId, result,
                   confirmOver, queueOver, leases, web>>

ServerClock == \E c \in Commands : ConfirmationEnds(c) \/ QueueTimeEnds(c) \/ LeaseEnds(c)

FinishRequest(u) ==
    \/ RefuseRequest(u) \/ Cancel(u) \/ ConfirmTooLate(u)
    \/ ConfirmChecks(u) \/ ConfirmCommits(u) \/ ConfirmRollsBack(u)

WebSide ==
    \/ ReadDevices
    \/ \E c \in Commands : Propose(c)
    \/ \E u \in Users : \/ \E c \in Commands, op \in {"confirm", "cancel"} : BeginRequest(u, op, c)
                        \/ FinishRequest(u)

\* The rows on their own: any connector may call.
ConnectorSide ==
    \/ ClaimNothing
    \/ \E c \in Commands : ClaimRejects(c) \/ ClaimGrants(c)
    \/ \E c \in Commands, l \in Leases, s \in ProgressStatuses,
          id \in LocalIds \cup {NoLocalId}, ok \in BOOLEAN : Progress(c, l, s, id, ok)
    \/ \E c \in Commands, l \in Leases, p \in Payloads, ok \in BOOLEAN : Finish(c, l, p, ok)

CloudNext == WebSide \/ ConnectorSide \/ ServerClock

CloudSpec == CloudInit /\ [][CloudNext]_cloudVars

-----------------------------------------------------------------------------
(* Properties of the rows.                                                   *)

\* A device has at most one queued, claimed, accepted or delivered command,
\* whatever confirms, cancels, claims and expiries run at once (the promise of
\* the architecture document; kept by active_slot and its unique constraint).
OneActiveCommand ==
    \A c, d \in Commands :
        status[c] \in ActiveStatuses /\ status[d] \in ActiveStatuses => c = d

\* A row that is no longer active does not keep the device's slot: otherwise
\* no command of the device could ever be confirmed again. It takes two web
\* requests at once to break this; see the README.
SlotFollowsStatus == \A c \in Commands : slot[c] => status[c] \in ActiveStatuses

\* Only a web request can move a row out of a terminal status or change the
\* result in it: a late, lost or repeated connector call, a claim or a sweep
\* never does.
ConnectorKeepsEnds ==
    [][web' = web => \A c \in Commands :
          status[c] \in TerminalStatuses =>
              status'[c] = status[c] /\ result'[c] = result[c]]_cloudVars

\* The architecture document, line 379, forbids the transition "terminal state
\* back to active state".
EndsAreFinal ==
    [][\A c \in Commands :
          status[c] \in TerminalStatuses => status'[c] \notin ActiveStatuses]_cloudVars
=============================================================================
