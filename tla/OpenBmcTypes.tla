---------------------------- MODULE OpenBmcTypes ----------------------------
(***************************************************************************)
(* What the cloud side (planner-server/app/routers/openbmc.py) and the     *)
(* site side (planner-server/deploy/openbmc-connector) of the OpenBMC      *)
(* command workflow have in common: the commands of ONE device, the leases *)
(* under which they are claimed, the statuses a command row can have, and  *)
(* the terminal payloads a connector posts.                                *)
(***************************************************************************)
EXTENDS Naturals, FiniteSets

CONSTANTS
    Commands,     \* the command rows that may ever be proposed for the device
    Users,        \* web requests (confirm, cancel) that can be in progress at once
    MaxLeases,    \* bound on the claim leases the cloud hands out
    MaxFaults     \* bound on connector crashes, failed saves and lost answers

ASSUME BoundsAssumption == MaxLeases \in Nat \ {0} /\ MaxFaults \in Nat

Leases == 1..MaxLeases
LocalIds == 1..(MaxLeases + 1)  \* one more than there should ever be dispatches
NoLease == 0
NoLocalId == 0

ActiveStatuses == {"queued", "claimed", "accepted_by_collector", "delivered_to_agent"}
LeasedStatuses == {"claimed", "accepted_by_collector", "delivered_to_agent"}
TerminalStatuses == {"succeeded", "failed", "expired", "cancelled", "rejected"}
Statuses == {"none", "awaiting_confirmation"} \cup ActiveStatuses \cup TerminalStatuses

ProgressStatuses == {"accepted_by_collector", "delivered_to_agent"}
ResultStatuses == {"succeeded", "failed"}

\* A terminal payload. Its finishedAt, failureCode and evidence are the stamp:
\* two payloads built at different times differ in it.
Payloads == [status : ResultStatuses,
             localId : LocalIds \cup {NoLocalId},
             stamp : 0..MaxFaults]
NoPayload == [status |-> "none"]
=============================================================================
