------------------------------- MODULE MCPhone -------------------------------
(***************************************************************************)
(* What the phone exchanges with the server besides the flight itself: the *)
(* missions it downloads (MissionDelivery) and the backlog it uploads      *)
(* (FlightUploads). They share no state, so a behaviour runs one of them.  *)
(***************************************************************************)
EXTENDS MCMissionDelivery, FlightUploads

VARIABLE half

exchangeVars == <<half, vars, uploadVars>>
InMissions == half = "missions" /\ UNCHANGED <<half, uploadVars>>
InUploads == half = "uploads" /\ UNCHANGED <<half, vars>>

PhoneInit == half \in {"missions", "uploads"} /\ Init /\ UploadInit

PhoneSpec ==
    /\ PhoneInit
    /\ [][(InMissions /\ Next) \/ (InUploads /\ UploadNext)]_exchangeVars
    /\ \A t \in Threads : WF_exchangeVars(InMissions /\ BuildStep(t))
    /\ \A s \in Syncs : WF_exchangeVars(InMissions /\ SyncStep(s))
    /\ WF_exchangeVars(InMissions /\ ClearActive) /\ WF_exchangeVars(InMissions /\ ClearTheRest)
=============================================================================
