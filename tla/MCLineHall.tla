----------------------------- MODULE MCLineHall -----------------------------
(***************************************************************************)
(* LINE and the hall: the account links (LineIdentity), the evidence       *)
(* (LineEvidence), and the incidents with their plan (LineIncidents). They *)
(* share no state, so one behaviour runs one of them: the evidence where   *)
(* workers are deployed, the incidents where somebody takes part in them,  *)
(* the links otherwise.                                                    *)
(***************************************************************************)
EXTENDS LineIdentity, LineEvidence, LineIncidents, TLC

CONSTANTS i1, o1, o2, o3, r1, r2

MCDrifts == {0, 1}
MCReadings == {[posted |-> TRUE, screen |-> "lit"], [posted |-> FALSE, screen |-> "overexposed"]}
MCDeployments == {{}, {"ocr"}, {"people"}}
MCMaxFaults == ({} :> 0) @@ ({"ocr"} :> 1) @@ ({"people"} :> 2)

Desks == [operators |-> {o1, o2, o3}, readers |-> {}, views |-> {}, clock |-> 0, breaks |-> 1]
Plan(view, most) == [operators |-> {o1}, readers |-> {r1, r2}, views |-> {view}, clock |-> 4, breaks |-> most]
Nobody == [operators |-> {}, readers |-> {}, views |-> {}, clock |-> 0, breaks |-> 0]
MCParts == {Nobody, Desks, Plan("picture", 1), Plan("page", 0)}

MCOperators == {o1, o2, o3}
MCReaders == {r1, r2}

HallInit == IdentityInit /\ EvidenceInit /\ IncidentInit /\ (deployed # {} => part = Nobody)

HallNext ==
    \/ deployed # {} /\ EvidenceNext /\ UNCHANGED <<idVars, incidentVars>>
    \/ part # Nobody /\ IncidentNext /\ UNCHANGED <<idVars, evidenceVars>>
    \/ deployed = {} /\ part = Nobody /\ IdentityNext /\ UNCHANGED <<evidenceVars, incidentVars>>

HallSpec == HallInit /\ [][HallNext]_<<idVars, evidenceVars, incidentVars>>
=============================================================================
