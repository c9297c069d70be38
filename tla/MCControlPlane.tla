--------------------------- MODULE MCControlPlane ---------------------------
(***************************************************************************)
(* The control plane's decisions: the ledger of plans and reports          *)
(* (DecisionLedger), the counters of the molds (MoldSentinel) and the      *)
(* inspections (InspectionPlan). They share no rows, so a behaviour runs   *)
(* one of them, chosen at its start.                                       *)
(***************************************************************************)
EXTENDS DecisionLedger, MoldSentinel, InspectionPlan, TLC

CONSTANTS k1, k2, m1

\* Two cameras read sheets of machines that carry the same number at two sites.
MCHomeOf == (k1 :> "A") @@ (k2 :> "B")
Posted(k, at, machine, total) == [camera |-> k, at |-> at, machine |-> machine, total |-> total]
MCSheets == {Posted(k1, 0, m1, 20), Posted(k1, 0, m1, 22), Posted(k2, 0, m1, 22), Posted(k1, 1, NoMachine, 0)}
MCOffices ==
    {[acts |-> {"sheet", "reconcile"}, sheets |-> MCSheets, requests |-> 4, lapses |-> 1],
     [acts |-> {"sheet", "report", "record", "later"}, sheets |-> MCSheets, requests |-> 4, lapses |-> 0],
     [acts |-> {"dispatch", "configure", "record", "attribute"}, sheets |-> {}, requests |-> 2, lapses |-> 1]}
MCDayOf == (0 :> 0) @@ (1 :> 1)
MCShiftOf == (0 :> "day") @@ (1 :> "night")
On(who, shift) == [who |-> who, shift |-> shift, machines |-> {}, zone |-> "hall"]
MCRosters == {{}, {On(1, "day"), On(2, "full"), On(3, "day")}}
MCSkills == {[x \in Crew \X Machines |-> 0], [x \in Crew \X Machines |-> IF x[1] = 3 THEN 2 ELSE 0]}
MCZones == {[x \in Machines |-> NoZone]}

\* A report that adds a shot, and one that sets the counter to the threshold.
MCShots == {[set |-> Keep, more |-> 1], [set |-> 2, more |-> 0]}

CONSTANTS rA, rB, tA, tB, sA, sB, mA, mB
MCPlaceOf == [x \in {rA, rB, tA, sA, mA} |-> "A"] @@ [x \in {tB, sB, mB} |-> "B"]
MCAgendas ==
    {[acts |-> {"route", "template", "retemplate", "schedule", "reschedule"}, asked |-> {"scheduled", "completed"}, requests |-> 3, mishaps |-> 0],
     [acts |-> {"route", "template", "schedule", "dispatch", "redispatch"}, asked |-> {"paused", "assigned", "completed"}, requests |-> 3, mishaps |-> 0],
     [acts |-> {"route", "dispatch", "task", "report"}, asked |-> {"completed"}, requests |-> 3, mishaps |-> 1]}

VARIABLE part
allVars == <<ledgerVars, moldVars, planVars, part>>

\* The parts that do not run keep one of their initial states.
ControlInit ==
    /\ LedgerInit /\ MoldInit /\ PlanInit
    /\ part \in {"ledger", "molds", "plan"}
    /\ part # "ledger" => office = CHOOSE o \in Offices : TRUE
    /\ part # "ledger" \/ "configure" \notin office.acts =>
          roster = [day \in Days |-> {}] /\ skills = [x \in Crew \X Machines |-> 0]
    /\ part # "molds" => bound = {}
    /\ part # "plan" => agenda = CHOOSE a \in Agendas : TRUE
    /\ \A m \in Missions : missions[m].known <=> (part = "plan" /\ ("task" \in agenda.acts => m = mA))

ControlNext ==
    \/ part = "ledger" /\ LedgerNext /\ UNCHANGED <<moldVars, planVars, part>>
    \/ part = "molds" /\ MoldNext /\ UNCHANGED <<ledgerVars, planVars, part>>
    \/ part = "plan" /\ PlanNext /\ UNCHANGED <<ledgerVars, moldVars, part>>

\* Requests differ in nothing but their names, and so do groups.
ControlSymmetry == Permutations(Requests) \cup Permutations(Groups)

ControlSpec == ControlInit /\ [][ControlNext]_allVars
=============================================================================
