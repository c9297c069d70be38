------------------------------ MODULE MCFlight ------------------------------
(***************************************************************************)
(* The flight app: its stages (FlightStages) and the operator's console    *)
(* (FlightConsole).  They share no state, so one behaviour runs one of     *)
(* them, chosen at its start.                                              *)
(***************************************************************************)
EXTENDS FlightStages, FlightConsole

CONSTANTS b1, b2, broken

\* Contexts with one field off its default, and the pairs whose fields are read
\* together.
MCContexts ==
    {{}} \cup {{flag} : flag \in PlanFlags \cup HealthFlags \cup ProgressFlags} \cup
    {{"captureComplete", "hasRemainingViewpoints"}, {"rthArrived", "landingComplete"},
     {"missionBundleLoaded", "missionBundleVerified"},
     {"manualOverrideComplete", "manualOverrideAborted"}, {"gpsWeak", "batteryCritical"}}

MCBundles == {b1, b2, broken}
MCIntact == {b1, b2}
MCConditions == {{}, {"GPS"}, {"FLY_ZONE"}}

VARIABLE part
partVars == <<vars, consoleVars, part>>

\* The half that does not run keeps one of its initial states.
FlightInit ==
    /\ Init /\ ConsoleInit /\ part \in {"stages", "console"}
    /\ part = "stages" => runtime = "DEMO" /\ console.bundle = NoBundle
    /\ part = "console" => flight.mode = "PLANNED_BUNDLE"

FlightNext ==
    \/ part = "stages" /\ Next /\ UNCHANGED <<consoleVars, part>>
    \/ part = "console" /\ ConsoleNext /\ UNCHANGED <<vars, part>>

FlightSpec == FlightInit /\ [][FlightNext]_partVars /\ WF_consoleVars(Command)
=============================================================================
