---------------------------- MODULE FlightConsole ----------------------------
(***************************************************************************)
(* The Android operator console: DemoMissionCoordinator, the coroutines it *)
(* launches for DJI commands and mission loads, the callers in             *)
(* MainActivity that touch it (logout, USB receiver, connection guide),    *)
(* the preflight gates and the waypoint mission adapter behind it.         *)
(*                                                                         *)
(* The coordinator runs on the main thread: between two suspension points  *)
(* its code is one step. A patrol command is launched, so it is three:     *)
(* the click, the coroutine's first part (which looks at the stage and     *)
(* calls DJI) and the part after DJI's answer or the adapter's timeout. In *)
(* the DEMO runtime a command blocks the thread and is one step.           *)
(*                                                                         *)
(* Left out: texts and panels, the enabled flags of buttons whose handler  *)
(* checks the same condition, the debug functions, and the telemetry loop. *)
(***************************************************************************)
EXTENDS Naturals

CONSTANTS
    Bundles,     \* mission bundles the server may assign
    Intact,      \* those whose files pass isVerified
    NoBundle,
    Conditions,  \* sets of hardware gates that may fail together
    MaxLoads     \* bound: mission loads under way at once

HardwareGates == {"AIRCRAFT_CONNECTED", "REMOTE_CONTROLLER_CONNECTED", "CAMERA_STREAM",
                  "STORAGE", "DEVICE_HEALTH", "FLY_ZONE", "GPS", "HOME_POINT"}

ASSUME ConsoleAssumption ==
    /\ Intact \subseteq Bundles
    /\ NoBundle \notin Bundles
    /\ Conditions \subseteq SUBSET HardwareGates
    /\ MaxLoads \in Nat

ConsoleModes == {"INDOOR_MANUAL", "OUTDOOR_PATROL", "OUTDOOR_MANUAL_PILOT"}
Stages == {"IDLE", "PRECHECK", "MISSION_READY", "HOVER_READY", "TRANSIT", "HOLD", "RTH",
           "MANUAL_OVERRIDE", "COMPLETED"}
Screens == {"MISSION_SETUP", "CONNECTION_GUIDE", "PREFLIGHT", "IN_FLIGHT", "MANUAL_PILOT",
            "EMERGENCY", "BRANCH_CONFIRM", "INSPECTION"}

VARIABLES
    runtime,  \* RuntimeMode: "PROD" or "DEMO"
    console,  \* the coordinator's state
    jobs,     \* launched DJI commands; commandInProgress says there is one
    adapter,  \* DjiWaypointMissionAdapter: executionState and the mission it holds
    loads,    \* mission loads under way
    session   \* "in", "leaving" (logout under way) or "out"

consoleVars == <<runtime, console, jobs, adapter, loads, session>>

Console == [bundle : Bundles \cup {NoBundle}, mode : ConsoleModes, stage : Stages,
            uploaded : BOOLEAN, hover : BOOLEAN, prompt : {"none", "warning", "confirm"},
            confirmed : BOOLEAN, screen : Screens, guide : BOOLEAN]
Job == [phase : {"queued", "uploading", "starting"}, bundle : Bundles]
Adapter == [state : {"IDLE", "UPLOADED", "RUNNING", "FAILED"},
            mission : Bundles \cup {NoBundle}]

ConsoleTypeOK ==
    /\ runtime \in {"PROD", "DEMO"}
    /\ console \in Console
    /\ jobs \subseteq Job
    /\ adapter \in Adapter
    /\ loads \in 0 .. MaxLoads
    /\ session \in {"in", "leaving", "out"}

\* The state after the start effect has attached what the cache holds.
ConsoleInit ==
    /\ runtime \in {"PROD", "DEMO"}
    /\ \E b \in Bundles \cup {NoBundle} :
         console = [bundle |-> b, mode |-> "OUTDOOR_PATROL", stage |-> "IDLE",
                    uploaded |-> FALSE, hover |-> FALSE, prompt |-> "none",
                    confirmed |-> FALSE, screen |-> "MISSION_SETUP", guide |-> FALSE]
    /\ jobs = {}
    /\ adapter = [state |-> "IDLE", mission |-> NoBundle]
    /\ loads = 0
    /\ session = IF runtime = "DEMO" THEN "in" ELSE "out"

-----------------------------------------------------------------------------
(* Modes and preflight gates.                                                *)

Patrol(c) == c.mode = "OUTDOOR_PATROL"
SupportsReturnToHome(c) == c.mode # "INDOOR_MANUAL"
BundleVerified(c) == c.bundle \in Intact
MayContinue(c) == Patrol(c) => BundleVerified(c)
MainScreen(c) == IF Patrol(c) THEN "IN_FLIGHT" ELSE "MANUAL_PILOT"

\* Mutant: the bundle gate only asks for a bundle.
BundlePresent(c) == c.bundle # NoBundle

BundleGate(c) == BundleVerified(c)

Blocking(c) ==
    (HardwareGates \ {"GPS", "HOME_POINT"})
    \cup (IF Patrol(c) THEN {"GPS", "HOME_POINT", "MISSION_BUNDLE"} ELSE {})
    \cup (IF c.mode = "INDOOR_MANUAL" THEN {"INDOOR_PROFILE_CONFIRMATION"} ELSE {})

Failing(c, down) ==
    down \cup (IF BundleGate(c) THEN {} ELSE {"MISSION_BUNDLE"})
         \cup (IF c.confirmed THEN {} ELSE {"INDOOR_PROFILE_CONFIRMATION"})

CanTakeoff(c, down) == Failing(c, down) \cap Blocking(c) = {}

-----------------------------------------------------------------------------
(* State changes the handlers share.                                         *)

\* Mutant: a change of mode keeps what the manual flight left behind.
ConfirmationsCleared(c) == [c EXCEPT !.confirmed = FALSE]

ManualFlowCleared(c) == [c EXCEPT !.hover = FALSE, !.prompt = "none"]

ModeSelected(c, m) == [ManualFlowCleared(c) EXCEPT !.mode = m, !.confirmed = FALSE]

\* attachBundle: a fresh flight, whatever the old one was doing.
Attached(c, b) ==
    [ManualFlowCleared(c) EXCEPT !.bundle = b, !.stage = "IDLE", !.uploaded = FALSE,
                                 !.mode = IF runtime = "PROD" THEN "OUTDOOR_PATROL" ELSE @]

GuideOpened(c) ==
    [c EXCEPT !.screen = IF MayContinue(c) THEN "CONNECTION_GUIDE" ELSE "MISSION_SETUP"]

PreflightOpened(c) ==
    IF runtime = "PROD" /\ c.screen # "CONNECTION_GUIDE" THEN GuideOpened(c)
    ELSE IF runtime = "PROD" /\ ~c.guide THEN c
    ELSE [c EXCEPT !.screen = "PREFLIGHT", !.stage = "PRECHECK"]

RcOnlyLanding(c) ==
    [c EXCEPT !.prompt = "none", !.stage = "MANUAL_OVERRIDE", !.screen = "EMERGENCY"]

Pushed(b, ok) == [state |-> IF ok THEN "UPLOADED" ELSE "FAILED", mission |-> b]
Uploaded(c) == [c EXCEPT !.stage = "MISSION_READY", !.uploaded = TRUE]

\* Without an upload the adapter refuses before it asks DJI.
StartAllowed == adapter.state = "UPLOADED"
StartAnswered(ok) ==
    IF StartAllowed THEN [adapter EXCEPT !.state = IF ok THEN "RUNNING" ELSE "FAILED"]
    ELSE adapter
Started(c) == [c EXCEPT !.stage = "TRANSIT", !.screen = "IN_FLIGHT"]

-----------------------------------------------------------------------------
(* Mission setup, screens, session and connection.                           *)

SignedIn == session # "out"
Untouched == UNCHANGED <<runtime, jobs, adapter, loads, session>>
On(screen) == SignedIn /\ console.screen = screen

StartLoad ==
    /\ On("MISSION_SETUP")
    /\ loads < MaxLoads
    /\ loads' = loads + 1
    /\ UNCHANGED <<runtime, console, jobs, adapter, session>>

\* The load may return at any later time, also in flight or after a logout.
FinishLoad ==
    /\ loads > 0
    /\ loads' = loads - 1
    /\ \/ \E b \in Bundles : console' = Attached(console, b)
       \/ UNCHANGED console
    /\ UNCHANGED <<runtime, jobs, adapter, session>>

SelectConsoleMode(m) ==
    /\ On("MISSION_SETUP")
    /\ runtime = "PROD" => m = "OUTDOOR_PATROL"
    /\ console' = ModeSelected(console, m)
    /\ Untouched

ContinueFromMissionSetup ==
    /\ On("MISSION_SETUP")
    /\ MayContinue(console)
    /\ console' = IF runtime = "PROD" THEN GuideOpened(console) ELSE PreflightOpened(console)
    /\ Untouched

FlownStages == {"HOVER_READY", "TRANSIT", "HOLD", "RTH", "COMPLETED"}

SelectScreen(s) ==
    /\ SignedIn
    /\ IF runtime = "PROD"
       THEN \/ s = "CONNECTION_GUIDE" /\ console' = GuideOpened(console)
            \/ s = "PREFLIGHT" /\ console' = PreflightOpened(console)
            \/ /\ \/ s \in {"MISSION_SETUP", "EMERGENCY"}
                  \/ s = "IN_FLIGHT" /\ console.stage \in FlownStages
               /\ console' = [console EXCEPT !.screen = s]
       ELSE s # "CONNECTION_GUIDE" /\ console' = [console EXCEPT !.screen = s]
    /\ Untouched

\* The guide's effect evaluates the connection again and again while it is shown.
ApplyConnectionGuide ==
    /\ runtime = "PROD" /\ On("CONNECTION_GUIDE") /\ BundleVerified(console)
    /\ \E ok \in BOOLEAN : console' = [console EXCEPT !.guide = ok]
    /\ Untouched

ContinueFromConnectionGuide ==
    /\ On("CONNECTION_GUIDE") /\ console.guide
    /\ console' = PreflightOpened(console)
    /\ Untouched

UsbAttached ==
    /\ runtime = "PROD" /\ SignedIn /\ BundleVerified(console)
    /\ console' = GuideOpened(console)
    /\ Untouched

UsbDetached ==
    /\ runtime = "PROD" /\ SignedIn
    /\ console' = GuideOpened(console)
    /\ Untouched

Login ==
    /\ session = "out"
    /\ session' = "in"
    /\ UNCHANGED <<runtime, console, jobs, adapter, loads>>

\* The stage is looked at when the button is pressed, not when the logout is done.
Logout ==
    /\ runtime = "PROD" /\ session = "in"
    /\ console.stage \in {"IDLE", "PRECHECK", "MISSION_READY", "COMPLETED"}
    /\ session' = "leaving"
    /\ UNCHANGED <<runtime, console, jobs, adapter, loads>>

FinishLogout ==
    /\ session = "leaving"
    /\ session' = "out"
    /\ console' = [Attached(console, NoBundle) EXCEPT !.screen = "MISSION_SETUP"]
    /\ UNCHANGED <<runtime, jobs, adapter, loads>>

-----------------------------------------------------------------------------
(* Preflight and the patrol commands.                                        *)

ToggleIndoorConfirmation ==
    /\ On("PREFLIGHT") /\ console.mode = "INDOOR_MANUAL"
    /\ \E ok \in BOOLEAN : console' = [console EXCEPT !.confirmed = ok]
    /\ Untouched

ApprovePreflight(down) ==
    /\ On("PREFLIGHT") /\ CanTakeoff(console, down)
    /\ console' = [console EXCEPT !.stage = "MISSION_READY"]
    /\ Untouched

\* Mutant: the guard only sees a command that waits for DJI to start the mission.
StartUnderWay == \E j \in jobs : j.phase = "starting"

CommandInProgress == jobs # {}

\* uploadAndStartMission in the PROD runtime: the bundle is captured here.
LaunchPatrolCommand(down) ==
    /\ On("PREFLIGHT") /\ Patrol(console)
    /\ CanTakeoff(console, down)
    /\ console.bundle # NoBundle
    /\ runtime = "PROD"
    /\ ~CommandInProgress
    /\ jobs' = jobs \cup {[phase |-> "queued", bundle |-> console.bundle]}
    /\ UNCHANGED <<runtime, console, adapter, loads, session>>

\* Mutant: a refused command forgets to release commandInProgress.
Kept(j) == jobs

Ended(j) == jobs \ {j}

RefusePatrolCommand(j) ==
    /\ j.phase = "queued" /\ console.stage # "MISSION_READY"
    /\ jobs' = Ended(j)
    /\ UNCHANGED <<runtime, console, adapter, loads, session>>

CallDji(j) ==
    /\ j.phase = "queued" /\ console.stage = "MISSION_READY"
    /\ jobs' = (jobs \ {j}) \cup
               {[j EXCEPT !.phase = IF console.uploaded THEN "starting" ELSE "uploading"]}
    /\ UNCHANGED <<runtime, console, adapter, loads, session>>

\* What comes back is written over the stage of now, not the one of the click.
FinishUpload(j, ok) ==
    /\ j.phase = "uploading"
    /\ adapter' = Pushed(j.bundle, ok)
    /\ console' = IF ok THEN Uploaded(console) ELSE console
    /\ jobs' = Ended(j)
    /\ UNCHANGED <<runtime, loads, session>>

FinishStart(j, ok) ==
    /\ j.phase = "starting"
    /\ ok => StartAllowed
    /\ adapter' = StartAnswered(ok)
    /\ console' = IF ok THEN Started(console) ELSE console
    /\ jobs' = Ended(j)
    /\ UNCHANGED <<runtime, loads, session>>

\* The same command in the DEMO runtime, where it blocks the main thread.
RunPatrolCommand(down, ok) ==
    /\ runtime = "DEMO"
    /\ On("PREFLIGHT") /\ Patrol(console)
    /\ CanTakeoff(console, down)
    /\ console.bundle # NoBundle /\ console.stage = "MISSION_READY"
    /\ IF console.uploaded
       THEN /\ ok => StartAllowed
            /\ adapter' = StartAnswered(ok)
            /\ console' = IF ok THEN Started(console) ELSE console
       ELSE /\ adapter' = Pushed(console.bundle, ok)
            /\ console' = IF ok THEN Uploaded(console) ELSE console
    /\ UNCHANGED <<runtime, jobs, loads, session>>

-----------------------------------------------------------------------------
(* Manual flight and the emergency rail. PROD never leaves the patrol mode,  *)
(* so the manual commands block, as in the DEMO runtime.                     *)

\* requestAppTakeoff, when DJI takes off, and confirmRcHoverReady.
ReachHover(down) ==
    /\ On("PREFLIGHT") /\ ~Patrol(console)
    /\ CanTakeoff(console, down)
    /\ console.stage = "MISSION_READY"
    /\ console' = [console EXCEPT !.stage = "HOVER_READY", !.hover = TRUE]
    /\ Untouched

EnterManualPilot(down) ==
    /\ On("PREFLIGHT") /\ ~Patrol(console)
    /\ CanTakeoff(console, down)
    /\ console.hover /\ console.stage = "HOVER_READY"
    /\ console' = [console EXCEPT !.stage = "MANUAL_OVERRIDE", !.screen = "MANUAL_PILOT"]
    /\ Untouched

RequestHold ==
    /\ SignedIn
    /\ console' = [console EXCEPT !.stage = "HOLD", !.screen = "EMERGENCY"]
    /\ Untouched

RequestTakeover ==
    /\ SignedIn
    /\ console' = [console EXCEPT !.stage = "MANUAL_OVERRIDE", !.screen = "EMERGENCY"]
    /\ Untouched

RequestRth ==
    /\ SignedIn /\ SupportsReturnToHome(console)
    /\ console.stage # "COMPLETED" \/ On("MANUAL_PILOT")
    /\ \E ok \in BOOLEAN :
         console' = [console EXCEPT !.stage = IF ok THEN "RTH" ELSE @, !.screen = "EMERGENCY"]
    /\ Untouched

\* The rail's button without RTH, or the preflight screen's in a manual mode.
MayLand ==
    \/ SignedIn /\ ~SupportsReturnToHome(console) /\ console.stage # "COMPLETED"
    \/ /\ On("PREFLIGHT") /\ ~Patrol(console)
       /\ console.stage \notin {"IDLE", "PRECHECK", "MISSION_READY", "COMPLETED"}

RequestLand ==
    /\ MayLand
    /\ \/ console' = [console EXCEPT !.screen = "EMERGENCY"]  \* DJI refused
       \/ \E p \in {"warning", "confirm"} :
            console' = [console EXCEPT !.prompt = p, !.screen = "EMERGENCY"]
       \/ console' = [console EXCEPT !.prompt = "none", !.stage = "COMPLETED",
                                     !.screen = MainScreen(console)]
    /\ Untouched

\* The primary action of the landing prompt: hover again, or confirm the landing.
RunPrimaryEmergencyAction ==
    /\ On("EMERGENCY")
    /\ \/ /\ console.prompt = "warning"
          /\ console' = [console EXCEPT !.prompt = "none", !.stage = "HOVER_READY",
                                        !.screen = MainScreen(console)]
       \/ /\ console.prompt = "confirm"
          /\ \/ console' = [console EXCEPT !.prompt = "none", !.stage = "COMPLETED",
                                           !.screen = MainScreen(console)]
             \/ console' = RcOnlyLanding(console)
    /\ Untouched

RunSecondaryEmergencyAction ==
    /\ On("EMERGENCY") /\ console.prompt # "none"
    /\ console' = RcOnlyLanding(console)
    /\ Untouched

-----------------------------------------------------------------------------
Setup ==
    \/ StartLoad \/ FinishLoad
    \/ \E m \in ConsoleModes : SelectConsoleMode(m)
    \/ ContinueFromMissionSetup
    \/ \E s \in Screens : SelectScreen(s)
    \/ ApplyConnectionGuide \/ ContinueFromConnectionGuide
    \/ UsbAttached \/ UsbDetached
    \/ Login \/ Logout \/ FinishLogout

Command ==
    \E j \in jobs :
        \/ RefusePatrolCommand(j)
        \/ CallDji(j)
        \/ \E ok \in BOOLEAN : FinishUpload(j, ok) \/ FinishStart(j, ok)

Operate ==
    \/ ToggleIndoorConfirmation
    \/ \E down \in Conditions :
         \/ ApprovePreflight(down)
         \/ LaunchPatrolCommand(down)
         \/ \E ok \in BOOLEAN : RunPatrolCommand(down, ok)
         \/ ReachHover(down)
         \/ EnterManualPilot(down)
    \/ RequestHold \/ RequestTakeover \/ RequestRth \/ RequestLand
    \/ RunPrimaryEmergencyAction \/ RunSecondaryEmergencyAction

ConsoleNext == Setup \/ Command \/ Operate

\* A launched coroutine runs, and each call of the adapter ends by its timeout.
ConsoleSpec == ConsoleInit /\ [][ConsoleNext]_consoleVars /\ WF_consoleVars(Command)

-----------------------------------------------------------------------------
\* While the console shows the patrol in TRANSIT, the adapter runs a mission:
\* no second command can have pushed a file or failed under it.
TransitIsRunning == console.stage = "TRANSIT" => adapter.state = "RUNNING"

\* No file of a bundle that fails verification is ever pushed to the aircraft,
\* whatever is loaded between the click and the push.
PushedIsVerified == adapter.mission \in Intact \cup {NoBundle}

\* A hover or a landing prompt of a manual flight never survives into a patrol.
ManualFlowStaysManual == console.hover \/ console.prompt # "none" => ~Patrol(console)

\* Every launched command releases commandInProgress, so the operator is never
\* locked out of the next one.
CommandsEnd == CommandInProgress ~> ~CommandInProgress

\* "Once in HOLD, the product only allows Resume, RTH, Takeover": the answer to
\* an older command does not end a HOLD.
AnswersKeepHold == [][jobs' # jobs /\ console.stage = "HOLD" => console'.stage = "HOLD"]_consoleVars

=============================================================================
