---------------------------- MODULE FlightStages ----------------------------
(***************************************************************************)
(* The Android app's flight state machine: FlightReducer.reduce with the   *)
(* transition guard (FlightState.kt) and the safety supervisor             *)
(* (SafetySupervisor.kt). docs/state-machine.md calls it the single source *)
(* of truth for mission progression and safety escalation.                 *)
(*                                                                         *)
(* One step is one call of reduce: any event, in any order, with any of    *)
(* the contexts in Contexts. A TransitionContext is the set of its fields  *)
(* that differ from their defaults. Left out: wording (holdReason,         *)
(* statusNote), authValid and the upload counters, which are only copied,  *)
(* and the context's own missionContextMode, which no caller sets.         *)
(***************************************************************************)
CONSTANT Contexts

PlanFlags == {"missionBundleLoaded", "missionBundleVerified", "preflightReady",
              "missionUploaded"}
HealthFlags == {"frameStreamUnhealthy", "appUnhealthy", "gpsNotReady", "gpsWeak",
                "rcSignalUnhealthy", "deviceHealthBlocking", "batteryCritical"}
ProgressFlags == {"takeoffComplete", "obstacleCleared", "captureComplete",
                  "hasRemainingViewpoints", "rthArrived", "landingComplete",
                  "manualOverrideComplete", "manualOverrideAborted"}

ASSUME ContextsAssumption == Contexts \subseteq SUBSET (PlanFlags \cup HealthFlags \cup ProgressFlags)

RouteStages == {"TRANSIT", "BRANCH_VERIFY", "LOCAL_AVOID", "APPROACH_VIEWPOINT",
                "VIEW_ALIGN", "CAPTURE"}
FlyingStages == {"TAKEOFF", "HOVER_READY"} \cup RouteStages
StoppedStages == {"HOLD", "MANUAL_OVERRIDE", "RTH", "LANDING", "COMPLETED", "ABORTED"}
FlightStage == {"IDLE", "PRECHECK", "MISSION_READY"} \cup FlyingStages \cup StoppedStages

Profiles == {"OUTDOOR_GPS_REQUIRED", "INDOOR_NO_GPS"}
Modes == {"PLANNED_BUNDLE", "UNPLANNED_MANUAL"}

UploadEvents == {"AUTH_EXPIRED", "AUTH_REFRESHED", "UPLOAD_BACKLOG_UPDATED"}
UserEvents == {"USER_HOLD_REQUESTED", "USER_RESUME_REQUESTED", "USER_RTH_REQUESTED",
               "USER_LAND_REQUESTED", "USER_TAKEOVER_REQUESTED"}
HoldEvents == {"BRANCH_VERIFY_TIMEOUT", "BRANCH_VERIFY_UNKNOWN", "OBSTACLE_HARD_STOP",
               "CORRIDOR_DEVIATION_HARD", "RC_SIGNAL_DEGRADED", "RC_SIGNAL_LOST",
               "APP_HEALTH_BAD", "FRAME_STREAM_DROPPED", "SEMANTIC_TIMEOUT",
               "DEVICE_HEALTH_BLOCKING"}
BranchEvents == {"BRANCH_VERIFY_LEFT", "BRANCH_VERIFY_RIGHT", "BRANCH_VERIFY_STRAIGHT"}
HoverEvents == {"APP_TAKEOFF_COMPLETED", "RC_HOVER_CONFIRMED"}
FlightEvents ==
    UserEvents \cup HoldEvents \cup BranchEvents \cup HoverEvents \cup
    {"MISSION_SELECTED", "MISSION_BUNDLE_DOWNLOADED", "MISSION_BUNDLE_VERIFIED",
     "MISSION_BUNDLE_INVALID", "MISSION_UPLOADED", "MISSION_START_BLOCKED",
     "MISSION_START_FAILED", "MISSION_STARTED", "PREFLIGHT_OK", "CORRIDOR_DEVIATION_WARN",
     "VERIFICATION_POINT_REACHED", "INSPECTION_ZONE_REACHED", "OBSTACLE_WARN",
     "VIEW_ALIGN_OK", "VIEW_ALIGN_TIMEOUT", "BATTERY_CRITICAL", "GPS_WEAK", "GPS_LOST"}

NoStage == "none"

VARIABLES
    flight,        \* FlightState: the fields the transitions depend on
    lastEvent,     \* FlightState.lastEvent, where it is a user's request
    ruling,        \* what the supervisor decided in the last step
    interrupted    \* history: the flying stage the last interruption cut off

vars == <<flight, lastEvent, ruling, interrupted>>

FlightState == [stage : FlightStage, loaded : BOOLEAN, verified : BOOLEAN,
                preflight : BOOLEAN, uploaded : BOOLEAN,
                lastAutonomous : FlightStage \cup {NoStage}, mode : Modes]
Rulings == {"NONE", "HOLD", "RTH", "LAND"}

StagesTypeOK ==
    /\ flight \in FlightState
    /\ lastEvent \in UserEvents \cup {"other"}
    /\ ruling \in Rulings
    /\ interrupted \in FlyingStages \cup {NoStage}

Init ==
    /\ \E m \in Modes :
         flight = [stage |-> "IDLE", loaded |-> FALSE, verified |-> FALSE,
                   preflight |-> FALSE, uploaded |-> FALSE,
                   lastAutonomous |-> NoStage, mode |-> m]
    /\ lastEvent = "other"
    /\ ruling = "NONE"
    /\ interrupted = NoStage

-----------------------------------------------------------------------------
(* SafetySupervisor.kt.                                                      *)

ShouldHold(p, e, c) ==
    \/ e \in HoldEvents
    \/ /\ p = "OUTDOOR_GPS_REQUIRED"
       /\ e \in {"GPS_WEAK", "GPS_LOST"} \/ c \cap {"gpsNotReady", "gpsWeak"} # {}
    \/ c \cap {"frameStreamUnhealthy", "appUnhealthy", "rcSignalUnhealthy",
               "deviceHealthBlocking"} # {}

BatteryCritical(e, c) == e = "BATTERY_CRITICAL" \/ "batteryCritical" \in c
ShouldReturnHome(p, e, c) == p # "INDOOR_NO_GPS" /\ BatteryCritical(e, c)
ShouldLand(p, e, c) == p = "INDOOR_NO_GPS" /\ BatteryCritical(e, c)

Decision(p, e, c) ==
    CASE ShouldLand(p, e, c) -> "LAND"
      [] ~ShouldLand(p, e, c) /\ ShouldReturnHome(p, e, c) -> "RTH"
      [] ~BatteryCritical(e, c) /\ ShouldHold(p, e, c) -> "HOLD"
      [] ~BatteryCritical(e, c) /\ ~ShouldHold(p, e, c) -> "NONE"

-----------------------------------------------------------------------------
(* DefaultTransitionGuard and FlightState.toStage.                           *)

\* Mutant: a planned mission is ready as soon as its bundle is loaded.
CanTransitionUnverified(f, to, c) ==
    /\ to = "PRECHECK" => f.stage = "IDLE"
    /\ to = "MISSION_READY" => f.loaded \/ f.mode = "UNPLANNED_MANUAL"
    /\ to \in FlyingStages => f.preflight
    /\ to \in RouteStages => f.uploaded \/ "missionUploaded" \in c
    /\ to \in {"VIEW_ALIGN", "CAPTURE", "COMPLETED", "ABORTED"} => f.stage # "IDLE"

CanTransition(f, to, c) ==
    LET planned == f.mode # "UNPLANNED_MANUAL"
        Has(flag, kept) == flag \in c \/ kept
    IN  /\ to = "PRECHECK" => f.stage = "IDLE"
        /\ to = "MISSION_READY" /\ planned =>
               /\ Has("missionBundleLoaded", f.loaded)
               /\ Has("missionBundleVerified", f.verified)
        /\ to \in {"TAKEOFF", "HOVER_READY"} => Has("preflightReady", f.preflight)
        /\ to = "TAKEOFF" /\ planned => Has("missionUploaded", f.uploaded)
        /\ to \in RouteStages \ {"VIEW_ALIGN", "CAPTURE"} => Has("missionUploaded", f.uploaded)
        /\ to = "VIEW_ALIGN" => f.stage = "APPROACH_VIEWPOINT"
        /\ to = "CAPTURE" => f.stage = "VIEW_ALIGN"
        /\ to = "COMPLETED" => \/ f.stage = "LANDING"
                               \/ f.stage = "MANUAL_OVERRIDE" /\ "manualOverrideComplete" \in c
        /\ to = "ABORTED" => f.stage = "MANUAL_OVERRIDE" /\ "manualOverrideAborted" \in c

\* Mutant: the first flying stage is kept for the whole flight.
FirstAutonomous(f, to) == IF f.lastAutonomous \in FlyingStages THEN f.lastAutonomous ELSE to

LastAutonomous(f, to) ==
    IF to \notin StoppedStages THEN to
    ELSE IF f.lastAutonomous # NoStage THEN f.lastAutonomous ELSE f.stage

ToStage(f, to, c) ==
    IF CanTransition(f, to, c)
    THEN [stage |-> to,
          loaded |-> f.loaded \/ "missionBundleLoaded" \in c,
          verified |-> f.verified \/ "missionBundleVerified" \in c,
          preflight |-> f.preflight \/ "preflightReady" \in c,
          uploaded |-> f.uploaded \/ "missionUploaded" \in c,
          lastAutonomous |-> LastAutonomous(f, to),
          mode |-> f.mode]
    ELSE f

-----------------------------------------------------------------------------
(* The reducer of each stage. An event a stage does not know leaves it.      *)

FromIdle(f, e, c) == IF e = "MISSION_SELECTED" THEN ToStage(f, "PRECHECK", c) ELSE f

FromPrecheck(f, e, c) ==
    CASE e = "MISSION_BUNDLE_DOWNLOADED" -> [f EXCEPT !.loaded = TRUE]
      [] e = "MISSION_BUNDLE_VERIFIED" -> [f EXCEPT !.loaded = TRUE, !.verified = TRUE]
      [] e = "MISSION_BUNDLE_INVALID" -> [f EXCEPT !.loaded = TRUE, !.verified = FALSE]
      [] e = "PREFLIGHT_OK" -> ToStage(f, "MISSION_READY", c \cup {"preflightReady"})
      [] OTHER -> f

\* The plan counts as uploaded even when the guard then refuses the takeoff.
FromMissionReady(f, e, c) ==
    CASE e = "MISSION_UPLOADED" ->
           [ToStage(f, "TAKEOFF", c \cup {"missionUploaded"}) EXCEPT !.uploaded = TRUE]
      [] e \in HoverEvents -> ToStage(f, "HOVER_READY", c)
      [] OTHER -> f

RouteEvent(e) ==
    CASE e = "VERIFICATION_POINT_REACHED" -> "BRANCH_VERIFY"
      [] e = "INSPECTION_ZONE_REACHED" -> "APPROACH_VIEWPOINT"
      [] e = "OBSTACLE_WARN" -> "LOCAL_AVOID"
      [] OTHER -> NoStage

FollowRoute(f, e, c, known) ==
    IF RouteEvent(e) \in known THEN ToStage(f, RouteEvent(e), c) ELSE f

RouteTargets == {"BRANCH_VERIFY", "APPROACH_VIEWPOINT", "LOCAL_AVOID"}

FromTakeoff(f, e, c) ==
    IF e \in HoverEvents THEN ToStage(f, "HOVER_READY", c)
    ELSE FollowRoute(f, e, c, RouteTargets)

FromHoverReady(f, e, c) ==
    IF e = "MISSION_UPLOADED"
    THEN [ToStage(f, "TRANSIT", c \cup {"missionUploaded"}) EXCEPT !.uploaded = TRUE]
    ELSE f

FromTransit(f, e, c) == FollowRoute(f, e, c, RouteTargets)

\* The four events that hold here are in HoldEvents: the supervisor has already
\* held the flight before this reducer is asked.
FromBranchVerify(f, e, c) == IF e \in BranchEvents THEN ToStage(f, "TRANSIT", c) ELSE f

FromLocalAvoid(f, e, c) ==
    IF "obstacleCleared" \in c THEN ToStage(f, "TRANSIT", c)
    ELSE FollowRoute(f, e, c, RouteTargets \ {"LOCAL_AVOID"})

FromApproach(f, e, c) ==
    CASE e = "VIEW_ALIGN_OK" -> ToStage(f, "VIEW_ALIGN", c)
      [] e = "VIEW_ALIGN_TIMEOUT" -> ToStage(f, "HOLD", c)
      [] OTHER -> f

FromViewAlign(f, e, c) ==
    CASE e = "VIEW_ALIGN_OK" -> ToStage(f, "CAPTURE", c)
      [] e = "VIEW_ALIGN_TIMEOUT" -> ToStage(f, "HOLD", c)
      [] OTHER -> f

FromCapture(f, e, c) ==
    IF "captureComplete" \notin c THEN f
    ELSE IF "hasRemainingViewpoints" \in c THEN ToStage(f, "TRANSIT", c)
    ELSE ToStage(f, "HOLD", c)

\* USER_RTH, USER_LAND and USER_TAKEOVER never reach this reducer.
ResumeFromHold(f, c) ==
    ToStage(f, IF f.lastAutonomous # NoStage THEN f.lastAutonomous ELSE "TRANSIT", c)
FromHold(f, e, c) == IF e = "USER_RESUME_REQUESTED" THEN ResumeFromHold(f, c) ELSE f

FromManualOverride(f, e, c) ==
    IF "manualOverrideAborted" \in c THEN ToStage(f, "ABORTED", c)
    ELSE IF "manualOverrideComplete" \in c THEN ToStage(f, "COMPLETED", c)
    ELSE f

FromRth(f, e, c) == IF "rthArrived" \in c THEN ToStage(f, "LANDING", c) ELSE f
FromLanding(f, e, c) == IF "landingComplete" \in c THEN ToStage(f, "COMPLETED", c) ELSE f

FromStage(f, e, c) ==
    CASE f.stage = "IDLE" -> FromIdle(f, e, c)
      [] f.stage = "PRECHECK" -> FromPrecheck(f, e, c)
      [] f.stage = "MISSION_READY" -> FromMissionReady(f, e, c)
      [] f.stage = "TAKEOFF" -> FromTakeoff(f, e, c)
      [] f.stage = "HOVER_READY" -> FromHoverReady(f, e, c)
      [] f.stage = "TRANSIT" -> FromTransit(f, e, c)
      [] f.stage = "BRANCH_VERIFY" -> FromBranchVerify(f, e, c)
      [] f.stage = "LOCAL_AVOID" -> FromLocalAvoid(f, e, c)
      [] f.stage = "APPROACH_VIEWPOINT" -> FromApproach(f, e, c)
      [] f.stage = "VIEW_ALIGN" -> FromViewAlign(f, e, c)
      [] f.stage = "CAPTURE" -> FromCapture(f, e, c)
      [] f.stage = "HOLD" -> FromHold(f, e, c)
      [] f.stage = "MANUAL_OVERRIDE" -> FromManualOverride(f, e, c)
      [] f.stage = "RTH" -> FromRth(f, e, c)
      [] f.stage = "LANDING" -> FromLanding(f, e, c)
      [] OTHER -> f

\* advanceTransientStages: what the context says is already over is skipped.
\* The stages are passed in this order, so one event can go from RTH to COMPLETED.
PastTakeoff(f, c) ==
    IF f.stage = "TAKEOFF" /\ "takeoffComplete" \in c THEN ToStage(f, "HOVER_READY", c) ELSE f
PastReturn(f, c) ==
    IF f.stage = "RTH" /\ "rthArrived" \in c THEN ToStage(f, "LANDING", c) ELSE f
PastLanding(f, c) ==
    IF f.stage = "LANDING" /\ "landingComplete" \in c THEN ToStage(f, "COMPLETED", c) ELSE f
PastOverride(f, c) ==
    IF f.stage # "MANUAL_OVERRIDE" THEN f
    ELSE IF "manualOverrideAborted" \in c THEN ToStage(f, "ABORTED", c)
    ELSE IF "manualOverrideComplete" \in c THEN ToStage(f, "COMPLETED", c)
    ELSE f
Advanced(f, c) == PastOverride(PastLanding(PastReturn(PastTakeoff(f, c), c), c), c)

-----------------------------------------------------------------------------
(* reduce: takeover, landing, return and hold are looked at before the       *)
(* stage's own reducer, in this order.                                       *)

TakesOver(f, e) == e = "USER_TAKEOVER_REQUESTED" /\ f.stage # "MANUAL_OVERRIDE"
Lands(f, e, d) == /\ e = "USER_LAND_REQUESTED" \/ d = "LAND"
                  /\ f.stage \notin {"LANDING", "COMPLETED"}
Returns(f, e, d) == /\ e = "USER_RTH_REQUESTED" \/ d = "RTH"
                    /\ f.stage \notin {"RTH", "LANDING"}
Holds(f, e, d) == (e = "USER_HOLD_REQUESTED" \/ d = "HOLD") /\ f.stage # "HOLD"

\* Mutant: the stage's reducer is asked first, the overrides only if it does nothing.
MissionFirst(f, e, c, d) ==
    IF Advanced(FromStage(f, e, c), c) # f THEN Advanced(FromStage(f, e, c), c)
    ELSE IF Holds(f, e, d) THEN ToStage(f, "HOLD", c) ELSE f

Reduced(f, e, c, d) ==
    IF TakesOver(f, e) THEN ToStage(f, "MANUAL_OVERRIDE", c)
    ELSE IF Lands(f, e, d) THEN Advanced(ToStage(f, "LANDING", c), c)
    ELSE IF Returns(f, e, d) THEN Advanced(ToStage(f, "RTH", c), c)
    ELSE IF Holds(f, e, d) THEN ToStage(f, "HOLD", c)
    ELSE Advanced(FromStage(f, e, c), c)

Reduce(e, c, p) ==
    LET d == Decision(p, e, c)
        next == Reduced(flight, e, c, d)
    IN  /\ flight' = next
        /\ lastEvent' = IF e \in UserEvents THEN e ELSE "other"
        /\ ruling' = d
        /\ interrupted' = IF flight.stage \in FlyingStages /\ next.stage \in StoppedStages
                          THEN flight.stage ELSE interrupted

\* AUTH_EXPIRED, AUTH_REFRESHED and UPLOAD_BACKLOG_UPDATED touch no stage.
UploadEvent ==
    /\ lastEvent' = "other" /\ ruling' = "NONE"
    /\ UNCHANGED <<flight, interrupted>>

Next ==
    \/ \E e \in FlightEvents, c \in Contexts, p \in Profiles : Reduce(e, c, p)
    \/ UploadEvent

Spec == Init /\ [][Next]_vars

-----------------------------------------------------------------------------
(* Properties.                                                               *)

\* The aircraft is in a flying stage only with a passed preflight; in a stage of
\* the route only with an uploaded mission; and, when the flight is planned, only
\* with a bundle that was verified and not declared invalid afterwards: whatever
\* the order of events, holds and resumes.
FlyingIsCleared ==
    /\ flight.stage \in FlyingStages => flight.preflight
    /\ flight.stage \in RouteStages => flight.uploaded
    /\ flight.stage \in FlyingStages /\ flight.mode = "PLANNED_BUNDLE" =>
           flight.loaded /\ flight.verified

\* Mission progress never outranks safety (docs/state-machine.md): when the
\* supervisor rules on an event, the step does not end in a flying stage, and with
\* a critical battery not in HOLD either. Two requests of the operator are obeyed
\* against it: RESUME in HOLD while the cause persists, and HOLD on the way down.
SafetyOutranksMission ==
    [][/\ ruling' # "NONE" /\ ~(flight.stage = "HOLD" /\ lastEvent' = "USER_RESUME_REQUESTED")
           => flight'.stage \in StoppedStages
       /\ ruling' \in {"RTH", "LAND"} /\ lastEvent' # "USER_HOLD_REQUESTED"
           => flight'.stage \in StoppedStages \ {"HOLD"}]_vars

\* Nothing but the operator's RESUME, in HOLD, brings a stopped flight back, and it
\* comes back to the stage the last interruption cut off (or to the hover after it,
\* when that stage was a takeoff the context says is complete).
ResumesWhatWasCut ==
    [][flight.stage \in StoppedStages /\ flight'.stage \in FlyingStages =>
           /\ flight.stage = "HOLD" /\ lastEvent' = "USER_RESUME_REQUESTED"
           /\ \/ flight'.stage = interrupted
              \/ interrupted = "TAKEOFF" /\ flight'.stage = "HOVER_READY"]_vars

\* docs/failsafe-table.md: "No automatic recovery from MANUAL_OVERRIDE". A manual
\* flight is left only by its own end or by the operator's request.
NoAutomaticRecovery ==
    [][flight.stage = "MANUAL_OVERRIDE" /\ flight'.stage # "MANUAL_OVERRIDE" =>
           \/ flight'.stage \in {"COMPLETED", "ABORTED"}
           \/ lastEvent' \in UserEvents]_vars

=============================================================================
