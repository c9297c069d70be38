---------------------------- MODULE FlightProofs ----------------------------
(***************************************************************************)
(* FlyingIsCleared, SafetyOutranksMission and ResumesWhatWasCut, whatever  *)
(* contexts the reducer is given.                                          *)
(*                                                                         *)
(* Stages reached through the reducer carry their clearance with them, but *)
(* HOLD goes back to lastAutonomous: so the clearance is also kept for the *)
(* stage that is remembered, and PRECHECK, where a bundle can be declared  *)
(* invalid, remembers no cleared stage.                                    *)
(***************************************************************************)
EXTENDS FlightStages, FlightConsole, TLAPS

ClearedStages == FlyingStages \cup {"MISSION_READY"}

Cleared(f) == f.preflight /\ (f.mode = "PLANNED_BUNDLE" => f.loaded /\ f.verified)

StageCleared(f, stage) == /\ stage \in ClearedStages => Cleared(f)
                          /\ stage \in RouteStages => f.uploaded

FlightInv(f) ==
    /\ f \in FlightState
    /\ StageCleared(f, f.stage)
    /\ StageCleared(f, f.lastAutonomous)
    /\ f.stage \in {"IDLE", "PRECHECK"} => f.lastAutonomous \notin ClearedStages
    /\ f.stage \in StoppedStages => f.lastAutonomous # NoStage
    /\ f.stage \in ClearedStages => f.lastAutonomous = f.stage

\* What a step from f to n may do to the stage to resume: a stop keeps it.
Remembers(f, n) ==
    n.stage \in StoppedStages /\ n.lastAutonomous \in FlyingStages
        => n.lastAutonomous = f.lastAutonomous

\* The stage a stopped flight resumes to is the one that was cut off.
ResumeInv ==
    flight.stage \in StoppedStages /\ flight.lastAutonomous \in FlyingStages
        => interrupted = flight.lastAutonomous

\* toStage keeps the invariant when its target is cleared already, or is
\* MISSION_READY with the preflight passed in the same call.
LEMMA ToStageKeeps ==
    ASSUME NEW f, FlightInv(f), NEW to \in FlightStage, NEW c,
           \/ to \notin ClearedStages \/ Cleared(f)
           \/ to = "MISSION_READY" /\ "preflightReady" \in c,
           to \in {"VIEW_ALIGN", "CAPTURE"} => f.stage \in RouteStages \/ ~CanTransition(f, to, c),
           to = "IDLE" => f.lastAutonomous \notin ClearedStages
    PROVE  /\ FlightInv(ToStage(f, to, c))
           /\ ToStage(f, to, c) = f \/ ToStage(f, to, c).stage = to
  <1>1. CASE ~CanTransition(f, to, c)
    BY <1>1 DEF ToStage
  <1>2. CASE CanTransition(f, to, c)
    <2> DEFINE n == ToStage(f, to, c)
    <2>1. /\ n.stage = to /\ n.mode = f.mode
          /\ n.loaded = (f.loaded \/ "missionBundleLoaded" \in c)
          /\ n.verified = (f.verified \/ "missionBundleVerified" \in c)
          /\ n.preflight = (f.preflight \/ "preflightReady" \in c)
          /\ n.uploaded = (f.uploaded \/ "missionUploaded" \in c)
          /\ n.lastAutonomous = LastAutonomous(f, to)
          /\ n \in FlightState
      BY <1>2 DEF ToStage, FlightInv, FlightState, LastAutonomous
    <2>2. StageCleared(n, to)
      BY <1>2, <2>1 DEF CanTransition, StageCleared, Cleared, ClearedStages, FlyingStages,
         RouteStages, FlightInv, FlightState, Modes
    <2>3. StageCleared(n, f.lastAutonomous) /\ StageCleared(n, f.stage)
      BY <2>1 DEF StageCleared, Cleared, FlightInv, FlightState
    <2>4. StageCleared(n, n.lastAutonomous)
      BY <2>1, <2>2, <2>3 DEF LastAutonomous
    <2>5. n.stage \in {"IDLE", "PRECHECK"} => n.lastAutonomous \notin ClearedStages
      BY <2>1 DEF LastAutonomous, StoppedStages, ClearedStages, FlyingStages, RouteStages
    <2>6. n.stage \in StoppedStages => n.lastAutonomous # NoStage
      BY <2>1 DEF LastAutonomous, StoppedStages, NoStage, FlightStage, FlyingStages, RouteStages,
         FlightInv, FlightState
    <2>7. n.stage \in ClearedStages => n.lastAutonomous = n.stage
      BY <2>1 DEF LastAutonomous, StoppedStages, ClearedStages, FlyingStages, RouteStages
    <2> QED BY <2>1, <2>2, <2>4, <2>5, <2>6, <2>7 DEF FlightInv
  <1> QED BY <1>1, <1>2

\* The stopped stages need no clearance and no guard stands before HOLD, RTH,
\* LANDING and MANUAL_OVERRIDE.
LEMMA StopKeeps ==
    ASSUME NEW f, FlightInv(f), NEW to \in StoppedStages, NEW c
    PROVE  /\ FlightInv(ToStage(f, to, c))
           /\ ToStage(f, to, c) = f \/ ToStage(f, to, c).stage = to
           /\ Remembers(f, ToStage(f, to, c))
           /\ to \in {"HOLD", "RTH", "LANDING", "MANUAL_OVERRIDE"} =>
                ToStage(f, to, c).stage = to
  <1>1. /\ FlightInv(ToStage(f, to, c))
        /\ ToStage(f, to, c) = f \/ ToStage(f, to, c).stage = to
    BY ToStageKeeps DEF StoppedStages, FlightStage, ClearedStages, FlyingStages, RouteStages
  <1>2. Remembers(f, ToStage(f, to, c))
    <2>1. \/ ToStage(f, to, c) = f
          \/ ToStage(f, to, c).lastAutonomous = LastAutonomous(f, to)
      BY DEF ToStage
    <2>2. f.lastAutonomous = NoStage => f.stage \notin FlyingStages
      BY DEF FlightInv, ClearedStages, NoStage, FlyingStages, RouteStages
    <2> QED BY <2>1, <2>2 DEF Remembers, LastAutonomous
  <1>3. to \in {"HOLD", "RTH", "LANDING", "MANUAL_OVERRIDE"} => CanTransition(f, to, c)
    BY DEF CanTransition, RouteStages
  <1>4. CanTransition(f, to, c) => ToStage(f, to, c).stage = to
    BY DEF ToStage
  <1> QED BY <1>1, <1>2, <1>3, <1>4

LEMMA AdvancedKeeps ==
    ASSUME NEW f, FlightInv(f), NEW c
    PROVE  /\ FlightInv(Advanced(f, c))
           /\ f.stage # "TAKEOFF" => Advanced(f, c) = f \/ Advanced(f, c).stage \in StoppedStages
           /\ f.stage = "TAKEOFF" => Advanced(f, c) = f \/ Advanced(f, c).stage = "HOVER_READY"
           /\ f.stage \in {"RTH", "LANDING"} => Advanced(f, c).stage \in {"RTH", "LANDING", "COMPLETED"}
           /\ f.stage \in StoppedStages => Remembers(f, Advanced(f, c))
           /\ f.stage \notin StoppedStages => Advanced(f, c).stage \notin StoppedStages
  <1> DEFINE a == PastTakeoff(f, c)
             b == PastReturn(a, c)
             d == PastLanding(b, c)
             z == PastOverride(d, c)
  <1>1. FlightInv(a) /\ (a = f \/ (f.stage = "TAKEOFF" /\ a.stage = "HOVER_READY"))
    BY ToStageKeeps DEF PastTakeoff, FlightInv, StageCleared, ClearedStages, FlyingStages, FlightStage
  <1>2. /\ FlightInv(b) /\ (b = a \/ (a.stage = "RTH" /\ b.stage = "LANDING"))
        /\ Remembers(a, b) \/ b = a
    BY <1>1, StopKeeps DEF PastReturn, StoppedStages
  <1>3. /\ FlightInv(d) /\ (d = b \/ (b.stage = "LANDING" /\ d.stage = "COMPLETED"))
        /\ Remembers(b, d) \/ d = b
    BY <1>2, StopKeeps DEF PastLanding, StoppedStages
  <1>4. /\ FlightInv(z)
        /\ \/ z = d
           \/ d.stage = "MANUAL_OVERRIDE" /\ z.stage \in {"ABORTED", "COMPLETED"}
        /\ Remembers(d, z) \/ z = d
    BY <1>3, StopKeeps DEF PastOverride, StoppedStages
  <1>5. Advanced(f, c) = z
    BY DEF Advanced
  <1> HIDE DEF a, b, d, z
  <1>6. f.stage \in StoppedStages => Remembers(f, z)
    BY <1>1, <1>2, <1>3, <1>4 DEF Remembers, StoppedStages
  <1> QED BY <1>1, <1>2, <1>3, <1>4, <1>5, <1>6 DEF StoppedStages

\* Uploading a mission changes nothing the invariant could lose.
LEMMA UploadKeeps ==
    ASSUME NEW f, NEW x, FlightInv(x), Remembers(f, x)
    PROVE  LET y == [x EXCEPT !.uploaded = TRUE]
           IN  FlightInv(y) /\ Remembers(f, y) /\ y.stage = x.stage
  <1> DEFINE y == [x EXCEPT !.uploaded = TRUE]
  <1>1. /\ y \in FlightState /\ y.uploaded /\ y.stage = x.stage
        /\ y.lastAutonomous = x.lastAutonomous /\ y.preflight = x.preflight
        /\ y.mode = x.mode /\ y.loaded = x.loaded /\ y.verified = x.verified
    BY DEF FlightInv, FlightState
  <1> HIDE DEF y
  <1>2. StageCleared(y, y.stage) /\ StageCleared(y, y.lastAutonomous)
    BY <1>1 DEF FlightInv, StageCleared, Cleared
  <1>3. FlightInv(y)
    BY <1>1, <1>2 DEF FlightInv
  <1> QED BY <1>1, <1>3 DEF Remembers, y

\* The reducers of the stages: one case each.
LEMMA FromStageKeeps ==
    ASSUME NEW f, FlightInv(f), NEW c, NEW e
    PROVE  LET n == FromStage(f, e, c)
           IN  /\ FlightInv(n)
               /\ Remembers(f, n)
               /\ f.stage \in StoppedStages =>
                    \/ n.stage \in StoppedStages
                    \/ /\ f.stage = "HOLD" /\ e = "USER_RESUME_REQUESTED"
                       /\ n.stage = f.lastAutonomous
  <1> DEFINE n == FromStage(f, e, c)
             Good(x) == /\ FlightInv(x)
                        /\ Remembers(f, x)
                        /\ f.stage \in StoppedStages =>
                             \/ x.stage \in StoppedStages
                             \/ /\ f.stage = "HOLD" /\ e = "USER_RESUME_REQUESTED"
                                /\ x.stage = f.lastAutonomous
  <1>1. Good(f)
    BY DEF Remembers
  <1>2. \A to \in StoppedStages : Good(ToStage(f, to, c))
    BY StopKeeps
  <1>3. ASSUME f.stage \in FlyingStages, NEW to \in FlyingStages,
               to \in {"VIEW_ALIGN", "CAPTURE"} => f.stage \in RouteStages, NEW k
        PROVE  Good(ToStage(f, to, k))
    <2>1. /\ Cleared(f) /\ to \in FlightStage /\ to # "IDLE"
          /\ f.stage \notin StoppedStages /\ to \notin StoppedStages
      BY <1>3 DEF FlightInv, StageCleared, ClearedStages, FlyingStages, RouteStages, FlightStage,
         StoppedStages
    <2> QED BY <1>3, <2>1, ToStageKeeps DEF Remembers
  <1>4. ASSUME f.stage = "IDLE" PROVE Good(FromIdle(f, e, c))
    BY <1>1, <1>4, ToStageKeeps DEF FromIdle, Remembers, ClearedStages, FlyingStages, RouteStages,
       FlightStage, StoppedStages
  <1>5. ASSUME f.stage = "PRECHECK" PROVE Good(FromPrecheck(f, e, c))
    <2>1. ASSUME NEW l \in BOOLEAN, NEW v \in BOOLEAN
          PROVE  Good([f EXCEPT !.loaded = l, !.verified = v])
      <3> DEFINE x == [f EXCEPT !.loaded = l, !.verified = v]
      <3>1. /\ x \in FlightState /\ x.stage = f.stage
            /\ x.lastAutonomous = f.lastAutonomous
        BY DEF FlightInv, FlightState
      <3>2. /\ x.stage \notin ClearedStages /\ x.stage \notin StoppedStages
            /\ x.lastAutonomous \notin ClearedStages /\ RouteStages \subseteq ClearedStages
        BY <1>5, <3>1 DEF FlightInv, ClearedStages, FlyingStages, RouteStages, StoppedStages
      <3> HIDE DEF x
      <3>3. FlightInv(x)
        BY <3>1, <3>2 DEF FlightInv, StageCleared
      <3> QED BY <1>5, <3>1, <3>2, <3>3 DEF Remembers, StoppedStages, x
    <2>2. Good([f EXCEPT !.loaded = TRUE])
      BY <1>5 DEF FlightInv, FlightState, StageCleared, Remembers, ClearedStages, FlyingStages,
         RouteStages, StoppedStages
    <2>3. Good(ToStage(f, "MISSION_READY", c \cup {"preflightReady"}))
      BY <1>1, <1>5, ToStageKeeps DEF Remembers, ClearedStages, FlyingStages, RouteStages,
         FlightStage, StoppedStages
    <2> QED BY <1>1, <2>1, <2>2, <2>3 DEF FromPrecheck
  <1>6. ASSUME f.stage = "MISSION_READY" PROVE Good(FromMissionReady(f, e, c))
    <2>1. Cleared(f)
      BY <1>6 DEF FlightInv, StageCleared, ClearedStages
    <2>2. \A to \in {"TAKEOFF", "HOVER_READY"} :
            \A k : Good(ToStage(f, to, k))
      BY <1>1, <1>6, <2>1, ToStageKeeps DEF Remembers, FlightStage, FlyingStages, StoppedStages
    <2>3. \A x : Good(x) => Good([x EXCEPT !.uploaded = TRUE])
      BY UploadKeeps
    <2> QED BY <1>1, <2>2, <2>3 DEF FromMissionReady
  <1>7. ASSUME f.stage \in FlyingStages, NEW known \in SUBSET RouteTargets
        PROVE  Good(FollowRoute(f, e, c, known))
    BY <1>1, <1>3, <1>7 DEF FollowRoute, RouteTargets, FlyingStages, RouteStages
  <1>8. ASSUME f.stage = "TAKEOFF" PROVE Good(FromTakeoff(f, e, c))
    BY <1>3, <1>7, <1>8 DEF FromTakeoff, FlyingStages
  <1>9. ASSUME f.stage = "HOVER_READY" PROVE Good(FromHoverReady(f, e, c))
    <2>1. Good(ToStage(f, "TRANSIT", c \cup {"missionUploaded"}))
      BY <1>3, <1>9 DEF FlyingStages, RouteStages
    <2>2. \A x : Good(x) => Good([x EXCEPT !.uploaded = TRUE])
      BY UploadKeeps
    <2> QED BY <1>1, <2>1, <2>2 DEF FromHoverReady
  <1>10. ASSUME f.stage = "TRANSIT" PROVE Good(FromTransit(f, e, c))
    BY <1>7, <1>10 DEF FromTransit, FlyingStages, RouteStages
  <1>11. ASSUME f.stage = "BRANCH_VERIFY" PROVE Good(FromBranchVerify(f, e, c))
    BY <1>1, <1>3, <1>11 DEF FromBranchVerify, FlyingStages, RouteStages
  <1>12. ASSUME f.stage = "LOCAL_AVOID" PROVE Good(FromLocalAvoid(f, e, c))
    BY <1>3, <1>7, <1>12 DEF FromLocalAvoid, FlyingStages, RouteStages
  <1>13. ASSUME f.stage = "APPROACH_VIEWPOINT" PROVE Good(FromApproach(f, e, c))
    BY <1>1, <1>2, <1>3, <1>13 DEF FromApproach, FlyingStages, RouteStages, StoppedStages
  <1>14. ASSUME f.stage = "VIEW_ALIGN" PROVE Good(FromViewAlign(f, e, c))
    BY <1>1, <1>2, <1>3, <1>14 DEF FromViewAlign, FlyingStages, RouteStages, StoppedStages
  <1>15. ASSUME f.stage = "CAPTURE" PROVE Good(FromCapture(f, e, c))
    BY <1>1, <1>2, <1>3, <1>15 DEF FromCapture, FlyingStages, RouteStages, StoppedStages
  <1>16. ASSUME f.stage = "HOLD" PROVE Good(FromHold(f, e, c))
    <2> DEFINE to == f.lastAutonomous
    <2>1. to # NoStage /\ to \in FlightStage /\ StageCleared(f, to)
      BY <1>16 DEF FlightInv, FlightState, StoppedStages
    <2>2. ResumeFromHold(f, c) = ToStage(f, to, c)
      BY <2>1 DEF ResumeFromHold
    <2>3. to \in {"VIEW_ALIGN", "CAPTURE"} => ~CanTransition(f, to, c)
      BY <1>16 DEF CanTransition
    <2>4. to \in ClearedStages => Cleared(f)
      BY <2>1 DEF StageCleared
    <2>5. to = "IDLE" => to \notin ClearedStages
      BY DEF ClearedStages, FlyingStages, RouteStages
    <2>6. /\ FlightInv(ToStage(f, to, c))
          /\ ToStage(f, to, c) = f \/ ToStage(f, to, c).stage = to
      BY <2>1, <2>3, <2>4, <2>5, ToStageKeeps
    <2>7. Remembers(f, ToStage(f, to, c))
      BY <1>2, <2>6 DEF Remembers
    <2> QED BY <1>1, <1>16, <2>2, <2>6, <2>7 DEF FromHold, StoppedStages
  <1>17. ASSUME f.stage = "MANUAL_OVERRIDE" PROVE Good(FromManualOverride(f, e, c))
    BY <1>1, <1>2 DEF FromManualOverride, StoppedStages
  <1>18. ASSUME f.stage = "RTH" PROVE Good(FromRth(f, e, c))
    BY <1>1, <1>2 DEF FromRth, StoppedStages
  <1>19. ASSUME f.stage = "LANDING" PROVE Good(FromLanding(f, e, c))
    BY <1>1, <1>2 DEF FromLanding, StoppedStages
  <1> HIDE DEF Good
  <1>20. Good(n)
    BY <1>1, <1>4, <1>5, <1>6, <1>8, <1>9, <1>10, <1>11, <1>12, <1>13, <1>14, <1>15, <1>16,
       <1>17, <1>18, <1>19 DEF FromStage
  <1> QED BY <1>20 DEF Good

LEMMA ReducedKeeps ==
    ASSUME NEW f, FlightInv(f), NEW c, NEW e, NEW d \in Rulings
    PROVE  LET n == Reduced(f, e, c, d)
           IN  /\ FlightInv(n)
               /\ n.stage \in StoppedStages => Remembers(f, n)
               /\ f.stage \in StoppedStages =>
                    \/ n.stage \in StoppedStages
                    \/ /\ f.stage = "HOLD" /\ e = "USER_RESUME_REQUESTED"
                       /\ \/ n.stage = f.lastAutonomous
                          \/ f.lastAutonomous = "TAKEOFF" /\ n.stage = "HOVER_READY"
               /\ d # "NONE" /\ ~(f.stage = "HOLD" /\ e = "USER_RESUME_REQUESTED")
                    => n.stage \in StoppedStages
               /\ d \in {"RTH", "LAND"} /\ e # "USER_HOLD_REQUESTED"
                    => n.stage \in StoppedStages \ {"HOLD"}
  <1> DEFINE n == Reduced(f, e, c, d)
             s == FromStage(f, e, c)
  <1>1. CASE TakesOver(f, e)
    <2>1. n = ToStage(f, "MANUAL_OVERRIDE", c)
      BY <1>1 DEF Reduced
    <2> QED BY <2>1, StopKeeps DEF StoppedStages
  <1>2. ASSUME NEW to \in {"LANDING", "RTH"}, n = Advanced(ToStage(f, to, c), c)
        PROVE  /\ FlightInv(n) /\ Remembers(f, n)
               /\ n.stage \in {"RTH", "LANDING", "COMPLETED"}
    <2> DEFINE t == ToStage(f, to, c)
    <2>1. FlightInv(t) /\ t.stage = to /\ Remembers(f, t)
      BY StopKeeps DEF StoppedStages
    <2> HIDE DEF t
    <2>2. /\ FlightInv(Advanced(t, c)) /\ Remembers(t, Advanced(t, c))
          /\ Advanced(t, c).stage \in {"RTH", "LANDING", "COMPLETED"}
      BY <2>1, AdvancedKeeps DEF StoppedStages
    <2>3. Remembers(f, Advanced(t, c))
      BY <2>1, <2>2 DEF Remembers, StoppedStages
    <2> QED BY <1>2, <2>2, <2>3 DEF t
  <1>3. CASE ~TakesOver(f, e) /\ Lands(f, e, d)
    <2>1. n = Advanced(ToStage(f, "LANDING", c), c)
      BY <1>3 DEF Reduced
    <2> QED BY <1>2, <2>1 DEF StoppedStages
  <1>4. CASE ~TakesOver(f, e) /\ ~Lands(f, e, d) /\ Returns(f, e, d)
    <2>1. n = Advanced(ToStage(f, "RTH", c), c)
      BY <1>4 DEF Reduced
    <2> QED BY <1>2, <2>1 DEF StoppedStages
  <1>5. CASE ~TakesOver(f, e) /\ ~Lands(f, e, d) /\ ~Returns(f, e, d) /\ Holds(f, e, d)
    <2>1. n = ToStage(f, "HOLD", c)
      BY <1>5 DEF Reduced
    <2>2. FlightInv(n) /\ n.stage = "HOLD" /\ Remembers(f, n)
      BY <2>1, StopKeeps DEF StoppedStages
    <2>3. d = "RTH" => f.stage \in {"RTH", "LANDING"}
      BY <1>5 DEF Returns
    <2>4. d = "LAND" => f.stage \in {"LANDING", "COMPLETED"}
      BY <1>5 DEF Lands
    <2>5. e = "USER_HOLD_REQUESTED" \/ d = "HOLD"
      BY <1>5 DEF Holds
    <2> QED BY <2>2, <2>5 DEF StoppedStages
  <1>6. CASE ~TakesOver(f, e) /\ ~Lands(f, e, d) /\ ~Returns(f, e, d) /\ ~Holds(f, e, d)
    <2>1. n = Advanced(s, c)
      BY <1>6 DEF Reduced
    <2>2. /\ FlightInv(s) /\ Remembers(f, s)
          /\ f.stage \in StoppedStages =>
               \/ s.stage \in StoppedStages
               \/ /\ f.stage = "HOLD" /\ e = "USER_RESUME_REQUESTED"
                  /\ s.stage = f.lastAutonomous
      BY FromStageKeeps
    <2>3. d = "RTH" => f.stage \in {"RTH", "LANDING"}
      BY <1>6 DEF Returns
    <2>4. d = "LAND" => f.stage \in {"LANDING", "COMPLETED"}
      BY <1>6 DEF Lands
    <2>5. d = "HOLD" => f.stage = "HOLD"
      BY <1>6 DEF Holds
    <2>6. f.stage \in {"RTH", "LANDING", "COMPLETED"} =>
             s.stage \in {"RTH", "LANDING", "COMPLETED"}
      BY DEF FromStage, FromRth, FromLanding, ToStage
    <2> HIDE DEF s
    <2>7. /\ FlightInv(Advanced(s, c))
          /\ s.stage # "TAKEOFF" => Advanced(s, c) = s \/ Advanced(s, c).stage \in StoppedStages
          /\ s.stage = "TAKEOFF" => Advanced(s, c) = s \/ Advanced(s, c).stage = "HOVER_READY"
          /\ s.stage \in {"RTH", "LANDING"} =>
               Advanced(s, c).stage \in {"RTH", "LANDING", "COMPLETED"}
          /\ s.stage \in StoppedStages => Remembers(s, Advanced(s, c))
          /\ s.stage \notin StoppedStages => Advanced(s, c).stage \notin StoppedStages
      BY <2>2, AdvancedKeeps
    <2>8. Advanced(s, c).stage \in StoppedStages => Remembers(f, Advanced(s, c))
      BY <2>2, <2>7 DEF Remembers
    <2>9. s.stage \in StoppedStages => Advanced(s, c).stage \in StoppedStages
      BY <2>7 DEF StoppedStages
    <2>10. s.stage = "COMPLETED" => Advanced(s, c).stage = "COMPLETED"
      BY DEF Advanced, PastTakeoff, PastReturn, PastLanding, PastOverride
    <2> HIDE DEF n
    <2>11. f.stage \in StoppedStages =>
             \/ n.stage \in StoppedStages
             \/ /\ f.stage = "HOLD" /\ e = "USER_RESUME_REQUESTED"
                /\ \/ n.stage = f.lastAutonomous
                   \/ f.lastAutonomous = "TAKEOFF" /\ n.stage = "HOVER_READY"
      BY <2>1, <2>2, <2>7, <2>9
    <2>12. d \in {"RTH", "LAND"} => n.stage \in {"RTH", "LANDING", "COMPLETED"}
      BY <2>1, <2>3, <2>4, <2>6, <2>7, <2>10
    <2>13. d # "NONE" /\ ~(f.stage = "HOLD" /\ e = "USER_RESUME_REQUESTED")
             => n.stage \in StoppedStages
      <3>1. CASE d = "HOLD"
        BY <2>5, <2>11, <3>1 DEF StoppedStages
      <3>2. CASE d # "HOLD"
        BY <2>12, <3>2 DEF StoppedStages, Rulings
      <3> QED BY <3>1, <3>2
    <2> QED BY <2>1, <2>7, <2>8, <2>11, <2>12, <2>13 DEF n, StoppedStages
  <1> QED BY <1>1, <1>3, <1>4, <1>5, <1>6

-----------------------------------------------------------------------------

FullInv == StagesTypeOK /\ FlightInv(flight) /\ ResumeInv

LEMMA DecisionType == ASSUME NEW p, NEW e, NEW c PROVE Decision(p, e, c) \in Rulings
  BY DEF Decision, Rulings, BatteryCritical, ShouldReturnHome, ShouldLand

LEMMA InitInv == Init => FullInv
  BY DEF Init, FullInv, StagesTypeOK, FlightInv, ResumeInv, StageCleared, FlightState, FlightStage,
     StoppedStages, ClearedStages, FlyingStages, RouteStages, Rulings, NoStage

\* What one step does, for the invariant and for the action properties at once.
LEMMA StepFacts ==
    ASSUME FullInv, [Next]_vars
    PROVE  /\ FullInv'
           /\ \/ UNCHANGED vars
              \/ /\ ruling' # "NONE" /\ ~(flight.stage = "HOLD" /\ lastEvent' = "USER_RESUME_REQUESTED")
                      => flight'.stage \in StoppedStages
                 /\ ruling' \in {"RTH", "LAND"} /\ lastEvent' # "USER_HOLD_REQUESTED"
                      => flight'.stage \in StoppedStages \ {"HOLD"}
                 /\ flight.stage \in StoppedStages /\ flight'.stage \in FlyingStages =>
                      /\ flight.stage = "HOLD" /\ lastEvent' = "USER_RESUME_REQUESTED"
                      /\ \/ flight'.stage = interrupted
                         \/ interrupted = "TAKEOFF" /\ flight'.stage = "HOVER_READY"
  <1>0. \A st \in FlyingStages : st \notin StoppedStages
    BY DEF FlyingStages, RouteStages, StoppedStages
  <1>1. ASSUME NEW e \in FlightEvents, NEW c \in Contexts, NEW p \in Profiles, Reduce(e, c, p)
        PROVE  /\ FullInv'
               /\ ruling' # "NONE" /\ ~(flight.stage = "HOLD" /\ lastEvent' = "USER_RESUME_REQUESTED")
                    => flight'.stage \in StoppedStages
               /\ ruling' \in {"RTH", "LAND"} /\ lastEvent' # "USER_HOLD_REQUESTED"
                    => flight'.stage \in StoppedStages \ {"HOLD"}
               /\ flight.stage \in StoppedStages /\ flight'.stage \in FlyingStages =>
                    /\ flight.stage = "HOLD" /\ lastEvent' = "USER_RESUME_REQUESTED"
                    /\ \/ flight'.stage = interrupted
                       \/ interrupted = "TAKEOFF" /\ flight'.stage = "HOVER_READY"
    <2> DEFINE d == Decision(p, e, c)
               n == Reduced(flight, e, c, d)
    <2>1. d \in Rulings
      BY DecisionType
    <2>2. /\ flight' = n /\ ruling' = d
          /\ lastEvent' = IF e \in UserEvents THEN e ELSE "other"
          /\ interrupted' = IF flight.stage \in FlyingStages /\ n.stage \in StoppedStages
                            THEN flight.stage ELSE interrupted
      BY <1>1 DEF Reduce
    <2>3. /\ lastEvent' = "USER_RESUME_REQUESTED" <=> e = "USER_RESUME_REQUESTED"
          /\ lastEvent' = "USER_HOLD_REQUESTED" <=> e = "USER_HOLD_REQUESTED"
          /\ lastEvent' \in UserEvents \cup {"other"}
      BY <2>2 DEF UserEvents
    <2> HIDE DEF d
    <2>4. /\ FlightInv(n)
          /\ n.stage \in StoppedStages => Remembers(flight, n)
          /\ flight.stage \in StoppedStages =>
               \/ n.stage \in StoppedStages
               \/ /\ flight.stage = "HOLD" /\ e = "USER_RESUME_REQUESTED"
                  /\ \/ n.stage = flight.lastAutonomous
                     \/ flight.lastAutonomous = "TAKEOFF" /\ n.stage = "HOVER_READY"
          /\ d # "NONE" /\ ~(flight.stage = "HOLD" /\ e = "USER_RESUME_REQUESTED")
               => n.stage \in StoppedStages
          /\ d \in {"RTH", "LAND"} /\ e # "USER_HOLD_REQUESTED"
               => n.stage \in StoppedStages \ {"HOLD"}
      BY <2>1, ReducedKeeps DEF FullInv
    <2> HIDE DEF n
    <2>5. StagesTypeOK'
      BY <2>1, <2>2, <2>3, <2>4 DEF StagesTypeOK, FullInv, FlightInv
    <2>6. ResumeInv'
      <3> SUFFICES ASSUME n.stage \in StoppedStages, n.lastAutonomous \in FlyingStages
                   PROVE  interrupted' = n.lastAutonomous
        BY <2>2 DEF ResumeInv
      <3>1. n.lastAutonomous = flight.lastAutonomous
        BY <2>4 DEF Remembers
      <3>2. CASE flight.stage \in FlyingStages
        <4>1. flight.lastAutonomous = flight.stage
          BY <3>2 DEF FullInv, FlightInv, ClearedStages
        <4> QED BY <2>2, <3>1, <3>2, <4>1
      <3>3. CASE flight.stage \in StoppedStages
        BY <1>0, <2>2, <3>1, <3>3 DEF FullInv, ResumeInv
      <3>4. CASE flight.stage \in {"IDLE", "PRECHECK", "MISSION_READY"}
        <4>1. flight.lastAutonomous \notin FlyingStages
          BY <3>4 DEF FullInv, FlightInv, ClearedStages, FlyingStages, RouteStages
        <4> QED BY <3>1, <4>1
      <3> QED BY <3>2, <3>3, <3>4 DEF FullInv, FlightInv, FlightState, FlightStage
    <2>7. flight.stage \in StoppedStages /\ flight.lastAutonomous \in FlyingStages
             => interrupted = flight.lastAutonomous
      BY DEF FullInv, ResumeInv
    <2>8. "TAKEOFF" \in FlyingStages
      BY DEF FlyingStages
    <2> QED BY <1>0, <2>2, <2>3, <2>4, <2>5, <2>6, <2>7, <2>8 DEF FullInv
  <1>2. ASSUME UploadEvent
        PROVE  FullInv' /\ flight' = flight /\ ruling' = "NONE"
    BY <1>2 DEF UploadEvent, FullInv, StagesTypeOK, FlightInv, ResumeInv, Rulings
  <1>3. ASSUME UNCHANGED vars PROVE FullInv'
    BY <1>3 DEF vars, FullInv, StagesTypeOK, FlightInv, ResumeInv
  <1> QED BY <1>0, <1>1, <1>2, <1>3 DEF Next

\* FullInv is an invariant of every behaviour of the reducer.
THEOREM FlightInvariant == Spec => []FullInv
  <1>1. FullInv /\ [Next]_vars => FullInv'
    BY StepFacts
  <1> QED BY InitInv, <1>1, PTL DEF Spec

\* The aircraft is in a flying stage only with a passed preflight, an uploaded mission
\* and, when planned, a verified bundle.
THEOREM AlwaysCleared == Spec => []FlyingIsCleared
  <1>1. FullInv => FlyingIsCleared
    BY DEF FullInv, FlightInv, StageCleared, Cleared, ClearedStages, FlyingIsCleared, FlyingStages,
       RouteStages
  <1> QED BY FlightInvariant, <1>1, PTL

\* Mission progress never outranks a ruling of the safety supervisor.
THEOREM SafetyFirst == Spec => SafetyOutranksMission
  <1>1. FullInv /\ [Next]_vars =>
          [/\ ruling' # "NONE" /\ ~(flight.stage = "HOLD" /\ lastEvent' = "USER_RESUME_REQUESTED")
               => flight'.stage \in StoppedStages
           /\ ruling' \in {"RTH", "LAND"} /\ lastEvent' # "USER_HOLD_REQUESTED"
               => flight'.stage \in StoppedStages \ {"HOLD"}]_vars
    BY StepFacts
  <1> QED BY FlightInvariant, <1>1, PTL DEF Spec, SafetyOutranksMission

\* A stopped flight comes back only by RESUME, to the stage that was cut off.
THEOREM ResumesRight == Spec => ResumesWhatWasCut
  <1>1. FullInv /\ [Next]_vars =>
          [flight.stage \in StoppedStages /\ flight'.stage \in FlyingStages =>
              /\ flight.stage = "HOLD" /\ lastEvent' = "USER_RESUME_REQUESTED"
              /\ \/ flight'.stage = interrupted
                 \/ interrupted = "TAKEOFF" /\ flight'.stage = "HOVER_READY"]_vars
    BY StepFacts
  <1> QED BY FlightInvariant, <1>1, PTL DEF Spec, ResumesWhatWasCut

-----------------------------------------------------------------------------
(***************************************************************************)
(* Proofs about FlightConsole, for any bundles, gate failures and number   *)
(* of loads. TransitIsRunning is not inductive: it needs that there is one *)
(* command at most (OneCommand), that DEMO launches none (DemoBlocks) and  *)
(* that no patrol flies while a command waits for DJI (WaitsOnGround).     *)
(* PushedIsVerified needs that the captured bundle was verified.           *)
(***************************************************************************)

OneCommand == \A j, k \in jobs : j = k
DemoBlocks == runtime = "DEMO" => jobs = {}
WaitsOnGround == \A j \in jobs : j.phase # "queued" => console.stage # "TRANSIT"
CapturedIsVerified == \A j \in jobs : j.bundle \in Intact

CommandInv == OneCommand /\ DemoBlocks /\ WaitsOnGround /\ CapturedIsVerified
ConsoleInv ==
    ConsoleTypeOK /\ CommandInv /\ TransitIsRunning /\ PushedIsVerified /\ ManualFlowStaysManual

USE ConsoleAssumption

\* A preflight passed in the patrol mode has a verified bundle.
LEMMA PatrolNeedsBundle ==
    ASSUME NEW c \in Console, NEW down, Patrol(c), CanTakeoff(c, down)
    PROVE  c.bundle \in Intact
BY DEF CanTakeoff, Failing, Blocking, BundleGate, BundleVerified, Patrol, HardwareGates

\* A change of the console that touches neither the stage nor the manual flow.
SameFlight(c, d) ==
    d \in Console /\ d.stage = c.stage /\ d.hover = c.hover /\ d.prompt = c.prompt /\ d.mode = c.mode

\* The shared state changes: each keeps the type, and what it does to the flight.
LEMMA GuideOpenedIs == ASSUME NEW c \in Console PROVE SameFlight(c, GuideOpened(c))
<1>1. GuideOpened(c) \in Console
  BY DEF GuideOpened, Console, Screens
<1> QED
  BY <1>1 DEF SameFlight, GuideOpened, Console

LEMMA PreflightOpenedIs ==
    ASSUME NEW c \in Console
    PROVE  \/ SameFlight(c, PreflightOpened(c))
           \/ /\ PreflightOpened(c) \in Console
              /\ PreflightOpened(c).stage = "PRECHECK"
              /\ PreflightOpened(c).hover = c.hover
              /\ PreflightOpened(c).prompt = c.prompt
              /\ PreflightOpened(c).mode = c.mode
<1>1. SameFlight(c, GuideOpened(c)) /\ SameFlight(c, c)
  BY GuideOpenedIs DEF SameFlight
<1>2. [c EXCEPT !.screen = "PREFLIGHT", !.stage = "PRECHECK"] \in Console
  BY DEF Console, Stages, Screens
<1> QED
  BY <1>1, <1>2 DEF PreflightOpened, Console

LEMMA AttachedIs ==
    ASSUME NEW c \in Console, NEW b \in Bundles \cup {NoBundle}
    PROVE  /\ Attached(c, b) \in Console
           /\ Attached(c, b).stage = "IDLE"
           /\ Attached(c, b).hover = FALSE
           /\ Attached(c, b).prompt = "none"
<1>1. Attached(c, b) \in Console
  BY DEF Attached, ManualFlowCleared, Console, Stages, ConsoleModes
<1> QED
  BY <1>1 DEF Attached, ManualFlowCleared, Console

LEMMA ModeSelectedIs ==
    ASSUME NEW c \in Console, NEW m \in ConsoleModes
    PROVE  /\ ModeSelected(c, m) \in Console
           /\ ModeSelected(c, m).stage = c.stage
           /\ ModeSelected(c, m).hover = FALSE
           /\ ModeSelected(c, m).prompt = "none"
<1>1. ModeSelected(c, m) \in Console
  BY DEF ModeSelected, ManualFlowCleared, Console
<1> QED
  BY <1>1 DEF ModeSelected, ManualFlowCleared, Console

LEMMA UploadedIs ==
    ASSUME NEW c \in Console
    PROVE  /\ Uploaded(c) \in Console
           /\ Uploaded(c).stage = "MISSION_READY"
           /\ Uploaded(c).hover = c.hover /\ Uploaded(c).prompt = c.prompt
           /\ Uploaded(c).mode = c.mode
<1>1. Uploaded(c) \in Console
  BY DEF Uploaded, Console, Stages
<1> QED
  BY <1>1 DEF Uploaded, Console

LEMMA StartedIs ==
    ASSUME NEW c \in Console
    PROVE  /\ Started(c) \in Console
           /\ Started(c).stage = "TRANSIT"
           /\ Started(c).hover = c.hover /\ Started(c).prompt = c.prompt
           /\ Started(c).mode = c.mode
<1>1. Started(c) \in Console
  BY DEF Started, Console, Stages, Screens
<1> QED
  BY <1>1 DEF Started, Console

LEMMA RcOnlyLandingIs ==
    ASSUME NEW c \in Console
    PROVE  /\ RcOnlyLanding(c) \in Console
           /\ RcOnlyLanding(c).stage = "MANUAL_OVERRIDE"
           /\ RcOnlyLanding(c).mode = c.mode
<1>1. RcOnlyLanding(c) \in Console
  BY DEF RcOnlyLanding, Console, Stages, Screens
<1> QED
  BY <1>1 DEF RcOnlyLanding, Console

LEMMA MovedIs ==
    ASSUME NEW c \in Console, NEW s \in Stages, NEW v \in Screens,
           NEW p \in {"none", "warning", "confirm"}
    PROVE  /\ [c EXCEPT !.stage = s, !.screen = v] \in Console
           /\ [c EXCEPT !.screen = v] \in Console
           /\ [c EXCEPT !.prompt = p, !.screen = v] \in Console
           /\ [c EXCEPT !.prompt = p, !.stage = s, !.screen = v] \in Console
  BY DEF Console

\* A step that leaves the jobs and the adapter and does not start a patrol
\* keeps the invariant as far as they are concerned.
LEMMA ConsoleOnly ==
    ASSUME ConsoleInv, Untouched, console' \in Console,
           console'.stage = "TRANSIT" => console.stage = "TRANSIT",
           ManualFlowStaysManual'
    PROVE  ConsoleInv'
<1>1. UNCHANGED <<runtime, jobs, adapter, loads, session>>
  BY DEF Untouched
<1>2. ConsoleTypeOK'
  BY <1>1 DEF ConsoleInv, ConsoleTypeOK
<1>3. CommandInv'
  BY <1>1 DEF ConsoleInv, CommandInv, OneCommand, DemoBlocks, WaitsOnGround, CapturedIsVerified
<1>4. TransitIsRunning' /\ PushedIsVerified'
  BY <1>1 DEF ConsoleInv, TransitIsRunning, PushedIsVerified
<1> QED
  BY <1>2, <1>3, <1>4 DEF ConsoleInv

LEMMA ConsoleInitInv == ConsoleInit => ConsoleInv
BY DEF ConsoleInit, Console, ConsoleModes, Stages, Screens, Adapter, Job, ConsoleInv, ConsoleTypeOK,
        CommandInv, OneCommand, DemoBlocks, WaitsOnGround,
       CapturedIsVerified, TransitIsRunning, PushedIsVerified, ManualFlowStaysManual, Patrol

LEMMA SetupKeeps == ConsoleInv /\ Setup => ConsoleInv'
<1> SUFFICES ASSUME ConsoleInv, Setup PROVE ConsoleInv'
  OBVIOUS
<1>0. console \in Console /\ runtime \in {"PROD", "DEMO"} /\ ManualFlowStaysManual
  BY DEF ConsoleInv, ConsoleTypeOK
<1>a. CASE StartLoad
  BY <1>a DEF StartLoad, ConsoleInv, ConsoleTypeOK, CommandInv, OneCommand, DemoBlocks,
     WaitsOnGround, CapturedIsVerified, TransitIsRunning, PushedIsVerified,
     ManualFlowStaysManual, Patrol
<1>b. CASE FinishLoad
  <2>a. CASE UNCHANGED console
    BY <1>0, <1>b, <2>a DEF FinishLoad, ConsoleInv, ConsoleTypeOK, CommandInv, OneCommand,
       DemoBlocks, WaitsOnGround, CapturedIsVerified, TransitIsRunning, PushedIsVerified,
       ManualFlowStaysManual, Patrol
  <2>b. CASE \E b \in Bundles : console' = Attached(console, b)
    <3>0. PICK b \in Bundles \cup {NoBundle} : console' = Attached(console, b)
      BY <2>b
    <3>1. /\ console' \in Console /\ console'.stage = "IDLE"
          /\ console'.hover = FALSE /\ console'.prompt = "none"
      BY <1>0, <3>0, AttachedIs
    <3>2. ManualFlowStaysManual'
      BY <3>1 DEF ManualFlowStaysManual
    <3>3. loads' \in 0 .. MaxLoads
      BY <1>b DEF FinishLoad, ConsoleInv, ConsoleTypeOK
    <3> QED
      BY <1>b, <3>1, <3>2, <3>3 DEF FinishLoad, ConsoleInv, ConsoleTypeOK, CommandInv,
         OneCommand, DemoBlocks, WaitsOnGround, CapturedIsVerified, TransitIsRunning,
         PushedIsVerified
  <2> QED
    BY <1>b, <2>a, <2>b DEF FinishLoad
<1>c. CASE \E m \in ConsoleModes : SelectConsoleMode(m)
  <2>1. Untouched
    BY <1>c DEF SelectConsoleMode
  <2>2. /\ console' \in Console
        /\ console'.stage = "TRANSIT" => console.stage = "TRANSIT"
        /\ ManualFlowStaysManual'
    BY <1>0, <1>c, ModeSelectedIs
    DEF SelectConsoleMode, ManualFlowStaysManual, Patrol
  <2> QED
    BY <2>1, <2>2, ConsoleOnly
<1>d. CASE ContinueFromMissionSetup
  <2>1. Untouched
    BY <1>d DEF ContinueFromMissionSetup
  <2>2. /\ console' \in Console
        /\ console'.stage = "TRANSIT" => console.stage = "TRANSIT"
        /\ ManualFlowStaysManual'
    BY <1>0, <1>d, GuideOpenedIs, PreflightOpenedIs
    DEF ContinueFromMissionSetup, ManualFlowStaysManual, Patrol, SameFlight
  <2> QED
    BY <2>1, <2>2, ConsoleOnly
<1>e. CASE \E s \in Screens : SelectScreen(s)
  <2>1. Untouched
    BY <1>e DEF SelectScreen
  <2>2. \A s \in Screens : SameFlight(console, [console EXCEPT !.screen = s])
    BY <1>0 DEF SameFlight, Console
  <2>a. \/ console' = GuideOpened(console)
        \/ console' = PreflightOpened(console)
        \/ \E s \in Screens : console' = [console EXCEPT !.screen = s]
    BY <1>e DEF SelectScreen
  <2>b. \/ SameFlight(console, console')
        \/ console' = PreflightOpened(console)
    BY <1>0, <2>a, <2>2, GuideOpenedIs
  <2>3. /\ console' \in Console
        /\ console'.stage = "TRANSIT" => console.stage = "TRANSIT"
        /\ ManualFlowStaysManual'
    BY <1>0, <2>b, PreflightOpenedIs DEF ManualFlowStaysManual, Patrol, SameFlight
  <2> QED
    BY <2>1, <2>3, ConsoleOnly
<1>f. CASE ApplyConnectionGuide
  <2>1. Untouched
    BY <1>f DEF ApplyConnectionGuide
  <2>2. console' \in Console
    BY <1>0, <1>f DEF ApplyConnectionGuide, Console
  <2>3. console'.stage = "TRANSIT" => console.stage = "TRANSIT"
    BY <1>0, <1>f DEF ApplyConnectionGuide, Console
  <2>4. ManualFlowStaysManual'
    BY <1>0, <1>f DEF ApplyConnectionGuide, Console, ManualFlowStaysManual, Patrol
  <2> QED
    BY <2>1, <2>2, <2>3, <2>4, ConsoleOnly
<1>g. CASE ContinueFromConnectionGuide
  <2>1. Untouched
    BY <1>g DEF ContinueFromConnectionGuide
  <2>2. /\ console' \in Console
        /\ console'.stage = "TRANSIT" => console.stage = "TRANSIT"
        /\ ManualFlowStaysManual'
    BY <1>0, <1>g, PreflightOpenedIs
    DEF ContinueFromConnectionGuide, ManualFlowStaysManual, Patrol, SameFlight
  <2> QED
    BY <2>1, <2>2, ConsoleOnly
<1>h. CASE UsbAttached \/ UsbDetached
  <2>1. Untouched
    BY <1>h DEF UsbAttached, UsbDetached
  <2>2. /\ console' \in Console
        /\ console'.stage = "TRANSIT" => console.stage = "TRANSIT"
        /\ ManualFlowStaysManual'
    BY <1>0, <1>h, GuideOpenedIs
    DEF UsbAttached, UsbDetached, ManualFlowStaysManual, Patrol, SameFlight
  <2> QED
    BY <2>1, <2>2, ConsoleOnly
<1>i. CASE Login \/ Logout
  BY <1>i DEF Login, Logout, ConsoleInv, ConsoleTypeOK, CommandInv, OneCommand, DemoBlocks,
     WaitsOnGround, CapturedIsVerified, TransitIsRunning, PushedIsVerified,
     ManualFlowStaysManual, Patrol
<1>j. CASE FinishLogout
  <2> DEFINE c == Attached(console, NoBundle)
  <2>0. c \in Console /\ c.stage = "IDLE" /\ c.hover = FALSE /\ c.prompt = "none"
    BY <1>0, AttachedIs
  <2> HIDE DEF c
  <2>1. console' = [c EXCEPT !.screen = "MISSION_SETUP"]
    BY <1>j DEF FinishLogout, c
  <2>2. console' \in Console
    BY <2>0, <2>1 DEF Console, Screens
  <2>3. console'.stage = "IDLE" /\ console'.hover = FALSE /\ console'.prompt = "none"
    BY <2>0, <2>1 DEF Console
  <2> QED
    BY <1>j, <2>2, <2>3 DEF FinishLogout, ConsoleInv, ConsoleTypeOK, CommandInv, OneCommand,
       DemoBlocks, WaitsOnGround, CapturedIsVerified, TransitIsRunning, PushedIsVerified,
       ManualFlowStaysManual, Patrol
<1> QED
  BY <1>a, <1>b, <1>c, <1>d, <1>e, <1>f, <1>g, <1>h, <1>i, <1>j DEF Setup

LEMMA CommandKeeps == ConsoleInv /\ Command => ConsoleInv'
<1> SUFFICES ASSUME ConsoleInv,
                    NEW j \in jobs,
                    \/ RefusePatrolCommand(j)
                    \/ CallDji(j)
                    \/ \E ok \in BOOLEAN : FinishUpload(j, ok) \/ FinishStart(j, ok)
             PROVE  ConsoleInv'
  BY DEF Command
<1>0. /\ console \in Console /\ runtime \in {"PROD", "DEMO"} /\ adapter \in Adapter
      /\ jobs = {j} /\ j \in Job /\ j.bundle \in Intact
  BY DEF ConsoleInv, ConsoleTypeOK, CommandInv, OneCommand, CapturedIsVerified
<1>a. CASE RefusePatrolCommand(j)
  BY <1>a DEF RefusePatrolCommand, Ended, ConsoleInv, ConsoleTypeOK, CommandInv, OneCommand,
     DemoBlocks, WaitsOnGround, CapturedIsVerified, TransitIsRunning, PushedIsVerified,
     ManualFlowStaysManual, Patrol
<1>b. CASE CallDji(j)
  <2> DEFINE k == [j EXCEPT !.phase = IF console.uploaded THEN "starting" ELSE "uploading"]
  <2>0. k \in Job /\ k.bundle = j.bundle /\ k.phase # "queued"
    BY <1>0 DEF Job
  <2>1. jobs' = {k} /\ console.stage = "MISSION_READY"
    BY <1>0, <1>b DEF CallDji
  <2> HIDE DEF k
  <2> QED
    BY <1>0, <1>b, <2>0, <2>1 DEF CallDji, ConsoleInv, ConsoleTypeOK, CommandInv, OneCommand,
       DemoBlocks, WaitsOnGround, CapturedIsVerified, TransitIsRunning, PushedIsVerified,
       ManualFlowStaysManual, Patrol
<1>c. ASSUME NEW ok \in BOOLEAN, FinishUpload(j, ok) PROVE ConsoleInv'
  <2>1. jobs' = {} /\ console.stage # "TRANSIT"
    BY <1>0, <1>c DEF FinishUpload, Ended, ConsoleInv, CommandInv, WaitsOnGround
  <2>2. /\ console' \in Console /\ console'.stage # "TRANSIT"
        /\ console'.hover = console.hover /\ console'.prompt = console.prompt
        /\ console'.mode = console.mode
    BY <1>0, <1>c, <2>1, UploadedIs DEF FinishUpload
  <2>3. adapter' \in Adapter /\ adapter'.mission \in Intact
    BY <1>0, <1>c DEF FinishUpload, Pushed, Adapter, Job
  <2> QED
    BY <1>c, <2>1, <2>2, <2>3 DEF FinishUpload, ConsoleInv, ConsoleTypeOK, CommandInv,
        OneCommand,
       DemoBlocks, WaitsOnGround, CapturedIsVerified, TransitIsRunning, PushedIsVerified,
       ManualFlowStaysManual, Patrol
<1>d. ASSUME NEW ok \in BOOLEAN, FinishStart(j, ok) PROVE ConsoleInv'
  <2>1. jobs' = {} /\ console.stage # "TRANSIT"
    BY <1>0, <1>d DEF FinishStart, Ended, ConsoleInv, CommandInv, WaitsOnGround
  <2>2. /\ console' \in Console
        /\ console'.hover = console.hover /\ console'.prompt = console.prompt
        /\ console'.mode = console.mode
    BY <1>0, <1>d, StartedIs DEF FinishStart
  <2>3. /\ adapter' \in Adapter /\ adapter'.mission = adapter.mission
        /\ console'.stage = "TRANSIT" => adapter'.state = "RUNNING"
    BY <1>0, <1>d, <2>1, StartedIs DEF FinishStart, StartAnswered, StartAllowed, Adapter
  <2> QED
    BY <1>d, <2>1, <2>2, <2>3 DEF FinishStart, ConsoleInv, ConsoleTypeOK, CommandInv,
        OneCommand,
       DemoBlocks, WaitsOnGround, CapturedIsVerified, TransitIsRunning, PushedIsVerified,
       ManualFlowStaysManual, Patrol
<1> QED
  BY <1>a, <1>b, <1>c, <1>d

LEMMA OperateKeeps == ConsoleInv /\ Operate => ConsoleInv'
<1> SUFFICES ASSUME ConsoleInv, Operate PROVE ConsoleInv'
  OBVIOUS
<1>0. /\ console \in Console /\ runtime \in {"PROD", "DEMO"} /\ adapter \in Adapter
      /\ ManualFlowStaysManual
  BY DEF ConsoleInv, ConsoleTypeOK
<1>a. CASE ToggleIndoorConfirmation
  <2>1. Untouched
    BY <1>a DEF ToggleIndoorConfirmation
  <2>2. console' \in Console
    BY <1>0, <1>a DEF ToggleIndoorConfirmation, Console
  <2>3. console'.stage = "TRANSIT" => console.stage = "TRANSIT"
    BY <1>0, <1>a DEF ToggleIndoorConfirmation, Console
  <2>4. ManualFlowStaysManual'
    BY <1>0, <1>a DEF ToggleIndoorConfirmation, Console, ManualFlowStaysManual, Patrol
  <2> QED
    BY <2>1, <2>2, <2>3, <2>4, ConsoleOnly
<1>b. ASSUME NEW down \in Conditions, ApprovePreflight(down) PROVE ConsoleInv'
  <2>1. Untouched
    BY <1>b DEF ApprovePreflight
  <2>2. console' \in Console
    BY <1>0, <1>b DEF ApprovePreflight, Console, Stages, Screens
  <2>3. console'.stage = "TRANSIT" => console.stage = "TRANSIT"
    BY <1>0, <1>b DEF ApprovePreflight, Console, Stages, Screens
  <2>4. ManualFlowStaysManual'
    BY <1>0, <1>b DEF ApprovePreflight, Console, Stages, Screens, ManualFlowStaysManual, Patrol
  <2> QED
    BY <2>1, <2>2, <2>3, <2>4, ConsoleOnly
<1>c. ASSUME NEW down \in Conditions, LaunchPatrolCommand(down) PROVE ConsoleInv'
  <2>1. console.bundle \in Intact
    BY <1>0, <1>c, PatrolNeedsBundle DEF LaunchPatrolCommand
  <2>2. PICK j \in Job : j.phase = "queued" /\ j.bundle = console.bundle /\ jobs' = {j}
    BY <1>c, <2>1 DEF LaunchPatrolCommand, CommandInProgress, Job
  <2> QED
    BY <1>c, <2>1, <2>2 DEF LaunchPatrolCommand, ConsoleInv, ConsoleTypeOK, CommandInv,
       OneCommand, DemoBlocks, WaitsOnGround, CapturedIsVerified, TransitIsRunning,
       PushedIsVerified, ManualFlowStaysManual, Patrol
<1>d. ASSUME NEW down \in Conditions, NEW ok \in BOOLEAN, RunPatrolCommand(down, ok)
      PROVE  ConsoleInv'
  <2>1. console.bundle \in Intact
    BY <1>0, <1>d, PatrolNeedsBundle DEF RunPatrolCommand
  <2>2. /\ console' \in Console
        /\ console'.hover = console.hover /\ console'.prompt = console.prompt
        /\ console'.mode = console.mode
    BY <1>0, <1>d, UploadedIs, StartedIs DEF RunPatrolCommand
  <2>3. jobs = {} /\ jobs' = {}
    BY <1>d DEF RunPatrolCommand, ConsoleInv, CommandInv, DemoBlocks
  <2>4. adapter' \in Adapter /\ adapter'.mission \in Intact \cup {NoBundle}
    BY <1>0, <1>d, <2>1
    DEF RunPatrolCommand, StartAnswered, StartAllowed, Pushed, ConsoleInv, PushedIsVerified,
        Adapter
  <2>5. console'.stage = "TRANSIT" => adapter'.state = "RUNNING"
    BY <1>0, <1>d, UploadedIs, StartedIs
    DEF RunPatrolCommand, StartAnswered, StartAllowed, Pushed, Adapter
  <2> QED
    BY <1>d, <2>2, <2>3, <2>4, <2>5 DEF RunPatrolCommand, ConsoleInv, ConsoleTypeOK, CommandInv,
       OneCommand, DemoBlocks, WaitsOnGround, CapturedIsVerified, TransitIsRunning,
       PushedIsVerified, ManualFlowStaysManual, Patrol
<1>e. ASSUME NEW down \in Conditions, ReachHover(down) \/ EnterManualPilot(down)
      PROVE  ConsoleInv'
  <2>1. Untouched
    BY <1>e DEF ReachHover, EnterManualPilot
  <2>2. console' \in Console
    <3>1. CASE ReachHover(down)
      BY <1>0, <3>1 DEF ReachHover, Console, Stages, Screens
    <3>2. CASE EnterManualPilot(down)
      BY <1>0, <3>2 DEF EnterManualPilot, Console, Stages, Screens
    <3> QED
      BY <1>e, <3>1, <3>2
  <2>3. console'.stage = "TRANSIT" => console.stage = "TRANSIT"
    BY <1>0, <1>e DEF ReachHover, EnterManualPilot, Console, Stages, Screens
  <2>4. ManualFlowStaysManual'
    BY <1>0, <1>e DEF ReachHover, EnterManualPilot, Console, Stages, Screens,
        ManualFlowStaysManual, Patrol
  <2> QED
    BY <2>1, <2>2, <2>3, <2>4, ConsoleOnly
<1>f. CASE RequestHold \/ RequestTakeover \/ RequestRth
  <2>1. Untouched
    BY <1>f DEF RequestHold, RequestTakeover, RequestRth
  <2>2. console' \in Console
    <3>1. CASE RequestHold
      BY <1>0, <3>1 DEF RequestHold, Console, Stages, Screens
    <3>2. CASE RequestTakeover
      BY <1>0, <3>2 DEF RequestTakeover, Console, Stages, Screens
    <3>3. CASE RequestRth
      <4>1. PICK s \in Stages : console' = [console EXCEPT !.stage = s, !.screen = "EMERGENCY"]
        BY <1>0, <3>3 DEF RequestRth, Console, Stages
      <4> QED
        BY <1>0, <4>1, MovedIs DEF Screens
    <3> QED
      BY <1>f, <3>1, <3>2, <3>3
  <2>3. console'.stage = "TRANSIT" => console.stage = "TRANSIT"
    BY <1>0, <1>f DEF RequestHold, RequestTakeover, RequestRth, Console, Stages, Screens
  <2>4. ManualFlowStaysManual'
    BY <1>0, <1>f DEF RequestHold, RequestTakeover, RequestRth, Console, Stages, Screens,
        ManualFlowStaysManual, Patrol
  <2> QED
    BY <2>1, <2>2, <2>3, <2>4, ConsoleOnly
<1>g. CASE RequestLand
  <2>0. console.mode # "OUTDOOR_PATROL"
    BY <1>0, <1>g DEF RequestLand, MayLand, SupportsReturnToHome, Patrol
  <2>1. Untouched
    BY <1>g DEF RequestLand
  <2>2. console' \in Console
    <3>1. /\ MainScreen(console) \in Screens /\ "EMERGENCY" \in Screens
          /\ "COMPLETED" \in Stages
      BY DEF MainScreen, Screens, Stages
    <3>2. /\ [console EXCEPT !.screen = "EMERGENCY"] \in Console
          /\ [console EXCEPT !.prompt = "none", !.stage = "COMPLETED",
                             !.screen = MainScreen(console)] \in Console
          /\ \A p \in {"warning", "confirm"} :
                [console EXCEPT !.prompt = p, !.screen = "EMERGENCY"] \in Console
      BY <1>0, <3>1, MovedIs
    <3>3. \/ console' = [console EXCEPT !.screen = "EMERGENCY"]
          \/ \E p \in {"warning", "confirm"} :
                console' = [console EXCEPT !.prompt = p, !.screen = "EMERGENCY"]
          \/ console' = [console EXCEPT !.prompt = "none", !.stage = "COMPLETED",
                                        !.screen = MainScreen(console)]
      BY <1>g DEF RequestLand
    <3> QED
      BY <3>2, <3>3, Zenon
  <2>3. console'.stage = "TRANSIT" => console.stage = "TRANSIT"
    BY <1>0, <1>g DEF RequestLand, Console, Stages, Screens, MainScreen
  <2>4. ManualFlowStaysManual'
    BY <1>0, <1>g, <2>0 DEF RequestLand, Console, Stages, Screens, MainScreen,
        ManualFlowStaysManual, Patrol
  <2> QED
    BY <2>1, <2>2, <2>3, <2>4, ConsoleOnly
<1>h. CASE RunPrimaryEmergencyAction
  <2>0. console.mode # "OUTDOOR_PATROL"
    BY <1>0, <1>h DEF RunPrimaryEmergencyAction, ManualFlowStaysManual, Patrol
  <2>1. Untouched
    BY <1>h DEF RunPrimaryEmergencyAction
  <2>s. MainScreen(console) \in Screens
    BY DEF MainScreen, Screens
  <2>a. ASSUME NEW stage \in Stages, NEW screen \in Screens,
               console' = [console EXCEPT !.prompt = "none", !.stage = stage,
                                          !.screen = screen]
        PROVE  /\ console' \in Console
               /\ console'.stage = stage
               /\ console'.mode = console.mode
    <3>1. console' \in Console
      BY <1>0, <2>a DEF Console
    <3> QED
      BY <1>0, <2>a, <3>1 DEF Console
  <2>b. /\ console' \in Console
        /\ console'.stage # "TRANSIT"
        /\ console'.mode = console.mode
    <3>1. CASE console' = RcOnlyLanding(console)
      BY <1>0, <3>1, RcOnlyLandingIs
    <3>2. CASE console' # RcOnlyLanding(console)
      <4>1. \E stage \in {"HOVER_READY", "COMPLETED"} :
              console' = [console EXCEPT !.prompt = "none", !.stage = stage,
                                         !.screen = MainScreen(console)]
        BY <1>h, <3>2 DEF RunPrimaryEmergencyAction
      <4>2. {"HOVER_READY", "COMPLETED"} \subseteq Stages
        BY DEF Stages
      <4> QED
        BY <4>1, <4>2, <2>a, <2>s
    <3> QED
      BY <3>1, <3>2
  <2>c. ManualFlowStaysManual'
    BY <2>0, <2>b DEF ManualFlowStaysManual, Patrol
  <2> QED
    BY <2>1, <2>b, <2>c, ConsoleOnly
<1>i. CASE RunSecondaryEmergencyAction
  <2>0. console.mode # "OUTDOOR_PATROL"
    BY <1>0, <1>i DEF RunSecondaryEmergencyAction, ManualFlowStaysManual, Patrol
  <2>1. Untouched
    BY <1>i DEF RunSecondaryEmergencyAction
  <2>2. console' \in Console
    BY <1>0, <1>i, RcOnlyLandingIs DEF RunSecondaryEmergencyAction, Console
  <2>3. console'.stage = "TRANSIT" => console.stage = "TRANSIT"
    BY <1>0, <1>i, RcOnlyLandingIs DEF RunSecondaryEmergencyAction, Console
  <2>4. ManualFlowStaysManual'
    BY <1>0, <1>i, RcOnlyLandingIs, <2>0 DEF RunSecondaryEmergencyAction, Console,
        ManualFlowStaysManual, Patrol
  <2> QED
    BY <2>1, <2>2, <2>3, <2>4, ConsoleOnly
<1> QED
  BY <1>a, <1>b, <1>c, <1>d, <1>e, <1>f, <1>g, <1>h, <1>i DEF Operate

LEMMA NextKeeps == ConsoleInv /\ [ConsoleNext]_consoleVars => ConsoleInv'
<1> SUFFICES ASSUME ConsoleInv, [ConsoleNext]_consoleVars PROVE ConsoleInv'
  OBVIOUS
<1>1. CASE ConsoleNext
  BY <1>1, SetupKeeps, CommandKeeps, OperateKeeps DEF ConsoleNext
<1>2. CASE UNCHANGED consoleVars
  BY <1>2 DEF consoleVars, ConsoleInv, ConsoleTypeOK, CommandInv, OneCommand, DemoBlocks,
     WaitsOnGround, CapturedIsVerified, TransitIsRunning, PushedIsVerified,
     ManualFlowStaysManual, Patrol
<1> QED
  BY <1>1, <1>2

\* The coordinator's state keeps the invariant under every order of operator
\* actions, command answers, loads, logouts and USB events.
THEOREM ConsoleInvariant == ConsoleSpec => []ConsoleInv
<1>1. ConsoleInit => ConsoleInv
  BY ConsoleInitInv
<1>2. ConsoleInv /\ [ConsoleNext]_consoleVars => ConsoleInv'
  BY NextKeeps
<1> QED
  BY <1>1, <1>2, PTL DEF ConsoleSpec

\* TRANSIT on the console means a mission that the adapter has seen running.
THEOREM TransitRuns == ConsoleSpec => []TransitIsRunning
<1>1. ConsoleInv => TransitIsRunning
  BY DEF ConsoleInv
<1> QED
  BY <1>1, ConsoleInvariant, PTL

\* Only verified bundles reach the aircraft.
THEOREM OnlyVerifiedPushed == ConsoleSpec => []PushedIsVerified
<1>1. ConsoleInv => PushedIsVerified
  BY DEF ConsoleInv
<1> QED
  BY <1>1, ConsoleInvariant, PTL

\* Hover and landing prompts never reach the patrol mode.
THEOREM ManualStaysManual == ConsoleSpec => []ManualFlowStaysManual
<1>1. ConsoleInv => ManualFlowStaysManual
  BY DEF ConsoleInv
<1> QED
  BY <1>1, ConsoleInvariant, PTL
=============================================================================
