------------------------- MODULE MCMissionDelivery --------------------------
\* Two missions; the first one may be materialized twice.
EXTENDS MissionDelivery, TLC

CONSTANTS m1, m2, b1, b2, b3

MCMissionOf == b1 :> m1 @@ b2 :> m1 @@ b3 :> m2
MCOneMission == b1 :> m1 @@ b2 :> m1
MCSeparate == b1 :> m1 @@ b3 :> m2
=============================================================================
