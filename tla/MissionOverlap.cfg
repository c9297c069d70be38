SPECIFICATION Spec
CONSTANTS
    m1 = m1
    m2 = m2
    b1 = b1
    b2 = b2
    b3 = b3
    NoBuild = NoBuild
    Missions = {m1}
    Builds = {b1, b2}
    missionOf <- MCOneMission
    Threads = {t1}
    Syncs = {s1, s2}
    FaultKinds = {}
    MaxFaults = 0
INVARIANT OnlyValidatedInstalled
