SPECIFICATION Spec
CONSTANTS
    m1 = m1
    m2 = m2
    b1 = b1
    b2 = b2
    b3 = b3
    NoBuild = NoBuild
    Missions = {m1, m2}
    Builds = {b1, b3}
    missionOf <- MCSeparate
    Threads = {t1}
    Syncs = {s1}
    FaultKinds = {"crash", "torn"}
    MaxFaults = 1
INVARIANT CrashKeepsABundle
