SPECIFICATION PhoneSpec
CONSTANTS
    m1 = m1
    m2 = m2
    b1 = b1
    b2 = b2
    b3 = b3
    NoBuild = NoBuild
    Missions = {m1, m2}
    Builds = {b1, b2, b3}
    missionOf <- MCMissionOf
    Threads = {t1, t2}
    Syncs = {s1}
    FaultKinds = {"lost", "fails", "crash", "torn", "logout"}
    MaxFaults = 1
    Flights = {f1, f2}
    MaxEvents = 3
    MaxBatches = 2
    TroubleKinds = {"lost", "answer", "late", "crash", "torn"}
    MaxTroubles = 2
INVARIANTS KeepsLastGood NothingLost OrderKept
PROPERTY GetsTheMission
CHECK_DEADLOCK FALSE
