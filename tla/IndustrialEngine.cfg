SPECIFICATION FairSpec
CONSTANTS
    s1 = s1
    s2 = s2
    Jobs = {j1, j2}
    Workers = {w1}
    NoJob = NoJob
    Samples = {s1, s2}
    Verdicts <- MCVerdicts
    Requests <- MCRequests
    DefaultThreshold = 1
    MaxImages = 2
    EgoPlanner = FALSE
    FaultKinds = {"storage", "database", "crash"}
    MaxFaults = 1
INVARIANTS ExportsAreWhole FailureIsTold PhotosReachTheWorld
PROPERTIES JobsEnd
CHECK_DEADLOCK FALSE
