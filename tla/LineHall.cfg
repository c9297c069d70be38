CONSTANTS
    NFrames = 2
    Drifts <- MCDrifts
    Readings <- MCReadings
    Deployments <- MCDeployments
    MaxFaults <- MCMaxFaults
    MaxAge = 1
    FutureSkew = 1
    PersonAge = 1
    CropTtl = 2
    QueueSize = 1
    MaxTime = 4
    MaxReplies = 1
    LineUsers = {l1, l2}
    WebUsers = {u1, u2}
    Sites = {s1}
    Attempts = {a1, a2, a3}
    NoOne = NoOne
    i1 = i1
    o1 = o1
    o2 = o2
    o3 = o3
    r1 = r1
    r2 = r2
    Incidents = {i1}
    Operators <- MCOperators
    Readers <- MCReaders
    Parts <- MCParts
    DayLength = 3
    PictureCache = 2
    StateCache = 1
    BuildTime = 1
SPECIFICATION HallSpec
INVARIANTS LinkIsConfirmed OneAtATime NothingOld NoOlderSheet PicturesLast PlanTells
CHECK_DEADLOCK FALSE
