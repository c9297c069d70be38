SPECIFICATION FairSpec
CONSTANTS
    t1 = t1
    t2 = t2
    wall = wall
    blur = blur
    MaxFrames = 2
    Pictures = {wall, blur}
    Broken = {blur}
    Alerting = {wall}
    Window = 2
    Threads = {t1, t2}
    FaultKinds = {"late", "crash", "age", "expire", "worker", "purge", "lost", "torn"}
    MaxFaults = 1
    Presigned = FALSE
INVARIANTS NeverLost RaisedOnce
PROPERTIES Delivered Settled
