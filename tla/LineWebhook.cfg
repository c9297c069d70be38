CONSTANTS
    l1 = l1
    a1 = a1
    e1 = e1
    e2 = e2
    e3 = e3
    LineUsers = {l1}
    WebUsers = {u1}
    Sites = {s1}
    Attempts = {a1}
    NoOne = NoOne
    Events = {e1, e2, e3}
    Threads = {t1, t2}
    Mixes <- MCMixes
    lineOf <- MCLines
    aboutOf <- MCAbout
    NoThread = NoThread
    NoEvent = NoEvent
    MaxFaults = 1
SPECIFICATION FairSpec
INVARIANTS EffectOnce
PROPERTIES OwedIsSettled
CHECK_DEADLOCK FALSE
