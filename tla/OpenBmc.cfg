CONSTANTS
    Commands = {c1}
    Users = {u1}
    MaxLeases = 1
    FormerOutcomes = {"succeeded", "failed"}
    MaxFaults = 2
SPECIFICATION FairSpec
INVARIANTS DispatchedOnce SuccessIsReal
PROPERTIES CommandsSettle ResultsLeave
