SPECIFICATION FlightSpec
CONSTANTS
    b1 = b1
    b2 = b2
    broken = broken
    NoBundle = NoBundle
    MaxLoads = 1
    Contexts <- MCContexts
    Bundles <- MCBundles
    Intact <- MCIntact
    Conditions <- MCConditions
INVARIANTS FlyingIsCleared PushedIsVerified
PROPERTIES SafetyOutranksMission ResumesWhatWasCut CommandsEnd
