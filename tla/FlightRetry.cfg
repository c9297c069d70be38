SPECIFICATION UploadFairSpec
CONSTANTS
    Flights = {f1, f2}
    MaxEvents = 2
    MaxBatches = 2
    TroubleKinds = {"lost"}
    MaxTroubles = 1
PROPERTY Retried
CHECK_DEADLOCK FALSE
