CONSTANTS
    MaxEvents = 0
    MaxReadings = 2
    Window = 2
    BatchSize = 1
    MaxSent = 1
    Threads = {t1, t2}
    DeviceConfigured = FALSE
    TroubleKinds = {"lost", "late", "crash", "disk", "skew"}
    MaxTroubles = 1
    MaxActs = 1
SPECIFICATION FeedSpec

PROPERTIES ObservedMovesOn
