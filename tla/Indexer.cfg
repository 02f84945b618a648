SPECIFICATION CompositionSpec
CONSTANTS
    k1 = k1
    Keys = {k1}
    Subscriptions = {s1}
    MaxAttempts = 2
    DeliveryBatch = 1
    MaxClock = 1
    Setups <- mcSetups
    MaxReorg = 1
    MaxStale = 2
    FinalityLag = 1
    PageLimit = 6
    BatchSize = 2
    CrashDuringRollback = FALSE
INVARIANTS
    NothingLostBehindCursor
    BackfillResumable
PROPERTIES
    TableConverges
    DeliveriesSettle
CHECK_DEADLOCK FALSE
