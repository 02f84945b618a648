SPECIFICATION FairSpec
CONSTANTS
    Parts = {"http", "idempotency", "limits", "proofs", "subscriptions"}
    FailureThreshold = 2
    ResetTimeout = 3
    HttpAttempts = 2
    BaseDelay = 1
    MaxDelay = 2
    IdemKeys = {k1}
    IdemRequests = {r1, r2, r3}
    IdemTtl = 1
    RemoteStore = FALSE
    Limiters = {"memory", "upstash"}
    RequestLimit = 1
    PrimaryWindow = 2
    SecondaryWindow = 3
    MaxStoreFaults = 2
    MaxViews = 1
    MaxProofs = 2
    MaxBackends = 2
    Claims = {c1}
    PageSize = 1
    MaxPages = 2
    EmitInitial = FALSE
    MaxStamps = 3
    MaxFeedFaults = 1
INVARIANTS
    NoReexecution
PROPERTIES
    BreakerRecovers
    RetriesAreServed
    ProofsAreAnswered
    SubscribersCatchUp
CHECK_DEADLOCK FALSE
