SPECIFICATION PartsSpec
CONSTANTS
    Parts = {"governance", "storage", "integrity", "api", "exports", "service", "user", "audit", "apps"}
    Address = {a1, a2, a3}
    Roles = {"admin", "pauser"}
    SeededRoles = {"admin"}
    None = None
    MaxTerms = 4
    SECONDS_PER_LEDGER = 2
    CloseTimes = {2, 3}
    PROOF_BUMP_THRESHOLD = 2
    PROOF_TTL = 3
    MAX_CREDENTIAL_TTL_SECS = 11
    MinPersistentTtl = 3
    MaxEntryTtl = 10
    MaxLedger = 8
    NoEntry = NoEntry
    RecordKeys = {c1, c2}
    MaxId = 3
    RecordExpiries = {1}
    SampleSize = 2
    RecordThresholds = {0}
    NoThreshold = 0
    Absent = Absent
    RowIds = {1, 2, 3}
    RowLedgers = {1, 2}
    PageSize = 1
    NoRow = NoRow
    Admins = {a1, a2}
    MaxJobs = 2
    Chunks = 2
    SlotCap = 1
    MaxDeaths = 1
    MaxRetries = 2
    ServiceJobs = {j1, j2, p}
    Probe = p
    Runners = {w1, w2}
    BacklogThreshold = 2
    MinJobsForRate = 2
    MaxTraces = 2
    UserJobs = {x1, x2}
    LinkLife = 1
    MaxUserFaults = 1
    MaxUserRestarts = 1
    MaxAnswers = 1
    Requests = {r1, r2}
    Callbacks = {e1}
    MaxQueue = 2
    MaxFaults = 1
    MaxReissues = 1
    MaxReports = 1
    SubmittedApps = {x, y}
    Servers = {v1, v2}
    MaxRows = 1
    MaxMillis = 2
    MaxDirReviews = 1
    MaxDirUpsets = 1
    NoEntryYet = NoEntryYet
INVARIANTS
    FormerRootHasNoOldRole
    FirstWriteCoversExpiry
    SampledInTurn
    PagesCoverUntouched
    DownloadsAreWhole
    LinksOfferedDownload
    FileIsHistory
    ReceivedIsKept
CHECK_DEADLOCK FALSE
