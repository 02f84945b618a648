SPECIFICATION Spec
CONSTANTS
    Parts = {"store", "proofs", "submissions", "session", "tour", "reads", "guardians"}
    Tabs = {t1, t2}
    Commitments = {c1, c2}
    Passphrases = {p1, p2}
    Guardians = {g1, g2}
    Threshold = 2
    MaxTasks = 2
    MaxSalts = 2
    MaxViews = 2
    MaxProofs = 2
    MaxBackends = 2
    k1 = k1
    k2 = k2
    Creds = {k1, k2}
    TypeOf <- mcTypeOf
    MaxBatch = 2
    SingleBound = 1
    BatchBound = 3
    PollFor = 2
    RpcLag = 1
    MaxTxs = 2
    MaxGenerators = 2
    MaxTime = 3
    Accounts = {a1, a2}
    Extensions = {a1}
    NoAccount = NoAccount
    Proved = {a1}
    Links = {NoAccount, a2}
    MaxConnects = 1
    MaxUpsets = 1
    MaxPending = 2
    TourCreds = {tc1}
    NoCred = NoCred
    Outcomes = {"active", "failed"}
    MaxTourChanges = 2
    MaxTourReads = 1
    Wallets = {w1}
    Readers = {"app", "gate", "hook", "watch"}
    Sources = {"chain", "indexer"}
    Ttl = 2
    RowsTtl = 1
    MaxEntries = 1
    MaxReads = 2
    MaxChanges = 1
    MaxClock = 2
    TotalChoices = {2, 3}
    Recoverable = {rc}
    MaxSets = 2
    MaxReading = 1
    MaxMoves = 5
SYMMETRY mcSymmetry
INVARIANTS
    SavesInTurnAreKept
    MarksAreOnChain
    VerdictIsRead
    PreviewIsEarned
    NothingOlderThanInvalidate
CHECK_DEADLOCK FALSE
