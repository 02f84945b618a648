SPECIFICATION ProtocolsSpec
CONSTANTS
    Parts = {"issuance", "server", "issuing", "page", "status", "request", "sharing"}
    Inquiries = {q1}
    Expiries = {0, 2}
    MaxPolls = 2
    MaxEvents = 2
    MaxHours = 2
    Visitors = {a, b}
    Options <- mcOptions
    ChallengeTtl = 1
    SessionTtl = 1
    MaxChallenges = 2
    MaxPosts = 2
    MaxRecords = 1
    MaxServerTime = 2
    MaxRestarts = 1
    Address = {op}
    Operator = op
    Roles = {"admin"}
    SeededRoles = {"admin"}
    None = None
    Issuers = {i1, i2}
    PubKeys = {k1, k2, k3}
    CredTypes = {"kyc", "age"}
    MAX_RETIRED_KEYS = 1
    MAX_KEY_RETENTION_SECS = 1
    MaxTime = 1
    TenantIssuer = i1
    TenantKey = k1
    DefaultIssuer = i2
    EnvKey = k2
    Provider = "vault"
    CacheTtl = 1
    Subjects = {h1}
    MaxItems = 2
    MaxUpheavals = 2
    AskedTypes = {"kyc", "age", "funds", "jurisdiction", "employment"}
    Registry <- mcRegistry
    DemoIssuer = "i1"
    Gates <- mcGates
    PresetTypes = {"kyc", "age"}
    HandmadeLinks <- mcLinks
    Nothing = Nothing
    MaxOpen = 1
    MaxFlips = 1
    MaxUpsets = 2
INVARIANTS
    SessionsAreEarned
    SignedByRegistered
    WebhookIssuesOnce
    UsedLinkStaysClosed
    LinkIsProved
    SharedVerdictsAreEarned
CHECK_DEADLOCK FALSE
