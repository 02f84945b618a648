SPECIFICATION DeployedSpec
CONSTANTS
    Address = {op}
    Operator = op
    Roles = {"admin", "pauser"}
    SeededRoles = {"admin", "pauser"}
    None = None
    Holders = {h1, h2}
    Verifiers = {}
    ClaimTypes = {"age"}
    CircuitTypes = {"age"}
    Issuers = {i1}
    PubKeys = {k1}
    FirstKey = k1
    Versions = {1}
    VkBlobs = {b1}
    FirstVk = b1
    Thresholds = {17, 18}
    Nullifiers = {}
    LegacyShapes = {4}
    MAX_BATCH_SIZE = 2
    MAX_CREDENTIAL_TTL_SECS = 1
    MAX_RETIRED_KEYS = 1
    MAX_KEY_RETENTION_SECS = 1
    MAX_PROOF_VALIDITY_SECONDS = 1
    MaxTime = 1
    RequiredType = "age"
    MinThreshold = 18
    TokenConfigured = TRUE
    InitialWallet = 2
INVARIANTS
    Solvent
    ExitAlwaysOpen
