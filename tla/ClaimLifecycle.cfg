SPECIFICATION LifecycleSpec
CONSTANTS
    Address = {op}
    Operator = op
    Roles = {"admin", "pauser"}
    SeededRoles = {"admin", "pauser"}
    None = None
    Holders = {h1}
    Verifiers = {}
    ClaimTypes = {"age"}
    CircuitTypes = {"age"}
    Issuers = {i1}
    PubKeys = {k1, k2}
    FirstKey = k1
    Versions = {1}
    VkBlobs = {b1}
    FirstVk = b1
    Thresholds = {18}
    Nullifiers = {}
    LegacyShapes = {4}
    MAX_BATCH_SIZE = 2
    MAX_CREDENTIAL_TTL_SECS = 2
    MAX_RETIRED_KEYS = 1
    MAX_KEY_RETENTION_SECS = 1
    MAX_PROOF_VALIDITY_SECONDS = 1
    MaxTime = 2
INVARIANTS
    ClaimsAreFresh
    NoClaimByDeadKey
PROPERTIES
    ClaimsBeginAttested
    KeepsLedger
