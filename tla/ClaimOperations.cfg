SPECIFICATION OperationsSpec
CONSTANTS
    Address = {op, a1}
    Operator = op
    Roles = {"admin", "pauser"}
    SeededRoles = {"admin", "pauser"}
    None = None
    Holders = {h1}
    Verifiers = {v1}
    ClaimTypes = {"age"}
    CircuitTypes = {"age"}
    Issuers = {i1, i2}
    PubKeys = {k1}
    FirstKey = k1
    Versions = {1}
    VkBlobs = {b1}
    FirstVk = b1
    Thresholds = {18}
    Nullifiers = {n1}
    LegacyShapes = {4}
    MAX_BATCH_SIZE = 2
    MAX_CREDENTIAL_TTL_SECS = 1
    MAX_RETIRED_KEYS = 1
    MAX_KEY_RETENTION_SECS = 1
    MAX_PROOF_VALIDITY_SECONDS = 1
    MaxTime = 1
INVARIANTS
    NullifierSpentOnce
