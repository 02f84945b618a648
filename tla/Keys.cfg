SPECIFICATION KeysSpec
CONSTANTS
    Address = {root}
    Roles = {"admin"}
    SeededRoles = {"admin"}
    None = None
    Issuers = {i1}
    PubKeys = {k1, k2, k3, k4}
    CredTypes = {"kyc"}
    MAX_RETIRED_KEYS = 2
    MAX_KEY_RETENTION_SECS = 2
    MaxTime = 3
    Versions = {1, 2, 3}
    VkBlobs = {b1, b2}
    CircuitTypes = {"kyc"}
    MaxLedgerTime = 4
    MAX_PROOF_VALIDITY_SECONDS = 2
INVARIANTS
    WindowHonoured
    KilledStaysDead
    VkImmutable
    SupportWindowKept
