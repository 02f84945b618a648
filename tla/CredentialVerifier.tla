-------------------------- MODULE CredentialVerifier --------------------------
(***************************************************************************)
(* contracts/credential_verifier: the lifecycle of the verification keys.  *)
(* A key is registered for a (credential type, version), deprecated, and,  *)
(* once the support window is over, pruned.  Proofs are checked against an *)
(* explicit version or against the latest one.                             *)
(*                                                                         *)
(* A VK blob is a member of VkBlobs, all of which parse; a malformed blob  *)
(* panics and changes nothing.  Entry TTLs and events are left out.        *)
(*                                                                         *)
(* Bound: the ledger clock stops at MaxLedgerTime.                         *)
(***************************************************************************)
EXTENDS Governance, Integers

CONSTANTS
    CircuitTypes, Versions, VkBlobs,
    MAX_PROOF_VALIDITY_SECONDS,
    MaxLedgerTime

ASSUME VerifierAssumption ==
    /\ Versions \subseteq Nat \ {0}  \* version 0 is the "no version" sentinel
    /\ None \notin VkBlobs
    /\ None \notin Int
    /\ MAX_PROOF_VALIDITY_SECONDS \in Nat
    /\ MaxLedgerTime \in Nat

VARIABLES
    ledgerTime,            \* env.ledger().timestamp()
    vk,             \* DataKey::Vk: blob, or None
    latestVersion,  \* DataKey::LatestVersion, 0 when absent
    deprecated,     \* DataKey::DeprecatedVersion: set of <<type, version>>
    deprecatedAt    \* DataKey::DeprecatedAt: timestamp, or None

vkVars == <<vk, latestVersion, deprecated, deprecatedAt>>
vkAllVars == <<govVars, ledgerTime, vkVars>>

VkTypeOK ==
    /\ GovTypeOK
    /\ ledgerTime \in 0..MaxLedgerTime
    /\ vk \in [CircuitTypes \X Versions -> VkBlobs \cup {None}]
    /\ latestVersion \in [CircuitTypes -> Versions \cup {0}]
    /\ deprecated \subseteq CircuitTypes \X Versions
    /\ deprecatedAt \in [CircuitTypes \X Versions -> 0..MaxLedgerTime \cup {None}]

-----------------------------------------------------------------------------
\* The version a call of verify_proof is checked against: Some(v) names it,
\* None stands for the latest one.
ResolveVersion(type, requested) ==
    IF requested = None THEN latestVersion[type] ELSE requested

\* verify_proof gets as far as running the verifier: neither VkNotSet nor
\* VersionDeprecated.
Accepts(type, requested) ==
    LET v == ResolveVersion(type, requested) IN
    /\ v \in Versions
    /\ <<type, v>> \notin deprecated
    /\ vk[<<type, v>>] # None

VkInit ==
    /\ GovInit
    /\ ledgerTime = 0
    /\ vk = [tv \in CircuitTypes \X Versions |-> None]
    /\ latestVersion = [t \in CircuitTypes |-> 0]
    /\ deprecated = {}
    /\ deprecatedAt = [tv \in CircuitTypes \X Versions |-> None]

\* (Faulty: a pruned version can be registered anew.)
SetVkAfterPrune(caller, type, version, blob) ==
    /\ RequireRole(caller, "admin")
    /\ vk[<<type, version>>] = None
    /\ vk' = [vk EXCEPT ![<<type, version>>] = blob]
    /\ latestVersion' = [latestVersion EXCEPT ![type] =
           IF version > @ THEN version ELSE @]
    /\ UNCHANGED <<govVars, ledgerTime, deprecated, deprecatedAt>>

SetVk(caller, type, version, blob) ==
    /\ RequireRole(caller, "admin")
    /\ vk[<<type, version>>] = None
    /\ <<type, version>> \notin deprecated
    /\ vk' = [vk EXCEPT ![<<type, version>>] = blob]
    /\ latestVersion' = [latestVersion EXCEPT ![type] =
           IF version > @ THEN version ELSE @]
    /\ UNCHANGED <<govVars, ledgerTime, deprecated, deprecatedAt>>

\* Deprecating again keeps the first timestamp.
DeprecateVersion(caller, type, version) ==
    /\ RequireRole(caller, "admin")
    /\ vk[<<type, version>>] # None
    /\ deprecated' = deprecated \cup {<<type, version>>}
    /\ deprecatedAt' =
           IF <<type, version>> \in deprecated THEN deprecatedAt
           ELSE [deprecatedAt EXCEPT ![<<type, version>>] = ledgerTime]
    /\ UNCHANGED <<govVars, ledgerTime, vk, latestVersion>>

\* (Faulty: one second before the window is over.)
PruneTooEarly(caller, type, version) ==
    /\ RequireAdmin(caller)
    /\ vk[<<type, version>>] # None
    /\ <<type, version>> \in deprecated
    /\ deprecatedAt[<<type, version>>] # None
    /\ ledgerTime + 1 >= deprecatedAt[<<type, version>>] + MAX_PROOF_VALIDITY_SECONDS
    /\ vk' = [vk EXCEPT ![<<type, version>>] = None]
    /\ UNCHANGED <<govVars, ledgerTime, latestVersion, deprecated, deprecatedAt>>

\* The marker and its timestamp stay, so that the version cannot come back.
PruneVersion(caller, type, version) ==
    /\ RequireAdmin(caller)
    /\ vk[<<type, version>>] # None
    /\ <<type, version>> \in deprecated
    /\ deprecatedAt[<<type, version>>] # None
    /\ ledgerTime >= deprecatedAt[<<type, version>>] + MAX_PROOF_VALIDITY_SECONDS
    /\ vk' = [vk EXCEPT ![<<type, version>>] = None]
    /\ UNCHANGED <<govVars, ledgerTime, latestVersion, deprecated, deprecatedAt>>

\* External: the ledger closes at a later timestamp.
VkTick ==
    /\ ledgerTime < MaxLedgerTime
    /\ ledgerTime' = ledgerTime + 1
    /\ UNCHANGED <<govVars, vkVars>>

VkGovern == GovNext /\ UNCHANGED <<ledgerTime, vkVars>>

VkNext ==
    \/ \E c \in Address, t \in CircuitTypes, v \in Versions :
        \/ \E b \in VkBlobs : SetVk(c, t, v, b)
        \/ DeprecateVersion(c, t, v)
        \/ PruneVersion(c, t, v)
    \/ VkTick
    \/ VkGovern

VkSpec == VkInit /\ [][VkNext]_vkAllVars
=============================================================================
