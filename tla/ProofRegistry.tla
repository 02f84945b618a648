---------------------------- MODULE ProofRegistry ----------------------------
(***************************************************************************)
(* contracts/proof_registry, composed with the IssuerRegistry and the      *)
(* CredentialVerifier it calls.  The registry caches "holder satisfies     *)
(* credential type until expiry"; gated protocols read the cache.          *)
(*                                                                         *)
(* A submission is a claim: who issued it, the key its proof carries, the  *)
(* expiry, the VK version and the threshold in its public inputs.  Holders *)
(* submit proofs the verifier finds valid; an invalid proof panics and     *)
(* changes nothing.  The registry's governance is its own; the other two   *)
(* contracts are run by one fixed operator (their own handover is the      *)
(* business of Governance).  Events, revocation reasons, upgrade and       *)
(* migrate_data are left out; entry TTLs are the subject of ClaimStorage.  *)
(*                                                                         *)
(* Bound: the ledger clock stops at MaxTime.                               *)
(***************************************************************************)
EXTENDS Governance, Integers, FiniteSets, Sequences

CONSTANTS
    Operator,                  \* runs the issuer registry and the verifier
    Holders, Verifiers,        \* claim holders; readers they delegate to
    ClaimTypes,                \* credential types a holder can claim
    CircuitTypes,              \* types the verifier has a circuit for
    Issuers, PubKeys, Versions, VkBlobs, Thresholds,
    Nullifiers,                \* pairs (application context, nullifier)
    LegacyShapes,              \* record layouts an earlier version left behind
    MAX_BATCH_SIZE, MAX_CREDENTIAL_TTL_SECS,
    MAX_RETIRED_KEYS, MAX_KEY_RETENTION_SECS, MAX_PROOF_VALIDITY_SECONDS,
    MaxTime

ASSUME ClaimAssumption ==
    /\ "pauser" \in SeededRoles
    /\ Operator \in Address
    /\ CircuitTypes \subseteq ClaimTypes \cup {"aggregate"}
    /\ "aggregate" \notin ClaimTypes
    /\ None \notin Issuers
    /\ Issuers # None
    /\ Thresholds \subseteq Nat
    /\ LegacyShapes \subseteq {4, 6}
    /\ MAX_CREDENTIAL_TTL_SECS \in Nat
    /\ MaxTime \in Nat

VARIABLES
    now,
    paused,       \* DataKey::Paused
    proofs,       \* DataKey::Proof(holder, type): a record, or None
    delegations,  \* DataKey::Delegation(holder, verifier, type): expiry, or None
    nullifiers,   \* DataKey::Nullifier entries
    \* the governance of the two contracts the registry calls, and their state
    opAdmin, opPendingAdmin, opRoles,
    issuer, retired, currentKeyRevoked, issuerList, issuerCount, metadata,
    vk, latestVersion, deprecated, deprecatedAt

issuerVars ==
    <<opAdmin, opPendingAdmin, opRoles, issuer, retired, currentKeyRevoked,
      issuerList, issuerCount, metadata>>
verifierVars == <<vk, latestVersion, deprecated, deprecatedAt>>
claimVars == <<paused, proofs, delegations, nullifiers>>
vars == <<govVars, now, claimVars, issuerVars, verifierVars>>

IR == INSTANCE IssuerRegistry WITH
          Address <- {Operator}, Roles <- {"admin"}, SeededRoles <- {"admin"},
          admin <- opAdmin, pendingAdmin <- opPendingAdmin, roles <- opRoles,
          CredTypes <- ClaimTypes

CV == INSTANCE CredentialVerifier WITH
          Address <- {Operator}, Roles <- {"admin"}, SeededRoles <- {"admin"},
          admin <- opAdmin, pendingAdmin <- opPendingAdmin, roles <- opRoles,
          ledgerTime <- now, MaxLedgerTime <- MaxTime

\* An absent entry is no issuer record, and no key.
ASSUME KeyAssumption == None \notin PubKeys /\ None \notin IR!IssuerRecord

\* extract_threshold reads one from the public inputs of these types only, and
\* extract_threshold_from_aggregate from fewer.
ThresholdTypes == {"age", "income", "funds", "accreditation", "employment"}
AggregateThresholdTypes == {"age", "income", "funds"}

\* What circuits/aggregate_proof packs: two credentials, in this order.
AggregateSlots == <<"kyc", "age">>

RevokeAllTypes ==
    {"kyc", "age", "income", "jurisdiction", "funds", "accreditation",
     "employment"}

CurrentShape == 7  \* fields of ProofRecord

ProofRecord ==
    [verifiedAt: 0..MaxTime, expiry: Nat, threshold: Thresholds \cup {None},
     revoked: BOOLEAN, issuer: Issuers \cup {None},
     vkVersion: Versions \cup {0}, shape: LegacyShapes \cup {CurrentShape}]

Expiries == 1 .. (MaxTime + MAX_CREDENTIAL_TTL_SECS)

Claim ==
    [issuer: Issuers, key: PubKeys, expiry: Expiries,
     version: Versions \cup {None}, threshold: Thresholds]

\* The arguments of an aggregate submission, one per position, and what its
\* proof carries: the keys of the two credentials, the threshold the age one
\* was proved for and the date it was proved at.
AggregateEntry == [type: ClaimTypes, issuer: Issuers, expiry: Expiries]
AggregateProof == [kycKey: PubKeys, ageKey: PubKeys,
                   threshold: Thresholds, date: Thresholds]

TypeOK ==
    /\ GovTypeOK
    /\ now \in 0..MaxTime
    /\ paused \in BOOLEAN
    /\ proofs \in [Holders \X ClaimTypes -> ProofRecord \cup {None}]
    /\ delegations \in
           [Holders \X Verifiers \X ClaimTypes -> Nat \cup {None}]
    /\ nullifiers \subseteq Nullifiers
    /\ IR!TypeOK
    /\ CV!VkTypeOK

-----------------------------------------------------------------------------
(* Reads *)

\* Deserialising a record of an older layout panics: nothing can be read.
Readable(h, t) == proofs[<<h, t>>] # None /\ proofs[<<h, t>>].shape = CurrentShape

IssuerIsTrusted(trusted, i) == trusted # None => i \in trusted

\* The verdict of is_verified; trusted is a set of issuers, or None for any.
IsVerified(h, t, trusted) ==
    /\ Readable(h, t)
    /\ ~proofs[<<h, t>>].revoked
    /\ proofs[<<h, t>>].expiry > now
    /\ IssuerIsTrusted(trusted, proofs[<<h, t>>].issuer)

CheckClaim(h, t, min, trusted) ==
    /\ IsVerified(h, t, trusted)
    /\ min # None =>
           (IF proofs[<<h, t>>].threshold = None THEN 0
            ELSE proofs[<<h, t>>].threshold) >= min

CheckDelegatedVerification(h, v, t) ==
    /\ delegations[<<h, v, t>>] # None
    /\ delegations[<<h, v, t>>] > now
    /\ IsVerified(h, t, None)

-----------------------------------------------------------------------------
(* Submissions *)

\* (Faulty: off by one at the far end.)
LongExpiry(expiry) ==
    now < expiry /\ expiry <= now + MAX_CREDENTIAL_TTL_SECS + 1

ValidExpiry(expiry) ==
    now < expiry /\ expiry <= now + MAX_CREDENTIAL_TTL_SECS

\* (Faulty: the key in the proof is not compared.)
AnyKeyAccepted(c, t) == IR!IsValidIssuer(c.issuer, t)

\* (Faulty: whether the issuer is trusted for the type is not asked.)
AnyIssuerAccepted(c, t) == IR!IsValidIssuerKey(c.issuer, c.key)

IssuerAccepted(c, t) ==
    IR!IsValidIssuer(c.issuer, t) /\ IR!IsValidIssuerKey(c.issuer, c.key)

\* What submit_proof and each entry of submit_proofs must pass.
Accepted(c, t) ==
    /\ ValidExpiry(c.expiry)
    /\ IssuerAccepted(c, t)
    /\ t \in CircuitTypes
    /\ CV!Accepts(t, c.version)

NewRecord(c, version, threshold) ==
    [verifiedAt |-> now, expiry |-> c.expiry, threshold |-> threshold,
     revoked |-> FALSE, issuer |-> c.issuer, vkVersion |-> version,
     shape |-> CurrentShape]

SubmittedRecord(c, t) ==
    NewRecord(c, IF c.version = None THEN 0 ELSE c.version,
              IF t \in ThresholdTypes THEN c.threshold ELSE None)

\* submit_proof overwrites whatever record the holder had for the type.
SubmitProof(h, t, c) ==
    /\ ~paused
    /\ Accepted(c, t)
    /\ proofs' = [proofs EXCEPT ![<<h, t>>] = SubmittedRecord(c, t)]
    /\ UNCHANGED <<govVars, now, paused, delegations, nullifiers, issuerVars,
                   verifierVars>>

RecordNullifier(n) ==
    /\ ~paused
    /\ n \notin nullifiers
    /\ nullifiers' = nullifiers \cup {n}
    /\ UNCHANGED <<govVars, now, paused, proofs, delegations, issuerVars,
                   verifierVars>>

\* (Faulty: whether the nullifier is spent is not asked.)
SubmitReusingNullifier(h, t, c, n) ==
    /\ ~paused
    /\ nullifiers' = nullifiers \cup {n}
    /\ Accepted(c, t)
    /\ proofs' = [proofs EXCEPT ![<<h, t>>] = SubmittedRecord(c, t)]
    /\ UNCHANGED <<govVars, now, paused, delegations, issuerVars, verifierVars>>

\* The nullifier is recorded first; a rejected proof reverts that too.
SubmitProofWithNullifier(h, t, c, n) ==
    /\ ~paused
    /\ n \notin nullifiers
    /\ nullifiers' = nullifiers \cup {n}
    /\ Accepted(c, t)
    /\ proofs' = [proofs EXCEPT ![<<h, t>>] = SubmittedRecord(c, t)]
    /\ UNCHANGED <<govVars, now, paused, delegations, issuerVars, verifierVars>>

\* (Faulty: the batch path forgets the pause.)
SubmitBatchWhilePaused(h, batch) ==
    /\ DOMAIN batch # {}
    /\ Cardinality(DOMAIN batch) <= MAX_BATCH_SIZE
    /\ \A t \in DOMAIN batch : Accepted(batch[t], t)
    /\ proofs' = [ht \in DOMAIN proofs |->
           IF ht[1] = h /\ ht[2] \in DOMAIN batch
           THEN SubmittedRecord(batch[ht[2]], ht[2]) ELSE proofs[ht]]
    /\ UNCHANGED <<govVars, now, paused, delegations, nullifiers, issuerVars,
                   verifierVars>>

\* submit_proofs: a batch maps distinct types to claims (a duplicate type
\* panics); one rejected claim reverts them all.
SubmitProofs(h, batch) ==
    /\ ~paused
    /\ DOMAIN batch # {}
    /\ Cardinality(DOMAIN batch) <= MAX_BATCH_SIZE
    /\ \A t \in DOMAIN batch : Accepted(batch[t], t)
    /\ proofs' = [ht \in DOMAIN proofs |->
           IF ht[1] = h /\ ht[2] \in DOMAIN batch
           THEN SubmittedRecord(batch[ht[2]], ht[2]) ELSE proofs[ht]]
    /\ UNCHANGED <<govVars, now, paused, delegations, nullifiers, issuerVars,
                   verifierVars>>

\* aggregate_field_count: how far the loop over the entries advances.
FieldCount(type) ==
    CASE type = "age" -> 67
      [] type \in {"income", "funds"} -> 66
      [] OTHER -> 65

AggregateOffset(entries, n) == IF n = 1 THEN 0 ELSE FieldCount(entries[1].type)

\* pubkey_from_public_inputs: a read that is not aligned with a credential
\* returns bytes no issuer ever registered as a key.
AggregateKey(proof, offset) ==
    CASE offset = 0  -> proof.kycKey
      [] offset = 65 -> proof.ageKey
      [] OTHER       -> None

\* (Faulty: reads the field before the threshold.)
AggregateThresholdFieldBefore(type, proof) ==
    IF type \in AggregateThresholdTypes THEN proof.date ELSE None

\* extract_threshold_from_aggregate.  At the second credential, field 66 past
\* the offset is threshold_years and field 65 the date; at the first they
\* belong to the second's commitment and key, whose value says nothing: the
\* entry after it is misaligned and the submission fails.
AggregateThreshold(type, proof) ==
    CASE type = "age" -> proof.threshold
      [] type \in AggregateThresholdTypes \ {"age"} -> proof.date
      [] OTHER -> None

\* submit_aggregate_proof: the caller names the types.  The code checks their
\* number against the proof's, and the key found at each entry's offset.
SubmitAggregateProof(h, entries, proof) ==
    /\ ~paused
    /\ "aggregate" \in CircuitTypes
    /\ CV!Accepts("aggregate", None)
    /\ Len(entries) = Len(AggregateSlots)
    /\ Len(entries) \in 2..MAX_BATCH_SIZE
    /\ \A n \in DOMAIN entries :
        LET e == entries[n] IN
        /\ ValidExpiry(e.expiry)
        /\ IR!IsValidIssuer(e.issuer, e.type)
        /\ IR!IsValidIssuerKey(
               e.issuer, AggregateKey(proof, AggregateOffset(entries, n)))
    /\ proofs' = [ht \in DOMAIN proofs |->
           LET mine == {n \in DOMAIN entries : ht = <<h, entries[n].type>>}
               last == CHOOSE n \in mine : \A m \in mine : m <= n
               e == entries[last]
           IN IF mine = {} THEN proofs[ht]
              ELSE NewRecord(e, 0, AggregateThreshold(e.type, proof))]
    /\ UNCHANGED <<govVars, now, paused, delegations, nullifiers, issuerVars,
                   verifierVars>>

-----------------------------------------------------------------------------
(* Delegation, revocation, migration *)

\* Delegation and revocation do not ask whether intake is paused.
GrantVerification(h, v, t, expiry) ==
    /\ ValidExpiry(expiry)
    /\ delegations' = [delegations EXCEPT ![<<h, v, t>>] = expiry]
    /\ UNCHANGED <<govVars, now, paused, proofs, nullifiers, issuerVars,
                   verifierVars>>

RevokeVerification(h, v, t) ==
    /\ delegations' = [delegations EXCEPT ![<<h, v, t>>] = None]
    /\ UNCHANGED <<govVars, now, paused, proofs, nullifiers, issuerVars,
                   verifierVars>>

RevokeProof(h, t) ==
    /\ proofs' = [proofs EXCEPT ![<<h, t>>] = None]
    /\ UNCHANGED <<govVars, now, paused, delegations, nullifiers, issuerVars,
                   verifierVars>>

RevokeAll(h) ==
    /\ proofs' = [ht \in DOMAIN proofs |->
           IF ht[1] = h /\ ht[2] \in RevokeAllTypes THEN None ELSE proofs[ht]]
    /\ UNCHANGED <<govVars, now, paused, delegations, nullifiers, issuerVars,
                   verifierVars>>

\* (Faulty: an issuer that lost its registration can still revoke.)
RevokeUntrusted(i, h, t) ==
    /\ Readable(h, t)
    /\ proofs[<<h, t>>].issuer = i
    /\ proofs' = [proofs EXCEPT ![<<h, t>>].revoked = TRUE]
    /\ UNCHANGED <<govVars, now, paused, delegations, nullifiers, issuerVars,
                   verifierVars>>

\* Only the issuer on the record, and only while it is itself trusted.
Revoke(i, h, t) ==
    /\ IR!IsValidIssuer(i, t)
    /\ Readable(h, t)
    /\ proofs[<<h, t>>].issuer = i
    /\ proofs' = [proofs EXCEPT ![<<h, t>>].revoked = TRUE]
    /\ UNCHANGED <<govVars, now, paused, delegations, nullifiers, issuerVars,
                   verifierVars>>

\* Only records of exactly four fields are rewritten; any other is left as is.
MigrateRecord(caller, h, t) ==
    /\ RequireRole(caller, "admin")
    /\ proofs[<<h, t>>] # None
    /\ proofs' = IF proofs[<<h, t>>].shape = 4
                 THEN [proofs EXCEPT ![<<h, t>>] =
                          [@ EXCEPT !.issuer = None, !.vkVersion = 0,
                                    !.shape = CurrentShape]]
                 ELSE proofs
    /\ UNCHANGED <<govVars, now, paused, delegations, nullifiers, issuerVars,
                   verifierVars>>

SetPaused(caller, value) ==
    /\ RequireRole(caller, "pauser")
    /\ paused' = value
    /\ UNCHANGED <<govVars, now, proofs, delegations, nullifiers, issuerVars,
                   verifierVars>>

Pause(caller) == SetPaused(caller, TRUE)
Unpause(caller) == SetPaused(caller, FALSE)

-----------------------------------------------------------------------------
(* The system *)

\* Records an earlier version of the contract left in storage: its four-field
\* layout has no issuer, its six-field one lacks only the reason.
LegacyRecord ==
    {r \in [verifiedAt: {0}, expiry: Expiries,
            threshold: Thresholds \cup {None}, revoked: BOOLEAN,
            issuer: Issuers \cup {None}, vkVersion: {0}, shape: LegacyShapes] :
        r.shape = 4 <=> r.issuer = None}

Init ==
    /\ GovInit
    /\ paused = FALSE
    /\ proofs \in [Holders \X ClaimTypes -> LegacyRecord \cup {None}]
    /\ delegations = [hvt \in Holders \X Verifiers \X ClaimTypes |-> None]
    /\ nullifiers = {}
    /\ IR!Init
    /\ CV!VkInit

SubmitStep ==
    \E h \in Holders :
        \/ \E t \in ClaimTypes, c \in Claim : SubmitProof(h, t, c)
        \/ \E ts \in SUBSET ClaimTypes :
               \E batch \in [ts -> Claim] : SubmitProofs(h, batch)
        \/ /\ "aggregate" \in CircuitTypes
           /\ \E es \in [1..2 -> AggregateEntry], p \in AggregateProof :
                  SubmitAggregateProof(h, es, p)

NullifierStep ==
    \E n \in Nullifiers :
        \/ RecordNullifier(n)
        \/ \E h \in Holders, t \in ClaimTypes, c \in Claim :
               SubmitProofWithNullifier(h, t, c, n)

DelegationStep ==
    \E h \in Holders, v \in Verifiers, t \in ClaimTypes :
        \/ \E e \in Expiries : GrantVerification(h, v, t, e)
        \/ RevokeVerification(h, v, t)

RevocationStep ==
    \E h \in Holders :
        \/ \E t \in ClaimTypes : RevokeProof(h, t)
        \/ RevokeAll(h)
        \/ \E i \in Issuers, t \in ClaimTypes : Revoke(i, h, t)

AdminStep ==
    \E c \in Address :
        \/ \E h \in Holders, t \in ClaimTypes : MigrateRecord(c, h, t)
        \/ Pause(c)
        \/ Unpause(c)

\* The operator runs the two contracts the registry reads from.
RegistryStep ==
    /\ \E i \in Issuers :
        \/ \E k \in PubKeys :
            \/ \E ts \in SUBSET ClaimTypes : IR!RegisterIssuer(Operator, i, k, ts)
            \/ \E w \in IR!Windows : IR!RotateIssuerKey(Operator, i, k, w)
            \/ IR!RevokeIssuerKey(Operator, i, k)
        \/ IR!RevokeIssuer(Operator, i)
        \/ IR!SetIssuerMetadata(Operator, i)
    /\ UNCHANGED <<govVars, claimVars, verifierVars>>

VerifierStep ==
    /\ \E t \in CircuitTypes, v \in Versions :
        \/ \E b \in VkBlobs : CV!SetVk(Operator, t, v, b)
        \/ CV!DeprecateVersion(Operator, t, v)
        \/ CV!PruneVersion(Operator, t, v)
    /\ UNCHANGED <<govVars, claimVars, issuerVars>>

\* External: the ledger closes at a later timestamp.
Tick ==
    /\ now < MaxTime
    /\ now' = now + 1
    /\ UNCHANGED <<govVars, claimVars, issuerVars, verifierVars>>

Govern == GovNext /\ UNCHANGED <<now, claimVars, issuerVars, verifierVars>>

Next ==
    \/ SubmitStep
    \/ NullifierStep
    \/ DelegationStep
    \/ RevocationStep
    \/ AdminStep
    \/ RegistryStep
    \/ VerifierStep
    \/ Tick
    \/ Govern

Spec == Init /\ [][Next]_vars

-----------------------------------------------------------------------------
(* Properties *)

\* A claim becomes valid, or changes while valid, only by a submission made now,
\* through an open intake, for an issuer the registry trusts for that type, and
\* for at most MAX_CREDENTIAL_TTL_SECS; or by migrating a four-field record,
\* whose issuer is then unknown.  In particular a revoked or expired claim never
\* comes back by itself, whatever the three contracts are asked to do.
ClaimsBeginAttested ==
    [][\A h \in Holders, t \in ClaimTypes :
        (/\ IsVerified(h, t, None)'
         /\ ~IsVerified(h, t, None) \/ proofs'[<<h, t>>] # proofs[<<h, t>>]) =>
            \/ /\ ~paused
               /\ proofs'[<<h, t>>].verifiedAt = now
               /\ proofs'[<<h, t>>].expiry <= now + MAX_CREDENTIAL_TTL_SECS
               /\ proofs'[<<h, t>>].issuer \in Issuers
               /\ IR!IsValidIssuer(proofs'[<<h, t>>].issuer, t)
            \/ /\ proofs[<<h, t>>] # None
               /\ proofs[<<h, t>>].shape = 4
               /\ proofs'[<<h, t>>].issuer = None
               /\ proofs'[<<h, t>>].expiry = proofs[<<h, t>>].expiry]_vars

\* Only time, the holder, or the issuer that attested the claim (while trusted)
\* ends it: no admin, operator, other issuer or other holder can, nor a pause,
\* a key rotation or a VK deprecation.
ClaimsEndByTheirParties ==
    [][\A h \in Holders, t \in ClaimTypes :
        IsVerified(h, t, None) /\ ~IsVerified(h, t, None)' =>
            \/ now' # now
            \/ proofs'[<<h, t>>] = None
            \/ /\ proofs'[<<h, t>>] = [proofs[<<h, t>>] EXCEPT !.revoked = TRUE]
               /\ proofs[<<h, t>>].issuer # None
               /\ IR!IsValidIssuer(proofs[<<h, t>>].issuer, t)]_vars

\* A pause stops intake: nothing is attested and no nullifier is spent, while
\* revocation and delegation go on.
PauseStopsIntake ==
    [][paused =>
        /\ nullifiers' = nullifiers
        /\ \A h \in Holders, t \in ClaimTypes :
            proofs'[<<h, t>>] # proofs[<<h, t>>] =>
                \/ proofs'[<<h, t>>] = None
                \/ /\ proofs[<<h, t>>] # None
                   /\ proofs'[<<h, t>>].verifiedAt = proofs[<<h, t>>].verifiedAt]_vars

\* A claim that passes a trusted-issuer filter was attested less than
\* MAX_CREDENTIAL_TTL_SECS ago; a delegation never reaches further ahead.
ClaimsAreFresh ==
    /\ \A h \in Holders, t \in ClaimTypes :
        IsVerified(h, t, Issuers) =>
            /\ proofs[<<h, t>>].verifiedAt <= now
            /\ now < proofs[<<h, t>>].verifiedAt + MAX_CREDENTIAL_TTL_SECS
    /\ \A hvt \in Holders \X Verifiers \X ClaimTypes :
        delegations[hvt] # None =>
            delegations[hvt] <= now + MAX_CREDENTIAL_TTL_SECS

-----------------------------------------------------------------------------
(* The abstract specification *)

\* What a reader can tell of a record.
ClaimOf(r) ==
    IF r = None THEN None
    ELSE [issuer |-> r.issuer, since |-> r.verifiedAt, until |-> r.expiry,
          says |-> r.threshold, revoked |-> r.revoked,
          sealed |-> r.shape # CurrentShape]

LedgerClaims == [ht \in Holders \X ClaimTypes |-> ClaimOf(proofs[ht])]

LedgerTrust ==
    {it \in Issuers \X ClaimTypes : IR!IsValidIssuer(it[1], it[2])}

CL == INSTANCE ClaimLedger WITH
          Ceiling <- MAX_CREDENTIAL_TTL_SECS, open <- ~paused,
          trusted <- LedgerTrust, claims <- LedgerClaims, grants <- delegations

\* An absent entry is no record, and no claim.
ASSUME RecordAssumption == None \notin ProofRecord /\ None \notin CL!LedgerClaim

\* The three contracts together are a ledger of claims: every call anyone makes
\* of any of them, an upgrade's records and the clock included, is one step of
\* ClaimLedger or none, so that nothing else can ever happen to a claim.
KeepsLedger == CL!LedgerSpec

-----------------------------------------------------------------------------
(***************************************************************************)
(* The state a deployment of the contracts reaches before anybody submits  *)
(* a claim: every issuer registered for every type with key FirstKey and   *)
(* version 1 of every circuit registered.  Runs start here, so that their  *)
(* bounds are spent on what can go wrong afterwards.                       *)
(***************************************************************************)
CONSTANTS FirstKey, FirstVk

Deployed ==
    /\ admin = Operator
    /\ pendingAdmin = None
    /\ roles = [r \in Roles |-> IF r \in SeededRoles THEN Operator ELSE None]
    /\ now = 0
    /\ paused = FALSE
    /\ proofs \in [Holders \X ClaimTypes -> LegacyRecord \cup {None}]
    /\ delegations = [hvt \in Holders \X Verifiers \X ClaimTypes |-> None]
    /\ nullifiers = {}
    /\ opAdmin = Operator
    /\ opPendingAdmin = None
    /\ opRoles = [admin |-> Operator]
    /\ issuer = [i \in Issuers |->
           [pubkey |-> FirstKey, credentialTypes |-> ClaimTypes,
            revoked |-> FALSE]]
    /\ retired = [i \in Issuers |-> {}]
    /\ currentKeyRevoked = {}
    /\ \E s \in [1..Cardinality(Issuers) -> Issuers] :
           /\ \A i \in Issuers : \E n \in DOMAIN s : s[n] = i
           /\ issuerList = s
    /\ issuerCount = Len(issuerList)
    /\ metadata = {}
    /\ vk = [tv \in CircuitTypes \X Versions |->
                IF tv[2] = 1 THEN FirstVk ELSE None]
    /\ latestVersion = [t \in CircuitTypes |-> 1]
    /\ deprecated = {}
    /\ deprecatedAt = [tv \in CircuitTypes \X Versions |-> None]
=============================================================================
