----------------------------- MODULE ClaimProofs -----------------------------
(***************************************************************************)
(* Theorems about ProofRegistry composed with the two contracts it calls,  *)
(* for every set of holders, types, issuers, keys, versions and records    *)
(* left behind, and every ceiling on expiries.                             *)
(***************************************************************************)
EXTENDS ClaimHistory, TLAPS

\* What a call that stores claims of holder h for the types ts leaves behind.
Stores(h, ts) ==
    /\ ~paused
    /\ now' = now
    /\ proofs' = [ht \in DOMAIN proofs |-> proofs'[ht]]
    /\ delegations' = delegations
    /\ \A ht \in DOMAIN proofs :
        IF ht[1] = h /\ ht[2] \in ts
        THEN /\ proofs'[ht] \in ProofRecord
             /\ proofs'[ht].verifiedAt = now
             /\ proofs'[ht].shape = CurrentShape
             /\ ~proofs'[ht].revoked
             /\ now < proofs'[ht].expiry
             /\ proofs'[ht].expiry <= now + MAX_CREDENTIAL_TTL_SECS
             /\ proofs'[ht].issuer \in Issuers
             /\ IR!IsValidIssuer(proofs'[ht].issuer, ht[2])
        ELSE proofs'[ht] = proofs[ht]

\* The types the claims part of the proof needs.
ClaimTypeOK ==
    /\ now \in 0..MaxTime
    /\ proofs \in [Holders \X ClaimTypes -> ProofRecord \cup {None}]
    /\ delegations \in [Holders \X Verifiers \X ClaimTypes -> Nat \cup {None}]

-----------------------------------------------------------------------------
\* The record of an accepted claim.
LEMMA NewRecordType ==
  ASSUME ClaimTypeOK, NEW c, c.issuer \in Issuers, c.expiry \in Nat,
         NEW version \in Versions \cup {0},
         NEW threshold \in Thresholds \cup {None}
  PROVE  /\ NewRecord(c, version, threshold) \in ProofRecord
         /\ NewRecord(c, version, threshold).verifiedAt = now
         /\ NewRecord(c, version, threshold).shape = CurrentShape
         /\ ~NewRecord(c, version, threshold).revoked
         /\ NewRecord(c, version, threshold).expiry = c.expiry
         /\ NewRecord(c, version, threshold).issuer = c.issuer
BY DEF NewRecord, ProofRecord, ClaimTypeOK

LEMMA SubmittedRecordType ==
  ASSUME ClaimTypeOK, NEW c \in Claim, NEW t \in ClaimTypes
  PROVE  /\ SubmittedRecord(c, t) \in ProofRecord
         /\ SubmittedRecord(c, t).verifiedAt = now
         /\ SubmittedRecord(c, t).shape = CurrentShape
         /\ ~SubmittedRecord(c, t).revoked
         /\ SubmittedRecord(c, t).expiry = c.expiry
         /\ SubmittedRecord(c, t).issuer = c.issuer
<1>1. /\ c.issuer \in Issuers /\ c.expiry \in Nat /\ c.threshold \in Thresholds
      /\ c.version \in Versions \cup {None}
  BY ClaimAssumption DEF ClaimAssumption, Claim, Expiries
<1>2. (IF c.version = None THEN 0 ELSE c.version) \in Versions \cup {0}
  BY <1>1
<1>3. (IF t \in ThresholdTypes THEN c.threshold ELSE None)
        \in Thresholds \cup {None}
  BY <1>1
<1> QED BY <1>1, <1>2, <1>3, NewRecordType DEF SubmittedRecord

\* submit_proof and submit_proof_with_nullifier.
LEMMA SubmitStores ==
  ASSUME ClaimTypeOK, NEW h \in Holders, NEW t \in ClaimTypes, NEW c \in Claim,
         ~paused, now' = now, delegations' = delegations, Accepted(c, t),
         proofs' = [proofs EXCEPT ![<<h, t>>] = SubmittedRecord(c, t)]
  PROVE  Stores(h, {t})
<1>1. /\ ValidExpiry(c.expiry) /\ IR!IsValidIssuer(c.issuer, t)
      /\ c.issuer \in Issuers
  BY DEF Accepted, IssuerAccepted, Claim
<1>2. /\ DOMAIN proofs = Holders \X ClaimTypes
      /\ proofs' = [ht \in DOMAIN proofs |-> proofs'[ht]]
  BY DEF ClaimTypeOK
<1>3. proofs'[<<h, t>>] = SubmittedRecord(c, t)
  BY <1>2
<1>4. ASSUME NEW ht \in DOMAIN proofs, ht[1] = h, ht[2] = t
      PROVE  ht = <<h, t>>
  BY <1>2, <1>4
<1>5. ASSUME NEW ht \in DOMAIN proofs, ~(ht[1] = h /\ ht[2] = t)
      PROVE  proofs'[ht] = proofs[ht]
  BY <1>2, <1>5
<1> QED BY <1>1, <1>2, <1>3, <1>4, <1>5, SubmittedRecordType
        DEF Stores, ValidExpiry

LEMMA SubmitProofsStores ==
  ASSUME ClaimTypeOK, NEW h \in Holders, NEW ts \in SUBSET ClaimTypes,
         NEW batch \in [ts -> Claim], SubmitProofs(h, batch)
  PROVE  Stores(h, ts)
<1>1. ASSUME NEW ht \in DOMAIN proofs, ht[1] = h, ht[2] \in ts
      PROVE  /\ proofs'[ht] = SubmittedRecord(batch[ht[2]], ht[2])
             /\ batch[ht[2]] \in Claim
             /\ ht[2] \in ClaimTypes
             /\ Accepted(batch[ht[2]], ht[2])
  BY <1>1 DEF SubmitProofs
<1>2. ASSUME NEW ht \in DOMAIN proofs, ~(ht[1] = h /\ ht[2] \in ts)
      PROVE  proofs'[ht] = proofs[ht]
  BY <1>2 DEF SubmitProofs
<1>3. ASSUME NEW ht \in DOMAIN proofs, ht[1] = h, ht[2] \in ts
      PROVE  /\ proofs'[ht] \in ProofRecord
             /\ proofs'[ht].verifiedAt = now
             /\ proofs'[ht].shape = CurrentShape
             /\ ~proofs'[ht].revoked
             /\ now < proofs'[ht].expiry
             /\ proofs'[ht].expiry <= now + MAX_CREDENTIAL_TTL_SECS
             /\ proofs'[ht].issuer \in Issuers
             /\ IR!IsValidIssuer(proofs'[ht].issuer, ht[2])
  <2> DEFINE c == batch[ht[2]]
             t == ht[2]
  <2>1. c \in Claim /\ t \in ClaimTypes /\ proofs'[ht] = SubmittedRecord(c, t)
    BY <1>1, <1>3
  <2>2. ValidExpiry(c.expiry) /\ IR!IsValidIssuer(c.issuer, t)
    BY <1>1, <1>3 DEF Accepted, IssuerAccepted
  <2>3. c.issuer \in Issuers
    BY <2>1 DEF Claim
  <2> HIDE DEF c, t
  <2>4. /\ SubmittedRecord(c, t) \in ProofRecord
        /\ SubmittedRecord(c, t).verifiedAt = now
        /\ SubmittedRecord(c, t).shape = CurrentShape
        /\ ~SubmittedRecord(c, t).revoked
        /\ SubmittedRecord(c, t).expiry = c.expiry
        /\ SubmittedRecord(c, t).issuer = c.issuer
    BY <2>1, SubmittedRecordType
  <2> QED BY <2>1, <2>2, <2>3, <2>4 DEF ValidExpiry, t
<1>4. /\ ~paused /\ now' = now /\ delegations' = delegations
      /\ proofs' = [ht \in DOMAIN proofs |-> proofs'[ht]]
  BY DEF SubmitProofs
<1> QED BY <1>2, <1>3, <1>4 DEF Stores

\* Whatever types the caller names, an entry is stored for an issuer trusted for
\* the type it names.
LEMMA SubmitAggregateStores ==
  ASSUME ClaimTypeOK, NEW h \in Holders, NEW es \in [1..2 -> AggregateEntry],
         NEW p \in AggregateProof, SubmitAggregateProof(h, es, p)
  PROVE  Stores(h, {es[1].type, es[2].type})
<1> DEFINE Mine(ht) == {n \in DOMAIN es : ht = <<h, es[n].type>>}
           Last(ht) == CHOOSE n \in Mine(ht) : \A m \in Mine(ht) : m <= n
<1>1. /\ ~paused /\ now' = now /\ delegations' = delegations
      /\ proofs' = [ht \in DOMAIN proofs |-> proofs'[ht]]
  BY DEF SubmitAggregateProof
<1>2. \A ht \in DOMAIN proofs :
        proofs'[ht] = IF Mine(ht) = {} THEN proofs[ht]
                      ELSE NewRecord(es[Last(ht)], 0,
                               AggregateThreshold(es[Last(ht)].type, p))
  BY DEF SubmitAggregateProof
<1>3. DOMAIN es = 1..2
  OBVIOUS
<1>4. ASSUME NEW ht \in DOMAIN proofs, Mine(ht) # {}
      PROVE  Last(ht) \in Mine(ht)
  <2>1. \E n \in Mine(ht) : \A m \in Mine(ht) : m <= n
    <3>1. Mine(ht) \subseteq 1..2
      BY <1>3
    <3> HIDE DEF Mine
    <3>2. CASE 2 \in Mine(ht)
      BY <3>1, <3>2
    <3>3. CASE 2 \notin Mine(ht)
      BY <1>4, <3>1, <3>3
    <3> QED BY <3>2, <3>3
  <2> HIDE DEF Mine
  <2> QED BY <2>1
<1>5. ASSUME NEW ht \in DOMAIN proofs,
             ht[1] = h, ht[2] \in {es[1].type, es[2].type}
      PROVE  Mine(ht) # {}
  <2>1. ht = <<ht[1], ht[2]>>
    BY DEF ClaimTypeOK
  <2>2. PICK n \in 1..2 : ht[2] = es[n].type
    BY <1>5
  <2> QED BY <1>3, <1>5, <2>1, <2>2
<1>6. ASSUME NEW ht \in DOMAIN proofs,
             ~(ht[1] = h /\ ht[2] \in {es[1].type, es[2].type})
      PROVE  Mine(ht) = {}
  BY <1>3, <1>6
<1>7. ASSUME NEW ht \in DOMAIN proofs, NEW n \in Mine(ht),
             proofs'[ht] = NewRecord(es[n], 0, AggregateThreshold(es[n].type, p))
      PROVE  /\ proofs'[ht] \in ProofRecord
             /\ proofs'[ht].verifiedAt = now
             /\ proofs'[ht].shape = CurrentShape
             /\ ~proofs'[ht].revoked
             /\ now < proofs'[ht].expiry
             /\ proofs'[ht].expiry <= now + MAX_CREDENTIAL_TTL_SECS
             /\ proofs'[ht].issuer \in Issuers
             /\ IR!IsValidIssuer(proofs'[ht].issuer, ht[2])
  <2> DEFINE e == es[n]
             k == AggregateThreshold(e.type, p)
  <2>1. /\ n \in 1..2 /\ ht = <<h, e.type>>
        /\ e \in AggregateEntry
    BY <1>3
  <2>2. e.issuer \in Issuers /\ e.expiry \in Nat
    BY <2>1, ClaimAssumption DEF ClaimAssumption, AggregateEntry, Expiries
  <2>3. k \in Thresholds \cup {None}
    BY DEF AggregateThreshold, AggregateProof
  <2>4. ValidExpiry(e.expiry) /\ IR!IsValidIssuer(e.issuer, e.type)
    BY <1>3, <2>1 DEF SubmitAggregateProof
  <2>5. proofs'[ht] = NewRecord(e, 0, k)
    BY <1>7
  <2> HIDE DEF e, k, Mine
  <2>6. /\ NewRecord(e, 0, k) \in ProofRecord
        /\ NewRecord(e, 0, k).verifiedAt = now
        /\ NewRecord(e, 0, k).shape = CurrentShape
        /\ ~NewRecord(e, 0, k).revoked
        /\ NewRecord(e, 0, k).expiry = e.expiry
        /\ NewRecord(e, 0, k).issuer = e.issuer
    BY <2>2, <2>3, NewRecordType
  <2> QED BY <2>1, <2>2, <2>4, <2>5, <2>6 DEF ValidExpiry
<1> HIDE DEF Mine, Last
<1> QED BY <1>1, <1>2, <1>4, <1>5, <1>6, <1>7 DEF Stores

-----------------------------------------------------------------------------
(* What a step can do to the record of a holder h for a type t.            *)

\* A submission stored it.
Attested(h, t) ==
    /\ ~paused
    /\ proofs'[<<h, t>>] \in ProofRecord
    /\ proofs'[<<h, t>>].verifiedAt = now
    /\ proofs'[<<h, t>>].shape = CurrentShape
    /\ ~proofs'[<<h, t>>].revoked
    /\ now < proofs'[<<h, t>>].expiry
    /\ proofs'[<<h, t>>].expiry <= now + MAX_CREDENTIAL_TTL_SECS
    /\ proofs'[<<h, t>>].issuer \in Issuers
    /\ IR!IsValidIssuer(proofs'[<<h, t>>].issuer, t)

\* The issuer on it, trusted, revoked it.
RevokedByIssuer(h, t) ==
    /\ proofs[<<h, t>>] # None
    /\ proofs[<<h, t>>].issuer \in Issuers
    /\ IR!IsValidIssuer(proofs[<<h, t>>].issuer, t)
    /\ proofs'[<<h, t>>] = [proofs[<<h, t>>] EXCEPT !.revoked = TRUE]

\* An admin rewrote a four-field record.
Migrated(h, t) ==
    /\ proofs[<<h, t>>] # None
    /\ proofs[<<h, t>>].shape = 4
    /\ proofs'[<<h, t>>] =
           [proofs[<<h, t>>] EXCEPT !.issuer = None, !.vkVersion = 0,
                                    !.shape = CurrentShape]

RecordChange(h, t) ==
    \/ proofs'[<<h, t>>] = proofs[<<h, t>>]
    \/ proofs'[<<h, t>>] = None
    \/ Attested(h, t)
    \/ RevokedByIssuer(h, t)
    \/ Migrated(h, t)

\* The records and the clock: either time passes or records change, not both.
RecordsStep ==
    /\ proofs' = [ht \in Holders \X ClaimTypes |-> proofs'[ht]]
    /\ \/ now' = now
       \/ now < MaxTime /\ now' = now + 1 /\ proofs' = proofs
    /\ \A h \in Holders, t \in ClaimTypes : RecordChange(h, t)

DelegationsKept(hvt) == delegations'[hvt] = delegations[hvt]

DelegationGranted(hvt) ==
    /\ delegations'[hvt] \in Nat
    /\ delegations'[hvt] <= now + MAX_CREDENTIAL_TTL_SECS

DelegationsStep ==
    /\ delegations' \in [Holders \X Verifiers \X ClaimTypes -> Nat \cup {None}]
    /\ \A hvt \in Holders \X Verifiers \X ClaimTypes :
        \/ DelegationsKept(hvt)
        \/ delegations'[hvt] = None
        \/ DelegationGranted(hvt)

LEMMA StoresChangesRecords ==
  ASSUME ClaimTypeOK, NEW h \in Holders, NEW ts, Stores(h, ts)
  PROVE  RecordsStep /\ DelegationsStep
<1>1. DOMAIN proofs = Holders \X ClaimTypes
  BY DEF ClaimTypeOK
<1>2. ASSUME NEW g \in Holders, NEW t \in ClaimTypes
      PROVE  RecordChange(g, t)
  <2>1. <<g, t>> \in DOMAIN proofs
    BY <1>1
  <2>2. CASE g = h /\ t \in ts
    BY <2>1, <2>2 DEF Stores, RecordChange, Attested
  <2>3. CASE ~(g = h /\ t \in ts)
    BY <2>1, <2>3 DEF Stores, RecordChange
  <2> QED BY <2>2, <2>3
<1>3. DelegationsStep
  BY DEF ClaimTypeOK, Stores, DelegationsStep, DelegationsKept
<1>4. now' = now /\ proofs' = [ht \in Holders \X ClaimTypes |-> proofs'[ht]]
  BY <1>1 DEF Stores
<1> QED BY <1>2, <1>3, <1>4 DEF RecordsStep

\* Steps that leave the claims and the clock alone.
LEMMA QuietStep ==
  ASSUME ClaimTypeOK, proofs' = proofs, delegations' = delegations,
         now' = now \/ (now < MaxTime /\ now' = now + 1)
  PROVE  RecordsStep /\ DelegationsStep
<1>1. proofs' = [ht \in Holders \X ClaimTypes |-> proofs'[ht]]
  BY DEF ClaimTypeOK
<1>2. DelegationsStep
  BY DEF ClaimTypeOK, DelegationsStep, DelegationsKept
<1> QED BY <1>1, <1>2 DEF RecordsStep, RecordChange

LEMMA SubmissionChanges ==
  ASSUME ClaimTypeOK, SubmitStep \/ NullifierStep
  PROVE  RecordsStep /\ DelegationsStep
<1>1. ASSUME NEW h \in Holders, NEW t \in ClaimTypes, NEW c \in Claim,
             SubmitProof(h, t, c)
      PROVE  RecordsStep /\ DelegationsStep
  <2>1. Stores(h, {t})
    BY <1>1, SubmitStores DEF SubmitProof
  <2> QED BY <2>1, StoresChangesRecords
<1>2. ASSUME NEW h \in Holders, NEW ts \in SUBSET ClaimTypes,
             NEW batch \in [ts -> Claim], SubmitProofs(h, batch)
      PROVE  RecordsStep /\ DelegationsStep
  <2>1. Stores(h, ts)
    BY <1>2, SubmitProofsStores
  <2> QED BY <2>1, StoresChangesRecords
<1>3. ASSUME NEW h \in Holders, NEW es \in [1..2 -> AggregateEntry],
             NEW p \in AggregateProof, SubmitAggregateProof(h, es, p)
      PROVE  RecordsStep /\ DelegationsStep
  <2>1. Stores(h, {es[1].type, es[2].type})
    BY <1>3, SubmitAggregateStores
  <2> QED BY <2>1, StoresChangesRecords
<1>4. ASSUME NEW n \in Nullifiers, RecordNullifier(n)
      PROVE  RecordsStep /\ DelegationsStep
  BY <1>4, QuietStep DEF RecordNullifier
<1>5. ASSUME NEW n \in Nullifiers, NEW h \in Holders, NEW t \in ClaimTypes,
             NEW c \in Claim, SubmitProofWithNullifier(h, t, c, n)
      PROVE  RecordsStep /\ DelegationsStep
  <2>1. Stores(h, {t})
    BY <1>5, SubmitStores DEF SubmitProofWithNullifier
  <2> QED BY <2>1, StoresChangesRecords
<1> QED BY <1>1, <1>2, <1>3, <1>4, <1>5 DEF SubmitStep, NullifierStep

LEMMA DelegationChanges ==
  ASSUME ClaimTypeOK, DelegationStep
  PROVE  RecordsStep /\ DelegationsStep
<1>1. PICK h \in Holders, v \in Verifiers, t \in ClaimTypes :
        \/ \E e \in Expiries : GrantVerification(h, v, t, e)
        \/ RevokeVerification(h, v, t)
  BY DEF DelegationStep
<1>2. RecordsStep
  <2>1. now' = now /\ proofs' = proofs
    BY <1>1 DEF GrantVerification, RevokeVerification
  <2> QED BY <2>1 DEF RecordsStep, RecordChange, ClaimTypeOK
<1>3. ASSUME NEW e \in Expiries, GrantVerification(h, v, t, e)
      PROVE  DelegationsStep
  <2>1. e \in Nat /\ e <= now + MAX_CREDENTIAL_TTL_SECS
    BY <1>3, ClaimAssumption
       DEF ClaimAssumption, Expiries, GrantVerification, ValidExpiry
  <2>2. delegations' = [delegations EXCEPT ![<<h, v, t>>] = e]
    BY <1>3 DEF GrantVerification
  <2> QED BY <2>1, <2>2 DEF ClaimTypeOK, DelegationsStep, DelegationsKept,
                            DelegationGranted
<1>4. ASSUME RevokeVerification(h, v, t)
      PROVE  DelegationsStep
  <2>1. delegations' = [delegations EXCEPT ![<<h, v, t>>] = None]
    BY <1>4 DEF RevokeVerification
  <2> QED BY <2>1 DEF ClaimTypeOK, DelegationsStep, DelegationsKept
<1> QED BY <1>1, <1>2, <1>3, <1>4

LEMMA RevocationChanges ==
  ASSUME ClaimTypeOK, RevocationStep
  PROVE  RecordsStep /\ DelegationsStep
<1>1. PICK h \in Holders :
        \/ \E t \in ClaimTypes : RevokeProof(h, t)
        \/ RevokeAll(h)
        \/ \E i \in Issuers, t \in ClaimTypes : Revoke(i, h, t)
  BY DEF RevocationStep
<1>2. now' = now /\ delegations' = delegations
  BY <1>1 DEF RevokeProof, RevokeAll, Revoke
<1>3. DelegationsStep
  BY <1>2 DEF ClaimTypeOK, DelegationsStep, DelegationsKept
<1>4. ASSUME NEW t \in ClaimTypes, RevokeProof(h, t)
      PROVE  RecordsStep
  <2>1. proofs' = [proofs EXCEPT ![<<h, t>>] = None]
    BY <1>4 DEF RevokeProof
  <2> QED BY <1>2, <2>1 DEF ClaimTypeOK, RecordsStep, RecordChange
<1>5. ASSUME RevokeAll(h)
      PROVE  RecordsStep
  <2>1. proofs' = [ht \in DOMAIN proofs |->
           IF ht[1] = h /\ ht[2] \in RevokeAllTypes THEN None ELSE proofs[ht]]
    BY <1>5 DEF RevokeAll
  <2> QED BY <1>2, <2>1 DEF ClaimTypeOK, RecordsStep, RecordChange
<1>6. ASSUME NEW i \in Issuers, NEW t \in ClaimTypes, Revoke(i, h, t)
      PROVE  RecordsStep
  <2>1. /\ proofs[<<h, t>>] # None /\ proofs[<<h, t>>].issuer = i
        /\ IR!IsValidIssuer(i, t)
        /\ proofs' = [proofs EXCEPT ![<<h, t>>].revoked = TRUE]
    BY <1>6 DEF Revoke, Readable
  <2>2. RevokedByIssuer(h, t)
    BY <2>1 DEF ClaimTypeOK, RevokedByIssuer
  <2>3. ASSUME NEW g \in Holders, NEW u \in ClaimTypes
        PROVE  RecordChange(g, u)
    <3>1. CASE g = h /\ u = t
      BY <2>2, <3>1 DEF RecordChange
    <3>2. CASE ~(g = h /\ u = t)
      BY <2>1, <3>2 DEF ClaimTypeOK, RecordChange
    <3> QED BY <3>1, <3>2
  <2>4. proofs' = [ht \in Holders \X ClaimTypes |-> proofs'[ht]]
    BY <2>1 DEF ClaimTypeOK
  <2> QED BY <1>2, <2>3, <2>4 DEF RecordsStep
<1> QED BY <1>1, <1>3, <1>4, <1>5, <1>6

LEMMA AdminChanges ==
  ASSUME ClaimTypeOK, AdminStep
  PROVE  RecordsStep /\ DelegationsStep
<1>1. ASSUME NEW c \in Address, NEW h \in Holders, NEW t \in ClaimTypes,
             MigrateRecord(c, h, t)
      PROVE  RecordsStep /\ DelegationsStep
  <2>1. now' = now /\ delegations' = delegations /\ proofs[<<h, t>>] # None
    BY <1>1 DEF MigrateRecord
  <2>2. CASE proofs[<<h, t>>].shape # 4
    <3>1. proofs' = proofs
      BY <1>1, <2>2 DEF MigrateRecord
    <3> QED BY <2>1, <3>1, QuietStep
  <2>3. CASE proofs[<<h, t>>].shape = 4
    <3>1. proofs' = [proofs EXCEPT ![<<h, t>>] =
                        [@ EXCEPT !.issuer = None, !.vkVersion = 0,
                                  !.shape = CurrentShape]]
      BY <1>1, <2>3 DEF MigrateRecord
    <3>2. Migrated(h, t)
      BY <2>1, <2>3, <3>1 DEF ClaimTypeOK, Migrated
    <3>3. ASSUME NEW g \in Holders, NEW u \in ClaimTypes
          PROVE  RecordChange(g, u)
      <4>1. CASE g = h /\ u = t
        BY <3>2, <4>1 DEF RecordChange
      <4>2. CASE ~(g = h /\ u = t)
        BY <3>1, <4>2 DEF ClaimTypeOK, RecordChange
      <4> QED BY <4>1, <4>2
    <3>4. proofs' = [ht \in Holders \X ClaimTypes |-> proofs'[ht]]
      BY <3>1 DEF ClaimTypeOK
    <3>5. DelegationsStep
      BY <2>1 DEF ClaimTypeOK, DelegationsStep, DelegationsKept
    <3> QED BY <2>1, <3>3, <3>4, <3>5 DEF RecordsStep
  <2> QED BY <2>2, <2>3
<1>2. ASSUME NEW c \in Address, NEW v, SetPaused(c, v)
      PROVE  RecordsStep /\ DelegationsStep
  BY <1>2, QuietStep DEF SetPaused
<1> QED BY <1>1, <1>2 DEF AdminStep, Pause, Unpause

LEMMA OperatorChanges ==
  ASSUME ClaimTypeOK, RegistryStep \/ VerifierStep
  PROVE  RecordsStep /\ DelegationsStep
<1>1. proofs' = proofs /\ delegations' = delegations
  BY DEF RegistryStep, VerifierStep, claimVars
<1>2. ASSUME RegistryStep
      PROVE  now' = now
  BY <1>2 DEF RegistryStep, IR!RegisterIssuer, IR!RotateIssuerKey,
     IR!RevokeIssuerKey, IR!RevokeCurrentKey, IR!RevokeRetiredKey,
     IR!RevokeIssuer, IR!SetIssuerMetadata
<1>3. ASSUME VerifierStep
      PROVE  now' = now
  BY <1>3 DEF VerifierStep, CV!SetVk, CV!DeprecateVersion, CV!PruneVersion
<1> QED BY <1>1, <1>2, <1>3, QuietStep

LEMMA StepChanges ==
  ASSUME ClaimTypeOK, [Next]_vars
  PROVE  RecordsStep /\ DelegationsStep
<1>1. CASE Tick
  BY <1>1, QuietStep DEF Tick, claimVars
<1>2. CASE Govern
  BY <1>2, QuietStep DEF Govern, claimVars
<1>3. CASE UNCHANGED vars
  BY <1>3, QuietStep DEF vars, claimVars
<1> QED BY <1>1, <1>2, <1>3, SubmissionChanges, DelegationChanges,
           RevocationChanges, AdminChanges, OperatorChanges DEF Next

-----------------------------------------------------------------------------
(* The inductive invariant.                                                *)

\* A record of the current layout that names an issuer was stored by a
\* submission, so its expiry lies within the ceiling of its verification.  A
\* migrated record names none and an older layout is not read, and neither
\* becomes the other: this is what makes the freshness of claims inductive.
RecordsFresh ==
    \A h \in Holders, t \in ClaimTypes :
        /\ proofs[<<h, t>>] # None
        /\ proofs[<<h, t>>].shape = CurrentShape
        /\ proofs[<<h, t>>].issuer # None
        =>
        /\ proofs[<<h, t>>].verifiedAt <= now
        /\ proofs[<<h, t>>].expiry <=
               proofs[<<h, t>>].verifiedAt + MAX_CREDENTIAL_TTL_SECS

DelegationsFresh ==
    \A hvt \in Holders \X Verifiers \X ClaimTypes :
        delegations[hvt] # None =>
            delegations[hvt] <= now + MAX_CREDENTIAL_TTL_SECS

ClaimInv == ClaimTypeOK /\ RecordsFresh /\ DelegationsFresh

LEMMA ClaimInit == Init => ClaimInv
<1> SUFFICES ASSUME Init
             PROVE  ClaimInv
  OBVIOUS
<1>1. now = 0
  BY DEF Init, IR!Init
<1>2. LegacyRecord \subseteq ProofRecord
  <2>1. Expiries \subseteq Nat
    BY DEF Expiries
  <2>2. 0 \in 0..MaxTime
    BY ClaimAssumption DEF ClaimAssumption
  <2> QED BY <2>1, <2>2 DEF LegacyRecord, ProofRecord
<1>3. ClaimTypeOK
  BY <1>1, <1>2, ClaimAssumption DEF ClaimAssumption, Init, ClaimTypeOK
<1>4. ASSUME NEW h \in Holders, NEW t \in ClaimTypes,
             proofs[<<h, t>>] # None
      PROVE  proofs[<<h, t>>].shape # CurrentShape
  <2>1. proofs[<<h, t>>] \in LegacyRecord
    BY <1>4 DEF Init
  <2>2. proofs[<<h, t>>].shape \in LegacyShapes
    BY <2>1 DEF LegacyRecord
  <2> QED BY <2>2, ClaimAssumption DEF ClaimAssumption, CurrentShape
<1> QED BY <1>3, <1>4 DEF Init, ClaimInv, RecordsFresh, DelegationsFresh

LEMMA RecordsTypeStep ==
  ASSUME ClaimTypeOK, RecordsStep, DelegationsStep
  PROVE  ClaimTypeOK'
<1>1. now' \in 0..MaxTime
  BY ClaimAssumption DEF ClaimAssumption, ClaimTypeOK, RecordsStep
<1>2. ASSUME NEW h \in Holders, NEW t \in ClaimTypes
      PROVE  proofs'[<<h, t>>] \in ProofRecord \cup {None}
  <2>1. RecordChange(h, t)
    BY DEF RecordsStep
  <2>2. proofs[<<h, t>>] \in ProofRecord \cup {None}
    BY DEF ClaimTypeOK
  <2>3. CASE RevokedByIssuer(h, t)
    BY <2>2, <2>3 DEF RevokedByIssuer, ProofRecord
  <2>4. CASE Migrated(h, t)
    BY <2>2, <2>4 DEF Migrated, ProofRecord
  <2> QED BY <2>1, <2>2, <2>3, <2>4 DEF RecordChange, Attested
<1>3. proofs' \in [Holders \X ClaimTypes -> ProofRecord \cup {None}]
  BY <1>2 DEF RecordsStep
<1> QED BY <1>1, <1>3 DEF ClaimTypeOK, DelegationsStep

LEMMA RecordsFreshStep ==
  ASSUME ClaimInv, RecordsStep, ClaimTypeOK'
  PROVE  RecordsFresh'
<1> SUFFICES ASSUME NEW h \in Holders, NEW t \in ClaimTypes,
                    proofs'[<<h, t>>] # None,
                    proofs'[<<h, t>>].shape = CurrentShape,
                    proofs'[<<h, t>>].issuer # None
             PROVE  /\ proofs'[<<h, t>>].verifiedAt <= now'
                    /\ proofs'[<<h, t>>].expiry <=
                         proofs'[<<h, t>>].verifiedAt + MAX_CREDENTIAL_TTL_SECS
  BY DEF RecordsFresh
<1>1. /\ RecordChange(h, t)
      /\ now \in Int /\ now' \in Int /\ now <= now'
  BY ClaimAssumption DEF ClaimAssumption, RecordsStep, ClaimInv, ClaimTypeOK
<1>2. proofs[<<h, t>>] \in ProofRecord \cup {None}
  BY DEF ClaimInv, ClaimTypeOK
<1>3. MAX_CREDENTIAL_TTL_SECS \in Nat
  BY ClaimAssumption DEF ClaimAssumption
<1>4. CASE proofs'[<<h, t>>] = proofs[<<h, t>>]
  <2>1. proofs[<<h, t>>] \in ProofRecord
    BY <1>2, <1>4
  <2>2. proofs[<<h, t>>].verifiedAt \in Int
    BY <2>1 DEF ProofRecord
  <2> QED BY <1>1, <1>4, <2>2 DEF ClaimInv, RecordsFresh
<1>5. CASE Attested(h, t)
  BY <1>1, <1>5 DEF Attested
<1>6. CASE RevokedByIssuer(h, t)
  <2>1. proofs[<<h, t>>] \in ProofRecord
    BY <1>2, <1>6 DEF RevokedByIssuer
  <2>2. /\ proofs'[<<h, t>>].verifiedAt = proofs[<<h, t>>].verifiedAt
        /\ proofs'[<<h, t>>].expiry = proofs[<<h, t>>].expiry
        /\ proofs'[<<h, t>>].shape = proofs[<<h, t>>].shape
        /\ proofs'[<<h, t>>].issuer = proofs[<<h, t>>].issuer
        /\ proofs[<<h, t>>].verifiedAt \in Int
    BY <2>1, <1>6 DEF RevokedByIssuer, ProofRecord
  <2> QED BY <1>1, <1>6, <2>2 DEF ClaimInv, RecordsFresh, RevokedByIssuer
<1>7. CASE Migrated(h, t)
  <2>1. proofs[<<h, t>>] \in ProofRecord
    BY <1>2, <1>7 DEF Migrated
  <2>2. proofs'[<<h, t>>].issuer = None
    BY <2>1, <1>7 DEF Migrated, ProofRecord
  <2> QED BY <2>2
<1> QED BY <1>1, <1>4, <1>5, <1>6, <1>7 DEF RecordChange

LEMMA DelegationsFreshStep ==
  ASSUME ClaimInv, RecordsStep, DelegationsStep
  PROVE  DelegationsFresh'
<1>1. /\ now \in Int /\ now' \in Int /\ now <= now'
      /\ MAX_CREDENTIAL_TTL_SECS \in Nat
  BY ClaimAssumption DEF ClaimAssumption, RecordsStep, ClaimInv, ClaimTypeOK
<1>2. ASSUME NEW hvt \in Holders \X Verifiers \X ClaimTypes,
             delegations'[hvt] # None
      PROVE  delegations'[hvt] <= now' + MAX_CREDENTIAL_TTL_SECS
  <2>1. CASE DelegationsKept(hvt)
    <3>1. delegations[hvt] # None /\ delegations[hvt] \in Nat
      BY <1>2, <2>1 DEF DelegationsKept, ClaimInv, ClaimTypeOK
    <3>2. delegations[hvt] <= now + MAX_CREDENTIAL_TTL_SECS
      BY <3>1 DEF ClaimInv, DelegationsFresh
    <3> QED BY <1>1, <2>1, <3>1, <3>2 DEF DelegationsKept
  <2>2. CASE DelegationGranted(hvt)
    BY <1>1, <2>2 DEF DelegationGranted
  <2> QED BY <1>2, <2>1, <2>2 DEF DelegationsStep
<1> QED BY <1>2 DEF DelegationsFresh

\* The inductive invariant of the claims: the types of the records the registry
\* stores, and the ceilings that write_claim and grant_verification put on their age.
THEOREM ClaimInvariant == Spec => []ClaimInv
<1>1. ASSUME ClaimInv, [Next]_vars
      PROVE  ClaimInv'
  <2>1. RecordsStep /\ DelegationsStep
    BY <1>1, StepChanges DEF ClaimInv
  <2>2. ClaimTypeOK'
    BY <1>1, <2>1, RecordsTypeStep DEF ClaimInv
  <2> QED BY <1>1, <2>1, <2>2, RecordsFreshStep, DelegationsFreshStep
          DEF ClaimInv
<1> QED BY <1>1, ClaimInit, PTL DEF Spec

-----------------------------------------------------------------------------
(* What the invariant and the shape of a step give. *)

\* A claim that passes a trusted-issuer filter was attested less than the
\* ceiling ago, and a delegation never reaches further ahead than that
\* (check_issuer_trusted, the expiry checks of the submissions and of
\* grant_verification), whatever records an upgrade left behind.
THEOREM ClaimsFresh == Spec => []ClaimsAreFresh
<1>1. ASSUME ClaimInv
      PROVE  ClaimsAreFresh
  <2>1. ASSUME NEW h \in Holders, NEW t \in ClaimTypes,
               IsVerified(h, t, Issuers)
        PROVE  /\ proofs[<<h, t>>].verifiedAt <= now
               /\ now < proofs[<<h, t>>].verifiedAt + MAX_CREDENTIAL_TTL_SECS
    <3>1. /\ proofs[<<h, t>>] # None
          /\ proofs[<<h, t>>].shape = CurrentShape
          /\ proofs[<<h, t>>].expiry > now
      BY <2>1 DEF IsVerified, Readable
    <3>2. proofs[<<h, t>>].issuer \in Issuers
      BY <2>1, ClaimAssumption DEF ClaimAssumption, IsVerified, IssuerIsTrusted
    <3>3. proofs[<<h, t>>].issuer # None
      BY <3>2, ClaimAssumption DEF ClaimAssumption
    <3>4. proofs[<<h, t>>] \in ProofRecord
      BY <1>1, <3>1 DEF ClaimInv, ClaimTypeOK
    <3>5. /\ proofs[<<h, t>>].verifiedAt \in Int
          /\ proofs[<<h, t>>].expiry \in Int /\ now \in Int
          /\ MAX_CREDENTIAL_TTL_SECS \in Int
      BY <1>1, <3>4, ClaimAssumption
         DEF ClaimAssumption, ClaimInv, ClaimTypeOK, ProofRecord
    <3>6. /\ proofs[<<h, t>>].verifiedAt <= now
          /\ proofs[<<h, t>>].expiry <=
                 proofs[<<h, t>>].verifiedAt + MAX_CREDENTIAL_TTL_SECS
      BY <1>1, <3>1, <3>3 DEF ClaimInv, RecordsFresh
    <3> QED BY <3>1, <3>5, <3>6
  <2> QED BY <1>1, <2>1 DEF ClaimsAreFresh, ClaimInv, DelegationsFresh
<1> QED BY <1>1, ClaimInvariant, PTL

\* A claim becomes valid, or changes while valid, only by a submission that the
\* issuer registry backs at that moment, or by migrating a four-field record.
THEOREM ClaimsAttested == Spec => ClaimsBeginAttested
<1> DEFINE P(h, t) ==
        (/\ IsVerified(h, t, None)'
         /\ ~IsVerified(h, t, None) \/ proofs'[<<h, t>>] # proofs[<<h, t>>]) =>
            \/ /\ ~paused
               /\ proofs'[<<h, t>>].verifiedAt = now
               /\ proofs'[<<h, t>>].expiry <= now + MAX_CREDENTIAL_TTL_SECS
               /\ proofs'[<<h, t>>].issuer \in Issuers
               /\ IR!IsValidIssuer(proofs'[<<h, t>>].issuer, t)
            \/ /\ proofs[<<h, t>>] # None
               /\ proofs[<<h, t>>].shape = 4
               /\ proofs'[<<h, t>>].issuer = None
               /\ proofs'[<<h, t>>].expiry = proofs[<<h, t>>].expiry
<1>1. ASSUME ClaimInv, [Next]_vars, NEW h \in Holders, NEW t \in ClaimTypes
      PROVE  P(h, t)
  <2> SUFFICES ASSUME IsVerified(h, t, None)',
                      \/ ~IsVerified(h, t, None)
                      \/ proofs'[<<h, t>>] # proofs[<<h, t>>]
               PROVE  \/ Attested(h, t)
                      \/ /\ proofs[<<h, t>>] # None
                         /\ proofs[<<h, t>>].shape = 4
                         /\ proofs'[<<h, t>>].issuer = None
                         /\ proofs'[<<h, t>>].expiry = proofs[<<h, t>>].expiry
    BY DEF Attested
  <2>1. RecordsStep /\ RecordChange(h, t)
    BY <1>1, StepChanges DEF ClaimInv, RecordsStep
  <2>2. /\ proofs'[<<h, t>>] # None /\ ~proofs'[<<h, t>>].revoked
        /\ proofs'[<<h, t>>].shape = CurrentShape
        /\ proofs'[<<h, t>>].expiry > now'
    BY DEF IsVerified, Readable
  <2>3. proofs[<<h, t>>] \in ProofRecord \cup {None}
    BY <1>1 DEF ClaimInv, ClaimTypeOK
  <2>4. CASE proofs'[<<h, t>>] = proofs[<<h, t>>]
    <3>1. proofs[<<h, t>>] \in ProofRecord
      BY <2>2, <2>3, <2>4
    <3>2. /\ proofs[<<h, t>>].expiry \in Int
          /\ now \in Int /\ now' \in Int /\ now <= now'
      BY <1>1, <2>1, <3>1, ClaimAssumption
         DEF ClaimAssumption, ClaimInv, ClaimTypeOK, ProofRecord, RecordsStep
    <3>3. IsVerified(h, t, None)
      BY <2>2, <2>4, <3>2 DEF IsVerified, Readable, IssuerIsTrusted
    <3> QED BY <2>4, <3>3
  <2>5. CASE RevokedByIssuer(h, t)
    BY <2>2, <2>3, <2>5 DEF RevokedByIssuer, ProofRecord
  <2>6. CASE Migrated(h, t)
    BY <2>3, <2>6 DEF Migrated, ProofRecord
  <2> QED BY <2>1, <2>2, <2>4, <2>5, <2>6 DEF RecordChange
<1>2. ASSUME ClaimInv, [Next]_vars
      PROVE  [\A h \in Holders, t \in ClaimTypes : P(h, t)]_vars
  BY <1>1, <1>2
<1> QED BY <1>2, ClaimInvariant, PTL DEF Spec, ClaimsBeginAttested

\* Only time, the holder, or the trusted issuer that attested a claim ends it.
THEOREM ClaimsEnd == Spec => ClaimsEndByTheirParties
<1> DEFINE P(h, t) ==
        IsVerified(h, t, None) /\ ~IsVerified(h, t, None)' =>
            \/ now' # now
            \/ proofs'[<<h, t>>] = None
            \/ /\ proofs'[<<h, t>>] = [proofs[<<h, t>>] EXCEPT !.revoked = TRUE]
               /\ proofs[<<h, t>>].issuer # None
               /\ IR!IsValidIssuer(proofs[<<h, t>>].issuer, t)
<1>1. ASSUME ClaimInv, [Next]_vars, NEW h \in Holders, NEW t \in ClaimTypes
      PROVE  P(h, t)
  <2> SUFFICES ASSUME IsVerified(h, t, None), ~IsVerified(h, t, None)',
                      now' = now, proofs'[<<h, t>>] # None
               PROVE  RevokedByIssuer(h, t)
    BY ClaimAssumption DEF ClaimAssumption, RevokedByIssuer
  <2>1. RecordChange(h, t)
    BY <1>1, StepChanges DEF ClaimInv, RecordsStep
  <2>2. proofs'[<<h, t>>] # proofs[<<h, t>>]
    BY DEF IsVerified, Readable
  <2>3. ~Migrated(h, t)
    BY DEF IsVerified, Readable, Migrated, CurrentShape
  <2>4. ~Attested(h, t)
    BY DEF IsVerified, Readable, IssuerIsTrusted, Attested
  <2> QED BY <2>1, <2>2, <2>3, <2>4 DEF RecordChange
<1>2. ASSUME ClaimInv, [Next]_vars
      PROVE  [\A h \in Holders, t \in ClaimTypes : P(h, t)]_vars
  BY <1>1, <1>2
<1> QED BY <1>2, ClaimInvariant, PTL DEF Spec, ClaimsEndByTheirParties

LEMMA PausedNullifiers ==
  ASSUME paused, [Next]_vars
  PROVE  nullifiers' = nullifiers
<1>1. ASSUME SubmitStep
      PROVE  nullifiers' = nullifiers
  BY <1>1 DEF SubmitStep, SubmitProof, SubmitProofs, SubmitAggregateProof
<1>2. ASSUME NullifierStep
      PROVE  FALSE
  BY <1>2 DEF NullifierStep, RecordNullifier, SubmitProofWithNullifier
<1>3. ASSUME DelegationStep \/ RevocationStep
      PROVE  nullifiers' = nullifiers
  BY <1>3 DEF DelegationStep, GrantVerification, RevokeVerification,
     RevocationStep, RevokeProof, RevokeAll, Revoke
<1>4. ASSUME AdminStep
      PROVE  nullifiers' = nullifiers
  BY <1>4 DEF AdminStep, MigrateRecord, Pause, Unpause, SetPaused
<1>5. ASSUME RegistryStep \/ VerifierStep \/ Tick \/ Govern \/ UNCHANGED vars
      PROVE  nullifiers' = nullifiers
  BY <1>5 DEF RegistryStep, VerifierStep, Tick, Govern, vars, claimVars
<1> QED BY <1>1, <1>2, <1>3, <1>4, <1>5 DEF Next

\* While intake is paused (require_not_paused) no nullifier is spent and no
\* record is verified anew, whichever entry point is called.
THEOREM PauseHolds == Spec => PauseStopsIntake
<1> DEFINE P(h, t) ==
        proofs'[<<h, t>>] # proofs[<<h, t>>] =>
            \/ proofs'[<<h, t>>] = None
            \/ /\ proofs[<<h, t>>] # None
               /\ proofs'[<<h, t>>].verifiedAt = proofs[<<h, t>>].verifiedAt
<1>1. ASSUME ClaimInv, [Next]_vars, paused,
             NEW h \in Holders, NEW t \in ClaimTypes
      PROVE  P(h, t)
  <2>1. RecordChange(h, t)
    BY <1>1, StepChanges DEF ClaimInv, RecordsStep
  <2>2. ~Attested(h, t)
    BY <1>1 DEF Attested
  <2>3. proofs[<<h, t>>] \in ProofRecord \cup {None}
    BY <1>1 DEF ClaimInv, ClaimTypeOK
  <2>4. CASE RevokedByIssuer(h, t)
    BY <2>3, <2>4 DEF RevokedByIssuer, ProofRecord
  <2>5. CASE Migrated(h, t)
    BY <2>3, <2>5 DEF Migrated, ProofRecord
  <2> QED BY <2>1, <2>2, <2>4, <2>5 DEF RecordChange
<1>2. ASSUME ClaimInv, [Next]_vars
      PROVE  [paused => /\ nullifiers' = nullifiers
                        /\ \A h \in Holders, t \in ClaimTypes : P(h, t)]_vars
  BY <1>1, <1>2, PausedNullifiers
<1> QED BY <1>2, ClaimInvariant, PTL DEF Spec, PauseStopsIntake
-----------------------------------------------------------------------------
(***************************************************************************)
(* The contracts implement ClaimLedger.  A record is a claim, its layout   *)
(* whether it is sealed; a submission that stores records of a holder is   *)
(* one Attest, and whatever leaves the records, the grants, the pause, the *)
(* trust in issuers and the clock alone is no step of the ledger.          *)
(***************************************************************************)

\* A four-field record has no issuer: why migrating it unseals a claim that
\* no issuer answers for, and nothing else.  Not part of ClaimInv, which the
\* freshness of claims does not need it for.
FourFieldsNameNobody ==
    \A h \in Holders, t \in ClaimTypes :
        proofs[<<h, t>>] # None /\ proofs[<<h, t>>].shape = 4 =>
            proofs[<<h, t>>].issuer = None

LEMMA FourFieldsInit == Init => FourFieldsNameNobody
<1> SUFFICES ASSUME Init, NEW h \in Holders, NEW t \in ClaimTypes,
                    proofs[<<h, t>>] # None, proofs[<<h, t>>].shape = 4
             PROVE  proofs[<<h, t>>].issuer = None
  BY DEF FourFieldsNameNobody
<1>1. proofs[<<h, t>>] \in LegacyRecord
  BY DEF Init
<1> QED BY <1>1 DEF LegacyRecord

LEMMA FourFieldsStep ==
  ASSUME ClaimTypeOK, FourFieldsNameNobody, RecordsStep
  PROVE  FourFieldsNameNobody'
<1> SUFFICES ASSUME NEW h \in Holders, NEW t \in ClaimTypes,
                    proofs'[<<h, t>>] # None, proofs'[<<h, t>>].shape = 4
             PROVE  proofs'[<<h, t>>].issuer = None
  BY DEF FourFieldsNameNobody
<1>1. RecordChange(h, t) /\ proofs[<<h, t>>] \in ProofRecord \cup {None}
  BY DEF RecordsStep, ClaimTypeOK
<1>2. CASE proofs'[<<h, t>>] = proofs[<<h, t>>]
  BY <1>2 DEF FourFieldsNameNobody
<1>3. CASE Attested(h, t)
  BY <1>3 DEF Attested, CurrentShape
<1>4. CASE RevokedByIssuer(h, t)
  <2>1. /\ proofs'[<<h, t>>].shape = proofs[<<h, t>>].shape
        /\ proofs'[<<h, t>>].issuer = proofs[<<h, t>>].issuer
    BY <1>1, <1>4 DEF RevokedByIssuer, ProofRecord
  <2> QED BY <1>4, <2>1 DEF FourFieldsNameNobody, RevokedByIssuer
<1>5. CASE Migrated(h, t)
  <2>1. proofs'[<<h, t>>].shape = CurrentShape
    BY <1>1, <1>5 DEF Migrated, ProofRecord
  <2> QED BY <2>1 DEF CurrentShape
<1> QED BY <1>1, <1>2, <1>3, <1>4, <1>5 DEF RecordChange

LEMMA FourFieldsInvariant == Spec => []FourFieldsNameNobody
<1>1. ASSUME ClaimInv, FourFieldsNameNobody, [Next]_vars
      PROVE  FourFieldsNameNobody'
  BY <1>1, StepChanges, FourFieldsStep DEF ClaimInv
<1> QED BY <1>1, ClaimInvariant, FourFieldsInit, PTL DEF Spec

\* What a record tells a reader.
LEMMA ClaimOfRecord ==
  ASSUME NEW r \in ProofRecord
  PROVE  /\ r # None
         /\ ClaimOf(r) \in CL!LedgerClaim
         /\ ClaimOf(r) # None
         /\ ClaimOf(r).issuer = r.issuer /\ ClaimOf(r).since = r.verifiedAt
         /\ ClaimOf(r).until = r.expiry /\ ClaimOf(r).says = r.threshold
         /\ ClaimOf(r).revoked = r.revoked
         /\ r.shape = CurrentShape => ClaimOf(r).sealed = FALSE
         /\ r.shape # CurrentShape => ClaimOf(r).sealed = TRUE
<1>1. r # None
  BY RecordAssumption DEF RecordAssumption
<1>2. PICK s \in BOOLEAN : s = (r.shape # CurrentShape)
  OBVIOUS
<1>3. ClaimOf(r) = [issuer |-> r.issuer, since |-> r.verifiedAt,
                    until |-> r.expiry, says |-> r.threshold,
                    revoked |-> r.revoked, sealed |-> s]
  BY <1>1, <1>2 DEF ClaimOf
<1>4. /\ r.issuer \in Issuers \cup {None} /\ r.verifiedAt \in Nat
      /\ r.expiry \in Nat /\ r.threshold \in Thresholds \cup {None}
      /\ r.revoked \in BOOLEAN
  BY ClaimAssumption DEF ProofRecord, ClaimAssumption
<1>5. ClaimOf(r) \in CL!LedgerClaim
  BY <1>3, <1>4 DEF CL!LedgerClaim
<1>6. ClaimOf(r) # None
  BY <1>5, RecordAssumption DEF RecordAssumption
<1>7. /\ ClaimOf(r).issuer = r.issuer /\ ClaimOf(r).since = r.verifiedAt
      /\ ClaimOf(r).until = r.expiry /\ ClaimOf(r).says = r.threshold
      /\ ClaimOf(r).revoked = r.revoked /\ ClaimOf(r).sealed = s
  BY <1>3
<1>8. /\ r.shape = CurrentShape => s = FALSE
      /\ r.shape # CurrentShape => s = TRUE
  BY <1>2
<1> QED BY <1>1, <1>5, <1>6, <1>7, <1>8

\* Claims are told apart by what they say.
LEMMA SameClaim ==
  ASSUME NEW c \in CL!LedgerClaim, NEW d \in CL!LedgerClaim,
         c.issuer = d.issuer, c.since = d.since, c.until = d.until,
         c.says = d.says, c.revoked = d.revoked, c.sealed = d.sealed
  PROVE  c = d
BY DEF CL!LedgerClaim

LEMMA RevokedField ==
  ASSUME NEW c \in CL!LedgerClaim, NEW d, d = [c EXCEPT !.revoked = TRUE]
  PROVE  /\ d \in CL!LedgerClaim
         /\ d.issuer = c.issuer /\ d.since = c.since /\ d.until = c.until
         /\ d.says = c.says /\ d.revoked = TRUE /\ d.sealed = c.sealed
BY DEF CL!LedgerClaim

LEMMA UnsealedField ==
  ASSUME NEW c \in CL!LedgerClaim, NEW d, d = [c EXCEPT !.sealed = FALSE]
  PROVE  /\ d \in CL!LedgerClaim
         /\ d.issuer = c.issuer /\ d.since = c.since /\ d.until = c.until
         /\ d.says = c.says /\ d.revoked = c.revoked /\ d.sealed = FALSE
BY DEF CL!LedgerClaim

\* Who is trusted for what is a matter of these two entries alone.
LEMMA TrustKept ==
  ASSUME issuer' = issuer, currentKeyRevoked' = currentKeyRevoked
  PROVE  LedgerTrust' = LedgerTrust
BY DEF LedgerTrust, IR!IsValidIssuer, IR!Registered

LEMMA ClaimsKept ==
  ASSUME proofs' = proofs
  PROVE  LedgerClaims' = LedgerClaims
BY DEF LedgerClaims

\* Every submission that is accepted is one step of the ledger.
LEMMA StoringAttests ==
  ASSUME ClaimTypeOK, NEW h \in Holders, NEW ts \in SUBSET ClaimTypes,
         Stores(h, ts), paused' = paused, issuerVars' = issuerVars
  PROVE  CL!Attest(h, ts)
<1> DEFINE given == [t \in ts |-> ClaimOf(proofs'[<<h, t>>])]
<1>1. ASSUME NEW t \in ts
      PROVE  given[t] \in CL!Attestation(t)
  <2>1. <<h, t>> \in DOMAIN proofs /\ t \in ClaimTypes
    BY DEF ClaimTypeOK
  <2>2. PICK r \in ProofRecord :
          /\ r = proofs'[<<h, t>>] /\ r.verifiedAt = now
          /\ r.shape = CurrentShape /\ ~r.revoked
          /\ now < r.expiry /\ r.expiry <= now + MAX_CREDENTIAL_TTL_SECS
          /\ r.issuer \in Issuers /\ IR!IsValidIssuer(r.issuer, t)
    BY <2>1 DEF Stores
  <2>3. r.expiry \in CL!Ahead
    <3>1. r.expiry \in Nat /\ now \in Nat /\ MAX_CREDENTIAL_TTL_SECS \in Nat
      BY ClaimAssumption DEF ClaimAssumption, ProofRecord, ClaimTypeOK
    <3> QED BY <2>2, <3>1 DEF CL!Ahead
  <2>4. r.issuer \in {i \in Issuers : <<i, t>> \in LedgerTrust}
    BY <2>1, <2>2 DEF LedgerTrust
  <2>5. r.threshold \in Thresholds \cup {None} /\ r.revoked = FALSE
    BY <2>2 DEF ProofRecord
  <2>6. PICK d \in CL!LedgerClaim :
          /\ d = given[t] /\ d.issuer = r.issuer /\ d.since = now
          /\ d.until = r.expiry /\ d.says = r.threshold
          /\ d.revoked = FALSE /\ d.sealed = FALSE
    BY <2>2, <2>5, ClaimOfRecord
  <2> HIDE DEF given
  <2> QED BY <2>3, <2>4, <2>5, <2>6 DEF CL!Attestation, CL!LedgerClaim
<1>2. given \in [ts -> UNION {CL!Attestation(t) : t \in ts}]
  BY <1>1
<1>3. LedgerClaims' = [ht \in Holders \X ClaimTypes |->
           IF ht[1] = h /\ ht[2] \in ts THEN given[ht[2]]
           ELSE LedgerClaims[ht]]
  <2>1. ASSUME NEW ht \in Holders \X ClaimTypes
        PROVE  ClaimOf(proofs'[ht]) =
                  IF ht[1] = h /\ ht[2] \in ts THEN given[ht[2]]
                  ELSE ClaimOf(proofs[ht])
    <3>1. CASE ht[1] = h /\ ht[2] \in ts
      <4>1. ht = <<h, ht[2]>>
        BY <3>1
      <4> QED BY <3>1, <4>1
    <3>2. CASE ~(ht[1] = h /\ ht[2] \in ts)
      <4>1. proofs'[ht] = proofs[ht]
        BY <3>2 DEF Stores, ClaimTypeOK
      <4> QED BY <3>2, <4>1
    <3> QED BY <3>1, <3>2
  <2> HIDE DEF given
  <2> QED BY <2>1 DEF LedgerClaims
<1>4. now' = now /\ delegations' = delegations /\ ~paused
  BY DEF Stores
<1>5. LedgerTrust' = LedgerTrust
  BY TrustKept DEF issuerVars
<1> HIDE DEF given
<1>6. \E g \in [ts -> UNION {CL!Attestation(t) : t \in ts}] :
        /\ \A t \in ts : g[t] \in CL!Attestation(t)
        /\ LedgerClaims' = [ht \in Holders \X ClaimTypes |->
              IF ht[1] = h /\ ht[2] \in ts THEN g[ht[2]] ELSE LedgerClaims[ht]]
  BY <1>2, <1>3, <1>1
<1> QED BY <1>4, <1>5, <1>6 DEF CL!Attest

\* One record rewritten is one claim rewritten.
LEMMA OneClaimChanges ==
  ASSUME ClaimTypeOK, NEW h \in Holders, NEW t \in ClaimTypes, NEW r,
         proofs' = [proofs EXCEPT ![<<h, t>>] = r]
  PROVE  LedgerClaims' = [LedgerClaims EXCEPT ![<<h, t>>] = ClaimOf(r)]
<1>1. ASSUME NEW ht \in Holders \X ClaimTypes
      PROVE  ClaimOf(proofs'[ht]) =
                IF ht = <<h, t>> THEN ClaimOf(r) ELSE ClaimOf(proofs[ht])
  <2>1. proofs'[ht] = IF ht = <<h, t>> THEN r ELSE proofs[ht]
    BY DEF ClaimTypeOK
  <2> QED BY <2>1
<1>2. LedgerClaims' = [ht \in Holders \X ClaimTypes |->
           IF ht = <<h, t>> THEN ClaimOf(r) ELSE ClaimOf(proofs[ht])]
  BY <1>1 DEF LedgerClaims
<1>3. [LedgerClaims EXCEPT ![<<h, t>>] = ClaimOf(r)] =
        [ht \in Holders \X ClaimTypes |->
           IF ht = <<h, t>> THEN ClaimOf(r) ELSE ClaimOf(proofs[ht])]
  BY DEF LedgerClaims
<1> QED BY <1>2, <1>3

LEMMA RevokedClaim ==
  ASSUME NEW r \in ProofRecord
  PROVE  /\ [r EXCEPT !.revoked = TRUE] \in ProofRecord
         /\ ClaimOf([r EXCEPT !.revoked = TRUE]) =
                [ClaimOf(r) EXCEPT !.revoked = TRUE]
<1> DEFINE s == [r EXCEPT !.revoked = TRUE]
<1>1. /\ s \in ProofRecord
      /\ s.issuer = r.issuer /\ s.verifiedAt = r.verifiedAt
      /\ s.expiry = r.expiry /\ s.threshold = r.threshold
      /\ s.revoked = TRUE /\ s.shape = r.shape
  BY DEF ProofRecord
<1> HIDE DEF s
<1>2. PICK d : d = [ClaimOf(r) EXCEPT !.revoked = TRUE]
  OBVIOUS
<1>3. /\ d \in CL!LedgerClaim
      /\ d.issuer = ClaimOf(r).issuer /\ d.since = ClaimOf(r).since
      /\ d.until = ClaimOf(r).until /\ d.says = ClaimOf(r).says
      /\ d.revoked = TRUE /\ d.sealed = ClaimOf(r).sealed
  BY <1>2, ClaimOfRecord, RevokedField
<1>4. ClaimOf(s).sealed = ClaimOf(r).sealed
  <2>1. CASE r.shape = CurrentShape
    BY <1>1, <2>1, ClaimOfRecord
  <2>2. CASE r.shape # CurrentShape
    BY <1>1, <2>2, ClaimOfRecord
  <2> QED BY <2>1, <2>2
<1>5. ClaimOf(s) \in CL!LedgerClaim /\ ClaimOf(s).revoked = TRUE
  BY <1>1, ClaimOfRecord
<1>6. /\ ClaimOf(s).issuer = d.issuer /\ ClaimOf(s).since = d.since
      /\ ClaimOf(s).until = d.until /\ ClaimOf(s).says = d.says
  BY <1>1, <1>3, ClaimOfRecord
<1>7. ClaimOf(s) = d
  BY <1>3, <1>4, <1>5, <1>6, SameClaim
<1> QED BY <1>1, <1>2, <1>7 DEF s

LEMMA MigratedClaim ==
  ASSUME NEW r \in ProofRecord, r.shape = 4, r.issuer = None,
         NEW s, s = [r EXCEPT !.issuer = None, !.vkVersion = 0,
                              !.shape = CurrentShape]
  PROVE  /\ ClaimOf(r).sealed = TRUE
         /\ ClaimOf(r).issuer = None
         /\ ClaimOf(s) = [ClaimOf(r) EXCEPT !.sealed = FALSE]
<1>1. /\ s \in ProofRecord
      /\ s.issuer = r.issuer /\ s.verifiedAt = r.verifiedAt
      /\ s.expiry = r.expiry /\ s.threshold = r.threshold
      /\ s.shape = CurrentShape
  BY DEF ProofRecord
<1>2. s.revoked = r.revoked
  BY DEF ProofRecord
<1>3. PICK c \in CL!LedgerClaim : c = ClaimOf(r)
  BY ClaimOfRecord
<1>4. PICK d : d = [c EXCEPT !.sealed = FALSE]
  OBVIOUS
<1>5. /\ d \in CL!LedgerClaim
      /\ d.issuer = c.issuer /\ d.since = c.since /\ d.until = c.until
      /\ d.says = c.says /\ d.sealed = FALSE
  BY <1>4, UnsealedField
<1>6. d.revoked = c.revoked
  BY <1>4, UnsealedField
<1>7. /\ ClaimOf(s) \in CL!LedgerClaim /\ ClaimOf(s).sealed = FALSE
      /\ ClaimOf(s).issuer = r.issuer /\ ClaimOf(s).since = r.verifiedAt
      /\ ClaimOf(s).until = r.expiry /\ ClaimOf(s).says = r.threshold
  BY <1>1, ClaimOfRecord
<1>8. ClaimOf(s).revoked = r.revoked
  BY <1>1, <1>2, ClaimOfRecord
<1>9. /\ c.issuer = r.issuer /\ c.since = r.verifiedAt
      /\ c.until = r.expiry /\ c.says = r.threshold
  BY <1>3, ClaimOfRecord
<1>10. c.revoked = r.revoked
  BY <1>3, ClaimOfRecord
<1>11. ClaimOf(s) = d
  <2>1. ClaimOf(s).revoked = d.revoked
    BY <1>6, <1>8, <1>10
  <2> QED BY <1>5, <1>7, <1>9, <2>1, SameClaim
<1>12. ClaimOf(r).sealed = TRUE
  <2>1. r.shape # CurrentShape
    BY DEF CurrentShape
  <2> QED BY <2>1, ClaimOfRecord
<1> QED BY <1>3, <1>4, <1>9, <1>11, <1>12

LEMMA RemovingWithdraws ==
  ASSUME ClaimTypeOK, NEW h \in Holders, NEW ts \in SUBSET ClaimTypes,
         now' = now, paused' = paused, delegations' = delegations,
         issuerVars' = issuerVars,
         \A ht \in Holders \X ClaimTypes : proofs'[ht] =
             IF ht[1] = h /\ ht[2] \in ts THEN None ELSE proofs[ht]
  PROVE  CL!Withdraw(h, ts)
<1>1. ClaimOf(None) = None
  BY DEF ClaimOf
<1>2. LedgerClaims' = [ht \in Holders \X ClaimTypes |->
           IF ht[1] = h /\ ht[2] \in ts THEN None ELSE LedgerClaims[ht]]
  BY <1>1 DEF LedgerClaims
<1>3. LedgerTrust' = LedgerTrust
  BY TrustKept DEF issuerVars
<1> QED BY <1>2, <1>3 DEF CL!Withdraw

\* Steps that leave everything the ledger shows alone.
LEMMA UnseenByLedger ==
  ASSUME proofs' = proofs, delegations' = delegations, now' = now,
         paused' = paused, issuer' = issuer,
         currentKeyRevoked' = currentKeyRevoked
  PROVE  UNCHANGED CL!ledgerVars
BY ClaimsKept, TrustKept DEF CL!ledgerVars

LEMMA SubmissionsAttest ==
  ASSUME ClaimTypeOK, SubmitStep \/ NullifierStep
  PROVE  CL!LedgerNext \/ UNCHANGED CL!ledgerVars
<1>1. ASSUME NEW h \in Holders, NEW ts \in SUBSET ClaimTypes, Stores(h, ts),
             paused' = paused, issuerVars' = issuerVars
      PROVE  CL!LedgerNext
  BY <1>1, StoringAttests DEF CL!LedgerNext
<1>2. ASSUME NEW h \in Holders, NEW t \in ClaimTypes, NEW c \in Claim,
             SubmitProof(h, t, c)
      PROVE  CL!LedgerNext
  <2>1. Stores(h, {t})
    BY <1>2, SubmitStores DEF SubmitProof
  <2>2. paused' = paused /\ issuerVars' = issuerVars
    BY <1>2 DEF SubmitProof
  <2> QED BY <1>1, <2>1, <2>2
<1>3. ASSUME NEW h \in Holders, NEW ts \in SUBSET ClaimTypes,
             NEW batch \in [ts -> Claim], SubmitProofs(h, batch)
      PROVE  CL!LedgerNext
  <2>1. Stores(h, ts)
    BY <1>3, SubmitProofsStores
  <2>2. paused' = paused /\ issuerVars' = issuerVars
    BY <1>3 DEF SubmitProofs
  <2> QED BY <1>1, <2>1, <2>2
<1>4. ASSUME NEW h \in Holders, NEW es \in [1..2 -> AggregateEntry],
             NEW p \in AggregateProof, SubmitAggregateProof(h, es, p)
      PROVE  CL!LedgerNext
  <2>1. Stores(h, {es[1].type, es[2].type})
    BY <1>4, SubmitAggregateStores
  <2>2. paused' = paused /\ issuerVars' = issuerVars
    BY <1>4 DEF SubmitAggregateProof
  <2>3. {es[1].type, es[2].type} \in SUBSET ClaimTypes
    <3>1. es[1] \in AggregateEntry /\ es[2] \in AggregateEntry
      OBVIOUS
    <3> QED BY <3>1 DEF AggregateEntry
  <2> QED BY <1>1, <2>1, <2>2, <2>3
<1>5. ASSUME NEW n \in Nullifiers, RecordNullifier(n)
      PROVE  UNCHANGED CL!ledgerVars
  BY <1>5, UnseenByLedger DEF RecordNullifier, issuerVars
<1>6. ASSUME NEW n \in Nullifiers, NEW h \in Holders, NEW t \in ClaimTypes,
             NEW c \in Claim, SubmitProofWithNullifier(h, t, c, n)
      PROVE  CL!LedgerNext
  <2>1. Stores(h, {t})
    BY <1>6, SubmitStores DEF SubmitProofWithNullifier
  <2>2. paused' = paused /\ issuerVars' = issuerVars
    BY <1>6 DEF SubmitProofWithNullifier
  <2> QED BY <1>1, <2>1, <2>2
<1> QED BY <1>2, <1>3, <1>4, <1>5, <1>6 DEF SubmitStep, NullifierStep

LEMMA DelegationsSetGrants ==
  ASSUME ClaimTypeOK, DelegationStep
  PROVE  CL!LedgerNext
<1>1. PICK h \in Holders, v \in Verifiers, t \in ClaimTypes :
        \/ \E e \in Expiries : GrantVerification(h, v, t, e)
        \/ RevokeVerification(h, v, t)
  BY DEF DelegationStep
<1>2. /\ now' = now /\ proofs' = proofs /\ paused' = paused
      /\ issuerVars' = issuerVars
  BY <1>1 DEF GrantVerification, RevokeVerification
<1>3. LedgerTrust' = LedgerTrust /\ LedgerClaims' = LedgerClaims
  BY <1>2, TrustKept, ClaimsKept DEF issuerVars
<1>4. \E end \in CL!Ahead \cup {None} :
        delegations' = [delegations EXCEPT ![<<h, v, t>>] = end]
  <2>1. ASSUME NEW e \in Expiries, GrantVerification(h, v, t, e)
        PROVE  e \in CL!Ahead
               /\ delegations' = [delegations EXCEPT ![<<h, v, t>>] = e]
    <3>1. /\ e \in Int /\ now \in Int /\ MAX_CREDENTIAL_TTL_SECS \in Int
          /\ now < e /\ e <= now + MAX_CREDENTIAL_TTL_SECS
      BY <2>1, ClaimAssumption DEF ClaimAssumption, Expiries, ClaimTypeOK,
         GrantVerification, ValidExpiry
    <3> QED BY <2>1, <3>1 DEF GrantVerification, CL!Ahead
  <2>2. ASSUME RevokeVerification(h, v, t)
        PROVE  delegations' = [delegations EXCEPT ![<<h, v, t>>] = None]
    BY <2>2 DEF RevokeVerification
  <2> QED BY <1>1, <2>1, <2>2
<1>5. CL!SetGrant(h, v, t)
  BY <1>2, <1>3, <1>4 DEF CL!SetGrant
<1> QED BY <1>5 DEF CL!LedgerNext

LEMMA RevocationsTakeBack ==
  ASSUME ClaimTypeOK, RevocationStep
  PROVE  CL!LedgerNext
<1>1. PICK h \in Holders :
        \/ \E t \in ClaimTypes : RevokeProof(h, t)
        \/ RevokeAll(h)
        \/ \E i \in Issuers, t \in ClaimTypes : Revoke(i, h, t)
  BY DEF RevocationStep
<1>2. /\ now' = now /\ delegations' = delegations /\ paused' = paused
      /\ issuerVars' = issuerVars
  BY <1>1 DEF RevokeProof, RevokeAll, Revoke
<1>3. ASSUME NEW t \in ClaimTypes, RevokeProof(h, t)
      PROVE  CL!Withdraw(h, {t})
  <2>1. \A ht \in Holders \X ClaimTypes : proofs'[ht] =
          IF ht[1] = h /\ ht[2] \in {t} THEN None ELSE proofs[ht]
    BY <1>3 DEF RevokeProof, ClaimTypeOK
  <2> QED BY <1>2, <2>1, RemovingWithdraws
<1>4. ASSUME RevokeAll(h)
      PROVE  CL!Withdraw(h, RevokeAllTypes \cap ClaimTypes)
  <2>1. \A ht \in Holders \X ClaimTypes : proofs'[ht] =
          IF ht[1] = h /\ ht[2] \in RevokeAllTypes \cap ClaimTypes
          THEN None ELSE proofs[ht]
    BY <1>4 DEF RevokeAll, ClaimTypeOK
  <2> QED BY <1>2, <2>1, RemovingWithdraws
<1>5. ASSUME NEW i \in Issuers, NEW t \in ClaimTypes, Revoke(i, h, t)
      PROVE  CL!RevokeClaim(h, t)
  <2>1. PICK r \in ProofRecord :
          /\ r = proofs[<<h, t>>] /\ r.shape = CurrentShape
          /\ r.issuer = i /\ IR!IsValidIssuer(i, t)
    BY <1>5 DEF Revoke, Readable, ClaimTypeOK
  <2>2. proofs' = [proofs EXCEPT ![<<h, t>>] = [r EXCEPT !.revoked = TRUE]]
    BY <1>5, <2>1 DEF Revoke, ClaimTypeOK
  <2>3. LedgerClaims[<<h, t>>] = ClaimOf(r)
    BY <2>1 DEF LedgerClaims
  <2>4. LedgerClaims' = [LedgerClaims EXCEPT ![<<h, t>>].revoked = TRUE]
    <3>1. LedgerClaims' = [LedgerClaims EXCEPT ![<<h, t>>] =
                              [ClaimOf(r) EXCEPT !.revoked = TRUE]]
      <4>1. PICK s : s = [r EXCEPT !.revoked = TRUE]
        OBVIOUS
      <4>2. LedgerClaims' = [LedgerClaims EXCEPT ![<<h, t>>] = ClaimOf(s)]
        BY <2>2, <4>1, OneClaimChanges
      <4> QED BY <4>1, <4>2, RevokedClaim
    <3> QED BY <2>3, <3>1
  <2>5. /\ ClaimOf(r) # None /\ ~ClaimOf(r).sealed
        /\ ClaimOf(r).issuer = i
    BY <2>1, ClaimOfRecord
  <2>6. <<i, t>> \in LedgerTrust
    BY <2>1 DEF LedgerTrust
  <2>7. LedgerTrust' = LedgerTrust
    BY <1>2, TrustKept DEF issuerVars
  <2> QED BY <1>2, <2>3, <2>4, <2>5, <2>6, <2>7 DEF CL!RevokeClaim
<1> QED BY <1>1, <1>3, <1>4, <1>5 DEF CL!LedgerNext

LEMMA AdminsUnseal ==
  ASSUME ClaimTypeOK, FourFieldsNameNobody, AdminStep
  PROVE  CL!LedgerNext \/ UNCHANGED CL!ledgerVars
<1>1. ASSUME NEW c \in Address, NEW h \in Holders, NEW t \in ClaimTypes,
             MigrateRecord(c, h, t)
      PROVE  CL!Unseal(h, t) \/ UNCHANGED CL!ledgerVars
  <2>1. /\ now' = now /\ delegations' = delegations /\ paused' = paused
        /\ issuerVars' = issuerVars /\ proofs[<<h, t>>] # None
    BY <1>1 DEF MigrateRecord
  <2>2. PICK r \in ProofRecord : r = proofs[<<h, t>>]
    BY <2>1 DEF ClaimTypeOK
  <2>3. CASE r.shape # 4
    <3>1. proofs' = proofs
      BY <1>1, <2>2, <2>3 DEF MigrateRecord
    <3> QED BY <2>1, <3>1, UnseenByLedger DEF issuerVars
  <2>4. CASE r.shape = 4
    <3>1. proofs' = [proofs EXCEPT ![<<h, t>>] =
             [r EXCEPT !.issuer = None, !.vkVersion = 0,
                       !.shape = CurrentShape]]
      BY <1>1, <2>2, <2>4 DEF MigrateRecord, ClaimTypeOK
    <3>2. r.issuer = None
      BY <2>1, <2>2, <2>4 DEF FourFieldsNameNobody
    <3>3. LedgerClaims[<<h, t>>] = ClaimOf(r)
      BY <2>2 DEF LedgerClaims
    <3>4. LedgerClaims' = [LedgerClaims EXCEPT ![<<h, t>>].sealed = FALSE]
      <4>1. LedgerClaims' = [LedgerClaims EXCEPT ![<<h, t>>] =
                                [ClaimOf(r) EXCEPT !.sealed = FALSE]]
        <5>1. PICK s : s = [r EXCEPT !.issuer = None, !.vkVersion = 0,
                                     !.shape = CurrentShape]
          OBVIOUS
        <5>2. LedgerClaims' = [LedgerClaims EXCEPT ![<<h, t>>] = ClaimOf(s)]
          BY <3>1, <5>1, OneClaimChanges
        <5>3. ClaimOf(s) = [ClaimOf(r) EXCEPT !.sealed = FALSE]
          BY <2>4, <3>2, <5>1, MigratedClaim, Zenon
        <5> QED BY <5>2, <5>3
      <4> QED BY <3>3, <4>1
    <3>5. LedgerTrust' = LedgerTrust
      BY <2>1, TrustKept DEF issuerVars
    <3>6. ClaimOf(r) # None /\ ClaimOf(r).issuer = None
      BY <3>2, ClaimOfRecord
    <3>7. ClaimOf(r).sealed = TRUE
      <4>1. r.shape # CurrentShape
        BY <2>4 DEF CurrentShape
      <4> QED BY <4>1, ClaimOfRecord
    <3> QED BY <2>1, <3>3, <3>4, <3>5, <3>6, <3>7 DEF CL!Unseal
  <2> QED BY <2>3, <2>4
<1>2. ASSUME NEW c \in Address, NEW value \in BOOLEAN, SetPaused(c, value)
      PROVE  CL!OpenOrClose
  <2>1. /\ now' = now /\ proofs' = proofs /\ delegations' = delegations
        /\ issuerVars' = issuerVars
    BY <1>2 DEF SetPaused
  <2>2. LedgerTrust' = LedgerTrust /\ LedgerClaims' = LedgerClaims
    BY <2>1, TrustKept, ClaimsKept DEF issuerVars
  <2> QED BY <2>1, <2>2 DEF CL!OpenOrClose
<1> QED BY <1>1, <1>2 DEF AdminStep, Pause, Unpause, CL!LedgerNext

LEMMA OperatorChangesTrust ==
  ASSUME ClaimTypeOK, RegistryStep \/ VerifierStep
  PROVE  CL!LedgerNext \/ UNCHANGED CL!ledgerVars
<1>1. ASSUME RegistryStep
      PROVE  CL!ChangeTrust
  <2>1. now' = now
    BY <1>1 DEF RegistryStep, IR!RegisterIssuer, IR!RotateIssuerKey,
       IR!RevokeIssuerKey, IR!RevokeCurrentKey, IR!RevokeRetiredKey,
       IR!RevokeIssuer, IR!SetIssuerMetadata
  <2>2. paused' = paused /\ proofs' = proofs /\ delegations' = delegations
    BY <1>1 DEF RegistryStep, claimVars
  <2>3. LedgerTrust' \in SUBSET (Issuers \X ClaimTypes)
    BY DEF LedgerTrust
  <2> QED BY <2>1, <2>2, <2>3, ClaimsKept DEF CL!ChangeTrust
<1>2. ASSUME VerifierStep
      PROVE  UNCHANGED CL!ledgerVars
  <2>1. now' = now
    BY <1>2 DEF VerifierStep, CV!SetVk, CV!DeprecateVersion, CV!PruneVersion
  <2> QED BY <1>2, <2>1, UnseenByLedger DEF VerifierStep, claimVars, issuerVars
<1> QED BY <1>1, <1>2 DEF CL!LedgerNext

LEMMA LedgerStep ==
  ASSUME ClaimTypeOK, FourFieldsNameNobody, [Next]_vars
  PROVE  [CL!LedgerNext]_(CL!ledgerVars)
<1>1. CASE Tick
  <2>1. /\ now' = now + 1 /\ paused' = paused /\ proofs' = proofs
        /\ delegations' = delegations /\ issuerVars' = issuerVars
    BY <1>1 DEF Tick, claimVars
  <2>2. LedgerTrust' = LedgerTrust /\ LedgerClaims' = LedgerClaims
    BY <2>1, TrustKept, ClaimsKept DEF issuerVars
  <2>3. CL!TimePasses
    BY <2>1, <2>2 DEF CL!TimePasses
  <2> QED BY <2>3 DEF CL!LedgerNext
<1>2. CASE Govern \/ UNCHANGED vars
  BY <1>2, UnseenByLedger DEF Govern, vars, claimVars, issuerVars
<1> QED BY <1>1, <1>2, SubmissionsAttest, DelegationsSetGrants,
           RevocationsTakeBack, AdminsUnseal, OperatorChangesTrust DEF Next

LEMMA LedgerBegins == Init => CL!LedgerInit
<1> SUFFICES ASSUME Init
             PROVE  CL!LedgerInit
  OBVIOUS
<1>1. /\ now = 0 /\ (~paused) = TRUE
      /\ delegations = [hvt \in Holders \X Verifiers \X ClaimTypes |-> None]
  BY DEF Init, IR!Init
<1>2. LedgerTrust \in SUBSET (Issuers \X ClaimTypes)
  BY DEF LedgerTrust
<1>3. ASSUME NEW ht \in Holders \X ClaimTypes
      PROVE  /\ ClaimOf(proofs[ht]) \in CL!LedgerClaim \cup {None}
             /\ ClaimOf(proofs[ht]) # None => ClaimOf(proofs[ht]).sealed
  <2>1. proofs[ht] \in LegacyRecord \cup {None}
    BY DEF Init
  <2>2. CASE proofs[ht] = None
    BY <2>2 DEF ClaimOf
  <2>3. CASE proofs[ht] # None
    <3>1. PICK r \in ProofRecord : r = proofs[ht] /\ r.shape # CurrentShape
      <4>1. ClaimTypeOK
        BY ClaimInit DEF ClaimInv
      <4>2. proofs[ht].shape \in LegacyShapes
        BY <2>1, <2>3 DEF LegacyRecord
      <4> QED BY <2>3, <4>1, <4>2, ClaimAssumption
              DEF ClaimTypeOK, ClaimAssumption, CurrentShape
    <3> QED BY <3>1, ClaimOfRecord
  <2> QED BY <2>2, <2>3
<1>4. /\ LedgerClaims \in [Holders \X ClaimTypes -> CL!LedgerClaim \cup {None}]
      /\ \A ht \in Holders \X ClaimTypes :
            LedgerClaims[ht] # None => LedgerClaims[ht].sealed
  BY <1>3 DEF LedgerClaims
<1> QED BY <1>1, <1>2, <1>4 DEF CL!LedgerInit

\* The three contracts implement the ledger of claims: whatever anyone calls in
\* whatever order, a claim comes onto it only by an attestation through an open
\* intake for an issuer trusted for its type, and leaves it only by its holder,
\* by its issuer while trusted, or by time.
THEOREM ContractsKeepLedger == Spec => KeepsLedger
<1>1. ASSUME ClaimInv, FourFieldsNameNobody, [Next]_vars
      PROVE  [CL!LedgerNext]_(CL!ledgerVars)
  BY <1>1, LedgerStep DEF ClaimInv
<1> QED BY <1>1, ClaimInvariant, FourFieldsInvariant, LedgerBegins, PTL
        DEF Spec, KeepsLedger, CL!LedgerSpec

ReadsAgree(h, t) ==
    /\ \A among : IsVerified(h, t, among) <=> CL!Valid(h, t, among)
    /\ \A min, among :
           CheckClaim(h, t, min, among) <=> CL!ValidAtLeast(h, t, min, among)
    /\ \A v \in Verifiers :
           CheckDelegatedVerification(h, v, t) <=> CL!ValidFor(h, v, t)

AllReadsAgree == \A h \in Holders, t \in ClaimTypes : ReadsAgree(h, t)

\* What the contracts' reads answer (is_verified, check_claim, the delegated
\* read) is what the ledger answers: the abstraction hides nothing they tell.
THEOREM ReadsAreOfLedger == Spec => []AllReadsAgree
<1>1. ASSUME ClaimInv, NEW h \in Holders, NEW t \in ClaimTypes
      PROVE  ReadsAgree(h, t)
  <2> DEFINE r == proofs[<<h, t>>]
  <2>1. LedgerClaims[<<h, t>>] = ClaimOf(r)
    BY DEF LedgerClaims
  <2>2. r \in ProofRecord \cup {None} /\ now \in Int
    BY <1>1, ClaimAssumption DEF ClaimInv, ClaimTypeOK, ClaimAssumption
  <2>3. r # None =>
          /\ r.expiry \in Int
          /\ ClaimOf(r) # None /\ ClaimOf(r).until = r.expiry
          /\ ClaimOf(r).issuer = r.issuer /\ ClaimOf(r).says = r.threshold
          /\ ClaimOf(r).revoked = r.revoked
          /\ ClaimOf(r).sealed <=> r.shape # CurrentShape
    <3>1. CASE r \in ProofRecord
      <4>1. r.expiry \in Int
        BY <3>1 DEF ProofRecord
      <4> HIDE DEF r
      <4> QED BY <3>1, <4>1, ClaimOfRecord
    <3> QED BY <2>2, <3>1
  <2>4. r = None => ClaimOf(r) = None
    BY DEF ClaimOf
  <2>5. ASSUME NEW among
        PROVE  IsVerified(h, t, among) <=> CL!Valid(h, t, among)
    BY <2>1, <2>2, <2>3, <2>4
       DEF IsVerified, Readable, IssuerIsTrusted, CL!Valid
  <2>6. ASSUME NEW min, NEW among
        PROVE  CheckClaim(h, t, min, among) <=> CL!ValidAtLeast(h, t, min, among)
    BY <2>1, <2>3, <2>5 DEF CheckClaim, CL!ValidAtLeast, IsVerified, Readable
  <2>7. ASSUME NEW v \in Verifiers
        PROVE  CheckDelegatedVerification(h, v, t) <=> CL!ValidFor(h, v, t)
    <3>1. delegations[<<h, v, t>>] \in Nat \cup {None}
      BY <1>1 DEF ClaimInv, ClaimTypeOK
    <3>2. IsVerified(h, t, None) <=> CL!Valid(h, t, None)
      BY <2>5
    <3> QED BY <2>2, <3>1, <3>2 DEF CheckDelegatedVerification, CL!ValidFor
  <2> QED BY <2>5, <2>6, <2>7 DEF ReadsAgree
<1>2. ASSUME ClaimInv
      PROVE  AllReadsAgree
  BY <1>1, <1>2 DEF AllReadsAgree
<1> QED BY <1>2, ClaimInvariant, PTL

-----------------------------------------------------------------------------
(* With the history variables of ClaimHistory.                             *)

LEMMA HistoryStep ==
  ASSUME [HNext]_hvars
  PROVE  [Next]_vars
<1>1. ASSUME HSubmitStep
      PROVE  SubmitStep
  BY <1>1 DEF HSubmitStep, SubmitStep
<1>2. ASSUME HNullifierStep
      PROVE  NullifierStep
  BY <1>2 DEF HNullifierStep, NullifierStep
<1>3. ASSUME HKeyStep
      PROVE  RegistryStep
  BY <1>3 DEF HKeyStep, RegistryStep
<1>4. ASSUME HIssuerStep
      PROVE  RegistryStep
  BY <1>4 DEF HIssuerStep, RegistryStep
<1>5. ASSUME HOtherStep
      PROVE  Next
  BY <1>5 DEF HOtherStep, Next
<1>6. CASE UNCHANGED hvars
  BY <1>6 DEF hvars
<1> QED BY <1>1, <1>2, <1>3, <1>4, <1>5, <1>6 DEF HNext, Next

\* The history variables only watch: a behaviour with them is a behaviour of
\* the three contracts, so every theorem about Spec holds of HSpec.
THEOREM HistoryOnlyWatches == HSpec => Spec
<1>1. HInit => Init
  BY DEF HInit
<1>2. [HNext]_hvars => [Next]_vars
  BY HistoryStep
<1> QED BY <1>1, <1>2, PTL DEF HSpec, Spec

\* Nullifiers and what is counted of them.
NullifierInv == spent \in [Nullifiers -> Nat] /\ NullifierSpentOnce

LEMMA NullifiersKept ==
  ASSUME HSubmitStep \/ HKeyStep \/ HIssuerStep \/ HOtherStep
         \/ UNCHANGED hvars
  PROVE  nullifiers' = nullifiers /\ spent' = spent
<1>1. ASSUME HSubmitStep
      PROVE  nullifiers' = nullifiers /\ spent' = spent
  <2>1. \A h, signed, facts : Note(h, signed, facts) => spent' = spent
    BY DEF Note
  <2>2. spent' = spent
    BY <1>1, <2>1 DEF HSubmitStep
  <2>3. SubmitStep
    BY <1>1 DEF HSubmitStep, SubmitStep
  <2>4. nullifiers' = nullifiers
    BY <2>3 DEF SubmitStep, SubmitProof, SubmitProofs, SubmitAggregateProof
  <2> QED BY <2>2, <2>4
<1>2. ASSUME HKeyStep \/ HIssuerStep
      PROVE  nullifiers' = nullifiers /\ spent' = spent
  BY <1>2 DEF HKeyStep, HIssuerStep, claimVars, histVars
<1>3. ASSUME HOtherStep
      PROVE  nullifiers' = nullifiers /\ spent' = spent
  <2>1. ASSUME DelegationStep \/ RevocationStep
        PROVE  nullifiers' = nullifiers
    BY <2>1 DEF DelegationStep, GrantVerification, RevokeVerification,
       RevocationStep, RevokeProof, RevokeAll, Revoke
  <2>2. ASSUME AdminStep
        PROVE  nullifiers' = nullifiers
    BY <2>2 DEF AdminStep, MigrateRecord, Pause, Unpause, SetPaused
  <2>3. ASSUME VerifierStep \/ Tick \/ Govern
        PROVE  nullifiers' = nullifiers
    BY <2>3 DEF VerifierStep, Tick, Govern, claimVars
  <2> QED BY <1>3, <2>1, <2>2, <2>3 DEF HOtherStep, histVars
<1>4. CASE UNCHANGED hvars
  BY <1>4 DEF hvars, vars, claimVars, histVars
<1> QED BY <1>1, <1>2, <1>3, <1>4

LEMMA NullifierSpent ==
  ASSUME NullifierInv, HNullifierStep
  PROVE  NullifierInv'
<1>1. PICK n \in Nullifiers :
        /\ n \notin nullifiers
        /\ nullifiers' = nullifiers \cup {n}
        /\ spent' = [spent EXCEPT ![n] = @ + 1]
  BY DEF HNullifierStep, RecordNullifier, SubmitProofWithNullifier
<1>2. spent[n] = 0
  BY <1>1 DEF NullifierInv, NullifierSpentOnce
<1>3. spent' \in [Nullifiers -> Nat]
  BY <1>1, <1>2 DEF NullifierInv
<1>4. ASSUME NEW m \in Nullifiers
      PROVE  spent'[m] = IF m \in nullifiers' THEN 1 ELSE 0
  BY <1>1, <1>2 DEF NullifierInv, NullifierSpentOnce
<1> QED BY <1>3, <1>4 DEF NullifierInv, NullifierSpentOnce

\* However often and through whichever entry point it is presented, a nullifier
\* is consumed once (record_nullifier, submit_proof_with_nullifier).
THEOREM NullifiersOnce == HSpec => []NullifierSpentOnce
<1>1. HInit => NullifierInv
  BY DEF HInit, HistInit, Init, NullifierInv, NullifierSpentOnce
<1>2. NullifierInv /\ [HNext]_hvars => NullifierInv'
  BY NullifiersKept, NullifierSpent DEF HNext, NullifierInv, NullifierSpentOnce
<1>3. NullifierInv => NullifierSpentOnce
  BY DEF NullifierInv
<1> QED BY <1>1, <1>2, <1>3, PTL DEF HSpec

-----------------------------------------------------------------------------
(* Keys that were emergency-revoked.                                       *)

KeyTypeOK ==
    /\ issuer \in [Issuers -> IR!IssuerRecord \cup {None}]
    /\ retired \in [Issuers -> SUBSET IR!IssuerKey]
    /\ currentKeyRevoked \subseteq Issuers

\* A revoked key is still known to the registry as revoked, as the current key
\* or as a retired one, or it is forgotten: no rotation revives it, because the
\* revocation of the current key moves along with it.
KilledAreDead ==
    \A i \in Issuers, k \in PubKeys : <<i, k>> \in killed =>
        /\ IR!Registered(i)
        /\ IF k = issuer[i].pubkey THEN i \in currentKeyRevoked
           ELSE \A r \in retired[i] : r.pubkey = k => r.revoked

DeadKeyInv == KeyTypeOK /\ IR!KeysDistinct /\ KilledAreDead

LEMMA DeadKeyInit == HInit => DeadKeyInv
BY DEF HInit, HistInit, Init, IR!Init, DeadKeyInv, KeyTypeOK, IR!KeysDistinct,
   KilledAreDead

LEMMA KeysKept ==
  ASSUME DeadKeyInv, issuer' = issuer, retired' = retired,
         currentKeyRevoked' = currentKeyRevoked, killed' = killed
  PROVE  DeadKeyInv'
BY DEF DeadKeyInv, KeyTypeOK, IR!KeysDistinct, IR!Registered, KilledAreDead

LEMMA RegisterKeepsDead ==
  ASSUME DeadKeyInv, NEW i \in Issuers, NEW k \in PubKeys,
         NEW ts \in SUBSET ClaimTypes,
         IR!RegisterIssuer(Operator, i, k, ts), killed' = killed
  PROVE  DeadKeyInv'
<1> DEFINE new == [pubkey |-> k, credentialTypes |-> ts, revoked |-> FALSE]
<1>1. /\ issuer' = [issuer EXCEPT ![i] = new]
      /\ IR!Registered(i) => issuer[i].pubkey = k
      /\ retired' = retired /\ currentKeyRevoked' = currentKeyRevoked
  BY DEF IR!RegisterIssuer
<1>2. new \in IR!IssuerRecord /\ new # None /\ new.pubkey = k
  <2>1. new \in IR!IssuerRecord /\ new.pubkey = k
    BY DEF IR!IssuerRecord
  <2> QED BY <2>1, KeyAssumption DEF KeyAssumption
<1> HIDE DEF new
<1>3. KeyTypeOK'
  BY <1>1, <1>2 DEF DeadKeyInv, KeyTypeOK
<1>4. issuer'[i] = new /\ \A j \in Issuers : j # i => issuer'[j] = issuer[j]
  BY <1>1 DEF DeadKeyInv, KeyTypeOK
<1>5. IR!KeysDistinct'
  BY <1>1, <1>2, <1>4 DEF DeadKeyInv, IR!KeysDistinct, IR!Registered
<1>6. KilledAreDead'
  BY <1>1, <1>2, <1>4 DEF DeadKeyInv, KilledAreDead, IR!Registered
<1> QED BY <1>3, <1>5, <1>6 DEF DeadKeyInv

LEMMA RevokeIssuerKeepsDead ==
  ASSUME DeadKeyInv, NEW i \in Issuers,
         IR!RevokeIssuer(Operator, i), killed' = killed
  PROVE  DeadKeyInv'
<1>1. /\ issuer' = [issuer EXCEPT ![i].revoked = TRUE]
      /\ issuer[i] \in IR!IssuerRecord
      /\ retired' = retired /\ currentKeyRevoked' = currentKeyRevoked
  BY DEF IR!RevokeIssuer, IR!Registered, DeadKeyInv, KeyTypeOK
<1>2. /\ issuer'[i] \in IR!IssuerRecord /\ issuer'[i] # None
      /\ issuer'[i].pubkey = issuer[i].pubkey
      /\ \A j \in Issuers : j # i => issuer'[j] = issuer[j]
  BY <1>1, KeyAssumption DEF KeyAssumption, DeadKeyInv, KeyTypeOK, IR!IssuerRecord
<1>3. KeyTypeOK'
  BY <1>1, <1>2 DEF DeadKeyInv, KeyTypeOK
<1>4. IR!KeysDistinct'
  BY <1>1, <1>2, KeyAssumption
     DEF KeyAssumption, DeadKeyInv, IR!KeysDistinct, IR!Registered
<1>5. KilledAreDead'
  BY <1>1, <1>2 DEF DeadKeyInv, KilledAreDead, IR!Registered
<1> QED BY <1>3, <1>4, <1>5 DEF DeadKeyInv

LEMMA RotateKeepsDead ==
  ASSUME DeadKeyInv, NEW i \in Issuers, NEW k \in PubKeys, NEW w \in IR!Windows,
         IR!RotateIssuerKey(Operator, i, k, w), killed' = killed \ {<<i, k>>}
  PROVE  DeadKeyInv'
<1> DEFINE old == [pubkey |-> issuer[i].pubkey, validUntil |-> w,
                   revoked |-> i \in currentKeyRevoked]
           left == IR!PrunedRetiredKeys(i)
<1>1. /\ issuer[i] \in IR!IssuerRecord /\ issuer[i] # None
      /\ k # issuer[i].pubkey
      /\ \A r \in left : r.pubkey # k
      /\ retired' = [retired EXCEPT ![i] = left \cup {old}]
      /\ issuer' = [issuer EXCEPT ![i].pubkey = k]
      /\ currentKeyRevoked' = currentKeyRevoked \ {i}
  BY DEF IR!RotateIssuerKey, IR!Registered, DeadKeyInv, KeyTypeOK
<1>2. /\ old \in IR!IssuerKey
      /\ old.pubkey = issuer[i].pubkey
      /\ old.revoked = (i \in currentKeyRevoked)
  <2>1. issuer[i].pubkey \in PubKeys
    BY <1>1 DEF IR!IssuerRecord
  <2>2. w \in Int
    BY DEF IR!Windows
  <2> QED BY <2>1, <2>2 DEF IR!IssuerKey
<1>3. left \subseteq retired[i]
  BY DEF IR!PrunedRetiredKeys
<1> HIDE DEF old, left
<1>4. /\ issuer'[i] \in IR!IssuerRecord /\ issuer'[i].pubkey = k
      /\ retired'[i] = left \cup {old}
      /\ \A j \in Issuers : j # i =>
             issuer'[j] = issuer[j] /\ retired'[j] = retired[j]
  BY <1>1 DEF DeadKeyInv, KeyTypeOK, IR!IssuerRecord
<1>5. issuer'[i] # None
  BY <1>4, KeyAssumption DEF KeyAssumption
<1>6. KeyTypeOK'
  <2>1. issuer' \in [Issuers -> IR!IssuerRecord \cup {None}]
    BY <1>1, <1>4 DEF DeadKeyInv, KeyTypeOK
  <2>2. retired' \in [Issuers -> SUBSET IR!IssuerKey]
    BY <1>1, <1>2, <1>3, <1>4 DEF DeadKeyInv, KeyTypeOK
  <2> QED BY <1>1, <2>1, <2>2 DEF DeadKeyInv, KeyTypeOK
<1>7. IR!KeysDistinct'
  <2> SUFFICES ASSUME NEW j \in Issuers
               PROVE  /\ retired'[j] # {} => issuer'[j] # None
                      /\ \A r \in retired'[j] : r.pubkey # issuer'[j].pubkey
                      /\ \A r, s \in retired'[j] : r.pubkey = s.pubkey => r = s
    BY DEF IR!KeysDistinct, IR!Registered
  <2>1. /\ retired[j] # {} => issuer[j] # None
        /\ \A r \in retired[j] : r.pubkey # issuer[j].pubkey
        /\ \A r, s \in retired[j] : r.pubkey = s.pubkey => r = s
    BY DEF DeadKeyInv, IR!KeysDistinct, IR!Registered
  <2>2. CASE j = i
    BY <1>1, <1>2, <1>3, <1>4, <1>5, <2>1, <2>2
  <2>3. CASE j # i
    BY <1>4, <2>1, <2>3
  <2> QED BY <2>2, <2>3
<1>8. ASSUME NEW j \in Issuers, NEW q \in PubKeys, <<j, q>> \in killed'
      PROVE  /\ issuer'[j] # None
             /\ IF q = issuer'[j].pubkey THEN j \in currentKeyRevoked'
                ELSE \A r \in retired'[j] : r.pubkey = q => r.revoked
  <2>1. <<j, q>> \in killed /\ ~(j = i /\ q = k)
    BY <1>8
  <2>2. /\ issuer[j] # None
        /\ IF q = issuer[j].pubkey THEN j \in currentKeyRevoked
           ELSE \A r \in retired[j] : r.pubkey = q => r.revoked
    BY <2>1 DEF DeadKeyInv, KilledAreDead, IR!Registered
  <2>3. CASE j = i
    <3>1. q # issuer'[j].pubkey
      BY <1>4, <2>1, <2>3
    <3>2. ASSUME NEW r \in retired'[j], r.pubkey = q
          PROVE  r.revoked
      <4>1. CASE r \in left
        <5>1. r \in retired[i] /\ r.pubkey # issuer[i].pubkey
          BY <1>3, <4>1 DEF DeadKeyInv, IR!KeysDistinct
        <5> QED BY <2>2, <2>3, <3>2, <5>1
      <4>2. CASE r = old
        BY <1>2, <2>2, <2>3, <3>2, <4>2
      <4> QED BY <1>4, <2>3, <4>1, <4>2
    <3> QED BY <1>5, <2>3, <3>1, <3>2
  <2>4. CASE j # i
    BY <1>1, <1>4, <2>2, <2>4
  <2> QED BY <2>3, <2>4
<1>9. KilledAreDead'
  BY <1>8 DEF KilledAreDead, IR!Registered
<1> QED BY <1>6, <1>7, <1>9 DEF DeadKeyInv

LEMMA RevokeKeyKeepsDead ==
  ASSUME DeadKeyInv, NEW i \in Issuers, NEW k \in PubKeys,
         IR!RevokeIssuerKey(Operator, i, k), killed' = killed \cup {<<i, k>>}
  PROVE  DeadKeyInv'
<1>1. CASE IR!RevokeCurrentKey(Operator, i, k)
  <2>1. /\ issuer[i] # None /\ k = issuer[i].pubkey
        /\ issuer' = issuer /\ retired' = retired
        /\ currentKeyRevoked' = currentKeyRevoked \cup {i}
    BY <1>1 DEF IR!RevokeCurrentKey, IR!Registered
  <2> QED BY <2>1 DEF DeadKeyInv, KeyTypeOK, IR!KeysDistinct, IR!Registered,
                      KilledAreDead
<1>2. CASE IR!RevokeRetiredKey(Operator, i, k)
  <2>1. PICK r \in retired[i] :
          /\ r.pubkey = k
          /\ retired' = [retired EXCEPT ![i] =
                 (@ \ {r}) \cup {[r EXCEPT !.revoked = TRUE]}]
    BY <1>2 DEF IR!RevokeRetiredKey
  <2> DEFINE dead == [r EXCEPT !.revoked = TRUE]
  <2>2. /\ issuer' = issuer /\ currentKeyRevoked' = currentKeyRevoked
        /\ issuer[i] # None /\ k # issuer[i].pubkey
    BY <1>2 DEF IR!RevokeRetiredKey, IR!Registered
  <2>3. dead \in IR!IssuerKey /\ dead.pubkey = k /\ dead.revoked
    <3>1. r \in IR!IssuerKey
      BY <2>1 DEF DeadKeyInv, KeyTypeOK
    <3> QED BY <2>1, <3>1 DEF IR!IssuerKey
  <2>4. /\ retired'[i] = (retired[i] \ {r}) \cup {dead}
        /\ \A j \in Issuers : j # i => retired'[j] = retired[j]
    BY <2>1 DEF DeadKeyInv, KeyTypeOK
  <2> HIDE DEF dead
  <2>5. KeyTypeOK'
    BY <2>1, <2>2, <2>3, <2>4 DEF DeadKeyInv, KeyTypeOK
  <2>6. ASSUME NEW j \in Issuers
        PROVE  /\ retired'[j] # {} => issuer'[j] # None
               /\ \A p \in retired'[j] : p.pubkey # issuer'[j].pubkey
               /\ \A p, q \in retired'[j] : p.pubkey = q.pubkey => p = q
    <3>1. /\ retired[j] # {} => issuer[j] # None
          /\ \A p \in retired[j] : p.pubkey # issuer[j].pubkey
          /\ \A p, q \in retired[j] : p.pubkey = q.pubkey => p = q
      BY DEF DeadKeyInv, IR!KeysDistinct, IR!Registered
    <3>2. CASE j = i
      BY <2>1, <2>2, <2>3, <2>4, <3>1, <3>2
    <3>3. CASE j # i
      BY <2>2, <2>4, <3>1, <3>3
    <3> QED BY <3>2, <3>3
  <2>7. IR!KeysDistinct'
    BY <2>6 DEF IR!KeysDistinct, IR!Registered
  <2>8. ASSUME NEW j \in Issuers, NEW q \in PubKeys, <<j, q>> \in killed'
        PROVE  /\ issuer'[j] # None
               /\ IF q = issuer'[j].pubkey THEN j \in currentKeyRevoked'
                  ELSE \A p \in retired'[j] : p.pubkey = q => p.revoked
    <3>1. CASE <<j, q>> \in killed
      <4>1. /\ issuer[j] # None
            /\ IF q = issuer[j].pubkey THEN j \in currentKeyRevoked
               ELSE \A p \in retired[j] : p.pubkey = q => p.revoked
        BY <3>1 DEF DeadKeyInv, KilledAreDead, IR!Registered
      <4> QED BY <2>2, <2>3, <2>4, <4>1
    <3>2. CASE j = i /\ q = k
      <4>1. \A p \in retired[i] : p.pubkey = k => p = r
        BY <2>1 DEF DeadKeyInv, IR!KeysDistinct
      <4> QED BY <2>2, <2>3, <2>4, <3>2, <4>1
    <3> QED BY <2>8, <3>1, <3>2
  <2>9. KilledAreDead'
    BY <2>8 DEF KilledAreDead, IR!Registered
  <2> QED BY <2>5, <2>7, <2>9 DEF DeadKeyInv
<1> QED BY <1>1, <1>2 DEF IR!RevokeIssuerKey

\* The registry says no to a key that was revoked.
LEMMA DeadKeyRefused ==
  ASSUME DeadKeyInv, NEW i \in Issuers, NEW k \in PubKeys,
         IR!IsValidIssuerKey(i, k)
  PROVE  <<i, k>> \notin killed
BY DEF DeadKeyInv, KilledAreDead, IR!IsValidIssuerKey

\* It says no to bytes that are no key at all.
LEMMA NoKeyRefused ==
  ASSUME KeyTypeOK, NEW i \in Issuers
  PROVE  ~IR!IsValidIssuerKey(i, None)
<1> SUFFICES ASSUME IR!IsValidIssuerKey(i, None) PROVE FALSE
  OBVIOUS
<1>1. issuer[i] \in IR!IssuerRecord
  BY DEF IR!IsValidIssuerKey, IR!Registered, KeyTypeOK
<1>2. None # issuer[i].pubkey
  BY <1>1, KeyAssumption DEF KeyAssumption, IR!IssuerRecord
<1>3. PICK r \in retired[i] : r.pubkey = None
  BY <1>2 DEF IR!IsValidIssuerKey
<1>4. r.pubkey \in PubKeys
  BY <1>3 DEF KeyTypeOK, IR!IssuerKey
<1> QED BY <1>3, <1>4, KeyAssumption DEF KeyAssumption

\* What is noted of a submission whose keys are all alive.
LEMMA NoteOfLive ==
  ASSUME NEW h, NEW signed, NEW facts, Note(h, signed, facts),
         \A t \in DOMAIN signed : signed[t] \notin killed
  PROVE  lateSigners' = lateSigners /\ killed' = killed
BY DEF Note

LEMMA AggregateKeysLive ==
  ASSUME DeadKeyInv, NEW h \in Holders, NEW es \in [1..2 -> AggregateEntry],
         NEW p \in AggregateProof, SubmitAggregateProof(h, es, p)
  PROVE  /\ <<es[1].issuer, p.kycKey>> \notin killed
         /\ <<es[2].issuer, p.ageKey>> \notin killed
<1>1. DOMAIN es = 1..2
  OBVIOUS
<1>2. \A n \in 1..2 : IR!IsValidIssuerKey(
          es[n].issuer, AggregateKey(p, AggregateOffset(es, n)))
  BY <1>1 DEF SubmitAggregateProof
<1>3. /\ es[1].issuer \in Issuers /\ es[2].issuer \in Issuers
      /\ p.kycKey \in PubKeys /\ p.ageKey \in PubKeys
  BY DEF AggregateEntry, AggregateProof
<1>4. IR!IsValidIssuerKey(es[1].issuer, p.kycKey)
  <2>1. AggregateKey(p, AggregateOffset(es, 1)) = p.kycKey
    BY DEF AggregateKey, AggregateOffset
  <2> QED BY <1>2, <2>1
<1>5. IR!IsValidIssuerKey(es[2].issuer, p.ageKey)
  <2>1. AggregateOffset(es, 2) # 0
    BY DEF AggregateOffset, FieldCount
  <2>2. AggregateKey(p, AggregateOffset(es, 2)) \in {p.ageKey, None}
    BY <2>1 DEF AggregateKey
  <2>3. IR!IsValidIssuerKey(
            es[2].issuer, AggregateKey(p, AggregateOffset(es, 2)))
    BY <1>2
  <2>4. ~IR!IsValidIssuerKey(es[2].issuer, None)
    BY <1>3, NoKeyRefused DEF DeadKeyInv
  <2> QED BY <2>2, <2>3, <2>4
<1> QED BY <1>3, <1>4, <1>5, DeadKeyRefused

LEMMA SubmitSignersLive ==
  ASSUME DeadKeyInv, HSubmitStep
  PROVE  lateSigners' = lateSigners /\ killed' = killed
<1>1. PICK h \in Holders :
        \/ \E t \in ClaimTypes, c \in Claim :
            /\ SubmitProof(h, t, c)
            /\ Note(h, [u \in {t} |-> <<c.issuer, c.key>>], {Fact(t, c)})
        \/ \E ts \in SUBSET ClaimTypes : \E batch \in [ts -> Claim] :
            /\ SubmitProofs(h, batch)
            /\ Note(h, [t \in ts |-> <<batch[t].issuer, batch[t].key>>],
                    {Fact(t, batch[t]) : t \in ts})
        \/ \E es \in [1..2 -> AggregateEntry], p \in AggregateProof :
            /\ SubmitAggregateProof(h, es, p)
            /\ Note(h,
                    [t \in {es[n].type : n \in 1..2} |->
                        IF es[2].type = t THEN <<es[2].issuer, p.ageKey>>
                        ELSE <<es[1].issuer, p.kycKey>>],
                    {<<"kyc", None>>, <<"age", p.threshold>>})
  BY DEF HSubmitStep
<1>2. ASSUME NEW c \in Claim, NEW t, Accepted(c, t)
      PROVE  <<c.issuer, c.key>> \notin killed
  BY <1>2, DeadKeyRefused DEF Accepted, IssuerAccepted, Claim
<1>3. ASSUME NEW t \in ClaimTypes, NEW c \in Claim, SubmitProof(h, t, c),
             Note(h, [u \in {t} |-> <<c.issuer, c.key>>], {Fact(t, c)})
      PROVE  lateSigners' = lateSigners /\ killed' = killed
  <2> DEFINE signed == [u \in {t} |-> <<c.issuer, c.key>>]
  <2>1. \A u \in DOMAIN signed : signed[u] \notin killed
    BY <1>2, <1>3 DEF SubmitProof
  <2>2. Note(h, signed, {Fact(t, c)})
    BY <1>3
  <2> HIDE DEF signed
  <2> QED BY <2>1, <2>2, NoteOfLive
<1>4. ASSUME NEW ts \in SUBSET ClaimTypes, NEW batch \in [ts -> Claim],
             SubmitProofs(h, batch),
             Note(h, [t \in ts |-> <<batch[t].issuer, batch[t].key>>],
                  {Fact(t, batch[t]) : t \in ts})
      PROVE  lateSigners' = lateSigners /\ killed' = killed
  <2> DEFINE signed == [t \in ts |-> <<batch[t].issuer, batch[t].key>>]
             facts == {Fact(t, batch[t]) : t \in ts}
  <2>1. ASSUME NEW t \in ts
        PROVE  <<batch[t].issuer, batch[t].key>> \notin killed
    <3>1. batch[t] \in Claim /\ Accepted(batch[t], t)
      BY <1>4 DEF SubmitProofs
    <3> QED BY <1>2, <3>1
  <2>2. \A t \in DOMAIN signed : signed[t] \notin killed
    BY <2>1
  <2>3. Note(h, signed, facts)
    BY <1>4
  <2> HIDE DEF signed, facts
  <2> QED BY <2>2, <2>3, NoteOfLive
<1>5. ASSUME NEW es \in [1..2 -> AggregateEntry], NEW p \in AggregateProof,
             SubmitAggregateProof(h, es, p),
             Note(h,
                  [t \in {es[n].type : n \in 1..2} |->
                      IF es[2].type = t THEN <<es[2].issuer, p.ageKey>>
                      ELSE <<es[1].issuer, p.kycKey>>],
                  {<<"kyc", None>>, <<"age", p.threshold>>})
      PROVE  lateSigners' = lateSigners /\ killed' = killed
  <2> DEFINE signed == [t \in {es[n].type : n \in 1..2} |->
                            IF es[2].type = t THEN <<es[2].issuer, p.ageKey>>
                            ELSE <<es[1].issuer, p.kycKey>>]
             facts == {<<"kyc", None>>, <<"age", p.threshold>>}
  <2>1. \A t \in DOMAIN signed : signed[t] \notin killed
    BY <1>5, AggregateKeysLive
  <2>2. Note(h, signed, facts)
    BY <1>5
  <2> HIDE DEF signed, facts
  <2> QED BY <2>1, <2>2, NoteOfLive
<1> QED BY <1>1, <1>3, <1>4, <1>5

LEMMA NullifierSignersLive ==
  ASSUME DeadKeyInv, HNullifierStep
  PROVE  lateSigners' = lateSigners /\ killed' = killed
<1>1. ASSUME NEW n, NEW h \in Holders, NEW t \in ClaimTypes, NEW c \in Claim,
             SubmitProofWithNullifier(h, t, c, n),
             lateSigners' = lateSigners \cup ({<<c.issuer, c.key>>} \cap killed)
      PROVE  lateSigners' = lateSigners
  <2>1. <<c.issuer, c.key>> \notin killed
    BY <1>1, DeadKeyRefused
       DEF SubmitProofWithNullifier, Accepted, IssuerAccepted, Claim
  <2> QED BY <1>1, <2>1
<1> QED BY <1>1 DEF HNullifierStep

LEMMA OthersKeepKeys ==
  ASSUME HSubmitStep \/ HNullifierStep \/ HOtherStep \/ UNCHANGED hvars
  PROVE  /\ issuer' = issuer /\ retired' = retired
         /\ currentKeyRevoked' = currentKeyRevoked
<1>1. ASSUME SubmitStep
      PROVE  UNCHANGED issuerVars
  BY <1>1 DEF SubmitStep, SubmitProof, SubmitProofs, SubmitAggregateProof
<1>2. ASSUME NullifierStep
      PROVE  UNCHANGED issuerVars
  BY <1>2 DEF NullifierStep, RecordNullifier, SubmitProofWithNullifier
<1>3. ASSUME DelegationStep \/ RevocationStep
      PROVE  UNCHANGED issuerVars
  BY <1>3 DEF DelegationStep, GrantVerification, RevokeVerification,
     RevocationStep, RevokeProof, RevokeAll, Revoke
<1>4. ASSUME AdminStep
      PROVE  UNCHANGED issuerVars
  BY <1>4 DEF AdminStep, MigrateRecord, Pause, Unpause, SetPaused
<1>5. ASSUME VerifierStep \/ Tick \/ Govern \/ UNCHANGED vars
      PROVE  UNCHANGED issuerVars
  BY <1>5 DEF VerifierStep, Tick, Govern, vars
<1>6. ASSUME HSubmitStep
      PROVE  SubmitStep
  BY <1>6 DEF HSubmitStep, SubmitStep
<1>7. ASSUME HNullifierStep
      PROVE  NullifierStep
  BY <1>7 DEF HNullifierStep, NullifierStep
<1>8. UNCHANGED issuerVars
  BY <1>1, <1>2, <1>3, <1>4, <1>5, <1>6, <1>7 DEF HOtherStep, hvars
<1> QED BY <1>8 DEF issuerVars

LEMMA DeadKeyStep ==
  ASSUME DeadKeyInv, [HNext]_hvars
  PROVE  DeadKeyInv' /\ lateSigners' = lateSigners
<1>1. CASE HSubmitStep \/ HNullifierStep \/ HOtherStep \/ UNCHANGED hvars
  <2>1. lateSigners' = lateSigners /\ killed' = killed
    BY <1>1, SubmitSignersLive, NullifierSignersLive
       DEF HOtherStep, hvars, histVars
  <2> QED BY <1>1, <2>1, OthersKeepKeys, KeysKept
<1>2. CASE HKeyStep
  <2>1. PICK i \in Issuers, k \in PubKeys :
          \/ /\ \E w \in IR!Windows : IR!RotateIssuerKey(Operator, i, k, w)
             /\ killed' = killed \ {<<i, k>>}
          \/ /\ IR!RevokeIssuerKey(Operator, i, k)
             /\ killed' = killed \cup {<<i, k>>}
    BY <1>2 DEF HKeyStep
  <2>2. lateSigners' = lateSigners
    BY <1>2 DEF HKeyStep
  <2> QED BY <2>1, <2>2, RotateKeepsDead, RevokeKeyKeepsDead
<1>3. CASE HIssuerStep
  <2>1. lateSigners' = lateSigners /\ killed' = killed
    BY <1>3 DEF HIssuerStep, histVars
  <2>2. ASSUME NEW i \in Issuers, IR!SetIssuerMetadata(Operator, i)
        PROVE  DeadKeyInv'
    <3>1. issuer' = issuer /\ retired' = retired
          /\ currentKeyRevoked' = currentKeyRevoked
      BY <2>2 DEF IR!SetIssuerMetadata, IR!keyVars
    <3> QED BY <2>1, <3>1, KeysKept
  <2> QED BY <1>3, <2>1, <2>2, RegisterKeepsDead, RevokeIssuerKeepsDead
          DEF HIssuerStep
<1> QED BY <1>1, <1>2, <1>3 DEF HNext

\* No claim is accepted that was signed with a key revoked before, whichever
\* submission path it comes by: the check crosses from the proof registry to the
\* issuer registry (require_issuer_valid, is_valid_issuer_key).
THEOREM DeadKeysSignNothing == HSpec => []NoClaimByDeadKey
<1>1. HInit => DeadKeyInv /\ NoClaimByDeadKey
  BY DeadKeyInit DEF HInit, HistInit, NoClaimByDeadKey
<1>2. DeadKeyInv /\ NoClaimByDeadKey /\ [HNext]_hvars
        => DeadKeyInv' /\ NoClaimByDeadKey'
  BY DeadKeyStep DEF NoClaimByDeadKey
<1> QED BY <1>1, <1>2, PTL DEF HSpec

-----------------------------------------------------------------------------
(* What valid claims tell applications.                                    *)

\* A record that a submission left states what an accepted proof stated, revoked
\* or not; only then is the step of a migration or a revocation harmless, both
\* of which keep the threshold.
RecordsProven ==
    \A h \in Holders, t \in ClaimTypes :
        signer[<<h, t>>] # None /\ proofs[<<h, t>>] # None =>
            <<h, t, proofs[<<h, t>>].threshold>> \in attested

ProvenInv == DOMAIN signer = Holders \X ClaimTypes /\ RecordsProven

\* What a submission of holder h for the types ts leaves behind.
Proven(h, ts) ==
    /\ DOMAIN signer' = DOMAIN signer
    /\ attested \subseteq attested'
    /\ \A t \in ts : <<h, t, proofs'[<<h, t>>].threshold>> \in attested'
    /\ \A g \in Holders, t \in ClaimTypes :
           ~(g = h /\ t \in ts) =>
               /\ proofs'[<<g, t>>] = proofs[<<g, t>>]
               /\ signer'[<<g, t>>] = signer[<<g, t>>]

LEMMA ProvenKeepsInv ==
  ASSUME ProvenInv, NEW h \in Holders, NEW ts, Proven(h, ts)
  PROVE  ProvenInv'
BY DEF ProvenInv, RecordsProven, Proven

LEMMA NoteProves ==
  ASSUME ProvenInv, NEW h \in Holders, NEW signed, NEW facts,
         Note(h, signed, facts), DOMAIN signed \subseteq ClaimTypes,
         \A t \in DOMAIN signed : <<t, proofs'[<<h, t>>].threshold>> \in facts,
         \A g \in Holders, t \in ClaimTypes :
             ~(g = h /\ t \in DOMAIN signed) =>
                 proofs'[<<g, t>>] = proofs[<<g, t>>]
  PROVE  Proven(h, DOMAIN signed)
<1>1. /\ DOMAIN signer' = DOMAIN signer
      /\ attested \subseteq attested'
      /\ \A f \in facts : <<h, f[1], f[2]>> \in attested'
      /\ \A ht \in DOMAIN signer :
             ~(ht[1] = h /\ ht[2] \in DOMAIN signed) => signer'[ht] = signer[ht]
  BY DEF Note
<1>2. ASSUME NEW t \in DOMAIN signed
      PROVE  <<h, t, proofs'[<<h, t>>].threshold>> \in attested'
  <2> DEFINE f == <<t, proofs'[<<h, t>>].threshold>>
  <2>1. f \in facts /\ f[1] = t /\ f[2] = proofs'[<<h, t>>].threshold
    OBVIOUS
  <2> QED BY <1>1, <2>1
<1>3. ASSUME NEW g \in Holders, NEW t \in ClaimTypes,
             ~(g = h /\ t \in DOMAIN signed)
      PROVE  signer'[<<g, t>>] = signer[<<g, t>>]
  <2>1. <<g, t>> \in DOMAIN signer /\ <<g, t>>[1] = g /\ <<g, t>>[2] = t
    BY DEF ProvenInv
  <2> QED BY <1>1, <1>3, <2>1
<1> QED BY <1>1, <1>2, <1>3 DEF Proven

\* The threshold a submission stores is the one its proof states.
LEMMA FactOfRecord ==
  ASSUME NEW t, NEW c
  PROVE  /\ SubmittedRecord(c, t).threshold = Fact(t, c)[2]
         /\ Fact(t, c) = <<t, Fact(t, c)[2]>>
BY DEF SubmittedRecord, NewRecord, Fact

LEMMA SubmitProves ==
  ASSUME ClaimTypeOK, ProvenInv, HSubmitStep,
         "aggregate" \notin CircuitTypes \/ ClaimTypes \subseteq {"kyc", "age"}
  PROVE  ProvenInv'
<1>0. DOMAIN proofs = Holders \X ClaimTypes
  BY DEF ClaimTypeOK
<1>1. PICK h \in Holders :
        \/ \E t \in ClaimTypes, c \in Claim :
            /\ SubmitProof(h, t, c)
            /\ Note(h, [u \in {t} |-> <<c.issuer, c.key>>], {Fact(t, c)})
        \/ \E ts \in SUBSET ClaimTypes : \E batch \in [ts -> Claim] :
            /\ SubmitProofs(h, batch)
            /\ Note(h, [t \in ts |-> <<batch[t].issuer, batch[t].key>>],
                    {Fact(t, batch[t]) : t \in ts})
        \/ \E es \in [1..2 -> AggregateEntry], p \in AggregateProof :
            /\ "aggregate" \in CircuitTypes
            /\ SubmitAggregateProof(h, es, p)
            /\ Note(h,
                    [t \in {es[n].type : n \in 1..2} |->
                        IF es[2].type = t THEN <<es[2].issuer, p.ageKey>>
                        ELSE <<es[1].issuer, p.kycKey>>],
                    {<<"kyc", None>>, <<"age", p.threshold>>})
  BY DEF HSubmitStep
<1>2. ASSUME NEW t \in ClaimTypes, NEW c \in Claim, SubmitProof(h, t, c),
             Note(h, [u \in {t} |-> <<c.issuer, c.key>>], {Fact(t, c)})
      PROVE  ProvenInv'
  <2> DEFINE signed == [u \in {t} |-> <<c.issuer, c.key>>]
  <2>1. /\ DOMAIN signed = {t} /\ DOMAIN signed \subseteq ClaimTypes
        /\ Note(h, signed, {Fact(t, c)})
    BY <1>2
  <2>2. proofs' = [proofs EXCEPT ![<<h, t>>] = SubmittedRecord(c, t)]
    BY <1>2 DEF SubmitProof
  <2>3. proofs'[<<h, t>>].threshold = Fact(t, c)[2]
    BY <1>0, <2>2, FactOfRecord
  <2>4. \A u \in DOMAIN signed : <<u, proofs'[<<h, u>>].threshold>> \in {Fact(t, c)}
    BY <2>1, <2>3, FactOfRecord
  <2>5. \A g \in Holders, u \in ClaimTypes :
            ~(g = h /\ u \in DOMAIN signed) => proofs'[<<g, u>>] = proofs[<<g, u>>]
    BY <1>0, <2>1, <2>2
  <2> HIDE DEF signed
  <2>6. Proven(h, DOMAIN signed)
    BY <2>1, <2>4, <2>5, NoteProves
  <2> QED BY <2>6, ProvenKeepsInv
<1>3. ASSUME NEW ts \in SUBSET ClaimTypes, NEW batch \in [ts -> Claim],
             SubmitProofs(h, batch),
             Note(h, [t \in ts |-> <<batch[t].issuer, batch[t].key>>],
                  {Fact(t, batch[t]) : t \in ts})
      PROVE  ProvenInv'
  <2> DEFINE signed == [t \in ts |-> <<batch[t].issuer, batch[t].key>>]
             facts == {Fact(t, batch[t]) : t \in ts}
  <2>1. /\ DOMAIN signed = ts /\ DOMAIN signed \subseteq ClaimTypes
        /\ Note(h, signed, facts)
    BY <1>3
  <2>2. proofs' = [ht \in DOMAIN proofs |->
           IF ht[1] = h /\ ht[2] \in ts
           THEN SubmittedRecord(batch[ht[2]], ht[2]) ELSE proofs[ht]]
    BY <1>3 DEF SubmitProofs
  <2>3. ASSUME NEW u \in ts
        PROVE  <<u, proofs'[<<h, u>>].threshold>> \in facts
    <3>1. proofs'[<<h, u>>] = SubmittedRecord(batch[u], u)
      BY <1>0, <2>2
    <3>2. <<u, proofs'[<<h, u>>].threshold>> = Fact(u, batch[u])
      BY <3>1, FactOfRecord
    <3> QED BY <3>2
  <2>4. \A u \in DOMAIN signed : <<u, proofs'[<<h, u>>].threshold>> \in facts
    BY <2>1, <2>3
  <2>5. \A g \in Holders, u \in ClaimTypes :
            ~(g = h /\ u \in DOMAIN signed) => proofs'[<<g, u>>] = proofs[<<g, u>>]
    BY <1>0, <2>1, <2>2
  <2> HIDE DEF signed, facts
  <2>6. Proven(h, DOMAIN signed)
    BY <2>1, <2>4, <2>5, NoteProves
  <2> QED BY <2>6, ProvenKeepsInv
<1>4. ASSUME NEW es \in [1..2 -> AggregateEntry], NEW p \in AggregateProof,
             "aggregate" \in CircuitTypes,
             SubmitAggregateProof(h, es, p),
             Note(h,
                  [t \in {es[n].type : n \in 1..2} |->
                      IF es[2].type = t THEN <<es[2].issuer, p.ageKey>>
                      ELSE <<es[1].issuer, p.kycKey>>],
                  {<<"kyc", None>>, <<"age", p.threshold>>})
      PROVE  ProvenInv'
  <2> DEFINE signed == [t \in {es[n].type : n \in 1..2} |->
                            IF es[2].type = t THEN <<es[2].issuer, p.ageKey>>
                            ELSE <<es[1].issuer, p.kycKey>>]
             facts == {<<"kyc", None>>, <<"age", p.threshold>>}
             Mine(ht) == {n \in DOMAIN es : ht = <<h, es[n].type>>}
             Last(ht) == CHOOSE n \in Mine(ht) : \A m \in Mine(ht) : m <= n
  <2>0. DOMAIN es = 1..2 /\ \A n \in 1..2 : es[n].type \in ClaimTypes
    BY DEF AggregateEntry
  <2>1. /\ DOMAIN signed = {es[n].type : n \in 1..2}
        /\ DOMAIN signed \subseteq ClaimTypes
        /\ Note(h, signed, facts)
    BY <1>4, <2>0
  <2>2. \A ht \in DOMAIN proofs :
          proofs'[ht] = IF Mine(ht) = {} THEN proofs[ht]
                        ELSE NewRecord(es[Last(ht)], 0,
                                 AggregateThreshold(es[Last(ht)].type, p))
    BY <1>4 DEF SubmitAggregateProof
  <2>3. ASSUME NEW u \in ClaimTypes, Mine(<<h, u>>) # {}
        PROVE  proofs'[<<h, u>>].threshold = AggregateThreshold(u, p)
    <3>1. Last(<<h, u>>) \in Mine(<<h, u>>)
      <4>1. Mine(<<h, u>>) \subseteq 1..2
        BY <2>0
      <4>2. \E n \in Mine(<<h, u>>) : \A m \in Mine(<<h, u>>) : m <= n
        <5>1. CASE 2 \in Mine(<<h, u>>)
          BY <4>1, <5>1
        <5>2. CASE 2 \notin Mine(<<h, u>>)
          BY <2>3, <4>1, <5>2
        <5> QED BY <5>1, <5>2
      <4> HIDE DEF Mine
      <4> QED BY <4>2
    <3>2. es[Last(<<h, u>>)].type = u
      BY <3>1
    <3>3. <<h, u>> \in DOMAIN proofs
      BY <1>0
    <3> DEFINE e == es[Last(<<h, u>>)]
    <3>4. proofs'[<<h, u>>] = NewRecord(e, 0, AggregateThreshold(e.type, p))
      <4> HIDE DEF Mine, Last
      <4> QED BY <2>2, <2>3, <3>3
    <3> HIDE DEF e
    <3>5. NewRecord(e, 0, AggregateThreshold(e.type, p)).threshold
            = AggregateThreshold(e.type, p)
      BY DEF NewRecord
    <3> QED BY <3>2, <3>4, <3>5 DEF e
  <2>4. ASSUME NEW u \in DOMAIN signed
        PROVE  <<u, proofs'[<<h, u>>].threshold>> \in facts
    <3>1. PICK n \in 1..2 : u = es[n].type
      BY <2>1
    <3>2. n \in Mine(<<h, u>>) /\ u \in {"kyc", "age"}
      BY <1>4, <2>0, <3>1
    <3>3. proofs'[<<h, u>>].threshold = AggregateThreshold(u, p)
      BY <2>1, <2>3, <3>2
    <3>4. AggregateThreshold(u, p) = IF u = "age" THEN p.threshold ELSE None
      BY <3>2 DEF AggregateThreshold, AggregateThresholdTypes
    <3> QED BY <3>2, <3>3, <3>4
  <2>5. ASSUME NEW g \in Holders, NEW u \in ClaimTypes,
               ~(g = h /\ u \in DOMAIN signed)
        PROVE  proofs'[<<g, u>>] = proofs[<<g, u>>]
    <3>1. Mine(<<g, u>>) = {}
      BY <2>0, <2>1, <2>5
    <3>2. <<g, u>> \in DOMAIN proofs
      BY <1>0
    <3> HIDE DEF Mine
    <3> QED BY <2>2, <3>1, <3>2
  <2> HIDE DEF signed, facts
  <2>6. Proven(h, DOMAIN signed)
    BY <2>1, <2>4, <2>5, NoteProves
  <2> QED BY <2>6, ProvenKeepsInv
<1> QED BY <1>1, <1>2, <1>3, <1>4

LEMMA NullifierProves ==
  ASSUME ClaimTypeOK, ProvenInv, HNullifierStep
  PROVE  ProvenInv'
<1>1. ASSUME NEW h \in Holders, NEW t \in ClaimTypes, NEW c \in Claim,
             proofs' = [proofs EXCEPT ![<<h, t>>] = SubmittedRecord(c, t)],
             signer' = [signer EXCEPT ![<<h, t>>] = <<c.issuer, c.key>>],
             attested' = attested \cup {<<h, t, Fact(t, c)[2]>>}
      PROVE  ProvenInv'
  <2>1. DOMAIN proofs = Holders \X ClaimTypes /\ DOMAIN signer = Holders \X ClaimTypes
    BY DEF ClaimTypeOK, ProvenInv
  <2>2. proofs'[<<h, t>>].threshold = Fact(t, c)[2]
    BY <1>1, <2>1, FactOfRecord
  <2>3. ASSUME NEW g \in Holders, NEW u \in ClaimTypes, ~(g = h /\ u = t)
        PROVE  /\ proofs'[<<g, u>>] = proofs[<<g, u>>]
               /\ signer'[<<g, u>>] = signer[<<g, u>>]
    BY <1>1, <2>1, <2>3
  <2>4. Proven(h, {t})
    BY <1>1, <2>2, <2>3 DEF Proven
  <2> QED BY <2>4, ProvenKeepsInv
<1>2. ASSUME proofs' = proofs, signer' = signer, attested' = attested
      PROVE  ProvenInv'
  BY <1>2 DEF ProvenInv, RecordsProven
<1> QED BY <1>1, <1>2
        DEF HNullifierStep, RecordNullifier, SubmitProofWithNullifier

\* No other step states anything new of a holder.
LEMMA OthersStateNothing ==
  ASSUME ClaimTypeOK, HKeyStep \/ HIssuerStep \/ HOtherStep \/ UNCHANGED hvars,
         NEW h \in Holders, NEW t \in ClaimTypes, proofs'[<<h, t>>] # None
  PROVE  /\ proofs[<<h, t>>] # None
         /\ proofs'[<<h, t>>].threshold = proofs[<<h, t>>].threshold
<1>0. /\ DOMAIN proofs = Holders \X ClaimTypes
      /\ proofs[<<h, t>>] \in ProofRecord \cup {None}
  BY DEF ClaimTypeOK
<1>1. CASE proofs' = proofs
  BY <1>1
<1>2. CASE RevocationStep
  <2>1. PICK g \in Holders :
          \/ \E u \in ClaimTypes : RevokeProof(g, u)
          \/ RevokeAll(g)
          \/ \E i \in Issuers, u \in ClaimTypes : Revoke(i, g, u)
    BY <1>2 DEF RevocationStep
  <2>2. ASSUME NEW u \in ClaimTypes, RevokeProof(g, u)
        PROVE  proofs'[<<h, t>>] = proofs[<<h, t>>]
    BY <1>0, <2>2 DEF RevokeProof
  <2>3. ASSUME RevokeAll(g)
        PROVE  proofs'[<<h, t>>] = proofs[<<h, t>>]
    BY <1>0, <2>3 DEF RevokeAll
  <2>4. ASSUME NEW i \in Issuers, NEW u \in ClaimTypes, Revoke(i, g, u)
        PROVE  \/ proofs'[<<h, t>>] = proofs[<<h, t>>]
               \/ /\ proofs[<<h, t>>] # None
                  /\ proofs'[<<h, t>>] = [proofs[<<h, t>>] EXCEPT !.revoked = TRUE]
    BY <1>0, <2>4 DEF Revoke, Readable
  <2> QED BY <1>0, <2>1, <2>2, <2>3, <2>4 DEF ProofRecord
<1>3. CASE AdminStep
  <2>1. ASSUME NEW c \in Address, NEW g \in Holders, NEW u \in ClaimTypes,
               MigrateRecord(c, g, u)
        PROVE  \/ proofs'[<<h, t>>] = proofs[<<h, t>>]
               \/ /\ proofs[<<h, t>>] # None
                  /\ proofs'[<<h, t>>] =
                         [proofs[<<h, t>>] EXCEPT !.issuer = None, !.vkVersion = 0,
                                                  !.shape = CurrentShape]
    BY <1>0, <2>1 DEF MigrateRecord
  <2>2. ASSUME NEW c \in Address, Pause(c) \/ Unpause(c)
        PROVE  proofs' = proofs
    BY <2>2 DEF Pause, Unpause, SetPaused
  <2> QED BY <1>0, <1>3, <2>1, <2>2 DEF AdminStep, ProofRecord
<1>4. ASSUME DelegationStep \/ VerifierStep \/ Tick \/ Govern \/ HKeyStep
             \/ HIssuerStep \/ UNCHANGED hvars
      PROVE  proofs' = proofs
  BY <1>4 DEF DelegationStep, GrantVerification, RevokeVerification,
     VerifierStep, Tick, Govern, HKeyStep, HIssuerStep, hvars, vars, claimVars
<1> QED BY <1>1, <1>2, <1>3, <1>4 DEF HOtherStep

\* A claim an application relies on states no more than a proof that was accepted
\* for its holder stated: submit_proof, submit_proofs and
\* submit_proof_with_nullifier store the threshold of the public inputs.
\* submit_aggregate_proof takes the types from the caller (AggregateLayoutChecked),
\* so it does so only where every type in use is one of the circuit's own.
THEOREM ClaimsProven ==
  ASSUME "aggregate" \notin CircuitTypes \/ ClaimTypes \subseteq {"kyc", "age"}
  PROVE  HSpec => []ClaimsAreProven
<1>1. HInit => ProvenInv
  BY DEF HInit, HistInit, ProvenInv, RecordsProven
<1>2. ClaimInv /\ ProvenInv /\ [HNext]_hvars => ProvenInv'
  <2> SUFFICES ASSUME ClaimInv, ProvenInv, [HNext]_hvars PROVE ProvenInv'
    OBVIOUS
  <2>0. ClaimTypeOK
    BY DEF ClaimInv
  <2>1. CASE HSubmitStep
    BY <2>0, <2>1, SubmitProves
  <2>2. CASE HNullifierStep
    BY <2>0, <2>2, NullifierProves
  <2>3. CASE HKeyStep \/ HIssuerStep \/ HOtherStep \/ UNCHANGED hvars
    <3>1. signer' = signer /\ attested' = attested
      BY <2>3 DEF HKeyStep, HIssuerStep, HOtherStep, hvars, histVars
    <3>2. \A h \in Holders, t \in ClaimTypes :
            proofs'[<<h, t>>] # None =>
              /\ proofs[<<h, t>>] # None
              /\ proofs'[<<h, t>>].threshold = proofs[<<h, t>>].threshold
      BY <2>0, <2>3, OthersStateNothing
    <3> QED BY <3>1, <3>2 DEF ProvenInv, RecordsProven
  <2> QED BY <2>1, <2>2, <2>3 DEF HNext
<1>3. ProvenInv => ClaimsAreProven
  BY DEF ProvenInv, RecordsProven, ClaimsAreProven, IsVerified, Readable
<1>4. HSpec => []ClaimInv
  BY HistoryOnlyWatches, ClaimInvariant, PTL
<1> QED BY <1>1, <1>2, <1>3, <1>4, PTL DEF HSpec

=============================================================================
