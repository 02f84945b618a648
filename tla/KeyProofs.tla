------------------------------ MODULE KeyProofs ------------------------------
(***************************************************************************)
(* Theorems about keys: an issuer's key set, for every set of issuers and  *)
(* keys, every retention bound, history length and clock bound; and the    *)
(* life of the verification keys, for every set of types, versions and     *)
(* blobs and every support window.                                         *)
(***************************************************************************)
EXTENDS KeyHistory, FiniteSetTheorems, TLAPS

-----------------------------------------------------------------------------
\* The signing keys of issuers.

\* The steps that leave keys, promises and revocations alone, the clock aside.
Idle == UNCHANGED <<keyVars, histVars>>

\* What the proof needs of the types; the governance state plays no part.
KeyTypeOK ==
    /\ now \in Nat
    /\ issuer \in [Issuers -> IssuerRecord \cup {None}]
    /\ retired \in [Issuers -> SUBSET IssuerKey]
    /\ currentKeyRevoked \subseteq Issuers
    /\ HTypeOK

KeyInv == KeyTypeOK /\ KeysDistinct /\ KeySetIsHistory

-----------------------------------------------------------------------------
LEMMA InitKeyInv == HInit => KeyInv
<1> SUFFICES ASSUME HInit PROVE KeyInv
  OBVIOUS
<1> USE DEF HInit, Init
<1>1. KeyTypeOK
  BY DEF KeyTypeOK, HTypeOK
<1>2. KeysDistinct
  BY DEF KeysDistinct
<1>3. KeySetIsHistory
  BY DEF KeySetIsHistory, Registered
<1> QED BY <1>1, <1>2, <1>3 DEF KeyInv

\* Letting time pass or touching other state keeps the key set in step.
LEMMA IdleKeepsKeyInv ==
  ASSUME KeyInv, Idle, now' \in Nat, now <= now'
  PROVE  KeyInv'
<1> USE DEF KeyInv, Idle, keyVars, histVars
<1>1. KeyTypeOK'
  BY DEF KeyTypeOK, HTypeOK
<1>2. KeysDistinct'
  BY DEF KeysDistinct, Registered
<1>3. KeySetIsHistory'
  BY DEF KeySetIsHistory, Registered, KeyTypeOK, HTypeOK
<1> QED BY <1>1, <1>2, <1>3

LEMMA RegisterKeepsKeyInv ==
  ASSUME KeyInv, NEW c \in Address, NEW i \in Issuers, NEW k \in PubKeys,
         NEW ts \in SUBSET CredTypes,
         RegisterIssuer(c, i, k, ts), UNCHANGED histVars
  PROVE  KeyInv'
<1> USE RegistryAssumption DEF KeyInv, KeyTypeOK, HTypeOK, RegisterIssuer,
        histVars
<1>1. KeyTypeOK'
  BY DEF IssuerRecord
<1>2. issuer'[i].pubkey = k /\ (Registered(i) => issuer[i].pubkey = k)
  OBVIOUS
<1>3. \A j \in Issuers : j # i => issuer'[j] = issuer[j]
  OBVIOUS
<1>4. issuer'[i] # None
  <2>1. issuer'[i] = [pubkey |-> k, credentialTypes |-> ts, revoked |-> FALSE]
    OBVIOUS
  <2>2. issuer'[i] \in IssuerRecord
    BY <2>1 DEF IssuerRecord
  <2> QED BY <2>2 DEF RegistryAssumption
<1>5. KeysDistinct'
  BY <1>2, <1>3, <1>4 DEF KeysDistinct, Registered
<1>6. KeySetIsHistory'
  BY <1>2, <1>3, <1>4 DEF KeySetIsHistory, Registered
<1> QED BY <1>1, <1>5, <1>6

LEMMA RevokeIssuerKeepsKeyInv ==
  ASSUME KeyInv, NEW c \in Address, NEW i \in Issuers,
         RevokeIssuer(c, i), UNCHANGED histVars
  PROVE  KeyInv'
<1> USE DEF KeyInv, KeyTypeOK, HTypeOK, histVars
<1>1. issuer[i] \in IssuerRecord
  BY DEF RevokeIssuer, Registered
<1>2. KeyTypeOK'
  BY <1>1 DEF RevokeIssuer, IssuerRecord
<1>3. issuer'[i] \in IssuerRecord /\ issuer'[i].pubkey = issuer[i].pubkey
  BY <1>1 DEF RevokeIssuer, IssuerRecord
<1>4. /\ \A j \in Issuers : j # i => issuer'[j] = issuer[j]
      /\ UNCHANGED <<now, retired, currentKeyRevoked>>
  BY DEF RevokeIssuer
<1>5. issuer[i] # None /\ issuer'[i] # None
  BY <1>1, <1>3, RegistryAssumption DEF RegistryAssumption
<1>6. \A j \in Issuers : /\ issuer'[j].pubkey = issuer[j].pubkey
                         /\ issuer'[j] = None <=> issuer[j] = None
  BY <1>3, <1>4, <1>5
<1>7. KeysDistinct'
  BY <1>4, <1>6 DEF KeysDistinct, Registered
<1>8. KeySetIsHistory'
  BY <1>4, <1>6 DEF KeySetIsHistory, Registered
<1> QED BY <1>2, <1>7, <1>8

LEMMA RevokeCurrentKeepsKeyInv ==
  ASSUME KeyInv, NEW c \in Address, NEW i \in Issuers, NEW k \in PubKeys,
         RevokeCurrentKey(c, i, k), UNCHANGED promised,
         killed' = [killed EXCEPT ![i] = @ \cup {k}]
  PROVE  KeyInv'
<1> USE DEF KeyInv, KeyTypeOK, HTypeOK, RevokeCurrentKey
<1>1. KeyTypeOK'
  OBVIOUS
<1>2. KeysDistinct'
  BY DEF KeysDistinct, Registered
<1>3. \A r \in retired[i] : r.pubkey # k
  BY DEF KeysDistinct
<1>4. KeySetIsHistory'
  BY <1>3 DEF KeySetIsHistory, Registered
<1> QED BY <1>1, <1>2, <1>4

LEMMA RevokeRetiredKeepsKeyInv ==
  ASSUME KeyInv, NEW c \in Address, NEW i \in Issuers, NEW k \in PubKeys,
         RevokeRetiredKey(c, i, k), UNCHANGED promised,
         killed' = [killed EXCEPT ![i] = @ \cup {k}]
  PROVE  KeyInv'
<1> USE DEF KeyInv, KeyTypeOK, HTypeOK
<1>1. PICK r \in retired[i] :
        /\ r.pubkey = k
        /\ ~r.revoked
        /\ now < r.validUntil
        /\ retired' = [retired EXCEPT ![i] =
               (@ \ {r}) \cup {[r EXCEPT !.revoked = TRUE]}]
  BY DEF RevokeRetiredKey
<1> DEFINE s == [r EXCEPT !.revoked = TRUE]
<1>2. r \in IssuerKey
  OBVIOUS
<1>3. /\ s \in IssuerKey
      /\ s.pubkey = k /\ s.validUntil = r.validUntil /\ s.revoked = TRUE
  BY <1>1, <1>2 DEF IssuerKey
<1> HIDE DEF s
<1>4. /\ retired'[i] = (retired[i] \ {r}) \cup {s}
      /\ \A j \in Issuers : j # i => retired'[j] = retired[j]
  BY <1>1 DEF s
<1>5. /\ UNCHANGED <<now, issuer, currentKeyRevoked>>
      /\ Registered(i) /\ k # issuer[i].pubkey
  BY DEF RevokeRetiredKey
<1>6. \A q \in retired[i] : q # r => q.pubkey # k
  BY <1>1 DEF KeysDistinct
<1>7. KeyTypeOK'
  BY <1>1, <1>3, <1>4, <1>5 DEF s
<1>8. KeysDistinct'
  <2> SUFFICES ASSUME NEW j \in Issuers
               PROVE  /\ retired'[j] # {} => issuer'[j] # None
                      /\ \A q \in retired'[j] : q.pubkey # issuer'[j].pubkey
                      /\ \A p, q \in retired'[j] :
                             p.pubkey = q.pubkey => p = q
    BY DEF KeysDistinct, Registered
  <2>1. CASE j = i
    BY <2>1, <1>3, <1>4, <1>5, <1>6 DEF KeysDistinct, Registered
  <2>2. CASE j # i
    BY <2>2, <1>4, <1>5 DEF KeysDistinct, Registered
  <2> QED BY <2>1, <2>2
<1>9. KeySetIsHistory'
  <2>1. /\ \A q \in retired'[i] :
               /\ promised'[i][q.pubkey] = q.validUntil
               /\ q.revoked <=> q.pubkey \in killed'[i]
        /\ \A key \in PubKeys :
               now' < promised'[i][key] =>
                   \E q \in retired'[i] : q.pubkey = key
    BY <1>1, <1>3, <1>4, <1>5, <1>6 DEF KeySetIsHistory
  <2>2. i \in currentKeyRevoked' <=> issuer'[i].pubkey \in killed'[i]
    BY <1>5 DEF KeySetIsHistory
  <2> QED BY <2>1, <2>2, <1>4, <1>5 DEF KeySetIsHistory, Registered
<1> QED BY <1>7, <1>8, <1>9

\* Pruning drops only closed windows, and the incoming key's own history is
\* either closed or refused, so a rotation keeps the set in step.
LEMMA RotateKeepsKeyInv ==
  ASSUME KeyInv, NEW c \in Address, NEW i \in Issuers, NEW k \in PubKeys,
         NEW w \in Windows, HRotateIssuerKey(c, i, k, w)
  PROVE  KeyInv'
<1> USE DEF KeyInv, KeyTypeOK, HTypeOK
<1> DEFINE old == issuer[i].pubkey
           kept == PrunedRetiredKeys(i)
           entry == [pubkey |-> old, validUntil |-> w,
                     revoked |-> i \in currentKeyRevoked]
<1>1. /\ issuer[i] \in IssuerRecord /\ issuer[i] # None
      /\ old \in PubKeys /\ k # old /\ w \in Int /\ now < w
  BY RegistryAssumption
  DEF HRotateIssuerKey, RotateIssuerKey, Registered, IssuerRecord, Windows,
      RegistryAssumption
<1>2. /\ kept \subseteq retired[i]
      /\ \A r \in kept : r \in IssuerKey /\ r.pubkey # k /\ now < r.validUntil
      /\ \A r \in retired[i] : now < r.validUntil => r \in kept
  BY DEF HRotateIssuerKey, RotateIssuerKey, PrunedRetiredKeys, IssuerKey
<1>3. /\ entry \in IssuerKey
      /\ entry.pubkey = old /\ entry.validUntil = w
      /\ entry.revoked <=> i \in currentKeyRevoked
  <2>1. entry \in IssuerKey
    <3>1. (i \in currentKeyRevoked) \in BOOLEAN
      OBVIOUS
    <3>2. \A b \in BOOLEAN :
             [pubkey |-> old, validUntil |-> w, revoked |-> b] \in IssuerKey
      BY <1>1 DEF IssuerKey
    <3> QED BY <3>1, <3>2, Zenon
  <2>2. entry.pubkey = old /\ entry.validUntil = w
    OBVIOUS
  <2>3. entry.revoked <=> i \in currentKeyRevoked
    BY Zenon
  <2> QED BY <2>1, <2>2, <2>3
<1>4. /\ retired'[i] = kept \cup {entry}
      /\ issuer' = [issuer EXCEPT ![i].pubkey = k]
      /\ currentKeyRevoked' = currentKeyRevoked \ {i}
      /\ killed' = [killed EXCEPT ![i] = @ \ {k}]
      /\ \A j \in Issuers : j # i => retired'[j] = retired[j]
      /\ retired' = [retired EXCEPT ![i] = kept \cup {entry}]
      /\ now' = now
  BY DEF HRotateIssuerKey, RotateIssuerKey
<1>5. promised' = [promised EXCEPT ![i] =
           [key \in PubKeys |-> CASE key = k   -> 0
                                  [] key = old -> w
                                  [] OTHER     -> @[key]]]
  BY DEF HRotateIssuerKey
<1> HIDE DEF entry, kept, old
<1>6. issuer'[i] \in IssuerRecord /\ issuer'[i].pubkey = k /\ issuer'[i] # None
  <2>1. issuer'[i] \in IssuerRecord /\ issuer'[i].pubkey = k
    BY <1>1, <1>4 DEF IssuerRecord
  <2> QED BY <2>1, RegistryAssumption DEF RegistryAssumption
<1>7. \A j \in Issuers : j # i =>
         /\ issuer'[j] = issuer[j] /\ killed'[j] = killed[j]
         /\ promised'[j] = promised[j]
         /\ j \in currentKeyRevoked' <=> j \in currentKeyRevoked
  BY <1>4, <1>5
<1>8. /\ promised'[i][k] = 0 /\ promised'[i][old] = w
      /\ \A key \in PubKeys : key # k /\ key # old =>
             promised'[i][key] = promised[i][key]
      /\ promised' \in [Issuers -> [PubKeys -> Int]]
  BY <1>1, <1>5
<1>9. KeyTypeOK'
  <2>1. issuer' \in [Issuers -> IssuerRecord \cup {None}]
    BY <1>4, <1>6
  <2>2. retired' \in [Issuers -> SUBSET IssuerKey]
    BY <1>2, <1>3, <1>4
  <2> QED BY <2>1, <2>2, <1>4, <1>8
<1>10. KeysDistinct'
  <2>1. \A r \in retired[i] : r.pubkey # old
    BY DEF KeysDistinct, old
  <2>2. /\ \A q \in retired'[i] : q.pubkey # k
        /\ \A p, q \in retired'[i] : p.pubkey = q.pubkey => p = q
    BY <2>1, <1>1, <1>2, <1>3, <1>4 DEF KeysDistinct
  <2> QED BY <2>2, <1>4, <1>6, <1>7 DEF KeysDistinct, Registered
<1>11. KeySetIsHistory'
  <2>1. /\ promised[i][old] = 0
        /\ i \in currentKeyRevoked <=> old \in killed[i]
        /\ \A r \in retired[i] : r.pubkey # old
    BY <1>1 DEF KeySetIsHistory, KeysDistinct, Registered, old
  <2>2. i \notin currentKeyRevoked' /\ k \notin killed'[i]
    BY <1>4
  <2>3. \A r \in retired'[i] : /\ promised'[i][r.pubkey] = r.validUntil
                               /\ r.revoked <=> r.pubkey \in killed'[i]
    <3> SUFFICES ASSUME NEW r \in retired'[i]
                 PROVE  /\ promised'[i][r.pubkey] = r.validUntil
                        /\ r.revoked <=> r.pubkey \in killed'[i]
      OBVIOUS
    <3>1. CASE r = entry
      BY <3>1, <2>1, <1>1, <1>3, <1>4, <1>8
    <3>2. CASE r \in kept
      <4>1. r.pubkey \in PubKeys /\ r.pubkey # k /\ r.pubkey # old
        BY <3>2, <2>1, <1>2 DEF IssuerKey
      <4>2. /\ promised[i][r.pubkey] = r.validUntil
            /\ r.revoked <=> r.pubkey \in killed[i]
        BY <3>2, <1>2 DEF KeySetIsHistory
      <4> QED BY <4>1, <4>2, <1>4, <1>8
    <3> QED BY <3>1, <3>2, <1>4
  <2>4. \A key \in PubKeys : now < promised'[i][key] =>
            \E r \in retired'[i] : r.pubkey = key
    <3> SUFFICES ASSUME NEW key \in PubKeys, now < promised'[i][key]
                 PROVE  \E r \in retired'[i] : r.pubkey = key
      OBVIOUS
    <3>1. CASE key = old
      BY <3>1, <1>3, <1>4
    <3>2. CASE key # old /\ key # k
      <4>1. PICK r \in retired[i] : r.pubkey = key
        BY <3>2, <1>8 DEF KeySetIsHistory
      <4>2. now < r.validUntil
        BY <4>1, <3>2, <1>8 DEF KeySetIsHistory
      <4> QED BY <4>1, <4>2, <1>2, <1>4
    <3>3. CASE key = k
      BY <3>3, <1>8, <1>4
    <3> QED BY <3>1, <3>2, <3>3
  <2> QED BY <2>2, <2>3, <2>4, <1>4, <1>6, <1>7, <1>8
          DEF KeySetIsHistory, Registered
<1> QED BY <1>9, <1>10, <1>11

LEMMA NextKeepsKeyInv == KeyInv /\ [HNext]_hvars => KeyInv'
<1> SUFFICES ASSUME KeyInv, [HNext]_hvars PROVE KeyInv'
  OBVIOUS
<1> USE DEF KeyInv, KeyTypeOK
<1>1. ASSUME NEW c \in Address, NEW i \in Issuers, NEW k \in PubKeys,
             NEW w \in Windows, HRotateIssuerKey(c, i, k, w)
      PROVE  KeyInv'
  BY <1>1, RotateKeepsKeyInv
<1>2. ASSUME NEW c \in Address, NEW i \in Issuers, NEW k \in PubKeys,
             HRevokeIssuerKey(c, i, k)
      PROVE  KeyInv'
  BY <1>2, RevokeCurrentKeepsKeyInv, RevokeRetiredKeepsKeyInv
  DEF HRevokeIssuerKey, RevokeIssuerKey
<1>3. ASSUME NEW c \in Address, NEW i \in Issuers, NEW k \in PubKeys,
             NEW ts \in SUBSET CredTypes,
             RegisterIssuer(c, i, k, ts), UNCHANGED histVars
      PROVE  KeyInv'
  BY <1>3, RegisterKeepsKeyInv
<1>4. ASSUME NEW c \in Address, NEW i \in Issuers,
             RevokeIssuer(c, i), UNCHANGED histVars
      PROVE  KeyInv'
  BY <1>4, RevokeIssuerKeepsKeyInv
<1>5. ASSUME NEW c \in Address, NEW i \in Issuers,
             SetIssuerMetadata(c, i), UNCHANGED histVars
      PROVE  KeyInv'
  BY <1>5, IdleKeepsKeyInv DEF SetIssuerMetadata, Idle
<1>6. CASE Tick /\ UNCHANGED histVars
  BY <1>6, IdleKeepsKeyInv DEF Tick, Idle, registryVars
<1>7. CASE Govern /\ UNCHANGED histVars
  BY <1>7, IdleKeepsKeyInv DEF Govern, Idle, registryVars
<1>8. CASE UNCHANGED hvars
  BY <1>8, IdleKeepsKeyInv DEF hvars, vars, Idle, registryVars
<1> QED BY <1>1, <1>2, <1>3, <1>4, <1>5, <1>6, <1>7, <1>8 DEF HNext

\* The stored key set is the history of promises and revocations.
THEOREM KeySetInvariant == HSpec => []KeyInv
BY InitKeyInv, NextKeepsKeyInv, PTL DEF HSpec

\* is_valid_issuer_key's first match is its only match, in every reachable
\* state.
THEOREM NoKeyTwice == HSpec => []KeysDistinct
BY KeySetInvariant, PTL DEF KeyInv

\* The stored set mirrors the history variables in every reachable state.
THEOREM KeySetMirrorsHistory == HSpec => []KeySetIsHistory
BY KeySetInvariant, PTL DEF KeyInv

\* Rotation alone never invalidates outstanding credentials before the window
\* it promised closes.
THEOREM RotationKeepsPromises == HSpec => []WindowHonoured
<1>1. KeyInv => WindowHonoured
  <2> SUFFICES ASSUME KeyInv, NEW i \in Issuers, NEW k \in PubKeys,
                      now < promised[i][k], k \notin killed[i],
                      ~issuer[i].revoked
               PROVE  IsValidIssuerKey(i, k)
    BY DEF WindowHonoured
  <2> USE DEF KeyInv, KeyTypeOK, HTypeOK
  <2>1. PICK r \in retired[i] : r.pubkey = k
    BY DEF KeySetIsHistory
  <2>2. ~r.revoked /\ now <= r.validUntil
    BY <2>1 DEF KeySetIsHistory, IssuerKey
  <2>3. Registered(i) /\ k # issuer[i].pubkey
    BY <2>1 DEF KeysDistinct
  <2> QED BY <2>1, <2>2, <2>3 DEF IsValidIssuerKey
<1> QED BY <1>1, KeySetInvariant, PTL

\* No sequence of calls stretches a retired key's window.
THEOREM WindowsNeverStretch == HSpec => []ValidOnlyInWindow
<1>1. KeyInv => ValidOnlyInWindow
  BY DEF KeyInv, ValidOnlyInWindow, KeySetIsHistory, IsValidIssuerKey
<1> QED BY <1>1, KeySetInvariant, PTL

\* Emergency revocation holds through re-registration, rotation and pruning
\* until the admin installs the key again.
THEOREM RevocationHolds == HSpec => []KilledStaysDead
<1>1. KeyInv => KilledStaysDead
  <2> SUFFICES ASSUME KeyInv, NEW i \in Issuers, NEW k \in killed[i],
                      IsValidIssuerKey(i, k)
               PROVE  FALSE
    BY DEF KilledStaysDead
  <2>1. CASE k = issuer[i].pubkey
    BY <2>1 DEF KeyInv, KeySetIsHistory, IsValidIssuerKey
  <2>2. CASE k # issuer[i].pubkey
    BY <2>2 DEF KeyInv, KeySetIsHistory, IsValidIssuerKey
  <2> QED BY <2>1, <2>2
<1> QED BY <1>1, KeySetInvariant, PTL
-----------------------------------------------------------------------------
\* The registry itself: its types, the bound on the key history, and the
\* agreement of the enumeration list with its entries.
\* Every entry the registry stores is well typed.
THEOREM RegistryTypeOK == Spec => []TypeOK
<1>1. Init => TypeOK
  BY GovAssumption, RegistryAssumption
  DEF Init, GovInit, TypeOK, GovTypeOK, GovAssumption, RegistryAssumption
<1>2. TypeOK /\ [Next]_vars => TypeOK'
  <2> SUFFICES ASSUME TypeOK, [Next]_vars PROVE TypeOK'
    OBVIOUS
  <2> USE DEF TypeOK
  <2>1. ASSUME NEW c \in Address, NEW i \in Issuers, NEW k \in PubKeys,
               NEW ts \in SUBSET CredTypes, RegisterIssuer(c, i, k, ts)
        PROVE  TypeOK'
    <3>1. GovTypeOK'
      BY <2>1 DEF RegisterIssuer, GovTypeOK, govVars
    <3>2. issuer' \in [Issuers -> IssuerRecord \cup {None}]
      BY <2>1 DEF RegisterIssuer, IssuerRecord
    <3>3. issuerList' \in Seq(Issuers) /\ issuerCount' \in Nat
      <4>1. CASE \E n \in DOMAIN issuerList : issuerList[n] = i
        BY <2>1, <4>1 DEF RegisterIssuer
      <4>2. CASE ~\E n \in DOMAIN issuerList : issuerList[n] = i
        BY <2>1, <4>2 DEF RegisterIssuer
      <4> QED BY <4>1, <4>2
    <3> QED BY <2>1, <3>1, <3>2, <3>3 DEF RegisterIssuer
  <2>2. ASSUME NEW c \in Address, NEW i \in Issuers, RevokeIssuer(c, i)
        PROVE  TypeOK'
    <3>1. issuer[i] \in IssuerRecord
      BY <2>2 DEF RevokeIssuer, Registered
    <3>2. issuer' \in [Issuers -> IssuerRecord \cup {None}]
      BY <2>2, <3>1 DEF RevokeIssuer, IssuerRecord
    <3> QED BY <2>2, <3>2 DEF RevokeIssuer, govVars, listVars, GovTypeOK
  <2>3. ASSUME NEW c \in Address, NEW i \in Issuers, NEW k \in PubKeys,
               NEW w \in Windows, RotateIssuerKey(c, i, k, w)
        PROVE  TypeOK'
    <3>1. issuer[i] \in IssuerRecord /\ w \in Int
      BY <2>3 DEF RotateIssuerKey, Registered, Windows
    <3>2. issuer' \in [Issuers -> IssuerRecord \cup {None}]
      BY <2>3, <3>1 DEF RotateIssuerKey, IssuerRecord
    <3>3. \A b \in BOOLEAN : [pubkey |-> issuer[i].pubkey, validUntil |-> w,
                              revoked |-> b] \in IssuerKey
      BY <3>1 DEF IssuerRecord, IssuerKey
    <3>4. [pubkey |-> issuer[i].pubkey, validUntil |-> w,
           revoked |-> i \in currentKeyRevoked] \in IssuerKey
      <4>1. (i \in currentKeyRevoked) \in BOOLEAN
        OBVIOUS
      <4> QED BY <3>3, <4>1, Zenon
    <3>5. PrunedRetiredKeys(i) \subseteq IssuerKey
      BY DEF PrunedRetiredKeys
    <3>6. retired' \in [Issuers -> SUBSET IssuerKey]
      BY <2>3, <3>4, <3>5 DEF RotateIssuerKey
    <3> QED BY <2>3, <3>2, <3>6 DEF RotateIssuerKey, govVars, listVars, GovTypeOK
  <2>4. ASSUME NEW c \in Address, NEW i \in Issuers, NEW k \in PubKeys,
               RevokeCurrentKey(c, i, k)
        PROVE  TypeOK'
    BY <2>4 DEF RevokeCurrentKey, govVars, listVars, GovTypeOK
  <2>5. ASSUME NEW c \in Address, NEW i \in Issuers, NEW k \in PubKeys,
               RevokeRetiredKey(c, i, k)
        PROVE  TypeOK'
    <3>1. retired' \in [Issuers -> SUBSET IssuerKey]
      <4>1. PICK r \in retired[i] : retired' = [retired EXCEPT ![i] =
                   (@ \ {r}) \cup {[r EXCEPT !.revoked = TRUE]}]
        BY <2>5 DEF RevokeRetiredKey
      <4>2. [r EXCEPT !.revoked = TRUE] \in IssuerKey
        <5>1. r \in IssuerKey
          OBVIOUS
        <5> QED BY <5>1 DEF IssuerKey
      <4> QED BY <4>1, <4>2
    <3> QED BY <2>5, <3>1 DEF RevokeRetiredKey, govVars, listVars, GovTypeOK
  <2>6. ASSUME NEW c \in Address, NEW i \in Issuers, SetIssuerMetadata(c, i)
        PROVE  TypeOK'
    BY <2>6 DEF SetIssuerMetadata, govVars, keyVars, GovTypeOK
  <2>7. CASE Tick
    BY <2>7, RegistryAssumption
    DEF Tick, govVars, registryVars, keyVars, listVars, GovTypeOK,
        RegistryAssumption
  <2>8. CASE Govern
    BY <2>8, GovStepTypeOK DEF Govern, registryVars, keyVars, listVars
  <2>9. CASE UNCHANGED vars
    BY <2>9 DEF vars, govVars, registryVars, keyVars, listVars, GovTypeOK
  <2> QED BY <2>1, <2>2, <2>3, <2>4, <2>5, <2>6, <2>7, <2>8, <2>9
          DEF Next, RevokeIssuerKey
<1> QED BY <1>1, <1>2, PTL DEF Spec

-----------------------------------------------------------------------------
\* MAX_RETIRED_KEYS really bounds the history, although nothing but a rotation
\* ever removes an entry.
THEOREM HistoryStaysBounded == Spec => []HistoryBounded
<1>1. Init => HistoryBounded
  BY FS_EmptySet, RegistryAssumption
  DEF Init, HistoryBounded, RegistryAssumption
<1>2. TypeOK /\ HistoryBounded /\ [Next]_vars => HistoryBounded'
  <2> SUFFICES ASSUME TypeOK, HistoryBounded, [Next]_vars
               PROVE  HistoryBounded'
    OBVIOUS
  <2>1. ASSUME NEW c \in Address, NEW i \in Issuers, NEW k \in PubKeys,
               NEW w \in Windows, RotateIssuerKey(c, i, k, w)
        PROVE  HistoryBounded'
    <3> DEFINE kept == PrunedRetiredKeys(i)
               entry == [pubkey |-> issuer[i].pubkey, validUntil |-> w,
                         revoked |-> i \in currentKeyRevoked]
    <3>1. kept \subseteq retired[i] /\ IsFiniteSet(retired[i])
      BY DEF PrunedRetiredKeys, HistoryBounded
    <3>2. /\ retired' = [retired EXCEPT ![i] = kept \cup {entry}]
          /\ Cardinality(kept) < MAX_RETIRED_KEYS
      BY <2>1 DEF RotateIssuerKey
    <3> HIDE DEF kept, entry
    <3>3. IsFiniteSet(kept)
      BY <3>1, FS_Subset
    <3>4. /\ IsFiniteSet(kept \cup {entry})
          /\ Cardinality(kept \cup {entry}) <= Cardinality(kept) + 1
          /\ Cardinality(kept) \in Nat
          /\ Cardinality(kept \cup {entry}) \in Nat
      <4>1. /\ IsFiniteSet(kept \cup {entry})
            /\ \/ Cardinality(kept \cup {entry}) = Cardinality(kept)
               \/ Cardinality(kept \cup {entry}) = Cardinality(kept) + 1
        BY <3>3, FS_AddElement
      <4>2. Cardinality(kept) \in Nat
        BY <3>3, FS_CardinalityType
      <4> QED BY <4>1, <4>2
    <3>5. Cardinality(kept \cup {entry}) <= MAX_RETIRED_KEYS
      BY <3>2, <3>4, RegistryAssumption DEF RegistryAssumption
    <3>6. /\ retired'[i] = kept \cup {entry}
          /\ \A j \in Issuers : j # i => retired'[j] = retired[j]
      BY <3>2 DEF TypeOK
    <3> QED BY <3>4, <3>5, <3>6 DEF HistoryBounded
  <2>2. ASSUME NEW c \in Address, NEW i \in Issuers, NEW k \in PubKeys,
               RevokeRetiredKey(c, i, k)
        PROVE  HistoryBounded'
    <3>1. PICK r \in retired[i] : retired' = [retired EXCEPT ![i] =
                 (@ \ {r}) \cup {[r EXCEPT !.revoked = TRUE]}]
      BY <2>2 DEF RevokeRetiredKey
    <3> DEFINE rest == retired[i] \ {r}
               dead == [r EXCEPT !.revoked = TRUE]
    <3>2. /\ IsFiniteSet(rest)
          /\ Cardinality(rest) = Cardinality(retired[i]) - 1
          /\ Cardinality(retired[i]) \in Nat
          /\ Cardinality(retired[i]) <= MAX_RETIRED_KEYS
      BY FS_RemoveElement, FS_CardinalityType DEF HistoryBounded
    <3>3. /\ retired'[i] = rest \cup {dead}
          /\ \A j \in Issuers : j # i => retired'[j] = retired[j]
      BY <3>1 DEF TypeOK
    <3> HIDE DEF rest, dead
    <3>4. /\ IsFiniteSet(rest \cup {dead})
          /\ \/ Cardinality(rest \cup {dead}) = Cardinality(rest)
             \/ Cardinality(rest \cup {dead}) = Cardinality(rest) + 1
      BY <3>2, FS_AddElement
    <3>5. Cardinality(rest \cup {dead}) <= MAX_RETIRED_KEYS
      BY <3>2, <3>4, RegistryAssumption DEF RegistryAssumption
    <3> QED BY <3>3, <3>4, <3>5 DEF HistoryBounded
  <2>3. CASE UNCHANGED retired
    BY <2>3 DEF HistoryBounded
  <2> QED BY <2>1, <2>2, <2>3
          DEF Next, vars, registryVars, keyVars, RevokeIssuerKey,
              RegisterIssuer, RevokeIssuer, RevokeCurrentKey,
              SetIssuerMetadata, Tick, Govern
<1> QED BY <1>1, <1>2, RegistryTypeOK, PTL DEF Spec

-----------------------------------------------------------------------------
\* Paging through issuer_count entries of the list visits every issuer once.
THEOREM ListStaysInSync == Spec => []ListInSync
<1>1. Init => ListInSync
  BY DEF Init, ListInSync, Registered
<1>2. TypeOK /\ ListInSync /\ [Next]_vars => ListInSync'
  <2> SUFFICES ASSUME TypeOK, ListInSync, [Next]_vars
               PROVE  ListInSync'
    OBVIOUS
  <2> USE DEF TypeOK
  <2>1. ASSUME NEW c \in Address, NEW i \in Issuers, NEW k \in PubKeys,
               NEW ts \in SUBSET CredTypes, RegisterIssuer(c, i, k, ts)
        PROVE  ListInSync'
    <3>1. issuer'[i] # None /\ \A j \in Issuers : j # i => issuer'[j] = issuer[j]
      <4>1. [pubkey |-> k, credentialTypes |-> ts, revoked |-> FALSE]
                \in IssuerRecord
        BY DEF IssuerRecord
      <4> QED BY <2>1, <4>1, RegistryAssumption
              DEF RegisterIssuer, RegistryAssumption
    <3>2. CASE \E n \in DOMAIN issuerList : issuerList[n] = i
      <4>1. UNCHANGED <<issuerList, issuerCount>>
        BY <2>1, <3>2 DEF RegisterIssuer
      <4> QED BY <3>1, <3>2, <4>1 DEF ListInSync, Registered
    <3>3. CASE ~\E n \in DOMAIN issuerList : issuerList[n] = i
      <4>1. /\ issuerList' = Append(issuerList, i)
            /\ issuerCount' = issuerCount + 1
        BY <2>1, <3>3 DEF RegisterIssuer
      <4>2. /\ Len(issuerList') = Len(issuerList) + 1
            /\ DOMAIN issuerList' = 1 .. Len(issuerList) + 1
            /\ \A n \in DOMAIN issuerList : issuerList'[n] = issuerList[n]
            /\ issuerList'[Len(issuerList) + 1] = i
            /\ DOMAIN issuerList = 1 .. Len(issuerList)
            /\ Len(issuerList) \in Nat
        BY <4>1
      <4>3. issuerCount' = Len(issuerList')
        BY <4>1, <4>2 DEF ListInSync
      <4>4. \A j \in Issuers : issuer'[j] # None <=>
               \E n \in DOMAIN issuerList' : issuerList'[n] = j
        BY <3>1, <4>2 DEF ListInSync, Registered
      <4>5. \A m, n \in DOMAIN issuerList' :
               issuerList'[m] = issuerList'[n] => m = n
        BY <3>3, <4>2 DEF ListInSync
      <4> QED BY <4>3, <4>4, <4>5 DEF ListInSync, Registered
    <3> QED BY <3>2, <3>3
  <2>2. ASSUME NEW i \in Issuers,
               issuer[i] \in IssuerRecord, issuer'[i] \in IssuerRecord,
               \A j \in Issuers : j # i => issuer'[j] = issuer[j],
               UNCHANGED <<issuerList, issuerCount>>
        PROVE  ListInSync'
    BY <2>2, RegistryAssumption DEF RegistryAssumption, ListInSync, Registered
  <2>3. ASSUME NEW c \in Address, NEW i \in Issuers, RevokeIssuer(c, i)
        PROVE  ListInSync'
    <3>1. issuer[i] \in IssuerRecord
      BY <2>3 DEF RevokeIssuer, Registered
    <3> QED BY <2>2, <2>3, <3>1 DEF RevokeIssuer, IssuerRecord, listVars
  <2>4. ASSUME NEW c \in Address, NEW i \in Issuers, NEW k \in PubKeys,
               NEW w \in Windows, RotateIssuerKey(c, i, k, w)
        PROVE  ListInSync'
    <3>1. issuer[i] \in IssuerRecord
      BY <2>4 DEF RotateIssuerKey, Registered
    <3> QED BY <2>2, <2>4, <3>1 DEF RotateIssuerKey, IssuerRecord, listVars
  <2>5. CASE UNCHANGED <<issuer, issuerList, issuerCount>>
    BY <2>5 DEF ListInSync, Registered
  <2> QED BY <2>1, <2>3, <2>4, <2>5
          DEF Next, vars, registryVars, keyVars, listVars, RevokeIssuerKey,
              RevokeCurrentKey, RevokeRetiredKey, SetIssuerMetadata, Tick,
              Govern
<1> QED BY <1>1, <1>2, RegistryTypeOK, PTL DEF Spec

-----------------------------------------------------------------------------
\* The verification keys.

\* The history and the markers agree: a version is marked deprecated from its
\* first deprecation on, with that time on file, pruned or not.
MarkersMatch ==
    \A tv \in CircuitTypes \X Versions :
        /\ firstDeprecated[tv] = deprecatedAt[tv]
        /\ tv \in deprecated <=> deprecatedAt[tv] # None

\* The inductive invariant: VkImmutable needs SupportWindowKept, to know that a
\* version without bytes is either new or marked, and that needs MarkersMatch.
VkInv ==
    /\ VkTypeOK
    /\ VkHTypeOK
    /\ VkImmutable
    /\ SupportWindowKept
    /\ MarkersMatch

-----------------------------------------------------------------------------
LEMMA InitVkInv == VkHInit => VkInv
<1> SUFFICES ASSUME VkHInit PROVE VkInv
  OBVIOUS
<1> USE DEF VkHInit, VkInit
<1>1. VkTypeOK /\ VkHTypeOK
  BY GovAssumption, VerifierAssumption
  DEF VkTypeOK, VkHTypeOK, GovTypeOK, GovInit, GovAssumption, VerifierAssumption
<1> QED BY <1>1 DEF VkInv, VkImmutable, SupportWindowKept, MarkersMatch

\* A version that can be set was never set before.
LEMMA SetVkIsFirst ==
  ASSUME VkInv, NEW c \in Address, NEW t \in CircuitTypes, NEW v \in Versions,
         NEW b \in VkBlobs, HSetVk(c, t, v, b)
  PROVE  /\ firstVk[<<t, v>>] = None
         /\ firstVk' = [firstVk EXCEPT ![<<t, v>>] = b]
<1>1. vk[<<t, v>>] = None /\ <<t, v>> \notin deprecated
  BY DEF HSetVk, SetVk
<1>2. firstVk[<<t, v>>] = None
  BY <1>1 DEF VkInv, SupportWindowKept, MarkersMatch
<1> QED BY <1>2 DEF HSetVk, Once

LEMMA SetVkKeepsVkInv ==
  ASSUME VkInv, NEW c \in Address, NEW t \in CircuitTypes, NEW v \in Versions,
         NEW b \in VkBlobs, HSetVk(c, t, v, b)
  PROVE  VkInv'
<1> DEFINE tv == <<t, v>>
<1> USE VerifierAssumption DEF VkInv, HSetVk, SetVk, VerifierAssumption
<1>1. tv \in CircuitTypes \X Versions /\ vk[tv] = None /\ tv \notin deprecated
  OBVIOUS
<1>2. firstVk' = [firstVk EXCEPT ![tv] = b]
  <2> HIDE DEF VkInv, HSetVk, SetVk
  <2> QED BY SetVkIsFirst
<1>3. /\ vk' = [vk EXCEPT ![tv] = b]
      /\ firstVk' = [firstVk EXCEPT ![tv] = b]
  BY <1>2
<1>4. VkTypeOK'
  BY <1>1, <1>3 DEF VkTypeOK, GovTypeOK, govVars
<1>5. VkHTypeOK'
  BY <1>1, <1>3 DEF VkHTypeOK
<1>6. VkImmutable'
  BY <1>1, <1>3 DEF VkImmutable, VkTypeOK, VkHTypeOK
<1>7. SupportWindowKept'
  BY <1>1, <1>3 DEF SupportWindowKept, VkTypeOK, VkHTypeOK
<1>8. MarkersMatch'
  BY DEF MarkersMatch
<1> QED BY <1>4, <1>5, <1>6, <1>7, <1>8

LEMMA DeprecateKeepsVkInv ==
  ASSUME VkInv, NEW c \in Address, NEW t \in CircuitTypes, NEW v \in Versions,
         HDeprecateVersion(c, t, v)
  PROVE  VkInv'
<1> DEFINE tv == <<t, v>>
<1> USE VerifierAssumption
    DEF VkInv, HDeprecateVersion, DeprecateVersion, VerifierAssumption
<1>1. tv \in CircuitTypes \X Versions /\ vk[tv] # None
  OBVIOUS
<1>2. /\ deprecated' = deprecated \cup {tv}
      /\ deprecatedAt' = IF tv \in deprecated THEN deprecatedAt
                         ELSE [deprecatedAt EXCEPT ![tv] = ledgerTime]
      /\ firstDeprecated' = IF tv \in deprecated THEN firstDeprecated
                            ELSE [firstDeprecated EXCEPT ![tv] = ledgerTime]
  BY <1>1 DEF Once, MarkersMatch
<1>3. ledgerTime \in 0..MaxLedgerTime /\ ledgerTime # None
  BY DEF VkTypeOK
<1>4. VkTypeOK'
  BY <1>1, <1>2, <1>3 DEF VkTypeOK, GovTypeOK, govVars
<1>5. VkHTypeOK'
  BY <1>1, <1>2, <1>3 DEF VkHTypeOK
<1>6. MarkersMatch'
  BY <1>1, <1>2, <1>3 DEF MarkersMatch, VkTypeOK, VkHTypeOK
<1>7. SupportWindowKept'
  BY <1>1, <1>2 DEF SupportWindowKept, VkHTypeOK
<1>8. VkImmutable'
  BY DEF VkImmutable
<1> QED BY <1>4, <1>5, <1>6, <1>7, <1>8

LEMMA PruneKeepsVkInv ==
  ASSUME VkInv, NEW c \in Address, NEW t \in CircuitTypes, NEW v \in Versions,
         PruneVersion(c, t, v), UNCHANGED vkHistVars
  PROVE  VkInv'
<1> DEFINE tv == <<t, v>>
<1> USE DEF VkInv, PruneVersion, vkHistVars
<1>1. tv \in CircuitTypes \X Versions /\ vk' = [vk EXCEPT ![tv] = None]
  OBVIOUS
<1>2. VkTypeOK'
  BY <1>1 DEF VkTypeOK, GovTypeOK, govVars
<1>3. VkHTypeOK'
  BY DEF VkHTypeOK
<1>4. VkImmutable'
  BY <1>1 DEF VkImmutable, VkTypeOK
<1>5. firstDeprecated[tv] # None
      /\ ledgerTime >= firstDeprecated[tv] + MAX_PROOF_VALIDITY_SECONDS
  BY <1>1 DEF MarkersMatch
<1>6. SupportWindowKept'
  BY <1>1, <1>5 DEF SupportWindowKept, VkTypeOK
<1>7. MarkersMatch'
  BY DEF MarkersMatch
<1> QED BY <1>2, <1>3, <1>4, <1>6, <1>7

\* The inductive invariant of the verification keys and their history.
THEOREM VkInvariant == VkHSpec => []VkInv
<1>1. VkHInit => VkInv
  BY InitVkInv
<1>2. VkInv /\ [VkHNext]_vkHVars => VkInv'
  <2> SUFFICES ASSUME VkInv, [VkHNext]_vkHVars PROVE VkInv'
    OBVIOUS
  <2>1. ASSUME NEW c \in Address, NEW t \in CircuitTypes, NEW v \in Versions,
               \/ \E b \in VkBlobs : HSetVk(c, t, v, b)
               \/ HDeprecateVersion(c, t, v)
               \/ PruneVersion(c, t, v) /\ UNCHANGED vkHistVars
        PROVE  VkInv'
    BY <2>1, SetVkKeepsVkInv, DeprecateKeepsVkInv, PruneKeepsVkInv
  <2>2. CASE VkTick /\ UNCHANGED vkHistVars
    <3>1. /\ ledgerTime \in 0..MaxLedgerTime /\ ledgerTime < MaxLedgerTime
          /\ ledgerTime' = ledgerTime + 1
      BY <2>2 DEF VkInv, VkTypeOK, VkTick
    <3>2. ledgerTime' \in 0..MaxLedgerTime
      BY <3>1, VerifierAssumption DEF VerifierAssumption
    <3>3. VkTypeOK'
      BY <2>2, <3>2 DEF VkInv, VkTypeOK, VkTick, GovTypeOK, govVars, vkVars
    <3>4. SupportWindowKept'
      <4> SUFFICES ASSUME NEW tv \in CircuitTypes \X Versions,
                          firstVk[tv] # None, vk[tv] = None
                   PROVE  /\ firstDeprecated[tv] # None
                          /\ ledgerTime' >= firstDeprecated[tv]
                                     + MAX_PROOF_VALIDITY_SECONDS
        BY <2>2 DEF SupportWindowKept, VkTick, vkVars, vkHistVars
      <4>1. /\ firstDeprecated[tv] # None
            /\ ledgerTime >= firstDeprecated[tv] + MAX_PROOF_VALIDITY_SECONDS
        BY DEF VkInv, SupportWindowKept
      <4>2. firstDeprecated[tv] \in 0..MaxLedgerTime
        BY <4>1 DEF VkInv, VkHTypeOK
      <4> QED BY <3>1, <4>1, <4>2, VerifierAssumption DEF VerifierAssumption
    <3> QED BY <2>2, <3>3, <3>4
            DEF VkInv, VkHTypeOK, VkImmutable, MarkersMatch, VkTick, vkVars,
                vkHistVars
  <2>3. CASE VkGovern /\ UNCHANGED vkHistVars
    <3>1. GovTypeOK'
      BY <2>3, GovStepTypeOK DEF VkInv, VkTypeOK, VkGovern
    <3> QED BY <2>3, <3>1
            DEF VkInv, VkTypeOK, VkHTypeOK, VkImmutable, SupportWindowKept,
                MarkersMatch, VkGovern, vkVars, vkHistVars
  <2>4. CASE UNCHANGED vkHVars
    BY <2>4 DEF VkInv, VkTypeOK, GovTypeOK, VkHTypeOK, VkImmutable,
                SupportWindowKept, MarkersMatch, vkHVars, vkAllVars, govVars, vkVars,
                vkHistVars
  <2> QED BY <2>1, <2>2, <2>3, <2>4 DEF VkHNext
<1> QED BY <1>1, <1>2, PTL DEF VkHSpec

\* Every entry the verifier stores is well typed.
THEOREM VerifierTypeOK == VkHSpec => []VkTypeOK
BY VkInvariant, PTL DEF VkInv

\* A version never verifies against other bytes than its first ones.
THEOREM VkNeverChanges == VkHSpec => []VkImmutable
BY VkInvariant, PTL DEF VkInv

\* A registered version stays until its support window has passed.
THEOREM SupportWindowHolds == VkHSpec => []SupportWindowKept
BY VkInvariant, PTL DEF VkInv

\* A deprecated version never accepts a proof again.
THEOREM DeprecationIsFinal == VkHSpec => []DeprecatedStaysClosed
<1>1. VkInv => DeprecatedStaysClosed
  <2> SUFFICES ASSUME VkInv, NEW t \in CircuitTypes, NEW v \in Versions,
                      firstDeprecated[<<t, v>>] # None
               PROVE  /\ ~Accepts(t, v)
                      /\ latestVersion[t] = v => ~Accepts(t, None)
    BY DEF DeprecatedStaysClosed
  <2>1. <<t, v>> \in deprecated
    BY DEF VkInv, MarkersMatch
  <2>2. v # None
    BY VerifierAssumption DEF VerifierAssumption
  <2> QED BY <2>1, <2>2 DEF Accepts, ResolveVersion
<1> QED BY <1>1, VkInvariant, PTL

\* The default path points at the highest version ever registered.
THEOREM LatestIsHighest == VkHSpec => []LatestIsHighestEver
<1> DEFINE Latest(t) ==
      /\ \A v \in Versions : firstVk[<<t, v>>] # None => v <= latestVersion[t]
      /\ \/ /\ latestVersion[t] \in Versions
            /\ firstVk[<<t, latestVersion[t]>>] # None
         \/ /\ latestVersion[t] = 0
            /\ \A v \in Versions : firstVk[<<t, v>>] = None
<1> DEFINE LInv == \A t \in CircuitTypes : Latest(t)
<1>1. VkHInit => LInv
  BY DEF VkHInit, VkInit
<1>2. LInv /\ VkInv /\ [VkHNext]_vkHVars => LInv'
  <2> SUFFICES ASSUME LInv, VkInv, [VkHNext]_vkHVars PROVE LInv'
    OBVIOUS
  <2>1. ASSUME NEW c \in Address, NEW t \in CircuitTypes, NEW v \in Versions,
               NEW b \in VkBlobs, HSetVk(c, t, v, b)
        PROVE  LInv'
    <3>1. /\ firstVk' = [firstVk EXCEPT ![<<t, v>>] = b]
          /\ firstVk \in [CircuitTypes \X Versions -> VkBlobs \cup {None}]
          /\ b # None
      BY <2>1, SetVkIsFirst, VerifierAssumption
      DEF VkInv, VkHTypeOK, VerifierAssumption
    <3>2. /\ latestVersion' = [latestVersion EXCEPT ![t] = IF v > @ THEN v ELSE @]
          /\ latestVersion \in [CircuitTypes -> Versions \cup {0}]
          /\ Versions \subseteq Nat \ {0}
      BY <2>1, VerifierAssumption
      DEF VkInv, VkTypeOK, VerifierAssumption, HSetVk, SetVk
    <3>3. ASSUME NEW u \in CircuitTypes, u # t PROVE Latest(u)'
      <4>1. latestVersion'[u] = latestVersion[u]
        BY <3>2, <3>3
      <4>2. \A w \in Versions : firstVk'[<<u, w>>] = firstVk[<<u, w>>]
        BY <3>1, <3>3
      <4> QED BY <4>1, <4>2
    <3>4. Latest(t)'
      <4>1. \A w \in Versions : firstVk'[<<t, w>>] =
                                 IF w = v THEN b ELSE firstVk[<<t, w>>]
        BY <3>1
      <4>2. latestVersion'[t] = IF v > latestVersion[t] THEN v
                                ELSE latestVersion[t]
        BY <3>2
      <4>3. Latest(t)
        OBVIOUS
      <4>4. \A w \in Versions : w \in Nat /\ w # 0
        BY <3>2
      <4>5. latestVersion[t] \in Versions \/ latestVersion[t] = 0
        BY <3>2
      <4>6. v # 0 /\ b # None
        BY <3>1, <3>2
      <4> HIDE DEF LInv
      <4>7. CASE v > latestVersion[t]
        BY <4>1, <4>2, <4>3, <4>4, <4>5, <4>6, <4>7
      <4>8. CASE ~(v > latestVersion[t])
        <5>1. latestVersion[t] \in Versions /\ latestVersion'[t] = latestVersion[t]
          BY <4>2, <4>4, <4>5, <4>6, <4>8
        <5>2. v <= latestVersion'[t]
          BY <4>4, <4>8, <5>1
        <5> QED BY <4>1, <4>3, <4>4, <4>6, <5>1, <5>2
      <4> QED BY <4>7, <4>8
    <3> QED BY <3>3, <3>4
  <2>2. CASE UNCHANGED <<firstVk, latestVersion>>
    BY <2>2
  <2> QED BY <2>1, <2>2
          DEF VkHNext, HDeprecateVersion, DeprecateVersion, PruneVersion, VkTick,
              VkGovern, vkHVars, vkAllVars, vkVars, vkHistVars
<1>3. LInv /\ VkInv => LatestIsHighestEver
  <2> SUFFICES ASSUME LInv, VkInv, NEW t \in CircuitTypes
               PROVE  LET ever == {v \in Versions : firstVk[<<t, v>>] # None}
                      IN  IF ever = {} THEN latestVersion[t] = 0
                          ELSE /\ latestVersion[t] \in ever
                               /\ \A v \in ever : v <= latestVersion[t]
    BY DEF LatestIsHighestEver
  <2> QED OBVIOUS
<1> QED BY <1>1, <1>2, <1>3, VkInvariant, PTL DEF VkHSpec
=============================================================================
