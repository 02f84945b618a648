---------------------------- MODULE IssuerRegistry ----------------------------
(***************************************************************************)
(* contracts/issuer_registry: which issuers are trusted for which          *)
(* credential types, and with which signing keys.  Each issuer has one     *)
(* current key and a bounded set of retired keys, each with a window       *)
(* during which it keeps validating submissions.                           *)
(*                                                                         *)
(* Retired keys are a set of records: the code keeps them oldest first and *)
(* takes the first match, which is the only one (KeysDistinct).  Metadata  *)
(* is kept as "has metadata".  Entry TTLs and events are left out.         *)
(*                                                                         *)
(* Bound: the ledger clock stops at MaxTime.                               *)
(***************************************************************************)
EXTENDS Governance, Integers, FiniteSets, Sequences

CONSTANTS
    Issuers, PubKeys, CredTypes,
    MAX_RETIRED_KEYS, MAX_KEY_RETENTION_SECS,
    MaxTime

IssuerRecord ==
    [pubkey: PubKeys, credentialTypes: SUBSET CredTypes, revoked: BOOLEAN]

IssuerKey == [pubkey: PubKeys, validUntil: Int, revoked: BOOLEAN]

ASSUME RegistryAssumption ==
    /\ None \notin IssuerRecord
    /\ MAX_RETIRED_KEYS \in Nat
    /\ MAX_KEY_RETENTION_SECS \in Nat
    /\ MaxTime \in Nat

VARIABLES
    now,                \* env.ledger().timestamp()
    issuer,             \* DataKey::Issuer: a record, or None
    retired,            \* DataKey::RetiredKeys
    currentKeyRevoked,  \* issuers with DataKey::CurrentKeyRevoked set
    issuerList,         \* DataKey::IssuerList
    issuerCount,        \* DataKey::IssuerCount
    metadata            \* issuers with DataKey::IssuerMetadata

keyVars == <<issuer, retired, currentKeyRevoked>>
listVars == <<issuerList, issuerCount, metadata>>
registryVars == <<keyVars, listVars>>
vars == <<govVars, now, registryVars>>

Registered(i) == issuer[i] # None

TypeOK ==
    /\ GovTypeOK
    /\ now \in 0..MaxTime
    /\ issuer \in [Issuers -> IssuerRecord \cup {None}]
    /\ retired \in [Issuers -> SUBSET IssuerKey]
    /\ currentKeyRevoked \subseteq Issuers
    /\ issuerList \in Seq(Issuers)
    /\ issuerCount \in Nat
    /\ metadata \subseteq Issuers

-----------------------------------------------------------------------------
(* Queries *)

IsValidIssuer(i, type) ==
    /\ Registered(i)
    /\ ~issuer[i].revoked
    /\ i \notin currentKeyRevoked
    /\ type \in issuer[i].credentialTypes

IsValidIssuerKey(i, key) ==
    /\ Registered(i)
    /\ ~issuer[i].revoked
    /\ IF key = issuer[i].pubkey
       THEN i \notin currentKeyRevoked
       ELSE \E r \in retired[i] :
                r.pubkey = key /\ ~r.revoked /\ now <= r.validUntil

\* (Faulty: forgets a key one second early.)
PrunedTooEarly(i) == {r \in retired[i] : ~(r.validUntil <= now + 1)}

\* rotate_issuer_key forgets the retired keys whose window has closed.
PrunedRetiredKeys(i) == {r \in retired[i] : ~(r.validUntil <= now)}

-----------------------------------------------------------------------------
(* Operations *)

Init ==
    /\ GovInit
    /\ now = 0
    /\ issuer = [i \in Issuers |-> None]
    /\ retired = [i \in Issuers |-> {}]
    /\ currentKeyRevoked = {}
    /\ issuerList = <<>>
    /\ issuerCount = 0
    /\ metadata = {}

\* Re-registration may change the types and un-revokes the issuer; a different
\* key is refused (KeyChangeRequiresRotation).
RegisterIssuer(caller, i, key, types) ==
    /\ RequireRole(caller, "admin")
    /\ Registered(i) => issuer[i].pubkey = key
    /\ issuer' = [issuer EXCEPT ![i] =
           [pubkey |-> key, credentialTypes |-> types, revoked |-> FALSE]]
    /\ IF \E n \in DOMAIN issuerList : issuerList[n] = i
       THEN UNCHANGED <<issuerList, issuerCount>>
       ELSE /\ issuerList' = Append(issuerList, i)
            /\ issuerCount' = issuerCount + 1
    /\ UNCHANGED <<govVars, now, retired, currentKeyRevoked, metadata>>

RevokeIssuer(caller, i) ==
    /\ RequireRole(caller, "admin")
    /\ Registered(i)
    /\ issuer' = [issuer EXCEPT ![i].revoked = TRUE]
    /\ UNCHANGED <<govVars, now, retired, currentKeyRevoked, listVars>>

\* (Faulty: a revoked current key is retired as a sound one.)
RotateForgetsRevocation(caller, i, newKey, validUntil) ==
    /\ RequireRole(caller, "admin")
    /\ Registered(i)
    /\ newKey # issuer[i].pubkey
    /\ now < validUntil
    /\ validUntil <= now + MAX_KEY_RETENTION_SECS
    /\ \A r \in PrunedRetiredKeys(i) : r.pubkey # newKey
    /\ Cardinality(PrunedRetiredKeys(i)) < MAX_RETIRED_KEYS
    /\ retired' = [retired EXCEPT ![i] = PrunedRetiredKeys(i) \cup
           {[pubkey |-> issuer[i].pubkey, validUntil |-> validUntil,
             revoked |-> FALSE]}]
    /\ issuer' = [issuer EXCEPT ![i].pubkey = newKey]
    /\ currentKeyRevoked' = currentKeyRevoked \ {i}
    /\ UNCHANGED <<govVars, now, listVars>>

RotateIssuerKey(caller, i, newKey, validUntil) ==
    /\ RequireRole(caller, "admin")
    /\ Registered(i)
    /\ newKey # issuer[i].pubkey
    /\ now < validUntil
    /\ validUntil <= now + MAX_KEY_RETENTION_SECS
    /\ \A r \in PrunedRetiredKeys(i) : r.pubkey # newKey
    /\ Cardinality(PrunedRetiredKeys(i)) < MAX_RETIRED_KEYS
    /\ retired' = [retired EXCEPT ![i] = PrunedRetiredKeys(i) \cup
           {[pubkey |-> issuer[i].pubkey, validUntil |-> validUntil,
             revoked |-> i \in currentKeyRevoked]}]
    /\ issuer' = [issuer EXCEPT ![i].pubkey = newKey]
    /\ currentKeyRevoked' = currentKeyRevoked \ {i}
    /\ UNCHANGED <<govVars, now, listVars>>

RevokeCurrentKey(caller, i, key) ==
    /\ RequireRole(caller, "admin")
    /\ Registered(i)
    /\ key = issuer[i].pubkey
    /\ i \notin currentKeyRevoked
    /\ currentKeyRevoked' = currentKeyRevoked \cup {i}
    /\ UNCHANGED <<govVars, now, issuer, retired, listVars>>

RevokeRetiredKey(caller, i, key) ==
    /\ RequireRole(caller, "admin")
    /\ Registered(i)
    /\ key # issuer[i].pubkey
    /\ \E r \in retired[i] :
        /\ r.pubkey = key
        /\ ~r.revoked
        /\ now < r.validUntil
        /\ retired' = [retired EXCEPT ![i] =
               (@ \ {r}) \cup {[r EXCEPT !.revoked = TRUE]}]
    /\ UNCHANGED <<govVars, now, issuer, currentKeyRevoked, listVars>>

\* revoke_issuer_key
RevokeIssuerKey(caller, i, key) ==
    RevokeCurrentKey(caller, i, key) \/ RevokeRetiredKey(caller, i, key)

SetIssuerMetadata(caller, i) ==
    /\ RequireRole(caller, "admin")
    /\ Registered(i)
    /\ metadata' = metadata \cup {i}
    /\ UNCHANGED <<govVars, now, keyVars, issuerList, issuerCount>>

\* External: the ledger closes at a later timestamp.
Tick ==
    /\ now < MaxTime
    /\ now' = now + 1
    /\ UNCHANGED <<govVars, registryVars>>

Govern == GovNext /\ UNCHANGED <<now, registryVars>>

Windows == 1 .. (MaxTime + MAX_KEY_RETENTION_SECS)

Next ==
    \/ \E c \in Address, i \in Issuers :
        \/ \E k \in PubKeys, ts \in SUBSET CredTypes : RegisterIssuer(c, i, k, ts)
        \/ RevokeIssuer(c, i)
        \/ \E k \in PubKeys, w \in Windows : RotateIssuerKey(c, i, k, w)
        \/ \E k \in PubKeys : RevokeIssuerKey(c, i, k)
        \/ SetIssuerMetadata(c, i)
    \/ Tick
    \/ Govern

Spec == Init /\ [][Next]_vars

-----------------------------------------------------------------------------
(* Properties *)

\* An issuer's current key is never one of its retired keys, and no key is
\* retired twice: the first match is_valid_issuer_key takes is the only one,
\* through any interleaving of rotations, revocations and lazy pruning.
KeysDistinct ==
    \A i \in Issuers :
        /\ retired[i] # {} => Registered(i)
        /\ \A r \in retired[i] : r.pubkey # issuer[i].pubkey
        /\ \A r, s \in retired[i] : r.pubkey = s.pubkey => r = s

\* The key history stays within MAX_RETIRED_KEYS.
HistoryBounded ==
    \A i \in Issuers :
        IsFiniteSet(retired[i]) /\ Cardinality(retired[i]) <= MAX_RETIRED_KEYS

\* issuer_count, the enumeration list and the issuer entries agree: the list
\* holds every registered issuer once ("kept in sync with IssuerList").
ListInSync ==
    /\ issuerCount = Len(issuerList)
    /\ \A i \in Issuers :
        Registered(i) <=> \E n \in DOMAIN issuerList : issuerList[n] = i
    /\ \A m, n \in DOMAIN issuerList : issuerList[m] = issuerList[n] => m = n

=============================================================================
