------------------------------ MODULE KeyHistory ------------------------------
(***************************************************************************)
(* The two registries of keys with history variables, read only by the     *)
(* properties.  IssuerRegistry: the window each rotation promised and the  *)
(* keys emergency-revoked.  CredentialVerifier: the blob each version was  *)
(* first registered with and the time it was first deprecated, neither of  *)
(* which the contract can forget here.                                     *)
(***************************************************************************)
EXTENDS IssuerRegistry, CredentialVerifier

-----------------------------------------------------------------------------
(* The signing keys of issuers *)

VARIABLES
    promised,  \* promised[i][k]: window of k's last retirement, 0 if none
    killed     \* killed[i]: keys revoked and not installed again since

histVars == <<promised, killed>>
hvars == <<vars, histVars>>

HInit ==
    /\ Init
    /\ promised = [i \in Issuers |-> [k \in PubKeys |-> 0]]
    /\ killed = [i \in Issuers |-> {}]

HRotateIssuerKey(c, i, k, w) ==
    /\ RotateIssuerKey(c, i, k, w)
    /\ promised' = [promised EXCEPT ![i] =
           [key \in PubKeys |-> CASE key = k               -> 0
                                  [] key = issuer[i].pubkey -> w
                                  [] OTHER                  -> @[key]]]
    /\ killed' = [killed EXCEPT ![i] = @ \ {k}]

HRevokeIssuerKey(c, i, k) ==
    /\ RevokeIssuerKey(c, i, k)
    /\ killed' = [killed EXCEPT ![i] = @ \cup {k}]
    /\ UNCHANGED promised

HNext ==
    \/ \E c \in Address, i \in Issuers, k \in PubKeys :
        \/ \E w \in Windows : HRotateIssuerKey(c, i, k, w)
        \/ HRevokeIssuerKey(c, i, k)
    \/ /\ \/ \E c \in Address, i \in Issuers :
                \/ \E k \in PubKeys, ts \in SUBSET CredTypes :
                       RegisterIssuer(c, i, k, ts)
                \/ RevokeIssuer(c, i)
                \/ SetIssuerMetadata(c, i)
          \/ Tick
          \/ Govern
       /\ UNCHANGED histVars

HSpec == HInit /\ [][HNext]_hvars

HTypeOK ==
    /\ promised \in [Issuers -> [PubKeys -> Int]]
    /\ killed \in [Issuers -> SUBSET PubKeys]

-----------------------------------------------------------------------------
(* Properties *)

\* Rotation never invalidates outstanding credentials: a retired key validates
\* until the window its rotation promised closes, whatever later rotations
\* prune, unless it is emergency-revoked or its issuer is.
WindowHonoured ==
    \A i \in Issuers : \A k \in PubKeys :
        /\ now < promised[i][k]
        /\ k \notin killed[i]
        /\ ~issuer[i].revoked
        => IsValidIssuerKey(i, k)

\* A key validates only as the current key or inside the window its rotation
\* promised: no sequence of calls stretches a window.
ValidOnlyInWindow ==
    \A i \in Issuers : \A k \in PubKeys :
        IsValidIssuerKey(i, k) =>
            k = issuer[i].pubkey \/ now <= promised[i][k]

\* An emergency-revoked key stops validating at once and stays dead through
\* rotations, re-registration of its issuer and pruning, until the admin
\* installs that very key again.
KilledStaysDead ==
    \A i \in Issuers : \A k \in killed[i] : ~IsValidIssuerKey(i, k)

\* The inductive invariant behind the three: the stored key set is exactly the
\* history of promises and revocations, minus windows that have closed.
KeySetIsHistory ==
    \A i \in Issuers :
        /\ Registered(i) =>
            /\ promised[i][issuer[i].pubkey] = 0
            /\ i \in currentKeyRevoked <=> issuer[i].pubkey \in killed[i]
        /\ ~Registered(i) => /\ i \notin currentKeyRevoked
                             /\ killed[i] = {}
                             /\ \A k \in PubKeys : promised[i][k] = 0
        /\ \A r \in retired[i] :
            /\ promised[i][r.pubkey] = r.validUntil
            /\ r.revoked <=> r.pubkey \in killed[i]
        /\ \A k \in PubKeys :
            now < promised[i][k] => \E r \in retired[i] : r.pubkey = k

-----------------------------------------------------------------------------
(* What the documentation says, which the code does not do *)

\* "stays open through old_key_valid_until (inclusive)": a retired key still
\* validates at exactly that timestamp.
WindowInclusive ==
    \A i \in Issuers : \A k \in PubKeys :
        /\ now <= promised[i][k] /\ promised[i][k] > 0
        /\ k \notin killed[i]
        /\ ~issuer[i].revoked
        => IsValidIssuerKey(i, k)

-----------------------------------------------------------------------------
(* The verification keys of circuits *)

VARIABLES
    firstVk,         \* first blob of a version, None if never registered
    firstDeprecated  \* time of its first deprecation, None if never

vkHistVars == <<firstVk, firstDeprecated>>
vkHVars == <<vkAllVars, vkHistVars>>

VkHInit ==
    /\ VkInit
    /\ firstVk = vk
    /\ firstDeprecated = deprecatedAt

Once(history, tv, value) ==
    IF history[tv] = None THEN [history EXCEPT ![tv] = value] ELSE history

HSetVk(c, t, v, b) ==
    /\ SetVk(c, t, v, b)
    /\ firstVk' = Once(firstVk, <<t, v>>, b)
    /\ UNCHANGED firstDeprecated

HDeprecateVersion(c, t, v) ==
    /\ DeprecateVersion(c, t, v)
    /\ firstDeprecated' = Once(firstDeprecated, <<t, v>>, ledgerTime)
    /\ UNCHANGED firstVk

VkHNext ==
    \/ \E c \in Address, t \in CircuitTypes, v \in Versions :
        \/ \E b \in VkBlobs : HSetVk(c, t, v, b)
        \/ HDeprecateVersion(c, t, v)
    \/ /\ \/ \E c \in Address, t \in CircuitTypes, v \in Versions :
                PruneVersion(c, t, v)
          \/ VkTick
          \/ VkGovern
       /\ UNCHANGED vkHistVars

VkHSpec == VkHInit /\ [][VkHNext]_vkHVars

VkHTypeOK ==
    /\ firstVk \in [CircuitTypes \X Versions -> VkBlobs \cup {None}]
    /\ firstDeprecated \in [CircuitTypes \X Versions -> 0..MaxLedgerTime \cup {None}]

-----------------------------------------------------------------------------
(* Properties *)

\* VKs are immutable: whatever is registered, deprecated, pruned and registered
\* again, a version never verifies against other bytes than its first ones.
VkImmutable ==
    \A tv \in CircuitTypes \X Versions : vk[tv] \in {None, firstVk[tv]}

\* The support window: a registered VK stays available until it was deprecated
\* and MAX_PROOF_VALIDITY_SECONDS have passed since the first deprecation.
SupportWindowKept ==
    \A tv \in CircuitTypes \X Versions :
        firstVk[tv] # None /\ vk[tv] = None =>
            /\ firstDeprecated[tv] # None
            /\ ledgerTime >= firstDeprecated[tv] + MAX_PROOF_VALIDITY_SECONDS

\* A deprecated version never accepts a submission again, by number or through
\* the default path, before or after it is pruned.
DeprecatedStaysClosed ==
    \A t \in CircuitTypes, v \in Versions :
        firstDeprecated[<<t, v>>] # None =>
            /\ ~Accepts(t, v)
            /\ latestVersion[t] = v => ~Accepts(t, None)

\* The default path always points at the highest version ever registered: an
\* out-of-order registration or a prune never moves it backwards.
LatestIsHighestEver ==
    \A t \in CircuitTypes :
        LET ever == {v \in Versions : firstVk[<<t, v>>] # None} IN
        IF ever = {} THEN latestVersion[t] = 0
        ELSE latestVersion[t] \in ever /\ \A v \in ever : v <= latestVersion[t]
=============================================================================
