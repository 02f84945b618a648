----------------------------- MODULE ClaimHistory -----------------------------
(***************************************************************************)
(* ProofRegistry with history variables, read only by the properties: who  *)
(* signed each cached claim, what each accepted proof attested, which keys *)
(* were emergency-revoked and how often each nullifier was spent.          *)
(***************************************************************************)
EXTENDS ProofRegistry

VARIABLES
    signer,       \* signer[<<h, t>>]: <<issuer, key>> of the last accepted claim
    attested,     \* <<holder, type, threshold>>: what accepted proofs state
    killed,       \* <<issuer, key>> revoked and not installed again since
    lateSigners,  \* <<issuer, key>> that signed a claim accepted while killed
    spent         \* spent[n]: accepted calls that consumed nullifier n

histVars == <<signer, attested, killed, lateSigners, spent>>
hvars == <<vars, histVars>>

HistInit ==
    /\ signer = [ht \in Holders \X ClaimTypes |-> None]
    /\ attested = {}
    /\ killed = {}
    /\ lateSigners = {}
    /\ spent = [n \in Nullifiers |-> 0]

HInit == Init /\ HistInit

\* signed[t] is the <<issuer, key>> behind the claim just stored for type t, and
\* facts what the accepted proofs state of the holder.
Note(h, signed, facts) ==
    /\ signer' = [ht \in DOMAIN signer |->
           IF ht[1] = h /\ ht[2] \in DOMAIN signed THEN signed[ht[2]]
           ELSE signer[ht]]
    /\ attested' = attested \cup {<<h, f[1], f[2]>> : f \in facts}
    /\ lateSigners' = lateSigners \cup
           {signed[t] : t \in {u \in DOMAIN signed : signed[u] \in killed}}
    /\ UNCHANGED <<killed, spent>>

Fact(t, c) == <<t, IF t \in ThresholdTypes THEN c.threshold ELSE None>>

HSubmitStep ==
    \E h \in Holders :
        \/ \E t \in ClaimTypes, c \in Claim :
            /\ SubmitProof(h, t, c)
            /\ Note(h, [u \in {t} |-> <<c.issuer, c.key>>], {Fact(t, c)})
        \/ \E ts \in SUBSET ClaimTypes : \E batch \in [ts -> Claim] :
            /\ SubmitProofs(h, batch)
            /\ Note(h, [t \in ts |-> <<batch[t].issuer, batch[t].key>>],
                    {Fact(t, batch[t]) : t \in ts})
        \/ /\ "aggregate" \in CircuitTypes
           /\ \E es \in [1..2 -> AggregateEntry], p \in AggregateProof :
               /\ SubmitAggregateProof(h, es, p)
               /\ Note(h,
                       [t \in {es[n].type : n \in 1..2} |->
                           IF es[2].type = t THEN <<es[2].issuer, p.ageKey>>
                           ELSE <<es[1].issuer, p.kycKey>>],
                       {<<"kyc", None>>, <<"age", p.threshold>>})

HNullifierStep ==
    \E n \in Nullifiers :
        \/ /\ RecordNullifier(n)
           /\ spent' = [spent EXCEPT ![n] = @ + 1]
           /\ UNCHANGED <<signer, attested, killed, lateSigners>>
        \/ \E h \in Holders, t \in ClaimTypes, c \in Claim :
            /\ SubmitProofWithNullifier(h, t, c, n)
            /\ signer' = [signer EXCEPT ![<<h, t>>] = <<c.issuer, c.key>>]
            /\ attested' = attested \cup {<<h, t, Fact(t, c)[2]>>}
            /\ lateSigners' = lateSigners \cup ({<<c.issuer, c.key>>} \cap killed)
            /\ spent' = [spent EXCEPT ![n] = @ + 1]
            /\ UNCHANGED killed

HKeyStep ==
    /\ \E i \in Issuers, k \in PubKeys :
        \/ /\ \E w \in IR!Windows : IR!RotateIssuerKey(Operator, i, k, w)
           /\ killed' = killed \ {<<i, k>>}
        \/ /\ IR!RevokeIssuerKey(Operator, i, k)
           /\ killed' = killed \cup {<<i, k>>}
    /\ UNCHANGED <<govVars, claimVars, verifierVars, signer, attested,
                   lateSigners, spent>>

HIssuerStep ==
    /\ \E i \in Issuers :
        \/ \E k \in PubKeys, ts \in SUBSET ClaimTypes :
               IR!RegisterIssuer(Operator, i, k, ts)
        \/ IR!RevokeIssuer(Operator, i)
        \/ IR!SetIssuerMetadata(Operator, i)
    /\ UNCHANGED <<govVars, claimVars, verifierVars, histVars>>

HOtherStep ==
    /\ DelegationStep \/ RevocationStep \/ AdminStep \/ VerifierStep \/ Tick
       \/ Govern
    /\ UNCHANGED histVars

HNext ==
    \/ HSubmitStep
    \/ HNullifierStep
    \/ HKeyStep
    \/ HIssuerStep
    \/ HOtherStep

HSpec == HInit /\ [][HNext]_hvars

-----------------------------------------------------------------------------
(* Properties *)

\* Across the two contracts: once the operator emergency-revokes an issuer's
\* key, no submission signed with it is accepted, by any of the submission
\* paths, until that very key is installed again.
NoClaimByDeadKey == lateSigners = {}

\* A nullifier is consumed at most once per application context, whether it is
\* recorded alone or with a proof, and a consumed one stays consumed.
NullifierSpentOnce ==
    \A n \in Nullifiers : spent[n] = IF n \in nullifiers THEN 1 ELSE 0

\* What a valid claim tells an application (type and threshold) was stated by a
\* proof the verifier accepted for that holder, unless the record predates it.
ClaimsAreProven ==
    \A h \in Holders, t \in ClaimTypes :
        IsVerified(h, t, Issuers) /\ signer[<<h, t>>] # None =>
            <<h, t, proofs[<<h, t>>].threshold>> \in attested

-----------------------------------------------------------------------------
(* What the documentation says, which the code does not do *)

\* After a key is revoked its credentials "no longer verify anywhere in the
\* protocol, including ones already submitted and cached".
KeyRevocationReachesCache ==
    \A h \in Holders, t \in ClaimTypes :
        IsVerified(h, t, None) => signer[<<h, t>>] \notin killed

\* AggregateLayoutInvalid: an accepted aggregate submission names the layout of
\* the circuit, so it stores no claim of a type the proof says nothing about.
AggregateLayoutChecked ==
    \A h \in Holders, t \in ClaimTypes :
        IsVerified(h, t, None) => \E a \in attested : a[1] = h /\ a[2] = t
-----------------------------------------------------------------------------
(***************************************************************************)
(* What TLC runs: one next-state relation per group of actors, each from a *)
(* fresh deployment.                                                       *)
(***************************************************************************)
MCInit == Deployed /\ HistInit

\* Claims against the issuers' and the verifier's lifecycle.
LifecycleNext ==
    \/ HSubmitStep
    \/ HKeyStep
    \/ HIssuerStep
    \/ /\ RevocationStep \/ AdminStep \/ VerifierStep \/ Tick
       /\ UNCHANGED histVars

LifecycleSpec == MCInit /\ [][LifecycleNext]_hvars

\* Batch and aggregate submissions while the issuers' keys change.
BatchNext ==
    \/ HSubmitStep
    \/ HKeyStep
    \/ ((\E h \in Holders : RevokeAll(h)) \/ Tick) /\ UNCHANGED histVars

BatchSpec == MCInit /\ [][BatchNext]_hvars

\* Claims, nullifiers, delegations and legacy records against pauses and the
\* handover of the registry's own administration.
OperationsNext ==
    \/ HSubmitStep
    \/ HNullifierStep
    \/ /\ DelegationStep \/ RevocationStep \/ AdminStep \/ Govern \/ Tick
       /\ UNCHANGED histVars

OperationsSpec == MCInit /\ [][OperationsNext]_hvars
=============================================================================
