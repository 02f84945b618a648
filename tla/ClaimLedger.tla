----------------------------- MODULE ClaimLedger -----------------------------
(***************************************************************************)
(* What the contracts promise to whoever reads a claim, without how they   *)
(* keep it: no keys, proofs, circuits, versions, roles or nullifiers.  The *)
(* ledger has one claim per holder and type.  An open intake puts claims   *)
(* of an issuer trusted for the type on it, for a bounded time; afterwards *)
(* only their holder and their issuer can touch them.  A claim an earlier  *)
(* version of the registry left is sealed: it says nothing until unsealed, *)
(* which keeps what it says and leaves it without an issuer.               *)
(*                                                                         *)
(* ProofRegistry implements this specification (KeepsLedger there).        *)
(***************************************************************************)
EXTENDS Integers

CONSTANTS Holders, Verifiers, ClaimTypes, Issuers, Thresholds, None,
          Ceiling  \* a claim or a grant ends at most so long after it is made

VARIABLES
    now,
    open,     \* whether new claims are taken
    trusted,  \* <<issuer, type>>: whom the issuer registry trusts for what
    claims,   \* claims[<<h, t>>]: a claim, or None
    grants    \* grants[<<h, v, t>>]: end of the grant to reader v, or None

ledgerVars == <<now, open, trusted, claims, grants>>

LedgerClaim ==
    [issuer: Issuers \cup {None}, since: Nat, until: Nat,
     says: Thresholds \cup {None}, revoked: BOOLEAN, sealed: BOOLEAN]

\* Ends that may be promised now.
Ahead == (now + 1) .. (now + Ceiling)

LedgerInit ==
    /\ now = 0
    /\ open = TRUE
    /\ trusted \in SUBSET (Issuers \X ClaimTypes)
    /\ claims \in [Holders \X ClaimTypes -> LedgerClaim \cup {None}]
    /\ \A ht \in Holders \X ClaimTypes : claims[ht] # None => claims[ht].sealed
    /\ grants = [hvt \in Holders \X Verifiers \X ClaimTypes |-> None]

-----------------------------------------------------------------------------
(* What readers are answered *)

\* Whether an application that accepts the issuers in among (None for any) is
\* told that the holder satisfies the type.
Valid(h, t, among) ==
    LET claim == claims[<<h, t>>] IN
    /\ claim # None
    /\ ~claim.sealed
    /\ ~claim.revoked
    /\ now < claim.until
    /\ among # None => claim.issuer \in among

ValidAtLeast(h, t, min, among) ==
    /\ Valid(h, t, among)
    /\ min # None => (IF claims[<<h, t>>].says = None THEN 0
                      ELSE claims[<<h, t>>].says) >= min

ValidFor(h, v, t) ==
    /\ grants[<<h, v, t>>] # None
    /\ now < grants[<<h, v, t>>]
    /\ Valid(h, t, None)

-----------------------------------------------------------------------------
(* The claims of one holder *)

\* A claim that may be put on the ledger now for type t.
Attestation(t) ==
    [issuer: {i \in Issuers : <<i, t>> \in trusted}, since: {now},
     until: Ahead, says: Thresholds \cup {None}, revoked: {FALSE},
     sealed: {FALSE}]

\* Claims of several types are put on the ledger together or not at all.
Attest(h, ts) ==
    /\ open = TRUE
    /\ \E given \in [ts -> UNION {Attestation(t) : t \in ts}] :
        /\ \A t \in ts : given[t] \in Attestation(t)
        /\ claims' = [ht \in Holders \X ClaimTypes |->
               IF ht[1] = h /\ ht[2] \in ts THEN given[ht[2]] ELSE claims[ht]]
    /\ UNCHANGED <<now, open, trusted, grants>>

Withdraw(h, ts) ==
    /\ claims' = [ht \in Holders \X ClaimTypes |->
           IF ht[1] = h /\ ht[2] \in ts THEN None ELSE claims[ht]]
    /\ UNCHANGED <<now, open, trusted, grants>>

\* By the issuer the claim names, while trusted for its type.
RevokeClaim(h, t) ==
    /\ claims[<<h, t>>] # None
    /\ ~claims[<<h, t>>].sealed
    /\ <<claims[<<h, t>>].issuer, t>> \in trusted
    /\ claims' = [claims EXCEPT ![<<h, t>>].revoked = TRUE]
    /\ UNCHANGED <<now, open, trusted, grants>>

Unseal(h, t) ==
    /\ claims[<<h, t>>] # None
    /\ claims[<<h, t>>].sealed
    /\ claims[<<h, t>>].issuer = None
    /\ claims' = [claims EXCEPT ![<<h, t>>].sealed = FALSE]
    /\ UNCHANGED <<now, open, trusted, grants>>

\* The holder lets a reader ask, or no longer.
SetGrant(h, v, t) ==
    /\ \E end \in Ahead \cup {None} :
           grants' = [grants EXCEPT ![<<h, v, t>>] = end]
    /\ UNCHANGED <<now, open, trusted, claims>>

-----------------------------------------------------------------------------
(* What surrounds the ledger: none of it touches a claim *)

OpenOrClose == open' \in BOOLEAN /\ UNCHANGED <<now, trusted, claims, grants>>

ChangeTrust ==
    /\ trusted' \in SUBSET (Issuers \X ClaimTypes)
    /\ UNCHANGED <<now, open, claims, grants>>

TimePasses == now' = now + 1 /\ UNCHANGED <<open, trusted, claims, grants>>

LedgerNext ==
    \/ \E h \in Holders :
        \/ \E ts \in SUBSET ClaimTypes : Attest(h, ts) \/ Withdraw(h, ts)
        \/ \E t \in ClaimTypes : RevokeClaim(h, t) \/ Unseal(h, t)
        \/ \E v \in Verifiers, t \in ClaimTypes : SetGrant(h, v, t)
    \/ OpenOrClose
    \/ ChangeTrust
    \/ TimePasses

LedgerSpec == LedgerInit /\ [][LedgerNext]_ledgerVars
=============================================================================
