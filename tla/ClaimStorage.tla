----------------------------- MODULE ClaimStorage -----------------------------
(***************************************************************************)
(* The lifetime of one claim's storage entry in contracts/proof_registry.  *)
(* A claim expires at a timestamp; the persistent entry that holds it has  *)
(* a time to live of its own, counted in ledgers.  Past it the entry is    *)
(* archived and a call that touches it fails until somebody restores it.   *)
(* bump_ttl converts one clock into the other and asks the host for more.  *)
(*                                                                         *)
(* Which submissions are accepted is ProofRegistry's business: here any    *)
(* valid expiry can be submitted.  The host's rules (creation, extend_ttl, *)
(* archival, restoration) are external.                                    *)
(*                                                                         *)
(* History variables: fresh (the entry was written once, when there was    *)
(* none) and touched (the ledger of the last call that bumped it).         *)
(* Bound: the chain stops at ledger MaxLedger.                             *)
(***************************************************************************)
EXTENDS Integers

CONSTANTS
    SECONDS_PER_LEDGER,
    CloseTimes,               \* seconds a ledger really takes
    PROOF_BUMP_THRESHOLD, PROOF_TTL,   \* in ledgers
    MAX_CREDENTIAL_TTL_SECS,
    MinPersistentTtl, MaxEntryTtl,     \* network settings, in ledgers
    MaxLedger, NoEntry

ASSUME StorageAssumption ==
    /\ SECONDS_PER_LEDGER \in Nat \ {0}
    /\ CloseTimes \subseteq Nat \ {0}
    /\ PROOF_BUMP_THRESHOLD \in Nat
    /\ PROOF_TTL \in Nat
    /\ PROOF_BUMP_THRESHOLD < PROOF_TTL
    /\ MAX_CREDENTIAL_TTL_SECS \in Nat
    /\ MinPersistentTtl \in Nat \ {0}
    /\ MaxEntryTtl \in Nat
    /\ PROOF_TTL < MaxEntryTtl
    /\ MaxLedger \in Nat
    /\ NoEntry \notin [expiry: Nat, revoked: BOOLEAN]

VARIABLES
    ledger, now,   \* sequence number and timestamp of the current ledger
    record,        \* DataKey::Proof: expiry and revoked, or NoEntry
    liveUntil,     \* last ledger the entry can be read in
    fresh, touched

vars == <<ledger, now, record, liveUntil, fresh, touched>>

TypeOK ==
    /\ ledger \in 0..MaxLedger
    /\ now \in Nat
    /\ record \in [expiry: Nat, revoked: BOOLEAN] \cup {NoEntry}
    /\ liveUntil \in Nat
    /\ fresh \in BOOLEAN
    /\ touched \in 0..MaxLedger

-----------------------------------------------------------------------------
Stored == record # NoEntry
Live == Stored /\ ledger <= liveUntil
Archived == Stored /\ ledger > liveUntil

Lesser(a, b) == IF a < b THEN a ELSE b
Greater(a, b) == IF a < b THEN b ELSE a

\* External: extend_ttl(threshold, extendTo) acts only on an entry that has at
\* most threshold ledgers left, never shortens it, and never goes beyond the
\* network's maximum.
ExtendTtl(until, extendTo) ==
    IF until - ledger <= PROOF_BUMP_THRESHOLD
    THEN Greater(until, ledger + Lesser(extendTo, MaxEntryTtl - 1))
    ELSE until

\* External: the life a new or a restored entry starts with.
InitialTtl == ledger + MinPersistentTtl - 1

SecondsUntil(expiry) == Greater(expiry - now, 0)

\* (Faulty: 90 days whatever the expiry.)
BumpFixedTtl(until, expiry) == ExtendTtl(until, PROOF_TTL)

\* bump_ttl asks for the claim's remaining time, in ledgers rounded up.
BumpTtl(until, expiry) ==
    ExtendTtl(until,
        Greater(PROOF_TTL, (SecondsUntil(expiry) + SECONDS_PER_LEDGER - 1)
                           \div SECONDS_PER_LEDGER))

ValidExpiry(expiry) ==
    now < expiry /\ expiry <= now + MAX_CREDENTIAL_TTL_SECS

Init ==
    /\ ledger = 0
    /\ now = 0
    /\ record = NoEntry
    /\ liveUntil = 0
    /\ fresh = FALSE
    /\ touched = 0

\* submit_proof, and every other path that stores a claim: `set` keeps the life
\* of an entry that exists.
Submit(expiry) ==
    /\ ~Archived
    /\ ValidExpiry(expiry)
    /\ record' = [expiry |-> expiry, revoked |-> FALSE]
    /\ liveUntil' = BumpTtl(IF Stored THEN liveUntil ELSE InitialTtl, expiry)
    /\ fresh' = ~Stored
    /\ touched' = ledger
    /\ UNCHANGED <<ledger, now>>

\* claim_expiry bumps whatever it finds, an expired or revoked claim too.
ClaimExpiry ==
    /\ Live
    /\ liveUntil' = BumpTtl(liveUntil, record.expiry)
    /\ touched' = ledger
    /\ UNCHANGED <<ledger, now, record, fresh>>

BumpClaim ==
    /\ Live
    /\ ~record.revoked
    /\ record.expiry > now
    /\ liveUntil' = BumpTtl(liveUntil, record.expiry)
    /\ touched' = ledger
    /\ UNCHANGED <<ledger, now, record, fresh>>

Revoke ==
    /\ Live
    /\ record' = [record EXCEPT !.revoked = TRUE]
    /\ liveUntil' = ExtendTtl(liveUntil, PROOF_TTL)
    /\ touched' = ledger
    /\ UNCHANGED <<ledger, now, fresh>>

RevokeProof ==
    /\ Live
    /\ record' = NoEntry
    /\ UNCHANGED <<ledger, now, liveUntil, fresh, touched>>

\* External: a RestoreFootprint operation.
Restore ==
    /\ Archived
    /\ liveUntil' = InitialTtl
    /\ fresh' = FALSE
    /\ touched' = ledger
    /\ UNCHANGED <<ledger, now, record>>

\* External: the ledger closes.
CloseLedger ==
    /\ ledger < MaxLedger
    /\ ledger' = ledger + 1
    /\ \E d \in CloseTimes : now' = now + d
    /\ UNCHANGED <<record, liveUntil, fresh, touched>>

Next ==
    \/ \E e \in now + 1 .. now + MAX_CREDENTIAL_TTL_SECS : Submit(e)
    \/ ClaimExpiry
    \/ BumpClaim
    \/ Revoke
    \/ RevokeProof
    \/ Restore
    \/ CloseLedger

Spec == Init /\ [][Next]_vars

-----------------------------------------------------------------------------
(* Properties *)

Valid == Stored /\ ~record.revoked /\ record.expiry > now

\* A claim submitted where there was none stays readable until it expires,
\* without anybody bumping it: on a network that creates entries with no more
\* than PROOF_BUMP_THRESHOLD of life, lets them live long enough, and closes
\* ledgers no faster than SECONDS_PER_LEDGER.
FirstWriteCoversExpiry == Valid /\ fresh => Live

\* Bumping a claim once every PROOF_BUMP_THRESHOLD ledgers keeps it readable,
\* however it was written before.  Restored entries start anew.
RegularBumpsKeepLive ==
    Stored /\ ledger <= touched + PROOF_BUMP_THRESHOLD => Live

-----------------------------------------------------------------------------
(* What the documentation says, which the code does not do *)

\* "Every write bumps the entry's TTL to at least max(90 days, time until
\* expiry), so a claim stays readable for its whole validity window."
ReadableWhileValid == Valid => Live
=============================================================================
