--------------------------- MODULE StorageProofs ---------------------------
(***************************************************************************)
(* Theorems about what is stored of claims: the lifetime of a claim's      *)
(* entry on the chain; the index, as its live loop and its backfill write  *)
(* it; and two readers of it while it is written, the integrity check that *)
(* sweeps its rows and the client that pages through them.                 *)
(***************************************************************************)
EXTENDS ClaimStorage, Integrity, IndexerApi, Backfill, FiniteSetTheorems, SequenceTheorems,
        WellFoundedInduction, TLAPS

-----------------------------------------------------------------------------
(* A claim's storage entry, for the network's settings a theorem names     *)

\* extend_ttl never shortens the life of an entry.
LEMMA ExtendNeverShortens ==
  ASSUME NEW until \in Nat, NEW extendTo \in Nat, ledger \in Nat
  PROVE  /\ ExtendTtl(until, extendTo) \in Nat
         /\ ExtendTtl(until, extendTo) >= until
BY StorageAssumption DEF StorageAssumption, ExtendTtl, Greater, Lesser

\* After a bump that asks for PROOF_TTL or more, the entry has at least
\* PROOF_BUMP_THRESHOLD ledgers left, whatever it had before.
LEMMA ExtendCoversThreshold ==
  ASSUME NEW until \in Nat, NEW extendTo \in Nat, ledger \in Nat,
         extendTo >= PROOF_TTL
  PROVE  ExtendTtl(until, extendTo) >= ledger + PROOF_BUMP_THRESHOLD
BY StorageAssumption DEF StorageAssumption, ExtendTtl, Greater, Lesser

\* Ledgers asked for a claim: a number, and PROOF_TTL at least.
LedgersFor(expiry) ==
    Greater(PROOF_TTL, (SecondsUntil(expiry) + SECONDS_PER_LEDGER - 1)
                       \div SECONDS_PER_LEDGER)

LEMMA LedgersForType ==
  ASSUME NEW expiry \in Nat, now \in Nat
  PROVE  /\ LedgersFor(expiry) \in Nat
         /\ LedgersFor(expiry) >= PROOF_TTL
<1>1. SecondsUntil(expiry) \in Nat
  BY DEF SecondsUntil, Greater
<1>2. (SecondsUntil(expiry) + SECONDS_PER_LEDGER - 1) \div SECONDS_PER_LEDGER
        \in Nat
  BY <1>1, StorageAssumption DEF StorageAssumption
<1> QED BY <1>2, StorageAssumption DEF StorageAssumption, LedgersFor, Greater

LEMMA BumpIsExtend ==
  ASSUME NEW until, NEW expiry
  PROVE  BumpTtl(until, expiry) = ExtendTtl(until, LedgersFor(expiry))
BY DEF BumpTtl, LedgersFor

-----------------------------------------------------------------------------
\* The clocks run together and an entry's last bump is not in the future.
StorageInv == TypeOK /\ touched <= ledger

\* The inductive invariant of the storage model: ages and times are where bump_persistent
\* and the ledger's arithmetic put them.
THEOREM StorageTypeOK == Spec => []StorageInv
<1>1. Init => StorageInv
  <2> SUFFICES ASSUME Init PROVE StorageInv
    OBVIOUS
  <2>1. ledger \in 0..MaxLedger /\ touched \in 0..MaxLedger /\ touched <= ledger
    BY StorageAssumption DEF Init, StorageAssumption
  <2>2. now \in Nat /\ liveUntil \in Nat
    BY DEF Init
  <2>3. record \in [expiry: Nat, revoked: BOOLEAN] \cup {NoEntry} /\ fresh \in BOOLEAN
    BY Zenon DEF Init
  <2> QED BY <2>1, <2>2, <2>3 DEF StorageInv, TypeOK
<1>2. StorageInv /\ [Next]_vars => StorageInv'
  <2> SUFFICES ASSUME StorageInv, [Next]_vars PROVE StorageInv'
    OBVIOUS
  <2> USE StorageAssumption DEF StorageInv, TypeOK, StorageAssumption
  <2>0. ledger \in Nat /\ now \in Nat /\ InitialTtl \in Nat
    BY DEF InitialTtl
  <2>1. ASSUME NEW e \in now + 1 .. now + MAX_CREDENTIAL_TTL_SECS, Submit(e)
        PROVE  StorageInv'
    <3>1. e \in Nat
      BY <2>0
    <3>2. liveUntil' \in Nat
      BY <2>0, <2>1, <3>1, BumpIsExtend, LedgersForType, ExtendNeverShortens
      DEF Submit
    <3> QED BY <2>1, <3>1, <3>2 DEF Submit
  <2>2. ASSUME Stored, ClaimExpiry \/ BumpClaim PROVE StorageInv'
    <3>1. record.expiry \in Nat
      BY <2>2 DEF Stored
    <3>2. liveUntil' \in Nat
      BY <2>0, <2>2, <3>1, BumpIsExtend, LedgersForType, ExtendNeverShortens
      DEF ClaimExpiry, BumpClaim
    <3> QED BY <2>2, <3>2 DEF ClaimExpiry, BumpClaim
  <2>3. CASE Revoke
    <3>1. record \in [expiry: Nat, revoked: BOOLEAN]
      BY <2>3 DEF Revoke, Live, Stored
    <3>2. liveUntil' \in Nat
      BY <2>0, <2>3, ExtendNeverShortens DEF Revoke
    <3>3. record' \in [expiry: Nat, revoked: BOOLEAN]
      BY <2>3, <3>1 DEF Revoke
    <3> QED BY <2>0, <2>3, <3>2, <3>3 DEF Revoke
  <2>4. CASE RevokeProof
    BY <2>4 DEF RevokeProof
  <2>5. CASE Restore
    <3>1. UNCHANGED <<ledger, now, record>>
      BY <2>5 DEF Restore
    <3>2. liveUntil' \in Nat /\ fresh' \in BOOLEAN
      BY <2>0, <2>5 DEF Restore
    <3>3. touched' = ledger'
      BY <2>5 DEF Restore
    <3> QED BY <2>0, <3>1, <3>2, <3>3
  <2>6. CASE CloseLedger
    <3>1. now' \in Nat
      BY <2>0, <2>6 DEF CloseLedger
    <3>2. ledger' \in 0..MaxLedger /\ touched' <= ledger'
      BY <2>6 DEF CloseLedger
    <3>3. UNCHANGED <<record, liveUntil, fresh, touched>>
      BY <2>6 DEF CloseLedger
    <3> QED BY <3>1, <3>2, <3>3
  <2>7. CASE UNCHANGED vars
    BY <2>7 DEF vars
  <2> QED BY <2>1, <2>2, <2>3, <2>4, <2>5, <2>6, <2>7
          DEF Next, ClaimExpiry, BumpClaim, Live
<1> QED BY <1>1, <1>2, PTL DEF Spec

-----------------------------------------------------------------------------
\* What a bump leaves behind: PROOF_BUMP_THRESHOLD ledgers from then on.
BumpHolds == Stored => liveUntil >= touched + PROOF_BUMP_THRESHOLD

\* Bumping a claim once every PROOF_BUMP_THRESHOLD ledgers keeps it readable,
\* on a network that gives a restored entry at least that long.
THEOREM RegularBumpsSuffice ==
  ASSUME MinPersistentTtl > PROOF_BUMP_THRESHOLD
  PROVE  Spec => []RegularBumpsKeepLive
<1>1. Init => BumpHolds
  BY DEF Init, BumpHolds, Stored
<1>2. StorageInv /\ BumpHolds /\ [Next]_vars => BumpHolds'
  <2> SUFFICES ASSUME StorageInv, BumpHolds, [Next]_vars PROVE BumpHolds'
    OBVIOUS
  <2> USE StorageAssumption DEF BumpHolds, StorageInv, TypeOK, StorageAssumption
  <2>0. ledger \in Nat /\ now \in Nat /\ InitialTtl \in Nat
    BY DEF InitialTtl
  <2>1. ASSUME NEW e \in now + 1 .. now + MAX_CREDENTIAL_TTL_SECS, Submit(e)
        PROVE  BumpHolds'
    <3>1. e \in Nat
      BY <2>0
    <3>2. liveUntil' >= ledger + PROOF_BUMP_THRESHOLD
      BY <2>0, <2>1, <3>1, BumpIsExtend, LedgersForType, ExtendCoversThreshold
      DEF Submit
    <3> QED BY <2>1, <3>2 DEF Submit
  <2>2. ASSUME Stored, ClaimExpiry \/ BumpClaim PROVE BumpHolds'
    <3>1. record.expiry \in Nat
      BY <2>2 DEF Stored
    <3>2. liveUntil' >= ledger + PROOF_BUMP_THRESHOLD
      BY <2>0, <2>2, <3>1, BumpIsExtend, LedgersForType, ExtendCoversThreshold
      DEF ClaimExpiry, BumpClaim
    <3> QED BY <2>2, <3>2 DEF ClaimExpiry, BumpClaim
  <2>3. CASE Revoke
    BY <2>0, <2>3, ExtendCoversThreshold DEF Revoke
  <2>4. CASE RevokeProof
    BY <2>4 DEF RevokeProof, Stored
  <2>5. CASE Restore
    BY <2>0, <2>5 DEF Restore, InitialTtl
  <2>6. CASE UNCHANGED <<record, liveUntil, touched>>
    BY <2>6 DEF Stored
  <2> QED BY <2>1, <2>2, <2>3, <2>4, <2>5, <2>6
          DEF Next, ClaimExpiry, BumpClaim, Live, CloseLedger, vars
<1>3. StorageInv /\ BumpHolds => RegularBumpsKeepLive
  BY StorageAssumption
  DEF StorageInv, TypeOK, BumpHolds, RegularBumpsKeepLive, Live,
      StorageAssumption
<1> QED BY <1>1, <1>2, <1>3, StorageTypeOK, PTL DEF Spec

-----------------------------------------------------------------------------
\* Rounding up to whole ledgers loses no second.
LEMMA RoundingUp ==
  ASSUME NEW seconds \in Nat, NEW size \in Nat \ {0}
  PROVE  LET ledgers == (seconds + size - 1) \div size
         IN  ledgers \in Nat /\ ledgers * size >= seconds
<1> DEFINE ledgers == (seconds + size - 1) \div size
           rest == (seconds + size - 1) % size
<1>1. ledgers \in Nat /\ rest \in 0 .. size - 1
  OBVIOUS
<1>2. seconds + size - 1 = size * ledgers + rest
  OBVIOUS
<1>3. size * ledgers = ledgers * size /\ size * ledgers \in Nat
  BY <1>1
<1> HIDE DEF ledgers, rest
<1>4. ledgers * size >= seconds
  BY <1>1, <1>2, <1>3
<1> QED BY <1>1, <1>4 DEF ledgers

LEMMA ScalingKeepsOrder ==
  ASSUME NEW a \in Int, NEW b \in Int, NEW size \in Nat, a >= b
  PROVE  a * size >= b * size
<1>1. (a - b) * size >= 0
  <2> DEFINE d == a - b
  <2>1. d \in Nat
    OBVIOUS
  <2> HIDE DEF d
  <2>2. d * size >= 0
    BY <2>1
  <2> QED BY <2>2 DEF d
<1>2. (a - b) * size = a * size - b * size
  OBVIOUS
<1>3. a * size \in Int /\ b * size \in Int
  OBVIOUS
<1> QED BY <1>1, <1>2, <1>3

LEMMA LongerIsMore ==
  ASSUME NEW from \in Nat, NEW until \in Nat, NEW later \in Nat,
         NEW size \in Nat, later >= until
  PROVE  (later - from) * size >= (until - from) * size
<1>1. later - from \in Int /\ until - from \in Int
  OBVIOUS
<1>2. later - from >= until - from
  OBVIOUS
<1> QED BY <1>1, <1>2, ScalingKeepsOrder

\* A life of enough ledgers covers the seconds they were counted for.
LEMMA LedgersCoverSeconds ==
  ASSUME NEW from \in Nat, NEW until \in Nat, NEW ledgers \in Nat,
         NEW size \in Nat, NEW seconds \in Int,
         until >= from + ledgers, ledgers * size >= seconds
  PROVE  (until - from) * size >= seconds
<1>1. until - from \in Int /\ until - from >= ledgers
  OBVIOUS
<1>2. (until - from) * size >= ledgers * size
  BY <1>1, ScalingKeepsOrder
<1>3. (until - from) * size \in Int /\ ledgers * size \in Int
  BY <1>1
<1> QED BY <1>2, <1>3

\* A claim written where there was none has the ledgers left that its seconds
\* need, at SECONDS_PER_LEDGER each.
EnoughLeft ==
    Stored /\ fresh =>
        (liveUntil - ledger) * SECONDS_PER_LEDGER >= record.expiry - now

\* A network that creates entries with no more life than PROOF_BUMP_THRESHOLD,
\* lets them live as long as any claim and closes no ledger in less than
\* SECONDS_PER_LEDGER.
NetworkSuits ==
    /\ MinPersistentTtl - 1 <= PROOF_BUMP_THRESHOLD
    /\ \A seconds \in 0..MAX_CREDENTIAL_TTL_SECS :
           (seconds + SECONDS_PER_LEDGER - 1) \div SECONDS_PER_LEDGER
               < MaxEntryTtl
    /\ \A d \in CloseTimes : d >= SECONDS_PER_LEDGER

\* A claim submitted where there was none is readable until it expires, on a
\* network that suits the contract's constants.
THEOREM FirstWriteSuffices ==
  ASSUME NetworkSuits
  PROVE  Spec => []FirstWriteCoversExpiry
<1> USE StorageAssumption DEF StorageInv, TypeOK, StorageAssumption
<1>1. Init => EnoughLeft
  BY DEF Init, EnoughLeft, Stored
<1>2. StorageInv /\ StorageInv' /\ EnoughLeft /\ [Next]_vars => EnoughLeft'
  <2> SUFFICES ASSUME StorageInv, StorageInv', EnoughLeft, [Next]_vars,
                      Stored', fresh'
               PROVE  (liveUntil' - ledger') * SECONDS_PER_LEDGER
                          >= record'.expiry - now'
    BY DEF EnoughLeft
  <2>0. /\ ledger \in Nat /\ now \in Nat /\ liveUntil \in Nat
        /\ liveUntil' \in Nat
    OBVIOUS
  <2>1. ASSUME NEW e \in now + 1 .. now + MAX_CREDENTIAL_TTL_SECS, Submit(e)
        PROVE  (liveUntil' - ledger') * SECONDS_PER_LEDGER
                   >= record'.expiry - now'
    <3> DEFINE need == (e - now + SECONDS_PER_LEDGER - 1)
                           \div SECONDS_PER_LEDGER
    <3>1. need \in Nat /\ need * SECONDS_PER_LEDGER >= e - now
      BY <2>0, RoundingUp
    <3>2. need < MaxEntryTtl
      BY <2>0 DEF NetworkSuits
    <3>3. LedgersFor(e) = Greater(PROOF_TTL, need)
      BY <2>0 DEF LedgersFor, SecondsUntil, Greater
    <3>4. InitialTtl - ledger <= PROOF_BUMP_THRESHOLD /\ InitialTtl \in Nat
      BY <2>0 DEF InitialTtl, NetworkSuits
    <3>5. liveUntil' = ExtendTtl(InitialTtl, LedgersFor(e))
      BY <2>1, BumpIsExtend DEF Submit
    <3> HIDE DEF need
    <3>6. liveUntil' >= ledger + need
      BY <2>0, <3>1, <3>2, <3>3, <3>4, <3>5 DEF ExtendTtl, Greater, Lesser
    <3>7. ledger' = ledger /\ now' = now /\ record'.expiry = e
      BY <2>1 DEF Submit
    <3>8. (liveUntil' - ledger) * SECONDS_PER_LEDGER >= e - now
      <4> HIDE DEF StorageInv, TypeOK
      <4>1. e - now \in Int /\ SECONDS_PER_LEDGER \in Nat
        BY <2>0
      <4> QED BY <2>0, <3>1, <3>6, <4>1, LedgersCoverSeconds
    <3> QED BY <3>7, <3>8
  <2>2. ASSUME Stored, fresh, ledger' = ledger, now' = now,
               record'.expiry = record.expiry, liveUntil' >= liveUntil
        PROVE  (liveUntil' - ledger') * SECONDS_PER_LEDGER
                   >= record'.expiry - now'
    <3>1. (liveUntil' - ledger) * SECONDS_PER_LEDGER
              >= (liveUntil - ledger) * SECONDS_PER_LEDGER
      <4> HIDE DEF StorageInv, TypeOK
      <4> QED BY <2>0, <2>2, LongerIsMore
    <3>2. record.expiry \in Nat
      BY <2>2 DEF Stored
    <3> QED BY <2>0, <2>2, <3>1, <3>2 DEF EnoughLeft
  <2>3. CASE ClaimExpiry \/ BumpClaim
    <3>1. Stored /\ record.expiry \in Nat
      BY <2>3 DEF ClaimExpiry, BumpClaim, Live, Stored
    <3>2. liveUntil' = ExtendTtl(liveUntil, LedgersFor(record.expiry))
      BY <2>3, BumpIsExtend DEF ClaimExpiry, BumpClaim
    <3>3. LedgersFor(record.expiry) \in Nat
      BY <2>0, <3>1, LedgersForType
    <3>4. liveUntil' >= liveUntil
      BY <2>0, <3>2, <3>3, ExtendNeverShortens
    <3> QED BY <2>2, <2>3, <3>1, <3>4 DEF ClaimExpiry, BumpClaim
  <2>4. CASE Revoke
    <3>1. Stored /\ record'.expiry = record.expiry
      BY <2>4 DEF Revoke, Live, Stored
    <3>2. liveUntil' >= liveUntil
      BY <2>0, <2>4, ExtendNeverShortens DEF Revoke
    <3> QED BY <2>2, <2>4, <3>1, <3>2 DEF Revoke
  <2>5. CASE RevokeProof \/ Restore
    BY <2>5 DEF RevokeProof, Restore, Stored
  <2>6. CASE CloseLedger
    <3>1. PICK d \in CloseTimes : now' = now + d
      BY <2>6 DEF CloseLedger
    <3>2. /\ ledger' = ledger + 1
          /\ UNCHANGED <<record, liveUntil, fresh>>
      BY <2>6 DEF CloseLedger
    <3>3. d \in Nat /\ d >= SECONDS_PER_LEDGER
      BY DEF NetworkSuits
    <3>4. record.expiry \in Nat /\ Stored /\ fresh
      BY <3>2 DEF Stored
    <3>5. (liveUntil - (ledger + 1)) * SECONDS_PER_LEDGER
              = (liveUntil - ledger) * SECONDS_PER_LEDGER - SECONDS_PER_LEDGER
      BY <2>0
    <3>6. (liveUntil - ledger) * SECONDS_PER_LEDGER \in Int
      BY <2>0
    <3> QED BY <2>0, <3>1, <3>2, <3>3, <3>4, <3>5, <3>6 DEF EnoughLeft
  <2>7. CASE UNCHANGED vars
    BY <2>7 DEF vars, EnoughLeft, Stored
  <2> QED BY <2>1, <2>3, <2>4, <2>5, <2>6, <2>7 DEF Next
<1>3. StorageInv /\ EnoughLeft => FirstWriteCoversExpiry
  <2> SUFFICES ASSUME StorageInv, EnoughLeft, Valid, fresh PROVE Live
    BY DEF FirstWriteCoversExpiry
  <2>1. Stored /\ record.expiry \in Nat /\ record.expiry > now
    BY DEF Valid, Stored
  <2>2. (liveUntil - ledger) * SECONDS_PER_LEDGER > 0
    BY <2>1 DEF EnoughLeft
  <2>3. liveUntil - ledger > 0
    BY <2>2
  <2> QED BY <2>1, <2>3 DEF Live
<1> QED BY <1>1, <1>2, <1>3, StorageTypeOK, PTL DEF Spec

-----------------------------------------------------------------------------
(* The integrity check: every row is sampled in its turn                   *)

\* In a finite set whose elements have their predecessors, among any of them
\* is one that comes first.
LEMMA FirstExists ==
  ASSUME NEW S, IsFiniteSet(S), NEW P,
         \A x \in S : P[x] \subseteq S /\ x \notin P[x] /\ \A y \in P[x] : P[y] \subseteq P[x],
         NEW T, T \subseteq S, T # {}
  PROVE  \E x \in T : P[x] \cap T = {}
<1> DEFINE U == {P[x] : x \in T}
<1>1. U \subseteq FiniteSubsetsOf(S) /\ U # {}
  BY FS_FiniteSubsetsOfFinite
<1>2. PICK u \in U : \A v \in U : ~(<<v, u>> \in StrictSubsetOrdering(S))
  <2> HIDE DEF U
  <2> QED BY <1>1, WFMin, FS_StrictSubsetOrderingWellFounded
<1>3. PICK x \in T : u = P[x]
  BY <1>2
<1>4. ASSUME NEW y \in P[x], y \in T PROVE FALSE
  <2>1. P[y] \subseteq P[x] /\ P[y] # P[x]
    BY <1>3, <1>4
  <2>2. <<P[y], P[x]>> \in StrictSubsetOrdering(S)
    BY <2>1, <1>3, <1>4 DEF StrictSubsetOrdering
  <2> QED BY <2>2, <1>2, <1>3, <1>4
<1> QED BY <1>3, <1>4

\* The first n of a set.
Firsts(S, P, n) == {x \in S : Cardinality(P[x]) < n}

\* ... are as many as n, or all; and all if there are no more than n.
LEMMA FirstsAreAll ==
  ASSUME NEW S, IsFiniteSet(S), NEW P, NEW n \in Nat,
         \A x \in S : P[x] \subseteq S /\ x \notin P[x] /\ \A y \in P[x] : P[y] \subseteq P[x],
         Cardinality(Firsts(S, P, n)) < n \/ Cardinality(S) <= n
  PROVE  Firsts(S, P, n) = S
<1> DEFINE F == Firsts(S, P, n)
<1>0. F \subseteq S
  BY DEF Firsts
<1>1. CASE Cardinality(S) <= n
  <2> SUFFICES ASSUME NEW x \in S PROVE Cardinality(P[x]) < n
    BY DEF Firsts
  <2>1. P[x] \in SUBSET S /\ P[x] # S
    OBVIOUS
  <2>2. Cardinality(P[x]) <= Cardinality(S) /\ Cardinality(P[x]) # Cardinality(S)
    BY <2>1, FS_Subset
  <2>3. Cardinality(P[x]) \in Nat /\ Cardinality(S) \in Nat
    BY <2>1, FS_Subset, FS_CardinalityType
  <2> QED BY <1>1, <2>2, <2>3
<1>2. CASE Cardinality(F) < n
  <2> SUFFICES ASSUME S \ F # {} PROVE FALSE
    BY <1>0
  <2>1. PICK x \in S \ F : P[x] \cap (S \ F) = {}
    <3> DEFINE T == S \ F
    <3>1. T \subseteq S /\ T # {}
      OBVIOUS
    <3> HIDE DEF T
    <3>2. \E x \in T : P[x] \cap T = {}
      BY <3>1, FirstExists
    <3> QED BY <3>2 DEF T
  <2>2. P[x] \in SUBSET F
    BY <2>1
  <2>3. IsFiniteSet(F)
    BY <1>0, FS_Subset
  <2>4. Cardinality(P[x]) <= Cardinality(F) /\ IsFiniteSet(P[x])
    BY <2>2, <2>3, FS_Subset
  <2>5. ~(Cardinality(P[x]) < n)
    BY <2>1 DEF Firsts
  <2>6. Cardinality(P[x]) \in Nat /\ Cardinality(F) \in Nat
    BY <2>3, <2>4, FS_CardinalityType
  <2> QED BY <1>2, <2>4, <2>5, <2>6
<1> QED BY <1>1, <1>2

-----------------------------------------------------------------------------
\* Numbers in their order, and backwards.
Below(ids) == [i \in ids |-> {j \in ids : j < i}]
Above(ids) == [i \in ids |-> {j \in ids : j > i}]

LEMMA GreatestIsIn ==
  ASSUME NEW ids \in SUBSET Nat, IsFiniteSet(ids), ids # {}
  PROVE  GreatestOf(ids) \in ids /\ \A j \in ids : j <= GreatestOf(ids)
<1>0. PICK P : P = Above(ids)
  OBVIOUS
<1>1. \A x \in ids : P[x] = {j \in ids : j > x}
  BY <1>0 DEF Above
<1>2. \A x \in ids : P[x] \subseteq ids /\ x \notin P[x]
  BY <1>1
<1>3. \A x \in ids : \A y \in P[x] : P[y] \subseteq P[x]
  <2> SUFFICES ASSUME NEW x \in ids, NEW y \in P[x], NEW z \in P[y] PROVE z \in P[x]
    OBVIOUS
  <2>1. y \in ids /\ y > x
    BY <1>1
  <2>2. z \in ids /\ z > y
    BY <1>1, <2>1
  <2>3. z > x
    BY <2>1, <2>2
  <2> QED BY <1>1, <2>2, <2>3
<1>4. PICK S : S = ids
  OBVIOUS
<1>5. PICK x \in S : P[x] \cap S = {}
  <2>1. \A x \in S : P[x] \subseteq S /\ x \notin P[x] /\ \A y \in P[x] : P[y] \subseteq P[x]
    BY <1>2, <1>3, <1>4
  <2>2. IsFiniteSet(S) /\ S # {}
    BY <1>4
  <2> QED BY ONLY <2>1, <2>2, FirstExists
<1>6. x \in ids /\ \A j \in ids : j <= x
  BY <1>1, <1>4, <1>5
<1> QED BY <1>6 DEF GreatestOf

\* The first n ids are all there are, or n, none of them beyond one left out.
LEMMA FirstOnes ==
  ASSUME NEW ids \in SUBSET Nat, IsFiniteSet(ids), NEW n \in Nat
  PROVE  /\ FirstOf(ids, n) \subseteq ids /\ IsFiniteSet(FirstOf(ids, n))
         /\ \A i \in ids \ FirstOf(ids, n) :
               /\ \A j \in FirstOf(ids, n) : j < i
               /\ Cardinality(FirstOf(ids, n)) >= n
<1> DEFINE F == FirstOf(ids, n)
<1>1. F \subseteq ids /\ IsFiniteSet(F) /\ Cardinality(F) \in Nat
  BY FS_Subset, FS_CardinalityType DEF FirstOf
<1>2. F = Firsts(ids, Below(ids), n)
  BY DEF FirstOf, Firsts, Below
<1>3. \A x \in ids : Below(ids)[x] = {j \in ids : j < x}
  BY DEF Below
<1>6. \A x \in ids : /\ Below(ids)[x] \subseteq ids /\ x \notin Below(ids)[x]
                     /\ \A y \in Below(ids)[x] : Below(ids)[y] \subseteq Below(ids)[x]
  <2>1. \A x \in ids : Below(ids)[x] \subseteq ids /\ x \notin Below(ids)[x]
    BY <1>3
  <2> SUFFICES ASSUME NEW x \in ids, NEW y \in Below(ids)[x], NEW z \in Below(ids)[y]
               PROVE  z \in Below(ids)[x]
    BY <2>1
  <2>2. y \in ids /\ y < x
    BY <1>3
  <2>3. z \in ids /\ z < y
    BY <1>3, <2>2
  <2>4. z < x
    BY <2>2, <2>3
  <2> QED BY <1>3, <2>3, <2>4
<1>4. ASSUME NEW i \in ids \ F PROVE Cardinality(F) >= n
  <2>1. F # ids
    BY <1>4
  <2>2. ~(Cardinality(F) < n)
    <3> HIDE DEF F
    <3> QED BY <2>1, <1>2, <1>6, FirstsAreAll
  <2> QED BY <1>1, <2>2
<1>5. ASSUME NEW i \in ids \ F, NEW j \in F PROVE j < i
  <2> SUFFICES ASSUME ~(j < i) PROVE FALSE
    OBVIOUS
  <2>0. i \in ids /\ j \in ids /\ i # j
    BY <1>1, <1>5
  <2>1. i < j /\ i \in Nat /\ j \in Nat
    BY <2>0
  <2>2. {k \in ids : k < i} \subseteq {k \in ids : k < j}
    <3> SUFFICES ASSUME NEW k \in ids, k < i PROVE k < j
      OBVIOUS
    <3> QED BY <2>1
  <2>3. IsFiniteSet({k \in ids : k < j})
    BY FS_Subset
  <2>4. /\ Cardinality({k \in ids : k < i}) <= Cardinality({k \in ids : k < j})
        /\ IsFiniteSet({k \in ids : k < i})
    BY <2>2, <2>3, FS_Subset
  <2>5. /\ Cardinality({k \in ids : k < i}) \in Nat /\ Cardinality({k \in ids : k < j}) \in Nat
    BY <2>3, <2>4, FS_CardinalityType
  <2>6. Cardinality({k \in ids : k < j}) < n /\ ~(Cardinality({k \in ids : k < i}) < n)
    BY <1>5 DEF FirstOf
  <2> QED BY <2>4, <2>5, <2>6
<1> QED BY <1>1, <1>4, <1>5

-----------------------------------------------------------------------------
\* The ids the sweep passes over before it comes to i again, from c on.
Ahead(i, c) == IF i > c THEN i - c ELSE MaxId - c + i

\* What a row has waited and what is still ahead of it fit into one sweep.
SweepInv ==
    /\ rows = [i \in Ids |-> rows[i]] /\ waited \in [Ids -> Nat]
    /\ lastId \in 0..MaxId /\ sampleAt \in 0..MaxId
    /\ \A i \in Present : waited[i] * SampleSize + Ahead(i, sampleAt) <= MaxId

LEMMA AheadWithin ==
  ASSUME NEW i \in Ids, NEW c \in 0..MaxId
  PROVE  Ahead(i, c) \in 1..MaxId
BY IntegrityAssumption DEF IntegrityAssumption, Ahead, Ids

\* A sampling passes over as many ids as it samples, and its cursor is an id.
LEMMA SamplingAdvances ==
  ASSUME sampleAt \in 0..MaxId
  PROVE  /\ CursorAfter \in 0..MaxId
         /\ \A i \in Present \ Sample :
               Ahead(i, CursorAfter) + SampleSize <= Ahead(i, sampleAt)
<1> USE IntegrityAssumption DEF IntegrityAssumption
<1> DEFINE rest == Present \ AfterCursor
           more == SampleSize - Cardinality(Onward)
<1>1. /\ Present \in SUBSET Nat /\ IsFiniteSet(Present)
      /\ \A i \in Present : i \in 1..MaxId
  <2>1. IsFiniteSet(1..MaxId)
    BY FS_Interval
  <2> QED BY <2>1, FS_Subset DEF Present, Ids
<1>2. /\ AfterCursor \in SUBSET Nat /\ IsFiniteSet(AfterCursor) /\ AfterCursor \subseteq Present
      /\ rest \in SUBSET Nat /\ IsFiniteSet(rest)
  BY <1>1, FS_Subset DEF AfterCursor
<1>3. /\ Onward \subseteq AfterCursor /\ IsFiniteSet(Onward) /\ Cardinality(Onward) \in Nat
      /\ \A i \in AfterCursor \ Onward :
            (\A j \in Onward : j < i) /\ Cardinality(Onward) >= SampleSize
  BY <1>2, FirstOnes, FS_CardinalityType DEF Onward
<1>4. /\ FromStart \subseteq rest /\ IsFiniteSet(FromStart)
      /\ Cardinality(Onward) < SampleSize /\ sampleAt > 0 =>
            \A i \in rest \ FromStart :
               (\A j \in FromStart : j < i) /\ Cardinality(FromStart) >= more
  <2>1. CASE Cardinality(Onward) < SampleSize /\ sampleAt > 0
    <3>1. more \in Nat /\ FromStart = FirstOf(rest, more)
      BY <2>1, <1>3 DEF FromStart
    <3> HIDE DEF rest, more
    <3> QED BY <3>1, <1>2, FirstOnes
  <2>2. CASE ~(Cardinality(Onward) < SampleSize /\ sampleAt > 0)
    BY <2>2, FS_EmptySet DEF FromStart
  <2> QED BY <2>1, <2>2
<1>5. CASE FromStart # {}
  <2>1. /\ Cardinality(Onward) < SampleSize /\ sampleAt > 0
    BY <1>5 DEF FromStart
  <2>2. FromStart \in SUBSET Nat
    BY <1>2, <1>4
  <2>3. /\ CursorAfter \in FromStart /\ \A j \in FromStart : j <= CursorAfter
    BY <1>4, <1>5, <2>2, GreatestIsIn DEF CursorAfter, Sample
  <2>4. CursorAfter \in 1..sampleAt
    BY <2>3, <1>1, <1>4 DEF AfterCursor
  <2>5. Cardinality(Onward) <= MaxId - sampleAt
    <3>1. Onward \in SUBSET (sampleAt + 1 .. MaxId)
      BY <1>1, <1>2, <1>3 DEF AfterCursor
    <3>2. /\ IsFiniteSet(sampleAt + 1 .. MaxId)
          /\ Cardinality(sampleAt + 1 .. MaxId) <= MaxId - sampleAt
      BY FS_Interval
    <3>3. Cardinality(Onward) <= Cardinality(sampleAt + 1 .. MaxId)
      BY <3>1, <3>2, FS_Subset
    <3> QED BY <3>2, <3>3, <1>3, FS_CardinalityType
  <2>6. Cardinality(FromStart) <= CursorAfter /\ Cardinality(FromStart) \in Nat
    <3>1. FromStart \in SUBSET (1 .. CursorAfter)
      BY <2>2, <2>3, <2>4, <1>1, <1>4
    <3>2. /\ IsFiniteSet(1 .. CursorAfter) /\ Cardinality(1 .. CursorAfter) = CursorAfter
      BY <2>4, FS_Interval
    <3> QED BY <3>1, <3>2, <1>4, FS_Subset, FS_CardinalityType
  <2>7. ASSUME NEW i \in Present \ Sample
        PROVE  Ahead(i, CursorAfter) + SampleSize <= Ahead(i, sampleAt)
    <3>1. i \notin Onward /\ i \notin FromStart /\ i \in 1..MaxId
      BY <2>7, <1>1 DEF Sample
    <3>2. i \in rest
      BY <3>1, <2>1, <2>7, <1>3
    <3>3. i > CursorAfter /\ Cardinality(FromStart) >= more
      BY <3>1, <3>2, <2>1, <2>3, <2>4, <1>4
    <3>4. ~(i > sampleAt)
      BY <3>2, <2>7 DEF AfterCursor
    <3> QED BY <3>1, <3>3, <3>4, <2>4, <2>5, <2>6, <1>3 DEF Ahead
  <2> QED BY <2>4, <2>7
<1>6. CASE FromStart = {} /\ Onward # {}
  <2>1. Onward \in SUBSET Nat
    BY <1>2, <1>3
  <2>2. CursorAfter \in Onward /\ \A j \in Onward : j <= CursorAfter
    BY <1>3, <1>6, <2>1, GreatestIsIn DEF CursorAfter, Sample
  <2>3. CursorAfter \in sampleAt + 1 .. MaxId
    BY <2>2, <1>1, <1>2, <1>3 DEF AfterCursor
  <2>4. Cardinality(Onward) <= CursorAfter - sampleAt
    <3>1. Onward \in SUBSET (sampleAt + 1 .. CursorAfter)
      BY <1>1, <1>2, <1>3, <2>2, <2>3 DEF AfterCursor
    <3>2. /\ IsFiniteSet(sampleAt + 1 .. CursorAfter)
          /\ Cardinality(sampleAt + 1 .. CursorAfter) = CursorAfter - sampleAt
      BY <2>3, FS_Interval
    <3> QED BY <3>1, <3>2, FS_Subset
  <2>5. ASSUME NEW i \in Present \ Sample
        PROVE  Ahead(i, CursorAfter) + SampleSize <= Ahead(i, sampleAt)
    <3>1. i \notin Onward /\ i \notin FromStart /\ i \in 1..MaxId
      BY <2>5, <1>1 DEF Sample
    <3>2. Cardinality(Onward) >= SampleSize
      <4>1. CASE i \in AfterCursor
        BY <4>1, <3>1, <1>3
      <4>2. CASE i \in rest /\ sampleAt > 0
        <5>1. SUFFICES ASSUME Cardinality(Onward) < SampleSize PROVE FALSE
          BY <1>3
        <5>2. Cardinality(FromStart) >= more
          BY <5>1, <4>2, <3>1, <1>4
        <5>3. Cardinality(FromStart) = 0
          BY <1>6, FS_EmptySet
        <5> QED BY <5>1, <5>2, <5>3, <1>3
      <4>3. CASE i \in rest /\ ~(sampleAt > 0)
        BY <4>3, <3>1 DEF AfterCursor
      <4> QED BY <4>1, <4>2, <4>3, <2>5
    <3>3. i > sampleAt => i > CursorAfter
      BY <3>1, <2>2, <2>5, <1>3 DEF AfterCursor
    <3> QED BY <3>1, <3>2, <3>3, <2>3, <2>4, <1>3 DEF Ahead
  <2> QED BY <2>3, <2>5
<1>7. CASE FromStart = {} /\ Onward = {}
  <2>1. CursorAfter = sampleAt
    BY <1>7 DEF CursorAfter, Sample
  <2>2. ASSUME NEW i \in Present \ Sample PROVE FALSE
    <3>1. Cardinality(Onward) = 0 /\ Cardinality(FromStart) = 0
      BY <1>7, FS_EmptySet
    <3>2. i \in rest
      BY <3>1, <2>2, <1>3 DEF Sample
    <3>3. sampleAt > 0
      BY <3>2, <2>2, <1>1 DEF AfterCursor
    <3> QED BY <3>1, <3>2, <3>3, <1>4, <1>7
  <2> QED BY <2>1, <2>2
<1> QED BY <1>5, <1>6, <1>7

LEMMA InitSweepInv == IntegrityInit => SweepInv
<1> SUFFICES ASSUME IntegrityInit PROVE SweepInv
  OBVIOUS
<1>1. Present = {}
  BY DEF IntegrityInit, Present
<1>2. waited \in [Ids -> Nat] /\ rows = [i \in Ids |-> rows[i]]
  BY DEF IntegrityInit
<1> QED BY <1>1, <1>2, IntegrityAssumption DEF IntegrityAssumption, IntegrityInit, SweepInv

\* Any step keeps it that leaves the sweep alone and, of the rows there are,
\* neither adds one nor what one has waited.
LEMMA SweepUndisturbed ==
  ASSUME SweepInv, rows' = [i \in Ids |-> rows'[i]], waited' \in [Ids -> Nat],
         lastId' \in 0..MaxId, sampleAt' = sampleAt,
         \A i \in Present' : waited'[i] = 0 \/ (i \in Present /\ waited'[i] = waited[i])
  PROVE  SweepInv'
<1> USE IntegrityAssumption DEF IntegrityAssumption
<1> SUFFICES ASSUME NEW i \in Present' PROVE waited'[i] * SampleSize + Ahead(i, sampleAt') <= MaxId
  BY DEF SweepInv
<1>1. i \in Ids
  BY DEF Present
<1>2. Ahead(i, sampleAt) \in 1..MaxId
  BY <1>1, AheadWithin DEF SweepInv
<1>3. CASE waited'[i] = 0
  <2>1. waited'[i] * SampleSize = 0
    BY <1>3
  <2> QED BY <1>2, <2>1
<1>4. CASE i \in Present /\ waited'[i] = waited[i]
  BY <1>4 DEF SweepInv
<1> QED BY <1>3, <1>4

LEMMA WaitedOneMore ==
  ASSUME NEW w \in Nat, NEW a \in Nat, NEW b \in Nat,
         w * SampleSize + a <= MaxId, b + SampleSize <= a
  PROVE  (w + 1) * SampleSize + b <= MaxId
<1> USE IntegrityAssumption DEF IntegrityAssumption
<1>1. (w + 1) * SampleSize = w * SampleSize + SampleSize
  OBVIOUS
<1>2. w * SampleSize \in Nat
  OBVIOUS
<1> QED BY <1>1, <1>2

LEMMA NextSweepInv == SweepInv /\ [IntegrityNext]_integrityVars => SweepInv'
<1> USE IntegrityAssumption DEF IntegrityAssumption
<1> SUFFICES ASSUME SweepInv, [IntegrityNext]_integrityVars PROVE SweepInv'
  OBVIOUS
<1>0. ASSUME UNCHANGED <<rows, lastId, sampleAt, waited>> PROVE SweepInv'
  BY <1>0 DEF SweepInv, Present
<1>1. ASSUME NEW k \in RecordKeys, ContractVerifies(k) \/ ContractRevokes(k) PROVE SweepInv'
  BY <1>0, <1>1 DEF ContractVerifies, ContractRevokes, checkerVars
<1>2. ASSUME NEW k \in RecordKeys, IndexerCatchesUp(k) PROVE SweepInv'
  <2> DEFINE old == {i \in Present : rows[i].key = k}
  <2>0. sampleAt' = sampleAt
    BY <1>2 DEF IndexerCatchesUp, checkerVars
  <2>1. CASE old # {}
    <3>1. /\ rows' = [i \in Ids |-> IF i \in old THEN IndexedRow(k, records[k]) ELSE rows[i]]
          /\ UNCHANGED <<lastId, waited>>
      BY <1>2, <2>1 DEF IndexerCatchesUp
    <3>2. \A i \in Present' : i \in Present
      BY <3>1 DEF Present
    <3> QED BY <2>0, <3>1, <3>2, SweepUndisturbed DEF SweepInv, Present
  <2>2. CASE old = {}
    <3>1. /\ lastId < MaxId /\ lastId' = lastId + 1
          /\ rows' = [rows EXCEPT ![lastId + 1] = IndexedRow(k, records[k])]
          /\ waited' = [waited EXCEPT ![lastId + 1] = 0]
      BY <1>2, <2>2 DEF IndexerCatchesUp
    <3>2. lastId' \in 0..MaxId
      BY <3>1 DEF SweepInv
    <3>3. rows' = [i \in Ids |-> rows'[i]] /\ waited' \in [Ids -> Nat]
      BY <3>1 DEF SweepInv
    <3>4. \A i \in Present' : waited'[i] = 0 \/ (i \in Present /\ waited'[i] = waited[i])
      BY <3>1 DEF SweepInv, Present
    <3> QED BY <2>0, <3>2, <3>3, <3>4, SweepUndisturbed
  <2> QED BY <2>1, <2>2
<1>3. ASSUME TimeEvicts PROVE SweepInv'
  BY <1>0, <1>3 DEF TimeEvicts, checkerVars
<1>4. ASSUME NEW id \in Ids, RowRolledBack(id) PROVE SweepInv'
  <2>1. /\ rows' = [rows EXCEPT ![id] = Absent] /\ waited' = [waited EXCEPT ![id] = 0]
        /\ UNCHANGED <<lastId, sampleAt>>
    BY <1>4 DEF RowRolledBack, checkerVars
  <2>2. rows' = [i \in Ids |-> rows'[i]] /\ waited' \in [Ids -> Nat]
    BY <2>1 DEF SweepInv
  <2>3. \A i \in Present' : waited'[i] = 0 \/ (i \in Present /\ waited'[i] = waited[i])
    BY <2>1 DEF SweepInv, Present
  <2>4. lastId' \in 0..MaxId
    BY <2>1 DEF SweepInv
  <2> QED BY <2>1, <2>2, <2>3, <2>4, SweepUndisturbed
<1>5. ASSUME NEW who, RunPass(who) PROVE SweepInv'
  BY <1>0, <1>5 DEF RunPass
<1>6. ASSUME NEW time, TakeSample(time) PROVE SweepInv'
  <2>1. /\ sampleAt' = CursorAfter /\ UNCHANGED <<rows, lastId>>
        /\ waited' = [i \in Ids |-> IF i \in Sample THEN 0
                                    ELSE IF i \in Present THEN waited[i] + 1 ELSE waited[i]]
    BY <1>6 DEF TakeSample
  <2>2. sampleAt \in 0..MaxId
    BY DEF SweepInv
  <2>3. PICK c : c = CursorAfter
    OBVIOUS
  <2>4. /\ c \in 0..MaxId
        /\ \A i \in Present \ Sample : Ahead(i, c) + SampleSize <= Ahead(i, sampleAt)
    BY <2>2, <2>3, SamplingAdvances
  <2>5. waited' \in [Ids -> Nat]
    BY <2>1 DEF SweepInv
  <2>6. ASSUME NEW i \in Present
        PROVE  waited'[i] * SampleSize + Ahead(i, c) <= MaxId
    <3>1. i \in Ids /\ Ahead(i, c) \in 1..MaxId /\ Ahead(i, sampleAt) \in 1..MaxId
      BY <2>2, <2>4, AheadWithin DEF Present
    <3>2. CASE i \in Sample
      <4>1. waited'[i] = 0
        BY <2>1, <3>1, <3>2
      <4>2. waited'[i] * SampleSize = 0
        BY <4>1
      <4> QED BY <3>1, <4>2
    <3>3. CASE i \notin Sample
      <4>1. waited'[i] = waited[i] + 1 /\ waited[i] \in Nat
        BY <2>1, <3>1, <3>3 DEF SweepInv
      <4>2. waited[i] * SampleSize + Ahead(i, sampleAt) <= MaxId
        BY DEF SweepInv
      <4>3. Ahead(i, c) + SampleSize <= Ahead(i, sampleAt)
        BY <2>4, <3>3
      <4>4. Ahead(i, c) \in Nat /\ Ahead(i, sampleAt) \in Nat
        BY <3>1
      <4> QED BY <4>1, <4>2, <4>3, <4>4, WaitedOneMore
    <3> QED BY <3>2, <3>3
  <2>7. Present' = Present
    BY <2>1 DEF Present
  <2> QED BY <2>1, <2>3, <2>4, <2>5, <2>6, <2>7 DEF SweepInv
<1>7. ASSUME ReadRecord \/ ReadFails \/ PassEnds PROVE SweepInv'
  BY <1>0, <1>7 DEF ReadRecord, ReadFails, PassEnds
<1>8. ASSUME UNCHANGED integrityVars PROVE SweepInv'
  BY <1>0, <1>8 DEF integrityVars
<1> QED BY <1>1, <1>2, <1>3, <1>4, <1>5, <1>6, <1>7, <1>8 DEF IntegrityNext

THEOREM SweepInvariant == IntegritySpec => []SweepInv
BY InitSweepInv, NextSweepInv, PTL DEF IntegritySpec

THEOREM RowsSampledInTurn == IntegritySpec => []SampledInTurn
<1>1. SweepInv => SampledInTurn
  <2> SUFFICES ASSUME SweepInv, NEW i \in Present PROVE waited[i] * SampleSize < MaxId
    BY DEF SampledInTurn
  <2>1. i \in Ids /\ waited[i] \in Nat /\ sampleAt \in 0..MaxId
    BY DEF SweepInv, Present
  <2>2. Ahead(i, sampleAt) \in 1..MaxId
    BY <2>1, AheadWithin
  <2>3. waited[i] * SampleSize \in Nat
    BY <2>1, IntegrityAssumption DEF IntegrityAssumption
  <2>4. waited[i] * SampleSize + Ahead(i, sampleAt) <= MaxId
    BY DEF SweepInv
  <2> QED BY <2>2, <2>3, <2>4, IntegrityAssumption DEF IntegrityAssumption
<1> QED BY <1>1, SweepInvariant, PTL

-----------------------------------------------------------------------------
(* The query API: pages cover the rows that are left alone                 *)

\* The claims as the index orders them, the newest first; and backwards.
Earlier(ids) == [i \in ids |-> {j \in ids : Before(Place(j), Place(i))}]
Later(ids) == [i \in ids |-> {j \in ids : Before(Place(i), Place(j))}]

\* Rows that are there have a place of their own.
TableOK ==
    /\ nextId \in Nat /\ \A i \in Rows : i \in 1..(nextId - 1) /\ table[i].ledger \in Nat
    /\ table = [i \in RowIds |-> table[i]]

LEMMA PlaceOrder ==
  ASSUME TableOK, NEW i \in Rows, NEW j \in Rows, NEW k \in Rows
  PROVE  /\ ~Before(Place(i), Place(i))
         /\ i # j => Before(Place(i), Place(j)) \/ Before(Place(j), Place(i))
         /\ Before(Place(i), Place(j)) /\ Before(Place(j), Place(k)) => Before(Place(i), Place(k))
         /\ Before(Place(i), Place(j)) => ~Before(Place(j), Place(i))
<1>1. /\ i \in Nat /\ j \in Nat /\ k \in Nat
      /\ table[i].ledger \in Nat /\ table[j].ledger \in Nat /\ table[k].ledger \in Nat
  BY DEF TableOK
<1>2. \A r, s \in Rows :
        Before(Place(r), Place(s)) <=>
          \/ table[r].ledger > table[s].ledger
          \/ table[r].ledger = table[s].ledger /\ r > s
  BY DEF Place, Before
<1>3. PICK a : a = table[i].ledger
  OBVIOUS
<1>4. PICK b : b = table[j].ledger
  OBVIOUS
<1>5. PICK c : c = table[k].ledger
  OBVIOUS
<1>6. a \in Nat /\ b \in Nat /\ c \in Nat
  BY <1>1, <1>3, <1>4, <1>5
<1>7. /\ Before(Place(i), Place(i)) <=> a > a \/ (a = a /\ i > i)
      /\ Before(Place(i), Place(j)) <=> a > b \/ (a = b /\ i > j)
      /\ Before(Place(j), Place(i)) <=> b > a \/ (b = a /\ j > i)
      /\ Before(Place(j), Place(k)) <=> b > c \/ (b = c /\ j > k)
      /\ Before(Place(i), Place(k)) <=> a > c \/ (a = c /\ i > k)
  BY <1>2, <1>3, <1>4, <1>5
<1>8. /\ ~(a > a \/ (a = a /\ i > i))
      /\ i # j => (a > b \/ (a = b /\ i > j)) \/ (b > a \/ (b = a /\ j > i))
      /\ (a > b \/ (a = b /\ i > j)) /\ (b > c \/ (b = c /\ j > k))
            => a > c \/ (a = c /\ i > k)
      /\ (a > b \/ (a = b /\ i > j)) => ~(b > a \/ (b = a /\ j > i))
  BY <1>1, <1>6
<1> QED BY <1>7, <1>8

LEMMA RowsFinite ==
  ASSUME TableOK PROVE IsFiniteSet(Rows)
<1>1. nextId - 1 \in Int /\ Rows \subseteq 1..(nextId - 1)
  BY DEF TableOK
<1>2. IsFiniteSet(1..(nextId - 1))
  BY <1>1, FS_Interval
<1> QED BY <1>1, <1>2, FS_Subset

LEMMA RowOrder ==
  ASSUME TableOK, NEW ids, ids \subseteq Rows
  PROVE  /\ \A x \in ids : /\ Earlier(ids)[x] \subseteq ids /\ x \notin Earlier(ids)[x]
                           /\ \A y \in Earlier(ids)[x] : Earlier(ids)[y] \subseteq Earlier(ids)[x]
         /\ \A x \in ids : /\ Later(ids)[x] \subseteq ids /\ x \notin Later(ids)[x]
                           /\ \A y \in Later(ids)[x] : Later(ids)[y] \subseteq Later(ids)[x]
<1>1. \A x \in ids : /\ Earlier(ids)[x] = {j \in ids : Before(Place(j), Place(x))}
                     /\ Later(ids)[x] = {j \in ids : Before(Place(x), Place(j))}
  BY DEF Earlier, Later
<1>2. \A x, y, z \in ids :
        /\ ~Before(Place(x), Place(x))
        /\ Before(Place(x), Place(y)) /\ Before(Place(y), Place(z)) => Before(Place(x), Place(z))
  BY PlaceOrder
<1> QED BY <1>1, <1>2

\* A page is a beginning of what is left, and not empty unless nothing is.
LEMMA PageIsBeginning ==
  ASSUME TableOK, NEW rest, rest \subseteq Rows
  PROVE  LET answer == FirstPage(rest) IN
         /\ answer \subseteq rest
         /\ answer = {} => rest = {}
         /\ ~(Cardinality(rest) > PageSize) => answer = rest
         /\ answer # {} =>
              /\ LastRow(answer) \in answer
              /\ \A i \in rest : i \in answer <=> ~Before(Place(LastRow(answer)), Place(i))
<1> USE ApiAssumption DEF ApiAssumption
<1> DEFINE answer == FirstPage(rest)
<1>1. IsFiniteSet(rest) /\ answer \subseteq rest /\ IsFiniteSet(answer) /\ Cardinality(rest) \in Nat
  <2>1. IsFiniteSet(rest)
    BY RowsFinite, FS_Subset
  <2>2. answer \subseteq rest
    BY DEF FirstPage
  <2> QED BY <2>1, <2>2, FS_Subset, FS_CardinalityType
<1>2. answer = Firsts(rest, Earlier(rest), PageSize)
  BY DEF FirstPage, Firsts, Earlier
<1>3. /\ Cardinality(answer) < PageSize \/ Cardinality(rest) <= PageSize => answer = rest
  BY <1>1, <1>2, RowOrder, FirstsAreAll
<1>4. answer = {} => rest = {}
  BY <1>3, FS_EmptySet
<1>5. ~(Cardinality(rest) > PageSize) => answer = rest
  BY <1>1, <1>3
<1>6. ASSUME answer # {}
      PROVE  /\ LastRow(answer) \in answer
             /\ \A j \in answer : ~Before(Place(LastRow(answer)), Place(j))
  <2>1. PICK P : P = Later(answer)
    OBVIOUS
  <2>2. answer \subseteq Rows
    BY <1>1
  <2>3. \A x \in answer : P[x] \subseteq answer /\ x \notin P[x] /\ \A y \in P[x] : P[y] \subseteq P[x]
    BY <2>1, <2>2, RowOrder
  <2>4. \E x \in answer : P[x] \cap answer = {}
    BY <1>1, <1>6, <2>3, FirstExists
  <2>5. \E x \in answer : \A j \in answer : ~Before(Place(x), Place(j))
    BY <2>1, <2>4 DEF Later
  <2> QED BY <2>5 DEF LastRow
<1>7. ASSUME answer # {}, NEW i \in rest
      PROVE  i \in answer <=> ~Before(Place(LastRow(answer)), Place(i))
  <2> DEFINE l == LastRow(answer)
  <2>1. l \in answer /\ l \in rest
    BY <1>1, <1>6, <1>7
  <2>2. i \in answer => ~Before(Place(l), Place(i))
    BY <1>6, <1>7
  <2>3. ASSUME ~Before(Place(l), Place(i)), i # l PROVE i \in answer
    <3>1. Before(Place(i), Place(l))
      BY <2>1, <2>3, PlaceOrder
    <3>2. i \in Earlier(rest)[l]
      BY <2>1, <3>1 DEF Earlier
    <3>3. Earlier(rest)[i] \subseteq Earlier(rest)[l] /\ Earlier(rest)[l] \subseteq rest
      BY <2>1, <3>2, RowOrder
    <3>4. IsFiniteSet(Earlier(rest)[l])
      BY <1>1, <3>3, FS_Subset
    <3>5. /\ Cardinality(Earlier(rest)[i]) <= Cardinality(Earlier(rest)[l])
          /\ IsFiniteSet(Earlier(rest)[i])
      BY <3>3, <3>4, FS_Subset
    <3>6. Cardinality(Earlier(rest)[i]) \in Nat /\ Cardinality(Earlier(rest)[l]) \in Nat
      BY <3>4, <3>5, FS_CardinalityType
    <3>7. Cardinality(Earlier(rest)[l]) < PageSize
      BY <1>2, <2>1 DEF Firsts
    <3>8. Cardinality(Earlier(rest)[i]) < PageSize
      BY <3>5, <3>6, <3>7
    <3> QED BY <1>2, <3>8 DEF Firsts
  <2>4. i = l => i \in answer
    BY <2>1
  <2> QED BY <2>2, <2>3, <2>4
<1> QED BY <1>1, <1>4, <1>5, <1>6, <1>7

-----------------------------------------------------------------------------
\* Of the rows nobody has written since the read began, those up to the cursor
\* have been seen, once, and the others not yet.
Passed(i) == reader.cursor # <<0, 0>> /\ ~Before(reader.cursor, Place(i))

ApiInv ==
    /\ TableOK
    /\ reader \in [at : {"idle", "reading", "done"}, recent : BOOLEAN, cursor : Nat \X Nat,
                   seen : SUBSET RowIds, again : SUBSET RowIds]
    /\ untouched \subseteq Listed(reader.recent)
    /\ reader.at = "reading" =>
          \A i \in untouched : i \notin reader.again /\ (i \in reader.seen <=> Passed(i))
    /\ reader.cursor = <<0, 0>> \/ reader.cursor[2] > 0
    /\ PagesCoverUntouched

LEMMA InitApiInv == ApiInit => ApiInv
<1> SUFFICES ASSUME ApiInit PROVE ApiInv
  OBVIOUS
<1>1. Rows = {} /\ untouched = {}
  BY DEF ApiInit, Rows
<1>2. nextId \in Nat /\ table = [i \in RowIds |-> table[i]]
  BY DEF ApiInit
<1>3. /\ reader \in [at : {"idle", "reading", "done"}, recent : BOOLEAN, cursor : Nat \X Nat,
                     seen : SUBSET RowIds, again : SUBSET RowIds]
      /\ reader.cursor = <<0, 0>>
  BY DEF ApiInit, NoReader
<1> QED BY <1>1, <1>2, <1>3 DEF ApiInv, TableOK, PagesCoverUntouched

\* A write leaves the rows it does not touch where they are.
LEMMA WriteKeepsApiInv ==
  ASSUME ApiInv, UNCHANGED reader, TableOK', untouched' \subseteq untouched,
         \A i \in untouched' : table'[i] = table[i]
  PROVE  ApiInv'
<1>1. untouched' \subseteq Listed(reader.recent)'
  BY DEF ApiInv, Listed, Rows
<1>2. \A i \in untouched' : Place(i)' = Place(i)
  BY DEF Place
<1>3. reader.at = "reading" =>
        \A i \in untouched' : i \notin reader.again /\ (i \in reader.seen <=> Passed(i)')
  BY <1>2 DEF ApiInv, Passed
<1>4. PagesCoverUntouched'
  BY DEF ApiInv, PagesCoverUntouched
<1> QED BY <1>1, <1>3, <1>4 DEF ApiInv

LEMMA WriteRowKeeps ==
  ASSUME ApiInv, NEW id \in Rows, NEW row, row = NoRow \/ row.ledger \in Nat, WriteRow(id, row)
  PROVE  ApiInv'
<1>1. /\ table' = [table EXCEPT ![id] = row] /\ untouched' = untouched \ {id}
      /\ nextId' = nextId /\ reader' = reader
  BY DEF WriteRow
<1>2. TableOK'
  <2>1. table' = [i \in RowIds |-> table'[i]]
    BY <1>1 DEF ApiInv, TableOK
  <2>2. ASSUME NEW i \in Rows' PROVE i \in 1..(nextId - 1) /\ table'[i].ledger \in Nat
    <3>1. CASE i = id
      <4>1. table'[i] = row /\ row # NoRow
        BY <1>1, <3>1 DEF ApiInv, TableOK, Rows
      <4> QED BY <3>1, <4>1 DEF ApiInv, TableOK
    <3>2. CASE i # id
      <4>1. table'[i] = table[i] /\ i \in Rows
        BY <1>1, <3>2 DEF ApiInv, TableOK, Rows
      <4> QED BY <4>1 DEF ApiInv, TableOK
    <3> QED BY <3>1, <3>2
  <2> QED BY <1>1, <2>1, <2>2 DEF ApiInv, TableOK
<1>3. \A i \in untouched' : table'[i] = table[i]
  BY <1>1 DEF ApiInv, Listed, Rows, TableOK
<1> QED BY <1>1, <1>2, <1>3, WriteKeepsApiInv

LEMMA InsertKeeps ==
  ASSUME ApiInv, NEW at \in RowLedgers, InsertRow(at)
  PROVE  ApiInv'
<1> USE ApiAssumption DEF ApiAssumption
<1>1. /\ nextId \in RowIds /\ nextId' = nextId + 1 /\ UNCHANGED <<reader, untouched>>
      /\ table' = [table EXCEPT ![nextId] = [ledger |-> at, revoked |-> FALSE]]
  BY DEF InsertRow
<1>2. TableOK'
  <2>0. nextId' \in Nat
    BY <1>1 DEF ApiInv, TableOK
  <2>1. table' = [i \in RowIds |-> table'[i]]
    BY <1>1 DEF ApiInv, TableOK
  <2>2. ASSUME NEW i \in Rows' PROVE i \in 1..(nextId' - 1) /\ table'[i].ledger \in Nat
    <3>1. CASE i = nextId
      <4>1. table'[i].ledger = at
        BY <1>1, <3>1 DEF ApiInv, TableOK
      <4> QED BY <1>1, <3>1, <4>1
    <3>2. CASE i # nextId
      BY <1>1, <3>2 DEF ApiInv, TableOK, Rows
    <3> QED BY <3>1, <3>2
  <2> QED BY <2>0, <2>1, <2>2 DEF TableOK
<1>3. \A i \in untouched' : table'[i] = table[i]
  BY <1>1 DEF ApiInv, Listed, Rows, TableOK
<1> QED BY <1>1, <1>2, <1>3, WriteKeepsApiInv

LEMMA StartKeeps ==
  ASSUME ApiInv, NEW recent \in BOOLEAN, StartRead(recent)
  PROVE  ApiInv'
<1>1. /\ reader' = [at |-> "reading", recent |-> recent, cursor |-> <<0, 0>>, seen |-> {}, again |-> {}]
      /\ untouched' = Listed(recent) /\ UNCHANGED <<table, nextId>>
  BY DEF StartRead, NoReader
<1>2. TableOK'
  BY <1>1 DEF ApiInv, TableOK, Rows
<1>3. Listed(recent)' = Listed(recent)
  BY <1>1 DEF Listed, Rows
<1>4. reader'.cursor = <<0, 0>> /\ reader'.at = "reading" /\ reader'.seen = {} /\ reader'.again = {}
      /\ reader'.recent = recent
  BY <1>1
<1>5. \A i \in untouched' : ~Passed(i)'
  BY <1>4 DEF Passed
<1>6. reader' \in [at : {"idle", "reading", "done"}, recent : BOOLEAN, cursor : Nat \X Nat,
                   seen : SUBSET RowIds, again : SUBSET RowIds]
  BY <1>1
<1>7. PagesCoverUntouched'
  BY <1>4 DEF PagesCoverUntouched
<1>8. (untouched \subseteq Listed(reader.recent))'
  BY <1>1, <1>3, <1>4
<1> QED BY <1>2, <1>4, <1>5, <1>6, <1>7, <1>8 DEF ApiInv

LEMMA PageKeeps ==
  ASSUME ApiInv, ReadPage
  PROVE  ApiInv'
<1> USE ApiAssumption DEF ApiAssumption
<1>1. PICK rest : rest = RowsAfter(reader.recent, reader.cursor)
  OBVIOUS
<1>2. PICK answer : answer = FirstPage(rest)
  OBVIOUS
<1>3. /\ reader.at = "reading" /\ UNCHANGED <<table, nextId, untouched>>
      /\ reader' = [reader EXCEPT
            !.at = IF Cardinality(rest) > PageSize THEN "reading" ELSE "done",
            !.cursor = IF answer = {} THEN @ ELSE Place(LastRow(answer)),
            !.seen = @ \cup answer,
            !.again = @ \cup (reader.seen \cap answer)]
  BY <1>1, <1>2 DEF ReadPage
<1>4. /\ reader'.at = IF Cardinality(rest) > PageSize THEN "reading" ELSE "done"
      /\ reader'.cursor = IF answer = {} THEN reader.cursor ELSE Place(LastRow(answer))
      /\ reader'.seen = reader.seen \cup answer
      /\ reader'.again = reader.again \cup (reader.seen \cap answer)
      /\ reader'.recent = reader.recent
  BY <1>3 DEF ApiInv
<1>5. rest \subseteq Rows /\ Rows \subseteq RowIds
  BY <1>1 DEF RowsAfter, Listed, Rows
<1>6. /\ answer \subseteq rest
      /\ answer = {} => rest = {}
      /\ ~(Cardinality(rest) > PageSize) => answer = rest
      /\ answer # {} =>
           /\ LastRow(answer) \in answer
           /\ \A i \in rest : i \in answer <=> ~Before(Place(LastRow(answer)), Place(i))
  BY <1>2, <1>5, PageIsBeginning DEF ApiInv
<1>7. \A i \in untouched : i \in rest <=> ~Passed(i)
  BY <1>1, <1>3 DEF ApiInv, RowsAfter, Passed
<1>8. \A i \in untouched : i \in Rows /\ i \notin reader.again /\ (i \in reader.seen <=> Passed(i))
  BY <1>3 DEF ApiInv, Listed
<1>9. \A i \in untouched : i \notin reader'.again
  BY <1>4, <1>6, <1>7, <1>8
<1>10. \A i \in Rows : Place(i) \in Nat \X Nat /\ Place(i)[2] > 0 /\ Place(i) # <<0, 0>>
  BY DEF ApiInv, TableOK, Place
<1>11. answer # {} => /\ LastRow(answer) \in Rows
                    /\ Place(LastRow(answer)) \in Nat \X Nat /\ Place(LastRow(answer))[2] > 0
                    /\ Place(LastRow(answer)) # <<0, 0>>
  BY <1>5, <1>6, <1>10
<1>12. \A i \in untouched : Passed(i)' <=> Passed(i) \/ i \in answer
  <2> SUFFICES ASSUME NEW i \in untouched PROVE Passed(i)' <=> Passed(i) \/ i \in answer
    OBVIOUS
  <2>0. Place(i)' = Place(i) /\ i \in Rows
    BY <1>3, <1>8 DEF Place
  <2>1. CASE answer = {}
    BY <2>0, <2>1, <1>4 DEF Passed
  <2>2. CASE answer # {}
    <3> DEFINE l == LastRow(answer)
    <3>1. Passed(i)' <=> ~Before(Place(l), Place(i))
      BY <2>0, <2>2, <1>4, <1>11 DEF Passed
    <3>2. i \in rest => (i \in answer <=> ~Before(Place(l), Place(i)))
      BY <2>2, <1>6
    <3>3. ASSUME i \notin rest PROVE ~Before(Place(l), Place(i))
      <4>1. reader.cursor # <<0, 0>> /\ ~Before(reader.cursor, Place(i))
        BY <3>3, <1>7 DEF Passed
      <4>2. Before(reader.cursor, Place(l))
        BY <4>1, <2>2, <1>1, <1>6 DEF RowsAfter
      <4>3. /\ reader.cursor[1] \in Nat /\ reader.cursor[2] \in Nat
            /\ Place(l)[1] \in Nat /\ Place(l)[2] \in Nat
            /\ Place(i)[1] \in Nat /\ Place(i)[2] \in Nat
        BY <2>0, <2>2, <1>10, <1>11 DEF ApiInv
      <4> QED BY <4>1, <4>2, <4>3 DEF Before
    <3> QED BY <3>1, <3>2, <3>3, <1>6, <1>7
  <2> QED BY <2>1, <2>2
<1>13. \A i \in untouched : i \in reader'.seen <=> Passed(i)'
  BY <1>4, <1>8, <1>12
<1>14. PagesCoverUntouched'
  <2> SUFFICES ASSUME reader'.at = "done", NEW i \in untouched
               PROVE  i \in reader'.seen /\ i \notin reader'.again
    BY <1>3 DEF PagesCoverUntouched
  <2>1. answer = rest
    BY <1>4, <1>6
  <2> QED BY <2>1, <1>4, <1>7, <1>8, <1>9
<1>15. (untouched \subseteq Listed(reader.recent))'
  BY <1>3, <1>4 DEF ApiInv, Listed, Rows
<1>16. TableOK'
  BY <1>3 DEF ApiInv, TableOK, Rows
<1>17. reader'.cursor \in Nat \X Nat /\ (reader'.cursor = <<0, 0>> \/ reader'.cursor[2] > 0)
  BY <1>4, <1>11 DEF ApiInv
<1>18. reader' \in [at : {"idle", "reading", "done"}, recent : BOOLEAN, cursor : Nat \X Nat,
                    seen : SUBSET RowIds, again : SUBSET RowIds]
  <2>1. answer \subseteq RowIds
    BY <1>5, <1>6
  <2>2. /\ reader'.at \in {"idle", "reading", "done"} /\ reader'.recent \in BOOLEAN
        /\ reader'.seen \in SUBSET RowIds /\ reader'.again \in SUBSET RowIds
    BY <2>1, <1>4 DEF ApiInv
  <2>3. reader' = [at |-> reader'.at, recent |-> reader'.recent, cursor |-> reader'.cursor,
                   seen |-> reader'.seen, again |-> reader'.again]
    BY <1>3 DEF ApiInv
  <2> QED BY <1>17, <2>2, <2>3
<1> QED BY <1>3, <1>9, <1>13, <1>14, <1>15, <1>16, <1>17, <1>18 DEF ApiInv

LEMMA NextApiInv == ApiInv /\ [ApiNext]_apiVars => ApiInv'
<1> USE ApiAssumption DEF ApiAssumption
<1> SUFFICES ASSUME ApiInv, [ApiNext]_apiVars PROVE ApiInv'
  OBVIOUS
<1>1. ASSUME NEW l \in RowLedgers, NEW i \in RowIds, UpsertRow(i, l) PROVE ApiInv'
  BY <1>1, WriteRowKeeps DEF UpsertRow, WriteRow
<1>2. ASSUME NEW i \in Rows, RevokeRow(i) PROVE ApiInv'
  <2>1. [table[i] EXCEPT !.revoked = TRUE].ledger = table[i].ledger
    OBVIOUS
  <2> QED BY <1>2, <2>1, WriteRowKeeps DEF RevokeRow, ApiInv, TableOK
<1>3. ASSUME NEW i \in Rows, DeleteRow(i) PROVE ApiInv'
  BY <1>3, WriteRowKeeps DEF DeleteRow
<1>4. ASSUME UNCHANGED apiVars PROVE ApiInv'
  BY <1>4 DEF apiVars, ApiInv, TableOK, Rows, Listed, Passed, Place, PagesCoverUntouched
<1> QED BY <1>1, <1>2, <1>3, <1>4, InsertKeeps, StartKeeps, PageKeeps DEF ApiNext

THEOREM ApiInvariant == ApiSpec => []ApiInv
BY InitApiInv, NextApiInv, PTL DEF ApiSpec

THEOREM PagesAlwaysCover == ApiSpec => []PagesCoverUntouched
<1>1. ApiInv => PagesCoverUntouched
  BY DEF ApiInv
<1> QED BY <1>1, ApiInvariant, PTL

-----------------------------------------------------------------------------
(* The indexer: what is behind the cursor is in the table                  *)

\* What the events from n + 1 to m of a chain c say of key k
Attests(c, n, m, k) == \E i \in (n + 1)..m : Kind(c[i]) = "verified" /\ c[i].key = k
Revokes(c, n, m, k) == \E i \in (n + 1)..m : Kind(c[i]) = "revoked" /\ c[i].key = k

\* Event i is the last up to m that attests its key
LastWord(c, i, m) ==
    i \in 1..m /\ Kind(c[i]) = "verified" /\ ~Attests(c, i, m, c[i].key)

\* Row r is what event i made it, once the events from n + 1 to m are applied
States(c, r, i, n, m) ==
    /\ r.key = c[i].key /\ r.ledger = c[i].ledger /\ r.expiry = c[i].expiry
    /\ r.revoked = TRUE \/ Revokes(c, n, m, c[i].key) <=> Revokes(c, i, m, c[i].key)

\* The events from n + 1 to m make of the table t what the first m make of nothing
Recoverable(c, t, n, m) ==
    /\ \A r \in t : ~Attests(c, n, m, r.key) =>
                        \E i \in 1..n : LastWord(c, i, m) /\ States(c, r, i, n, m)
    /\ \A i \in 1..n : LastWord(c, i, m) => \E r \in t : States(c, r, i, n, m)

\* ... and all the more the events from an earlier one on,
LEMMA EarlierRecovers ==
  ASSUME NEW c, NEW t, NEW p \in Nat, NEW q \in Nat, NEW m \in Nat, p <= q, q <= m,
         Recoverable(c, t, q, m)
  PROVE  Recoverable(c, t, p, m)
<1>1. ASSUME NEW r, NEW i \in 1..p, States(c, r, i, q, m) PROVE States(c, r, i, p, m)
  <2>1. Revokes(c, q, m, c[i].key) => Revokes(c, p, m, c[i].key)
    BY DEF Revokes
  <2>2. Revokes(c, p, m, c[i].key) => Revokes(c, i, m, c[i].key)
    BY DEF Revokes
  <2> QED BY <1>1, <2>1, <2>2 DEF States
<1>2. ASSUME NEW r \in t, ~Attests(c, p, m, r.key)
      PROVE  \E i \in 1..p : LastWord(c, i, m) /\ States(c, r, i, p, m)
  <2>1. ~Attests(c, q, m, r.key)
    BY <1>2 DEF Attests
  <2>2. PICK i \in 1..q : LastWord(c, i, m) /\ States(c, r, i, q, m)
    BY <2>1 DEF Recoverable
  <2>3. i \in 1..p
    <3> SUFFICES ASSUME i > p PROVE FALSE
      OBVIOUS
    <3>1. i \in (p + 1)..m
      OBVIOUS
    <3>2. Kind(c[i]) = "verified" /\ c[i].key = r.key
      BY <2>2 DEF LastWord, States
    <3> QED BY <1>2, <3>1, <3>2 DEF Attests
  <2> QED BY <1>1, <2>2, <2>3
<1>3. ASSUME NEW i \in 1..p, LastWord(c, i, m) PROVE \E r \in t : States(c, r, i, p, m)
  <2>1. i \in 1..q
    OBVIOUS
  <2>2. PICK r \in t : States(c, r, i, q, m)
    BY <1>3, <2>1 DEF Recoverable
  <2> QED BY <1>1, <2>2
<1> QED BY <1>2, <1>3 DEF Recoverable

\* ... or to a later one.
LEMMA LaterRecovers ==
  ASSUME NEW c, NEW t, NEW n \in Nat, NEW m \in Nat, NEW l \in Nat, n <= m, m <= l,
         Recoverable(c, t, n, m)
  PROVE  Recoverable(c, t, n, l)
<1>1. ASSUME NEW k, NEW j \in 0..m
      PROVE  /\ Attests(c, j, l, k) <=> Attests(c, j, m, k) \/ Attests(c, m, l, k)
             /\ Revokes(c, j, l, k) <=> Revokes(c, j, m, k) \/ Revokes(c, m, l, k)
  <2>1. \A i : i \in (j + 1)..l <=> i \in (j + 1)..m \/ i \in (m + 1)..l
    OBVIOUS
  <2> QED BY <2>1 DEF Attests, Revokes
<1>2. ASSUME NEW r, NEW i \in 1..n, States(c, r, i, n, m) PROVE States(c, r, i, n, l)
  <2>1. i \in 0..m /\ n \in 0..m
    OBVIOUS
  <2> QED BY <1>1, <1>2, <2>1 DEF States
<1>3. ASSUME NEW i \in 1..n, LastWord(c, i, l) PROVE LastWord(c, i, m)
  <2>1. i \in 0..m /\ i \in 1..m
    OBVIOUS
  <2> QED BY <1>1, <1>3, <2>1 DEF LastWord
<1>4. ASSUME NEW r \in t, ~Attests(c, n, l, r.key)
      PROVE  \E i \in 1..n : LastWord(c, i, l) /\ States(c, r, i, n, l)
  <2>1. n \in 0..m
    OBVIOUS
  <2>2. ~Attests(c, n, m, r.key) /\ ~Attests(c, m, l, r.key)
    BY <1>1, <1>4, <2>1
  <2>3. PICK i \in 1..n : LastWord(c, i, m) /\ States(c, r, i, n, m)
    BY <2>2 DEF Recoverable
  <2>4. i \in 0..m /\ i \in 1..l /\ c[i].key = r.key
    BY <2>3 DEF States
  <2>5. LastWord(c, i, l)
    BY <1>1, <2>2, <2>3, <2>4 DEF LastWord
  <2> QED BY <1>2, <2>3, <2>5
<1>5. ASSUME NEW i \in 1..n, LastWord(c, i, l) PROVE \E r \in t : States(c, r, i, n, l)
  <2>1. PICK r \in t : States(c, r, i, n, m)
    BY <1>3, <1>5 DEF Recoverable
  <2> QED BY <1>2, <2>1
<1> QED BY <1>4, <1>5 DEF Recoverable

\* Only the events up to m matter.
LEMMA SameEventsRecover ==
  ASSUME NEW c, NEW d, NEW t, NEW n \in Nat, NEW m \in Nat, n <= m,
         \A i \in 1..m : d[i] = c[i], Recoverable(c, t, n, m)
  PROVE  Recoverable(d, t, n, m)
<1>1. ASSUME NEW j \in 0..m, NEW k
      PROVE  /\ Attests(d, j, m, k) <=> Attests(c, j, m, k)
             /\ Revokes(d, j, m, k) <=> Revokes(c, j, m, k)
  <2>1. \A i \in (j + 1)..m : d[i] = c[i]
    OBVIOUS
  <2> QED BY <2>1 DEF Attests, Revokes
<1>2. ASSUME NEW i \in 1..n, NEW r
      PROVE  /\ LastWord(d, i, m) <=> LastWord(c, i, m)
             /\ States(d, r, i, n, m) <=> States(c, r, i, n, m)
  <2>1. i \in 0..m /\ n \in 0..m /\ d[i] = c[i]
    OBVIOUS
  <2> QED BY <1>1, <2>1 DEF LastWord, States
<1>3. n \in 0..m
  OBVIOUS
<1> QED BY <1>1, <1>2, <1>3 DEF Recoverable

\* Of nothing, all the events recover what they say.
LEMMA NothingRecovers ==
  ASSUME NEW c, NEW m \in Nat PROVE Recoverable(c, {}, 0, m)
BY DEF Recoverable

\* Rows of ledgers above the events' may be deleted.
LEMMA DeletedRecover ==
  ASSUME NEW c, NEW t, NEW n \in Nat, NEW m \in Nat, NEW last,
         \A i \in 1..n : c[i].ledger <= last, Recoverable(c, t, n, m)
  PROVE  Recoverable(c, DeleteAfter(t, last), n, m)
<1>1. ASSUME NEW r \in t, NEW i \in 1..n, States(c, r, i, n, m) PROVE r \in DeleteAfter(t, last)
  BY <1>1 DEF States, DeleteAfter
<1>2. DeleteAfter(t, last) \subseteq t
  BY DEF DeleteAfter
<1> QED BY <1>1, <1>2 DEF Recoverable

\* The next event applied.
LEMMA AppliedRecovers ==
  ASSUME NEW c, NEW t \in SUBSET Row, NEW n \in Nat, NEW m \in Nat, n < m,
         Recoverable(c, t, n, m)
  PROVE  Recoverable(c, ApplyEvent(t, c[n + 1]), n + 1, m)
<1> DEFINE e == c[n + 1]
<1> SUFFICES ASSUME NEW t2, t2 = ApplyEvent(t, e) PROVE Recoverable(c, t2, n + 1, m)
  OBVIOUS
<1>0. \A i : i \in (n + 1)..m <=> i = n + 1 \/ i \in ((n + 1) + 1)..m
  OBVIOUS
<1>1. ASSUME NEW k
      PROVE  /\ Attests(c, n, m, k) <=> (Kind(e) = "verified" /\ e.key = k) \/ Attests(c, n + 1, m, k)
             /\ Revokes(c, n, m, k) <=> (Kind(e) = "revoked" /\ e.key = k) \/ Revokes(c, n + 1, m, k)
  BY <1>0 DEF Attests, Revokes
<1>2. \A i \in 1..n : i \in 1..(n + 1)
  OBVIOUS
<1>3. \A i \in 1..(n + 1) : i = n + 1 \/ i \in 1..n
  OBVIOUS
<1>4. ASSUME NEW i \in 1..n, LastWord(c, i, m)
      PROVE  ~(Kind(e) = "verified" /\ e.key = c[i].key)
  <2>1. n + 1 \in (i + 1)..m
    OBVIOUS
  <2> QED BY <1>4, <2>1 DEF LastWord, Attests
<1>5. ASSUME NEW i \in 1..n, Kind(e) = "revoked", e.key = c[i].key PROVE Revokes(c, i, m, c[i].key)
  <2>1. n + 1 \in (i + 1)..m
    OBVIOUS
  <2> QED BY <1>5, <2>1 DEF Revokes
<1>6. CASE Kind(e) = "verified"
  <2> DEFINE new == [key |-> e.key, ledger |-> e.ledger, expiry |-> e.expiry, revoked |-> FALSE]
  <2>1. t2 = {r \in t : r.key # e.key} \cup {new}
    BY <1>6 DEF ApplyEvent, Upsert
  <2>2. States(c, new, n + 1, n + 1, m)
    BY DEF States
  <2>3. ASSUME NEW i \in 1..n, NEW r, States(c, r, i, n, m) PROVE States(c, r, i, n + 1, m)
    BY <1>1, <1>6, <2>3 DEF States
  <2>4. ASSUME NEW r \in t2, ~Attests(c, n + 1, m, r.key)
        PROVE  \E i \in 1..(n + 1) : LastWord(c, i, m) /\ States(c, r, i, n + 1, m)
    <3>1. CASE r = new
      <4>1. n + 1 \in 1..m /\ n + 1 \in 1..(n + 1)
        OBVIOUS
      <4>2. ~Attests(c, n + 1, m, e.key)
        BY <2>4, <3>1
      <4>3. LastWord(c, n + 1, m)
        BY <1>6, <4>1, <4>2 DEF LastWord
      <4> QED BY <2>2, <3>1, <4>1, <4>3
    <3>2. CASE r # new
      <4>1. r \in t /\ r.key # e.key
        BY <2>1, <3>2
      <4>2. ~Attests(c, n, m, r.key)
        BY <1>1, <2>4, <4>1
      <4>3. PICK i \in 1..n : LastWord(c, i, m) /\ States(c, r, i, n, m)
        BY <4>1, <4>2 DEF Recoverable
      <4> QED BY <1>2, <2>3, <4>3
    <3> QED BY <3>1, <3>2
  <2>5. ASSUME NEW i \in 1..(n + 1), LastWord(c, i, m) PROVE \E r \in t2 : States(c, r, i, n + 1, m)
    <3>1. CASE i = n + 1
      BY <2>1, <2>2, <3>1
    <3>2. CASE i \in 1..n
      <4>1. PICK r \in t : States(c, r, i, n, m)
        BY <2>5, <3>2 DEF Recoverable
      <4>2. r.key # e.key
        BY <1>4, <1>6, <2>5, <3>2, <4>1 DEF States
      <4>3. r \in t2
        BY <2>1, <4>2
      <4> QED BY <2>3, <3>2, <4>1, <4>3
    <3> QED BY <1>3, <3>1, <3>2
  <2> QED BY <2>4, <2>5 DEF Recoverable
<1>7. CASE Kind(e) = "revoked"
  <2> DEFINE After(r) == IF r.key = e.key THEN [r EXCEPT !.revoked = TRUE] ELSE r
  <2>1. t2 = {After(r) : r \in t}
    BY <1>7 DEF ApplyEvent, MarkRevoked
  <2>2. ASSUME NEW r \in t PROVE /\ After(r).key = r.key /\ After(r).ledger = r.ledger
                                 /\ After(r).expiry = r.expiry
                                 /\ r.key = e.key => After(r).revoked = TRUE
                                 /\ r.key # e.key => After(r).revoked = r.revoked
    BY DEF Row
  <2> HIDE DEF After
  <2>3. ASSUME NEW i \in 1..n, NEW r \in t, States(c, r, i, n, m) PROVE States(c, After(r), i, n + 1, m)
    <3>1. r.key = c[i].key
      BY <2>3 DEF States
    <3>2. CASE r.key = e.key
      <4>1. After(r).revoked = TRUE /\ Revokes(c, i, m, c[i].key)
        BY <1>5, <1>7, <2>2, <3>1, <3>2
      <4> QED BY <2>2, <2>3, <4>1 DEF States
    <3>3. CASE r.key # e.key
      <4>1. After(r).revoked = r.revoked
        BY <2>2, <3>3
      <4>2. Revokes(c, n, m, c[i].key) <=> Revokes(c, n + 1, m, c[i].key)
        BY <1>1, <3>1, <3>3
      <4> QED BY <2>2, <2>3, <4>1, <4>2 DEF States
    <3> QED BY <3>2, <3>3
  <2>4. ASSUME NEW s \in t2, ~Attests(c, n + 1, m, s.key)
        PROVE  \E i \in 1..(n + 1) : LastWord(c, i, m) /\ States(c, s, i, n + 1, m)
    <3>1. PICK r \in t : s = After(r)
      BY <2>1
    <3>2. ~Attests(c, n, m, r.key)
      BY <1>1, <1>7, <2>2, <2>4, <3>1
    <3>3. PICK i \in 1..n : LastWord(c, i, m) /\ States(c, r, i, n, m)
      BY <3>2 DEF Recoverable
    <3> QED BY <1>2, <2>3, <3>1, <3>3
  <2>5. ASSUME NEW i \in 1..(n + 1), LastWord(c, i, m) PROVE \E s \in t2 : States(c, s, i, n + 1, m)
    <3>1. i # n + 1
      BY <1>7, <2>5 DEF LastWord
    <3>2. i \in 1..n
      BY <1>3, <3>1
    <3>3. PICK r \in t : States(c, r, i, n, m)
      BY <2>5, <3>2 DEF Recoverable
    <3> QED BY <2>1, <2>3, <3>2, <3>3
  <2> QED BY <2>4, <2>5 DEF Recoverable
<1>8. CASE Kind(e) \notin {"verified", "revoked"}
  <2>1. t2 = t
    BY <1>8 DEF ApplyEvent
  <2>2. \A k : /\ Attests(c, n, m, k) <=> Attests(c, n + 1, m, k)
               /\ Revokes(c, n, m, k) <=> Revokes(c, n + 1, m, k)
    BY <1>1, <1>8
  <2>3. \A i, r : States(c, r, i, n, m) <=> States(c, r, i, n + 1, m)
    BY <2>2 DEF States
  <2>4. ASSUME NEW i \in 1..(n + 1), LastWord(c, i, m) PROVE i \in 1..n
    BY <1>3, <1>8, <2>4 DEF LastWord
  <2> QED BY <1>2, <2>1, <2>2, <2>3, <2>4 DEF Recoverable
<1> QED BY <1>6, <1>7, <1>8

\* What is recoverable to the end of a sequence is its replay.
LEMMA RecoverableReplays ==
  ASSUME NEW S, NEW c \in Seq(S), NEW t \in SUBSET Row, NEW n \in Nat, n <= Len(c),
         Recoverable(c, t, n, Len(c))
  PROVE  Replay(t, c, n) = Replay({}, c, 0)
<1> DEFINE m == Len(c)
           Again(r) == [r EXCEPT !.revoked = @ \/ RevokedAfter(c, n, r.key)]
           Stated(i) == [key |-> c[i].key, ledger |-> c[i].ledger, expiry |-> c[i].expiry,
                         revoked |-> RevokedAfter(c, i, c[i].key)]
           Old == {r \in t : ~AttestedAfter(c, n, r.key)}
           All(p) == {i \in DOMAIN c : /\ i > p /\ Kind(c[i]) = "verified"
                                       /\ ~AttestedAfter(c, i, c[i].key)}
<1>0. DOMAIN c = 1..m /\ m \in Nat
  OBVIOUS
<1>1. ASSUME NEW p \in Nat, NEW k
      PROVE  /\ AttestedAfter(c, p, k) <=> Attests(c, p, m, k)
             /\ RevokedAfter(c, p, k) <=> Revokes(c, p, m, k)
  <2>1. \A i : i \in (p + 1)..m <=> i \in DOMAIN c /\ i > p
    BY <1>0
  <2> QED BY <2>1 DEF AttestedAfter, RevokedAfter, Attests, Revokes
<1>2. ASSUME NEW p \in Nat, NEW i PROVE i \in All(p) <=> i > p /\ LastWord(c, i, m)
  BY <1>0, <1>1 DEF LastWord
<1>3. ASSUME NEW r \in t, NEW i \in 1..n, States(c, r, i, n, m) PROVE Again(r) = Stated(i)
  <2>0. r \in [key: Keys, ledger: Nat, expiry: Nat, revoked: BOOLEAN]
    BY DEF Row
  <2>1. r.key = c[i].key /\ r.ledger = c[i].ledger /\ r.expiry = c[i].expiry
    BY <1>3 DEF States
  <2>2. r.revoked = TRUE \/ RevokedAfter(c, n, r.key) <=> RevokedAfter(c, i, c[i].key)
    BY <1>1, <1>3 DEF States
  <2>3. RevokedAfter(c, n, r.key) \in BOOLEAN /\ RevokedAfter(c, i, c[i].key) \in BOOLEAN
    BY DEF RevokedAfter
  <2>4. (r.revoked \/ RevokedAfter(c, n, r.key)) = RevokedAfter(c, i, c[i].key)
    BY <2>0, <2>2, <2>3
  <2>5. Again(r) = [key |-> r.key, ledger |-> r.ledger, expiry |-> r.expiry,
                    revoked |-> (r.revoked \/ RevokedAfter(c, n, r.key))]
    BY <2>0
  <2> QED BY <2>1, <2>4, <2>5
<1>4. Replay(t, c, n) = {Again(r) : r \in Old} \cup {Stated(i) : i \in All(n)}
  BY DEF Replay
<1>5. Replay({}, c, 0) = {Stated(i) : i \in All(0)}
  BY DEF Replay
<1> HIDE DEF Again, Stated, All
<1>6. ASSUME NEW x \in Replay(t, c, n) PROVE x \in Replay({}, c, 0)
  <2>1. CASE x \in {Stated(i) : i \in All(n)}
    <3>1. PICK i \in All(n) : x = Stated(i)
      BY <2>1
    <3>2. i \in All(0)
      BY <1>2, <3>1 DEF LastWord
    <3> QED BY <1>5, <3>1, <3>2
  <2>2. CASE x \in {Again(r) : r \in Old}
    <3>1. PICK r \in Old : x = Again(r)
      BY <2>2
    <3>2. r \in t /\ ~Attests(c, n, m, r.key)
      BY <1>1, <3>1
    <3>3. PICK i \in 1..n : LastWord(c, i, m) /\ States(c, r, i, n, m)
      BY <3>2 DEF Recoverable
    <3>4. i \in All(0)
      BY <1>2, <3>3
    <3> QED BY <1>3, <1>5, <3>1, <3>2, <3>3, <3>4
  <2> QED BY <1>4, <1>6, <2>1, <2>2
<1>7. ASSUME NEW x \in Replay({}, c, 0) PROVE x \in Replay(t, c, n)
  <2>1. PICK i \in All(0) : x = Stated(i)
    BY <1>5, <1>7
  <2>2. LastWord(c, i, m) /\ i \in 1..m
    BY <1>2, <2>1 DEF LastWord
  <2>3. CASE i > n
    <3>1. i \in All(n)
      BY <1>2, <2>2, <2>3
    <3> QED BY <1>4, <2>1, <3>1
  <2>4. CASE i <= n
    <3>0. i \in 1..n
      BY <2>2, <2>4
    <3>1. PICK r \in t : States(c, r, i, n, m)
      BY <2>2, <3>0 DEF Recoverable
    <3>2. ~Attests(c, n, m, r.key)
      <4> SUFFICES ASSUME NEW j \in (n + 1)..m, Kind(c[j]) = "verified", c[j].key = r.key PROVE FALSE
        BY DEF Attests
      <4>1. j \in (i + 1)..m /\ c[j].key = c[i].key
        BY <3>0, <3>1 DEF States
      <4> QED BY <2>2, <4>1 DEF LastWord, Attests
    <3>3. r \in Old
      BY <1>1, <3>2
    <3> QED BY <1>3, <1>4, <2>1, <3>0, <3>1, <3>3
  <2> QED BY <2>2, <2>3, <2>4, <1>0
<1> QED BY <1>6, <1>7

-----------------------------------------------------------------------------
\* Events as the chain carries them
Placed ==
    [topic: {"submitted", "verified", "revoked", "self_rev"}, key: Keys, expiry: Nat,
     missing: SUBSET {"holder", "issuer"}, foreign: BOOLEAN, ledger: Nat,
     tx: Nat \X Nat \X Nat]

Ordered(c) == \A i \in 1..Len(c), j \in 1..Len(c) : i <= j => c[i].ledger <= c[j].ledger

\* The chain's events are in the order of their ledgers; what no fork reaches is
\* at most MaxReorg ledgers behind the head.
ChainInv ==
    /\ setup \in Setups
    /\ chain \in Seq(Placed) /\ Ordered(chain)
    /\ head \in Nat /\ settled \in Nat /\ forks \in Nat
    /\ settled <= head /\ head <= settled + MaxReorg
    /\ \A i \in 1..Len(chain) : chain[i].ledger \in 1..head


\* Until is what its definition asks for: in a sequence ordered by ledger there
\* is a place that the events up to ledger n come to,
LEMMA UntilIs ==
  ASSUME NEW S, NEW c \in Seq(S), NEW n \in Int, Ordered(c),
         \A i \in 1..Len(c) : c[i].ledger \in Nat
  PROVE  /\ Until(c, n) \in 0..Len(c)
         /\ \A i \in 1..Len(c) : i <= Until(c, n) <=> c[i].ledger <= n
<1> DEFINE Good(m) == \A i \in 1..Len(c) : i <= m <=> c[i].ledger <= n
           T == {i \in 1..Len(c) : c[i].ledger > n}
<1>0. Len(c) \in Nat /\ DOMAIN c = 1..Len(c)
  OBVIOUS
<1>1. \E m \in 0..Len(c) : Good(m)
  <2>1. CASE T = {}
    <3>1. \A i \in 1..Len(c) : c[i].ledger <= n
      BY <1>0, <2>1
    <3>2. Good(Len(c)) /\ Len(c) \in 0..Len(c)
      BY <1>0, <3>1
    <3> QED BY <3>2
  <2>2. CASE T # {}
    <3>1. T \subseteq Nat
      OBVIOUS
    <3>2. PICK x \in T : \A y \in T : ~(<<y, x>> \in OpToRel(<, Nat))
      <4> HIDE DEF T
      <4> QED BY <2>2, <3>1, NatLessThanWellFounded, WFMin
    <3>3. \A y \in T : ~(y < x)
      BY <3>1, <3>2 DEF OpToRel
    <3>4. x \in 1..Len(c) /\ c[x].ledger > n
      BY <3>2
    <3>5. ASSUME NEW i \in 1..Len(c) PROVE i <= x - 1 <=> c[i].ledger <= n
      <4>1. CASE i < x
        BY <1>0, <3>3, <3>4, <4>1
      <4>2. CASE ~(i < x)
        <5>1. c[x].ledger <= c[i].ledger
          BY <1>0, <3>4, <4>2 DEF Ordered
        <5> QED BY <1>0, <3>4, <4>2, <5>1
      <4> QED BY <4>1, <4>2
    <3>6. x - 1 \in 0..Len(c)
      BY <1>0, <3>4
    <3> QED BY <3>5, <3>6
  <2> QED BY <2>1, <2>2
<1>2. Until(c, n) = CHOOSE m \in 0..Len(c) : Good(m)
  BY <1>0 DEF Until
<1> HIDE DEF Good
<1>3. Until(c, n) \in 0..Len(c) /\ Good(Until(c, n))
  BY <1>1, <1>2
<1> QED BY <1>3 DEF Good

\* Later ledgers come to later places.
LEMMA UntilGrows ==
  ASSUME NEW S, NEW c \in Seq(S), Ordered(c), \A i \in 1..Len(c) : c[i].ledger \in Nat,
         NEW n \in Int, NEW p \in Int, n <= p
  PROVE  Until(c, n) <= Until(c, p)
<1>0. Len(c) \in Nat
  OBVIOUS
<1>1. PICK u, v : u = Until(c, n) /\ v = Until(c, p)
  OBVIOUS
<1>2. /\ u \in 0..Len(c) /\ v \in 0..Len(c)
      /\ \A i \in 1..Len(c) : i <= u => c[i].ledger <= n
      /\ \A i \in 1..Len(c) : c[i].ledger <= p => i <= v
  BY <1>1, UntilIs
<1>3. CASE u = 0
  BY <1>0, <1>1, <1>2, <1>3
<1>4. CASE u # 0
  <2>1. u \in 1..Len(c)
    BY <1>0, <1>2, <1>4
  <2>2. c[u].ledger <= p
    BY <1>0, <1>2, <2>1
  <2> QED BY <1>1, <1>2, <2>1, <2>2
<1> QED BY <1>3, <1>4

\* ... There is only one such place.
LEMMA UntilAt ==
  ASSUME NEW S, NEW c \in Seq(S), NEW n \in Int, NEW m \in 0..Len(c),
         \A i \in 1..Len(c) : i <= m <=> c[i].ledger <= n
  PROVE  Until(c, n) = m
<1> DEFINE Good(k) == \A i \in 1..Len(c) : i <= k <=> c[i].ledger <= n
<1>0. Len(c) \in Nat /\ DOMAIN c = 1..Len(c)
  OBVIOUS
<1>1. Until(c, n) = CHOOSE k \in 0..Len(c) : Good(k)
  BY <1>0 DEF Until
<1>2. Good(m)
  OBVIOUS
<1> HIDE DEF Good
<1>3. Until(c, n) \in 0..Len(c) /\ Good(Until(c, n))
  BY <1>1, <1>2
<1>4. PICK u : u = Until(c, n)
  OBVIOUS
<1>5. u \in 0..Len(c) /\ \A i \in 1..Len(c) : i <= u <=> i <= m
  BY <1>2, <1>3, <1>4 DEF Good
<1>6. ~(u < m)
  <2> SUFFICES ASSUME u < m PROVE FALSE
    OBVIOUS
  <2>1. m \in 1..Len(c)
    BY <1>0, <1>5
  <2> QED BY <1>0, <1>5, <2>1
<1>7. ~(m < u)
  <2> SUFFICES ASSUME m < u PROVE FALSE
    OBVIOUS
  <2>1. u \in 1..Len(c)
    BY <1>0, <1>5
  <2> QED BY <1>0, <1>5, <2>1
<1> QED BY <1>0, <1>4, <1>5, <1>6, <1>7

\* What Until says of the chain.
LEMMA ChainUntil ==
  ASSUME ChainInv
  PROVE  /\ \A n \in Int : /\ Until(chain, n) \in 0..Len(chain)
                           /\ \A i \in 1..Len(chain) :
                                 i <= Until(chain, n) <=> chain[i].ledger <= n
         /\ \A n \in Int, p \in Int : n <= p => Until(chain, n) <= Until(chain, p)
         /\ \A n \in Int : head <= n => Until(chain, n) = Len(chain)
         /\ \A n \in Int : n <= 0 => Until(chain, n) = 0
<1>0. /\ chain \in Seq(Placed) /\ Ordered(chain) /\ head \in Nat /\ Len(chain) \in Nat
      /\ \A i \in 1..Len(chain) : chain[i].ledger \in 1..head
  BY DEF ChainInv
<1>1. \A i \in 1..Len(chain) : chain[i].ledger \in Nat /\ 1 <= chain[i].ledger /\ chain[i].ledger <= head
  BY <1>0
<1>2. ASSUME NEW n \in Int
      PROVE  /\ Until(chain, n) \in 0..Len(chain)
             /\ \A i \in 1..Len(chain) : i <= Until(chain, n) <=> chain[i].ledger <= n
  BY <1>0, <1>1, UntilIs
<1>3. ASSUME NEW n \in Int, NEW p \in Int, n <= p PROVE Until(chain, n) <= Until(chain, p)
  BY <1>0, <1>1, <1>3, UntilGrows
<1>4. ASSUME NEW n \in Int, head <= n PROVE Until(chain, n) = Len(chain)
  <2>1. ASSUME NEW i \in 1..Len(chain) PROVE i <= Len(chain) /\ chain[i].ledger <= n
    <3>1. chain[i].ledger \in Nat /\ chain[i].ledger <= head
      BY <1>1
    <3> QED BY <1>0, <1>4, <3>1
  <2>2. Len(chain) \in 0..Len(chain)
    BY <1>0
  <2> QED BY <1>0, <2>1, <2>2, UntilAt
<1>5. ASSUME NEW n \in Int, n <= 0 PROVE Until(chain, n) = 0
  <2>1. \A i \in 1..Len(chain) : i <= 0 <=> chain[i].ledger <= n
    BY <1>0, <1>1, <1>5
  <2> QED BY <1>0, <2>1, UntilAt
<1> QED BY <1>2, <1>3, <1>4, <1>5

\* A ledger that closes adds its events at the end.
LEMMA LedgerClosesMoves ==
  ASSUME ChainInv, LedgerCloses
  PROVE  /\ ChainInv' /\ settled <= settled' /\ head <= head'
         /\ Len(chain) <= Len(chain') /\ \A i \in 1..Len(chain) : chain'[i] = chain[i]
         /\ \A n \in Int : n <= head => Until(chain', n) = Until(chain, n)
<1>0. /\ chain \in Seq(Placed) /\ Ordered(chain) /\ head \in Nat /\ settled \in Nat
      /\ forks \in Nat /\ setup \in Setups /\ Len(chain) \in Nat /\ MaxReorg \in Nat
      /\ settled <= head /\ head <= settled + MaxReorg
      /\ \A i \in 1..Len(chain) : chain[i].ledger \in 1..head
  BY ChainAssumption DEF ChainInv, ChainAssumption
<1>1. PICK body \in setup.contents :
          chain' = chain \o
              [i \in 1..Len(body) |-> Event(body[i], head + 1, <<forks, head + 1, i>>)]
  BY DEF LedgerCloses
<1> DEFINE new == [i \in 1..Len(body) |-> Event(body[i], head + 1, <<forks, head + 1, i>>)]
<1>2. body \in Seq(RawEvent)
  BY <1>0, <1>1, ChainAssumption DEF ChainAssumption
<1>3. /\ new \in Seq(Placed) /\ Len(new) \in Nat
      /\ \A i \in 1..Len(new) : new[i].ledger = head + 1
  <2>1. Len(body) \in Nat
    BY <1>2
  <2>2. ASSUME NEW i \in 1..Len(body) PROVE new[i] \in Placed /\ new[i].ledger = head + 1
    <3>1. body[i] \in RawEvent
      BY <1>2
    <3>2. <<forks, head + 1, i>> \in Nat \X Nat \X Nat
      BY <1>0, <2>1
    <3> QED BY <1>0, <3>1, <3>2 DEF Event, RawEvent, Placed
  <2>3. new \in [1..Len(body) -> Placed]
    BY <2>2
  <2>4. new \in Seq(Placed) /\ Len(new) = Len(body)
    BY <2>1, <2>3
  <2> QED BY <2>1, <2>2, <2>4
<1> HIDE DEF new
<1>4. chain' = chain \o new
  BY <1>1 DEF new
<1>5. /\ chain' \in Seq(Placed) /\ Len(chain') = Len(chain) + Len(new)
      /\ \A i \in 1..Len(chain) : chain'[i] = chain[i]
      /\ \A i \in 1..Len(chain') : i > Len(chain) => chain'[i] = new[i - Len(chain)]
  BY <1>0, <1>3, <1>4, ConcatProperties
<1>6. ASSUME NEW i \in 1..Len(chain')
      PROVE  \/ i \in 1..Len(chain) /\ chain'[i] = chain[i] /\ chain'[i].ledger \in 1..head
             \/ i > Len(chain) /\ chain'[i].ledger = head + 1
  <2>1. CASE i \in 1..Len(chain)
    BY <1>0, <1>5, <2>1
  <2>2. CASE i \notin 1..Len(chain)
    <3>1. i > Len(chain) /\ i - Len(chain) \in 1..Len(new)
      BY <1>0, <1>3, <1>5, <2>2
    <3> QED BY <1>3, <1>5, <3>1
  <2> QED BY <2>1, <2>2
<1>7. head' = head + 1 /\ settled' = Larger(settled, head + 1 - MaxReorg) /\ UNCHANGED <<setup, forks>>
  BY DEF LedgerCloses
<1>8. Ordered(chain')
  <2> SUFFICES ASSUME NEW i \in 1..Len(chain'), NEW j \in 1..Len(chain'), i <= j
               PROVE  chain'[i].ledger <= chain'[j].ledger
    BY DEF Ordered
  <2>1. CASE j > Len(chain) /\ chain'[j].ledger = head + 1
    BY <1>0, <1>6, <2>1
  <2>2. CASE j \in 1..Len(chain) /\ chain'[j] = chain[j]
    <3>1. i \in 1..Len(chain)
      BY <1>0, <1>3, <1>5, <2>2
    <3> QED BY <1>0, <1>5, <2>2, <3>1 DEF Ordered
  <2> QED BY <1>6, <2>1, <2>2
<1>9. settled' \in Nat /\ settled <= settled' /\ settled' <= head' /\ head' <= settled' + MaxReorg
  BY <1>0, <1>7 DEF Larger
<1>10. ChainInv'
  <2>1. \A i \in 1..Len(chain') : chain'[i].ledger \in 1..head'
    BY <1>0, <1>6, <1>7
  <2> QED BY <1>0, <1>5, <1>7, <1>8, <1>9, <2>1 DEF ChainInv
<1>11. ASSUME NEW n \in Int, n <= head PROVE Until(chain', n) = Until(chain, n)
  <2>1. PICK u : u = Until(chain, n)
    OBVIOUS
  <2>2. u \in 0..Len(chain) /\ \A i \in 1..Len(chain) : i <= u <=> chain[i].ledger <= n
    BY <2>1, ChainUntil
  <2>3. \A i \in 1..Len(chain') : i <= u <=> chain'[i].ledger <= n
    BY <1>0, <1>6, <1>11, <2>2
  <2>4. u \in 0..Len(chain')
    BY <1>0, <1>3, <1>5, <2>2
  <2> QED BY <1>5, <2>1, <2>3, <2>4, UntilAt
<1> QED BY <1>0, <1>3, <1>5, <1>7, <1>9, <1>10, <1>11

\* A fork takes nothing away that is settled.
LEMMA ForkMoves ==
  ASSUME ChainInv, Fork
  PROVE  /\ ChainInv' /\ settled' = settled
         /\ \A n \in Int : n <= settled => Until(chain', n) = Until(chain, n)
         /\ \A i \in 1..Until(chain, settled) : chain'[i] = chain[i]
<1>0. /\ chain \in Seq(Placed) /\ Ordered(chain) /\ head \in Nat /\ settled \in Nat
      /\ forks \in Nat /\ setup \in Setups /\ Len(chain) \in Nat /\ MaxReorg \in Nat
      /\ settled <= head /\ head <= settled + MaxReorg
      /\ \A i \in 1..Len(chain) : chain[i].ledger \in 1..head
  BY ChainAssumption DEF ChainInv, ChainAssumption
<1>1. PICK p \in settled..(head - 1) : head' = p /\ chain' = UpTo(chain, p)
  BY DEF Fork
<1>2. p \in Nat /\ settled <= p /\ p < head
  BY <1>0, <1>1
<1>3. PICK u : u = Until(chain, p)
  OBVIOUS
<1>4. u \in 0..Len(chain) /\ \A i \in 1..Len(chain) : i <= u <=> chain[i].ledger <= p
  <2>1. p \in Int
    BY <1>2
  <2>2. /\ Until(chain, p) \in 0..Len(chain)
        /\ \A i \in 1..Len(chain) : i <= Until(chain, p) <=> chain[i].ledger <= p
    BY <2>1, ChainUntil
  <2> QED BY <1>3, <2>2
<1>5. /\ chain' \in Seq(Placed) /\ Len(chain') = u
      /\ \A i \in 1..u : chain'[i] = chain[i] /\ i \in 1..Len(chain)
  <2>1. chain' = SubSeq(chain, 1, u)
    BY <1>1, <1>3 DEF UpTo
  <2> QED BY <1>0, <1>4, <2>1
<1>6. UNCHANGED <<setup, settled>> /\ forks' = forks + 1
  BY DEF Fork
<1>7. ChainInv'
  <2>1. ASSUME NEW i \in 1..Len(chain') PROVE chain'[i].ledger \in 1..head'
    <3>1. i \in 1..Len(chain) /\ i <= u /\ chain'[i] = chain[i]
      BY <1>4, <1>5
    <3>2. chain[i].ledger \in 1..head /\ chain[i].ledger <= p
      BY <1>0, <1>4, <3>1
    <3> QED BY <1>0, <1>1, <1>2, <3>1, <3>2
  <2>2. Ordered(chain')
    BY <1>0, <1>4, <1>5 DEF Ordered
  <2> QED BY <1>0, <1>1, <1>2, <1>5, <1>6, <2>1, <2>2 DEF ChainInv
<1>8. ASSUME NEW n \in Int, n <= settled PROVE Until(chain', n) = Until(chain, n)
  <2>1. PICK v : v = Until(chain, n)
    OBVIOUS
  <2>2. v \in 0..Len(chain) /\ \A i \in 1..Len(chain) : i <= v <=> chain[i].ledger <= n
    BY <2>1, ChainUntil
  <2>3. v <= u
    <3>1. n <= p /\ p \in Int
      BY <1>0, <1>2, <1>8
    <3> QED BY <1>3, <2>1, <3>1, ChainUntil
  <2>4. v \in 0..Len(chain')
    BY <1>0, <1>4, <1>5, <2>2, <2>3
  <2>5. \A i \in 1..Len(chain') : i <= v <=> chain'[i].ledger <= n
    BY <1>5, <2>2
  <2> QED BY <1>5, <2>1, <2>4, <2>5, UntilAt
<1>9. \A i \in 1..Until(chain, settled) : chain'[i] = chain[i]
  <2>1. Until(chain, settled) <= u /\ Until(chain, settled) \in Nat
    <3>1. settled \in Int /\ p \in Int
      BY <1>0, <1>2
    <3>2. Until(chain, settled) <= Until(chain, p) /\ Until(chain, settled) \in 0..Len(chain)
      BY <1>2, <3>1, ChainUntil
    <3> QED BY <1>0, <1>3, <3>2
  <2>2. \A i \in 1..Until(chain, settled) : i \in 1..u
    BY <1>4, <2>1
  <2> QED BY <1>5, <2>2
<1> QED BY <1>6, <1>7, <1>8, <1>9

\* The events of the batch end at the last one of ledger `top`
BatchFrom == Until(chain, top) - Len(batch)

\* How many events a replay may leave out, at each point of a tick
ReplayPlace ==
    IF phase = "reset" THEN Until(chain, ceiling)
    ELSE IF phase = "apply" THEN BatchFrom
    ELSE IF phase = "enqueue" THEN BatchFrom + 1
    ELSE Until(chain, cursor)

LiveInv ==
    /\ claims \in SUBSET Row
    /\ cursor \in Nat /\ ceiling \in Nat /\ top \in Nat /\ batch \in Seq(Placed)
    /\ cursor <= settled
    /\ phase \in {"rollback", "reset"} => ceiling <= cursor
    /\ phase = "fetch" => ceiling <= settled
    /\ phase \in {"apply", "enqueue"} =>
          /\ cursor <= top /\ top <= settled
          /\ Until(chain, cursor) <= BatchFrom
          /\ \A j \in 1..Len(batch) : batch[j] = chain[BatchFrom + j]
    /\ phase = "enqueue" => batch # <<>>
    /\ Recoverable(chain, claims, ReplayPlace, Until(chain, settled))

\* A page does not end inside a ledger that it would make final.
WholePages ==
    phase = "fetch" =>
        LET last == Until(chain, cursor) + PageLimit IN
        last < Len(chain) /\ chain[last].ledger <= ceiling =>
            chain[last].ledger < chain[last + 1].ledger

\* What a replay may leave out is behind what is settled, and the events up to
\* the cursor are behind it.
LEMMA PlaceIs ==
  ASSUME ChainInv, LiveInv
  PROVE  /\ Until(chain, settled) \in Nat /\ Until(chain, cursor) \in Nat
         /\ ReplayPlace \in Nat /\ ReplayPlace <= Until(chain, settled)
         /\ phase # "reset" => Until(chain, cursor) <= ReplayPlace
         /\ phase \in {"apply", "enqueue"} =>
               BatchFrom \in Nat /\ BatchFrom + Len(batch) <= Until(chain, settled)
<1>0. /\ settled \in Nat /\ chain \in Seq(Placed) /\ Len(chain) \in Nat
      /\ cursor \in Nat /\ ceiling \in Nat /\ top \in Nat /\ Len(batch) \in Nat
      /\ cursor <= settled
  BY DEF ChainInv, LiveInv
<1>1. \A n \in Nat : Until(chain, n) \in Nat
  <2> SUFFICES ASSUME NEW n \in Nat PROVE Until(chain, n) \in Nat
    OBVIOUS
  <2>1. n \in Int
    OBVIOUS
  <2>2. Until(chain, n) \in 0..Len(chain)
    BY <2>1, ChainUntil
  <2> QED BY <1>0, <2>2
<1>2. \A n \in Nat : n <= settled => Until(chain, n) <= Until(chain, settled)
  <2> SUFFICES ASSUME NEW n \in Nat, n <= settled PROVE Until(chain, n) <= Until(chain, settled)
    OBVIOUS
  <2>1. n \in Int /\ settled \in Int
    BY <1>0
  <2> QED BY <2>1, ChainUntil
<1>3. CASE phase = "reset"
  <2>1. ceiling <= settled
    BY <1>0, <1>3 DEF LiveInv
  <2> QED BY <1>0, <1>1, <1>2, <1>3, <2>1 DEF ReplayPlace
<1>4. CASE phase \in {"apply", "enqueue"}
  <2>1. top <= settled /\ Until(chain, cursor) <= BatchFrom
    BY <1>4 DEF LiveInv
  <2>2. phase = "enqueue" => Len(batch) # 0
    BY DEF LiveInv
  <2>3. PICK a, b, w : a = Until(chain, cursor) /\ b = Until(chain, top) /\ w = Until(chain, settled)
    OBVIOUS
  <2>4. a \in Nat /\ b \in Nat /\ w \in Nat /\ b <= w
    BY <1>0, <1>1, <1>2, <2>1, <2>3
  <2>5. BatchFrom \in Int /\ BatchFrom = b - Len(batch) /\ a <= BatchFrom
    BY <1>0, <2>1, <2>3, <2>4 DEF BatchFrom
  <2>6. BatchFrom \in Nat /\ BatchFrom + Len(batch) <= w
    BY <1>0, <2>4, <2>5
  <2>7. phase # "reset" /\ (ReplayPlace = BatchFrom \/ (ReplayPlace = BatchFrom + 1 /\ Len(batch) # 0))
    BY <1>4, <2>2 DEF ReplayPlace
  <2>8. ReplayPlace \in Nat /\ ReplayPlace <= w /\ a <= ReplayPlace
    BY <1>0, <2>4, <2>5, <2>6, <2>7
  <2> QED BY <2>3, <2>4, <2>6, <2>8
<1>5. CASE phase \notin {"reset", "apply", "enqueue"}
  <2>1. ReplayPlace = Until(chain, cursor)
    BY <1>5 DEF ReplayPlace
  <2>2. Until(chain, cursor) \in Nat /\ Until(chain, settled) \in Nat
        /\ Until(chain, cursor) <= Until(chain, settled)
    BY <1>0, <1>1, <1>2
  <2> QED BY <1>5, <2>1, <2>2
<1> QED BY <1>3, <1>4, <1>5

\* What the chain may do while the service runs leaves the table what it is.
LEMMA ChainLeavesLive ==
  ASSUME ChainInv, LiveInv, ChainInv', UNCHANGED ingesterVars, settled <= settled',
         \A n \in Int : n <= settled => Until(chain', n) = Until(chain, n),
         \A i \in 1..Until(chain, settled) : chain'[i] = chain[i]
  PROVE  LiveInv'
<1>0. /\ settled \in Nat /\ settled' \in Nat /\ chain' \in Seq(Placed) /\ Ordered(chain')
      /\ Len(chain) \in Nat /\ cursor \in Nat /\ ceiling \in Nat /\ top \in Nat
      /\ cursor <= settled
      /\ \A i \in 1..Len(chain') : chain'[i].ledger \in Nat
  <2>1. head' \in Nat /\ \A i \in 1..Len(chain') : chain'[i].ledger \in 1..head'
    BY DEF ChainInv
  <2> QED BY <2>1 DEF ChainInv, LiveInv
<1>1. UNCHANGED <<claims, cursor, phase, ceiling, batch, top, errors, faults>>
  BY DEF ingesterVars, tickVars
<1>2. /\ Until(chain', cursor) = Until(chain, cursor)
      /\ Until(chain', settled) = Until(chain, settled)
      /\ phase \in {"apply", "enqueue"} => Until(chain', top) = Until(chain, top)
      /\ phase = "reset" => Until(chain', ceiling) = Until(chain, ceiling)
  <2>1. phase \in {"apply", "enqueue"} => top <= settled
    BY DEF LiveInv
  <2>2. phase = "reset" => ceiling <= settled
    BY <1>0 DEF LiveInv
  <2> QED BY <1>0, <2>1, <2>2
<1>3. ReplayPlace' = ReplayPlace
  BY <1>1, <1>2 DEF ReplayPlace, BatchFrom
<1>4. phase \in {"apply", "enqueue"} => BatchFrom' = BatchFrom
  BY <1>1, <1>2 DEF BatchFrom
<1>5. Recoverable(chain', claims, ReplayPlace, Until(chain, settled))
  <2>1. Recoverable(chain, claims, ReplayPlace, Until(chain, settled))
    BY DEF LiveInv
  <2>2. ReplayPlace \in Nat /\ Until(chain, settled) \in Nat /\ ReplayPlace <= Until(chain, settled)
    BY PlaceIs
  <2> QED BY <2>1, <2>2, SameEventsRecover
<1>6. Recoverable(chain', claims', ReplayPlace', Until(chain', settled'))
  <2>1. Until(chain, settled) <= Until(chain', settled')
    <3>1. Until(chain', settled) <= Until(chain', settled')
      BY <1>0, UntilGrows
    <3> QED BY <1>2, <3>1
  <2>2. ReplayPlace \in Nat /\ Until(chain, settled) \in Nat /\ ReplayPlace <= Until(chain, settled)
    BY PlaceIs
  <2>3. Until(chain', settled') \in Nat
    <3>1. Until(chain', settled') \in 0..Len(chain') /\ Len(chain') \in Nat
      BY <1>0, UntilIs
    <3> QED BY <3>1
  <2>4. Recoverable(chain', claims, ReplayPlace, Until(chain', settled'))
    BY <1>5, <2>1, <2>2, <2>3, LaterRecovers
  <2> QED BY <1>1, <1>3, <2>4
<1>7. phase \in {"apply", "enqueue"} =>
          \A j \in 1..Len(batch) : batch[j] = chain'[BatchFrom + j]
  <2> SUFFICES ASSUME phase \in {"apply", "enqueue"}, NEW j \in 1..Len(batch)
               PROVE  batch[j] = chain'[BatchFrom + j]
    OBVIOUS
  <2>1. batch[j] = chain[BatchFrom + j]
    BY DEF LiveInv
  <2>2. BatchFrom \in Nat /\ BatchFrom + Len(batch) <= Until(chain, settled)
        /\ Until(chain, settled) \in Nat /\ Len(batch) \in Nat
    BY PlaceIs DEF LiveInv
  <2>3. BatchFrom + j \in 1..Until(chain, settled)
    BY <2>2
  <2> QED BY <2>1, <2>3
<1>8. settled' \in Nat /\ cursor' <= settled'
  BY <1>0, <1>1
<1>9. phase' \in {"apply", "enqueue"} =>
          /\ cursor' <= top' /\ top' <= settled'
          /\ Until(chain', cursor') <= BatchFrom'
          /\ \A j \in 1..Len(batch') : batch'[j] = chain'[BatchFrom' + j]
  <2> SUFFICES ASSUME phase \in {"apply", "enqueue"}
               PROVE  /\ cursor <= top /\ top <= settled'
                      /\ Until(chain, cursor) <= BatchFrom
                      /\ \A j \in 1..Len(batch) : batch[j] = chain'[BatchFrom + j]
    BY <1>1, <1>2, <1>4
  <2>1. cursor <= top /\ top <= settled /\ Until(chain, cursor) <= BatchFrom
    BY DEF LiveInv
  <2> QED BY <1>0, <1>7, <2>1
<1>10. phase' = "fetch" => ceiling' <= settled'
  <2>1. phase = "fetch" => ceiling <= settled
    BY DEF LiveInv
  <2> QED BY <1>0, <1>1, <2>1
<1> QED BY <1>1, <1>6, <1>8, <1>9, <1>10 DEF LiveInv

\* A step that ends or starts a part of the tick, or forgets it, outside reconcile.
LEMMA PhaseLeavesLive ==
  ASSUME ChainInv, LiveInv, UNCHANGED <<claims, cursor, chainVars>>, phase # "reset",
         phase' \notin {"reset", "apply", "enqueue"},
         ceiling' \in Nat, top' \in Nat, batch' \in Seq(Placed),
         phase' = "rollback" => ceiling' <= cursor,
         phase' = "fetch" => ceiling' <= settled
  PROVE  LiveInv'
<1>1. UNCHANGED <<setup, chain, head, settled, forks>>
  BY DEF chainVars
<1>2. ReplayPlace' = Until(chain, cursor)
  BY <1>1 DEF ReplayPlace
<1>3. Recoverable(chain, claims, Until(chain, cursor), Until(chain, settled))
  <2>1. Recoverable(chain, claims, ReplayPlace, Until(chain, settled))
    BY DEF LiveInv
  <2> QED BY <2>1, PlaceIs, EarlierRecovers
<1> QED BY <1>1, <1>2, <1>3 DEF LiveInv

\* A step that touches neither the table nor the tick.
LEMMA OthersLeaveLive ==
  ASSUME LiveInv, UNCHANGED <<claims, cursor, tickVars, chainVars>>
  PROVE  LiveInv'
BY DEF LiveInv, tickVars, chainVars, ReplayPlace, BatchFrom, Recoverable, LastWord, States,
       Attests, Revokes

\* The head of the chain as a replica reports it, against the cursor.
LEMMA PollLeavesLive ==
  ASSUME ChainInv, LiveInv, FinalityLag >= MaxReorg, NEW h \in Nat, h <= head, PollHead(h)
  PROVE  LiveInv'
<1>0. /\ cursor \in Nat /\ ceiling \in Nat /\ settled \in Nat /\ head \in Nat
      /\ FinalityLag \in Nat /\ MaxReorg \in Nat /\ head <= settled + MaxReorg
  BY ChainAssumption, IngesterAssumption
     DEF ChainInv, LiveInv, ChainAssumption, IngesterAssumption
<1>1. /\ phase = "poll" /\ UNCHANGED <<claims, cursor, batch, top, chainVars>>
      /\ \/ cursor > h /\ phase' = "rollback" /\ ceiling' = h
         \/ phase' = "idle" /\ ceiling' = ceiling
         \/ ~(h - FinalityLag <= cursor) /\ phase' = "fetch" /\ ceiling' = h - FinalityLag
  BY DEF PollHead, SeesReorg
<1>2. CASE cursor > h /\ phase' = "rollback" /\ ceiling' = h
  <2>1. ceiling' \in Nat /\ ceiling' <= cursor
    BY <1>0, <1>2
  <2> QED BY <1>1, <1>2, <2>1, PhaseLeavesLive DEF LiveInv
<1>3. CASE phase' = "idle" /\ ceiling' = ceiling
  BY <1>0, <1>1, <1>3, PhaseLeavesLive DEF LiveInv
<1>4. CASE ~(h - FinalityLag <= cursor) /\ phase' = "fetch" /\ ceiling' = h - FinalityLag
  <2>1. ceiling' \in Nat /\ ceiling' <= settled
    BY <1>0, <1>4
  <2> QED BY <1>1, <1>4, <2>1, PhaseLeavesLive DEF LiveInv
<1> QED BY <1>1, <1>2, <1>3, <1>4

\* reconcile: the rows above the reported head go, then the cursor comes back.
LEMMA RollBackLeavesLive ==
  ASSUME ChainInv, LiveInv, RollBackClaims \/ RollBackCursor
  PROVE  LiveInv'
<1>0. /\ cursor \in Nat /\ ceiling \in Nat /\ settled \in Nat /\ chain \in Seq(Placed)
      /\ Len(chain) \in Nat /\ cursor <= settled /\ claims \in SUBSET Row
  BY DEF ChainInv, LiveInv
<1>1. CASE RollBackClaims
  <2>1. /\ phase = "rollback" /\ phase' = "reset" /\ claims' = DeleteAfter(claims, ceiling)
        /\ UNCHANGED <<ceiling, batch, top, cursor, setup, chain, head, settled, forks>>
    BY <1>1 DEF RollBackClaims, chainVars
  <2>2. ceiling <= cursor
    BY <2>1 DEF LiveInv
  <2>3. PICK n, w : n = Until(chain, ceiling) /\ w = Until(chain, settled)
    OBVIOUS
  <2>4. /\ n \in 0..Len(chain) /\ w \in 0..Len(chain)
        /\ \A i \in 1..Len(chain) : i <= n => chain[i].ledger <= ceiling
        /\ n <= Until(chain, cursor) /\ n <= w
    <3>1. ceiling \in Int /\ cursor \in Int /\ settled \in Int
      BY <1>0
    <3>2. ceiling <= settled
      BY <1>0, <2>2
    <3> QED BY <2>2, <2>3, <3>1, <3>2, ChainUntil
  <2>5. Recoverable(chain, claims, Until(chain, cursor), w)
    <3>1. ReplayPlace = Until(chain, cursor)
      BY <2>1 DEF ReplayPlace
    <3> QED BY <2>3, <3>1 DEF LiveInv
  <2>6. Until(chain, cursor) \in Nat /\ Until(chain, cursor) <= w /\ n \in Nat /\ w \in Nat
    <3>1. ReplayPlace = Until(chain, cursor)
      BY <2>1 DEF ReplayPlace
    <3> QED BY <1>0, <2>3, <2>4, <3>1, PlaceIs
  <2>7. Recoverable(chain, claims, n, w)
    BY <2>4, <2>5, <2>6, EarlierRecovers
  <2>8. \A i \in 1..n : chain[i].ledger <= ceiling
    BY <1>0, <2>4
  <2>9. Recoverable(chain, claims', n, w)
    BY <2>1, <2>6, <2>7, <2>8, DeletedRecover
  <2>10. ReplayPlace' = n
    BY <2>1, <2>3 DEF ReplayPlace
  <2>11. claims' \in SUBSET Row
    BY <1>0, <2>1 DEF DeleteAfter
  <2>12. Recoverable(chain', claims', ReplayPlace', Until(chain', settled'))
    BY <2>1, <2>3, <2>9, <2>10
  <2> QED BY <2>1, <2>2, <2>11, <2>12 DEF LiveInv
<1>2. CASE RollBackCursor
  <2>1. /\ phase = "reset" /\ phase' = "idle" /\ cursor' = ceiling
        /\ UNCHANGED <<ceiling, batch, top, claims, setup, chain, head, settled, forks>>
    BY <1>2 DEF RollBackCursor, chainVars
  <2>2. ceiling <= settled
    BY <1>0, <2>1 DEF LiveInv
  <2>3. ReplayPlace' = ReplayPlace
    BY <2>1 DEF ReplayPlace
  <2>4. Recoverable(chain', claims', ReplayPlace', Until(chain', settled'))
    BY <2>1, <2>3 DEF LiveInv
  <2> QED BY <1>0, <2>1, <2>2, <2>4 DEF LiveInv
<1> QED BY <1>1, <1>2

\* What a page brings below the ceiling is all there is from the cursor to `top`.
LEMMA FetchLeavesLive ==
  ASSUME ChainInv, LiveInv, WholePages, FetchEvents
  PROVE  /\ LiveInv'
         /\ phase' = "apply" => BatchFrom' = Until(chain, cursor) /\ top' <= ceiling
<1>0. /\ cursor \in Nat /\ ceiling \in Nat /\ settled \in Nat /\ chain \in Seq(Placed)
      /\ Len(chain) \in Nat /\ PageLimit \in Nat \ {0} /\ Ordered(chain)
      /\ \A i \in 1..Len(chain) : chain[i].ledger \in Nat
  <2>1. head \in Nat /\ \A i \in 1..Len(chain) : chain[i].ledger \in 1..head
    BY DEF ChainInv
  <2> QED BY <2>1, IngesterAssumption DEF ChainInv, LiveInv, IngesterAssumption
<1>1. PICK past, hi : past = Until(chain, cursor) /\ hi = Smaller(past + PageLimit, Len(chain))
  OBVIOUS
<1>2. /\ past \in 0..Len(chain)
      /\ \A i \in 1..Len(chain) : i <= past <=> chain[i].ledger <= cursor
  <2>1. cursor \in Int
    BY <1>0
  <2> QED BY <1>1, <2>1, ChainUntil
<1>3. /\ past \in Nat /\ hi \in Nat /\ past <= hi /\ hi <= Len(chain)
      /\ hi < Len(chain) => hi = past + PageLimit
  BY <1>0, <1>1, <1>2 DEF Smaller
<1>4. PICK pg : pg = Page(cursor)
  OBVIOUS
<1>5. /\ pg \in Seq(Placed) /\ Len(pg) = hi - past
      /\ \A j \in 1..Len(pg) : pg[j] = chain[past + j] /\ past + j \in 1..Len(chain)
  <2>1. pg = SubSeq(chain, past + 1, hi)
    BY <1>1, <1>4 DEF Page
  <2>2. /\ pg \in Seq(Placed)
        /\ Len(pg) = (IF past + 1 <= hi THEN hi - (past + 1) + 1 ELSE 0)
        /\ \A j \in 1..(hi - (past + 1) + 1) : pg[j] = chain[(past + 1) + j - 1]
    BY <1>0, <1>3, <2>1, SubSeqProperties
  <2>3. Len(pg) = hi - past
    BY <1>3, <2>2
  <2>4. ASSUME NEW j \in 1..Len(pg) PROVE pg[j] = chain[past + j] /\ past + j \in 1..Len(chain)
    <3>1. j \in 1..(hi - (past + 1) + 1) /\ (past + 1) + j - 1 = past + j
      BY <1>3, <2>3
    <3> QED BY <1>0, <1>3, <2>2, <2>3, <3>1
  <2> QED BY <2>2, <2>3, <2>4
<1>6. Ordered(pg) /\ \A j \in 1..Len(pg) : pg[j].ledger \in Nat
  <2>1. \A j \in 1..Len(pg) : pg[j].ledger \in Nat
    BY <1>0, <1>5
  <2>2. ASSUME NEW i \in 1..Len(pg), NEW j \in 1..Len(pg), i <= j
        PROVE  pg[i].ledger <= pg[j].ledger
    <3>1. /\ pg[i] = chain[past + i] /\ past + i \in 1..Len(chain)
          /\ pg[j] = chain[past + j] /\ past + j \in 1..Len(chain)
      BY <1>5
    <3>2. past + i <= past + j
      BY <1>3, <2>2
    <3> QED BY <1>0, <3>1, <3>2 DEF Ordered
  <2> QED BY <2>1, <2>2 DEF Ordered
<1>7. PICK q : q = Until(pg, ceiling)
  OBVIOUS
<1>8. q \in 0..Len(pg) /\ \A j \in 1..Len(pg) : j <= q <=> pg[j].ledger <= ceiling
  <2>1. ceiling \in Int
    BY <1>0
  <2> QED BY <1>5, <1>6, <1>7, <2>1, UntilIs
<1>9. PICK events : events = Final(Page(cursor))
  OBVIOUS
<1>10. /\ events \in Seq(Placed) /\ Len(events) = q
       /\ \A j \in 1..q : events[j] = pg[j]
  <2>1. events = SubSeq(pg, 1, q)
    BY <1>4, <1>7, <1>9 DEF Final, UpTo
  <2> QED BY <1>5, <1>8, <2>1
<1>11. q \in Nat /\ q <= hi - past /\ \A j \in 1..q : j \in 1..Len(pg) /\ events[j] = chain[past + j]
  <2>1. q \in Nat /\ q <= Len(pg) /\ Len(pg) = hi - past /\ Len(pg) \in Nat
    BY <1>3, <1>5, <1>8
  <2>2. \A j \in 1..q : j \in 1..Len(pg)
    BY <2>1
  <2> QED BY <1>5, <1>10, <2>1, <2>2
<1>12. /\ phase = "fetch" /\ batch' = events
       /\ top' = IF events = <<>> THEN cursor ELSE events[Len(events)].ledger
       /\ phase' = IF events = <<>> THEN "idle" ELSE "apply"
       /\ UNCHANGED <<ceiling, claims, cursor, chainVars>>
  BY <1>9 DEF FetchEvents
<1>13. UNCHANGED <<setup, chain, head, settled, forks>>
  BY <1>12 DEF chainVars
<1>14. CASE events = <<>>
  <2>1. LiveInv'
    BY <1>0, <1>10, <1>12, <1>14, PhaseLeavesLive
  <2> QED BY <1>12, <1>14, <2>1
<1>15. CASE events # <<>>
  <2>1. q # 0 /\ q \in 1..q
    BY <1>10, <1>11, <1>15
  <2>2. top' = chain[past + q].ledger /\ past + q \in 1..Len(chain) /\ top' <= ceiling /\ top' \in Nat
    <3>1. top' = events[q].ledger
      BY <1>10, <1>12, <1>15
    <3>2. q \in 1..Len(pg) /\ events[q] = chain[past + q] /\ events[q] = pg[q]
      BY <1>10, <1>11, <2>1
    <3>3. past + q \in 1..Len(chain)
      BY <1>5, <3>2
    <3>4. pg[q].ledger <= ceiling
      BY <1>8, <1>11, <3>2
    <3> QED BY <1>0, <3>1, <3>2, <3>3, <3>4
  <2>3. \A i \in 1..Len(chain) : i <= past + q <=> chain[i].ledger <= top'
    <3>1. ASSUME NEW i \in 1..Len(chain), i <= past + q PROVE chain[i].ledger <= top'
      BY <1>0, <2>2, <3>1 DEF Ordered
    <3>2. ASSUME NEW i \in 1..Len(chain), ~(i <= past + q) PROVE top' < chain[i].ledger
      <4>1. PICK z : z = past + q + 1
        OBVIOUS
      <4>2. z \in 1..Len(chain) /\ z <= i
        BY <1>0, <1>3, <1>11, <2>2, <3>2, <4>1
      <4>3. chain[z].ledger <= chain[i].ledger
        BY <1>0, <3>2, <4>2 DEF Ordered
      <4>4. top' < chain[z].ledger
        <5>1. CASE q < Len(pg)
          <6>1. q + 1 \in 1..Len(pg) /\ past + (q + 1) = z
            BY <1>3, <1>5, <1>11, <4>1, <5>1
          <6>2. ~(pg[q + 1].ledger <= ceiling) /\ pg[q + 1] = chain[z]
            BY <1>5, <1>8, <1>11, <6>1
          <6> QED BY <1>0, <2>2, <4>2, <6>2
        <5>2. CASE q = Len(pg)
          <6>1. past + q = hi /\ hi < Len(chain)
            BY <1>0, <1>3, <1>5, <1>11, <4>1, <4>2, <5>2
          <6>2. past + q = Until(chain, cursor) + PageLimit /\ hi = past + PageLimit
            BY <1>1, <1>3, <6>1
          <6>3. chain[hi].ledger < chain[hi + 1].ledger
            BY <1>1, <1>12, <2>2, <6>1, <6>2 DEF WholePages
          <6> QED BY <2>2, <4>1, <6>1, <6>3
        <5> QED BY <1>5, <1>8, <1>11, <5>1, <5>2
      <4> QED BY <1>0, <2>2, <4>2, <4>3, <4>4
    <3> QED BY <1>0, <2>2, <3>1, <3>2
  <2>4. Until(chain, top') = past + q
    <3>1. past + q \in 0..Len(chain) /\ top' \in Int
      BY <1>0, <2>2
    <3> QED BY <1>0, <2>3, <3>1, UntilAt
  <2>5. cursor <= top' /\ top' <= settled
    <3>1. ceiling <= settled
      BY <1>12 DEF LiveInv
    <3>2. ~(past + q <= past)
      BY <1>3, <1>11, <2>1
    <3>3. ~(chain[past + q].ledger <= cursor)
      BY <1>2, <2>2, <3>2
    <3> QED BY <1>0, <2>2, <3>1, <3>3
  <2>6. BatchFrom' = past
    <3>1. BatchFrom' = Until(chain, top') - q
      BY <1>10, <1>12, <1>13 DEF BatchFrom
    <3> QED BY <1>3, <1>11, <2>4, <3>1
  <2>7. phase' = "apply" /\ ReplayPlace' = past /\ ReplayPlace = past
    BY <1>1, <1>12, <1>15, <2>6 DEF ReplayPlace
  <2>8. Recoverable(chain', claims', ReplayPlace', Until(chain', settled'))
    BY <1>12, <1>13, <2>7 DEF LiveInv
  <2>9. \A j \in 1..Len(batch') : batch'[j] = chain'[BatchFrom' + j]
    BY <1>10, <1>11, <1>12, <1>13, <2>6
  <2>10. Until(chain', cursor') <= BatchFrom'
    BY <1>1, <1>3, <1>12, <1>13, <2>6
  <2>11. claims' \in SUBSET Row /\ cursor' \in Nat /\ ceiling' \in Nat /\ top' \in Nat
         /\ batch' \in Seq(Placed) /\ cursor' <= settled'
    BY <1>10, <1>12, <1>13, <2>2 DEF LiveInv
  <2>12. LiveInv'
    BY <1>12, <1>13, <2>5, <2>7, <2>8, <2>9, <2>10, <2>11 DEF LiveInv
  <2> QED BY <1>1, <2>2, <2>6, <2>12
<1> QED BY <1>14, <1>15

\* Events make rows.
LEMMA ApplyEventType ==
  ASSUME NEW t \in SUBSET Row, NEW e \in Placed
  PROVE  ApplyEvent(t, e) \in SUBSET Row
<1>1. Upsert(t, e) \in SUBSET Row
  <2>1. e.key \in Keys /\ e.ledger \in Nat /\ e.expiry \in Nat
    BY DEF Placed
  <2>2. [key |-> e.key, ledger |-> e.ledger, expiry |-> e.expiry, revoked |-> FALSE] \in Row
    BY <2>1 DEF Row
  <2> QED BY <2>2 DEF Upsert
<1>2. MarkRevoked(t, e.key) \in SUBSET Row
  <2>1. \A r \in t : [r EXCEPT !.revoked = TRUE] \in Row
    BY DEF Row
  <2> QED BY <2>1 DEF MarkRevoked
<1> QED BY <1>1, <1>2 DEF ApplyEvent

\* One event of the batch written, and its webhook enqueued.
LEMMA WriteLeavesLive ==
  ASSUME ChainInv, LiveInv, WriteEvent \/ EnqueueRevocation
  PROVE  LiveInv'
<1>0. /\ chain \in Seq(Placed) /\ claims \in SUBSET Row /\ batch \in Seq(Placed)
      /\ phase \in {"apply", "enqueue"} /\ batch # <<>>
      /\ UNCHANGED <<ceiling, top, cursor, setup, chain, head, settled, forks>>
      /\ settled \in Nat /\ cursor \in Nat /\ ceiling \in Nat /\ top \in Nat
  BY DEF ChainInv, LiveInv, WriteEvent, EnqueueRevocation, chainVars
<1>1. /\ cursor <= top /\ top <= settled /\ cursor <= settled /\ Until(chain, cursor) <= BatchFrom
      /\ \A j \in 1..Len(batch) : batch[j] = chain[BatchFrom + j]
  BY <1>0 DEF LiveInv
<1>2. PICK b, w, n : b = BatchFrom /\ w = Until(chain, settled) /\ n = Len(batch)
  OBVIOUS
<1>3. /\ b \in Nat /\ w \in Nat /\ n \in Nat /\ n # 0 /\ b + n <= w
      /\ Until(chain, cursor) \in Nat
  BY <1>0, <1>2, PlaceIs
<1>4. /\ Head(batch) = chain[b + 1] /\ Tail(batch) \in Seq(Placed) /\ Head(batch) \in Placed
      /\ Len(Tail(batch)) = n - 1
      /\ \A j \in 1..Len(Tail(batch)) : Tail(batch)[j] = chain[(b + 1) + j]
  <2>1. /\ Tail(batch) \in Seq(Placed) /\ Head(batch) \in Placed
        /\ Len(Tail(batch)) = n - 1
        /\ \A j \in 1..Len(Tail(batch)) : Tail(batch)[j] = batch[j + 1]
    BY <1>0, <1>2, HeadTailProperties
  <2>2. Head(batch) = batch[1] /\ 1 \in 1..Len(batch)
    BY <1>0, <1>2, <1>3
  <2>3. ASSUME NEW j \in 1..Len(Tail(batch)) PROVE Tail(batch)[j] = chain[(b + 1) + j]
    <3>1. j + 1 \in 1..Len(batch) /\ b + (j + 1) = (b + 1) + j
      BY <1>2, <1>3, <2>1
    <3> QED BY <1>1, <1>2, <2>1, <3>1
  <2> QED BY <1>1, <1>2, <2>1, <2>2, <2>3
<1>5. batch' = Tail(batch) => BatchFrom' = b + 1
  <2> SUFFICES ASSUME batch' = Tail(batch) PROVE BatchFrom' = b + 1
    OBVIOUS
  <2>1. BatchFrom' = Until(chain, top) - (n - 1)
    BY <1>0, <1>4 DEF BatchFrom
  <2>2. b = Until(chain, top) - n /\ Until(chain, top) \in Int
    <3>1. top \in Int
      BY <1>0
    <3>2. Until(chain, top) \in 0..Len(chain)
      BY <3>1, ChainUntil
    <3> QED BY <1>0, <1>2, <3>2 DEF BatchFrom
  <2> QED BY <1>3, <2>1, <2>2
<1>6. CASE WriteEvent
  <2>1. /\ phase = "apply" /\ claims' = ApplyEvent(claims, chain[b + 1])
        /\ \/ phase' = "enqueue" /\ batch' = batch
           \/ phase' = "apply" /\ batch' = Tail(batch)
    BY <1>4, <1>6 DEF WriteEvent
  <2>2. ReplayPlace = b /\ Recoverable(chain, claims, b, w)
    <3>1. ReplayPlace = b
      BY <1>2, <2>1 DEF ReplayPlace
    <3> QED BY <1>2, <3>1 DEF LiveInv
  <2>3. b < w
    BY <1>3
  <2>4. Recoverable(chain, claims', b + 1, w)
    BY <1>0, <1>3, <2>1, <2>2, <2>3, AppliedRecovers
  <2>5. claims' \in SUBSET Row
    BY <1>0, <1>4, <2>1, ApplyEventType
  <2>6. CASE phase' = "enqueue" /\ batch' = batch
    <3>1. BatchFrom' = b
      BY <1>0, <1>2, <2>6 DEF BatchFrom
    <3>2. ReplayPlace' = b + 1
      BY <2>6, <3>1 DEF ReplayPlace
    <3>3. Recoverable(chain', claims', ReplayPlace', Until(chain', settled'))
      BY <1>0, <1>2, <2>4, <3>2
    <3>4. \A j \in 1..Len(batch') : batch'[j] = chain'[BatchFrom' + j]
      BY <1>0, <1>1, <1>2, <2>6, <3>1
    <3>5. Until(chain', cursor') <= BatchFrom'
      BY <1>0, <1>1, <1>2, <3>1
    <3> QED BY <1>0, <1>1, <2>5, <2>6, <3>3, <3>4, <3>5 DEF LiveInv
  <2>7. CASE phase' = "apply" /\ batch' = Tail(batch)
    <3>1. BatchFrom' = b + 1
      BY <1>5, <2>7
    <3>2. ReplayPlace' = b + 1
      BY <2>7, <3>1 DEF ReplayPlace
    <3>3. Recoverable(chain', claims', ReplayPlace', Until(chain', settled'))
      BY <1>0, <1>2, <2>4, <3>2
    <3>4. \A j \in 1..Len(batch') : batch'[j] = chain'[BatchFrom' + j]
      BY <1>0, <1>4, <2>7, <3>1
    <3>5. Until(chain', cursor') <= BatchFrom'
      <4>1. Until(chain, cursor) <= b + 1
        BY <1>1, <1>2, <1>3
      <4> QED BY <1>0, <3>1, <4>1
    <3> QED BY <1>0, <1>1, <1>4, <2>5, <2>7, <3>3, <3>4, <3>5 DEF LiveInv
  <2> QED BY <2>1, <2>6, <2>7
<1>7. CASE EnqueueRevocation
  <2>1. phase = "enqueue" /\ phase' = "apply" /\ batch' = Tail(batch) /\ claims' = claims
    BY <1>7 DEF EnqueueRevocation
  <2>2. BatchFrom' = b + 1
    BY <1>5, <2>1
  <2>3. ReplayPlace' = b + 1 /\ ReplayPlace = b + 1
    BY <1>2, <2>1, <2>2 DEF ReplayPlace
  <2>4. Recoverable(chain', claims', ReplayPlace', Until(chain', settled'))
    BY <1>0, <2>1, <2>3 DEF LiveInv
  <2>5. \A j \in 1..Len(batch') : batch'[j] = chain'[BatchFrom' + j]
    BY <1>0, <1>4, <2>1, <2>2
  <2>6. Until(chain', cursor') <= BatchFrom'
    <3>1. Until(chain, cursor) <= b + 1
      BY <1>1, <1>2, <1>3
    <3> QED BY <1>0, <2>2, <3>1
  <2> QED BY <1>0, <1>1, <1>4, <2>1, <2>4, <2>5, <2>6 DEF LiveInv
<1> QED BY <1>6, <1>7

\* The cursor moves once the batch is written.
LEMMA SaveLeavesLive ==
  ASSUME ChainInv, LiveInv, SaveCursor
  PROVE  LiveInv'
<1>0. /\ cursor \in Nat /\ ceiling \in Nat /\ top \in Nat /\ settled \in Nat
      /\ chain \in Seq(Placed) /\ Len(chain) \in Nat
  BY DEF ChainInv, LiveInv
<1>1. /\ phase = "apply" /\ batch = <<>> /\ cursor' = Larger(cursor, top)
      /\ phase' \in {"after", "idle"}
      /\ UNCHANGED <<ceiling, batch, top, claims, setup, chain, head, settled, forks>>
  BY DEF SaveCursor, Advanced, ProcessWebhookQueue, chainVars
<1>2. cursor <= top /\ top <= settled
  BY <1>1 DEF LiveInv
<1>3. cursor' = top
  BY <1>0, <1>1, <1>2 DEF Larger
<1>4. ReplayPlace' = ReplayPlace
  <2>1. Until(chain, top) \in Int
    <3>1. top \in Int
      BY <1>0
    <3>2. Until(chain, top) \in 0..Len(chain)
      BY <3>1, ChainUntil
    <3> QED BY <1>0, <3>2
  <2>2. Len(batch) = 0
    BY <1>1
  <2>3. ReplayPlace = Until(chain, top) - Len(batch)
    BY <1>1 DEF ReplayPlace, BatchFrom
  <2>4. ReplayPlace' = Until(chain, top)
    BY <1>1, <1>3 DEF ReplayPlace
  <2> QED BY <2>1, <2>2, <2>3, <2>4
<1>5. Recoverable(chain', claims', ReplayPlace', Until(chain', settled'))
  BY <1>1, <1>4 DEF LiveInv
<1> QED BY <1>0, <1>1, <1>2, <1>3, <1>5 DEF LiveInv

\* Every step of the service preserves the invariant.
LEMMA LiveStep ==
  ASSUME FinalityLag >= MaxReorg, ~CrashDuringRollback,
         ChainInv, LiveInv, WholePages, IndexerNext
  PROVE  LiveInv'
<1>0. /\ cursor \in Nat /\ ceiling \in Nat /\ top \in Nat /\ batch \in Seq(Placed)
      /\ head \in Nat /\ settled \in Nat /\ MaxStale \in Nat
  BY ChainAssumption DEF ChainInv, LiveInv, ChainAssumption
<1>1. CASE TickStarts \/ QueueProcessed \/ PollFails \/ FetchFails
  <2>1. /\ phase # "reset" /\ phase' \in {"before", "poll", "idle"}
        /\ UNCHANGED <<claims, cursor, chainVars, ceiling, top, batch>>
    BY <1>1 DEF TickStarts, ProcessWebhookQueue, QueueProcessed, PollFails, FetchFails
  <2> QED BY <1>0, <2>1, PhaseLeavesLive
<1>2. CASE Crash
  <2>1. /\ phase # "reset" /\ phase' = "idle" /\ ceiling' = 0 /\ top' = 0 /\ batch' = <<>>
        /\ UNCHANGED <<claims, cursor, chainVars>>
    BY <1>2 DEF Crash
  <2> QED BY <2>1, PhaseLeavesLive
<1>3. CASE \E h \in ReplicaHeads \cup {head} : PollHead(h)
  <2>1. \A h \in ReplicaHeads \cup {head} : h \in Nat /\ h <= head
    BY <1>0 DEF ReplicaHeads, Larger
  <2> QED BY <1>3, <2>1, PollLeavesLive
<1>4. CASE RollBackClaims \/ RollBackCursor
  BY <1>4, RollBackLeavesLive
<1>5. CASE FetchEvents
  BY <1>5, FetchLeavesLive
<1>6. CASE WriteEvent \/ EnqueueRevocation
  BY <1>6, WriteLeavesLive
<1>7. CASE SaveCursor
  BY <1>7, SaveLeavesLive
<1>8. CASE LedgerCloses /\ UNCHANGED ingesterVars
  <2>1. settled \in Int /\ head \in Int /\ settled <= head
    BY <1>0 DEF ChainInv
  <2>2. /\ ChainInv' /\ settled <= settled'
        /\ \A i \in 1..Len(chain) : chain'[i] = chain[i]
        /\ \A n \in Int : n <= head => Until(chain', n) = Until(chain, n)
    BY <1>8, LedgerClosesMoves
  <2>3. \A n \in Int : n <= settled => Until(chain', n) = Until(chain, n)
    BY <2>1, <2>2
  <2>4. \A i \in 1..Until(chain, settled) : chain'[i] = chain[i]
    <3>1. Until(chain, settled) \in 0..Len(chain) /\ Len(chain) \in Nat
      BY <2>1, ChainUntil DEF ChainInv
    <3> QED BY <2>2, <3>1
  <2> QED BY <1>8, <2>2, <2>3, <2>4, ChainLeavesLive
<1>9. CASE Fork /\ UNCHANGED ingesterVars
  <2>1. /\ ChainInv' /\ settled' = settled
        /\ \A n \in Int : n <= settled => Until(chain', n) = Until(chain, n)
        /\ \A i \in 1..Until(chain, settled) : chain'[i] = chain[i]
    BY <1>9, ForkMoves
  <2>2. settled <= settled'
    BY <1>0, <2>1
  <2> QED BY <1>9, <2>1, <2>2, ChainLeavesLive
<1>10. CASE UNCHANGED <<claims, cursor, tickVars, chainVars>>
  BY <1>10, OthersLeaveLive
<1>11. Tick => \/ TickStarts \/ QueueProcessed \/ PollHead(head) \/ RollBackClaims
               \/ RollBackCursor \/ FetchEvents \/ WriteEvent \/ EnqueueRevocation
               \/ SaveCursor
  BY DEF Tick
<1>12. Deliver => UNCHANGED claims
  BY DEF Deliver, EnqueueExpired, SelectPending, EndpointAnswers, RecordDelivered, QueueDone
<1>13. (\E d \in deliveries : BackoffElapses(Id(d))) \/ ClockAdvances => UNCHANGED claims
  BY DEF BackoffElapses, ClockAdvances
<1>14. /\ (\E id \in sending : RecordFailure(id)) => UNCHANGED claims
       /\ (\E id \in answered : RecordLost(id)) => UNCHANGED claims
  BY DEF RecordFailure, RecordLost
<1>15. CASE Tick
  BY <1>1, <1>3, <1>4, <1>5, <1>6, <1>7, <1>11, <1>15
<1>16. CASE \/ Outside(UNCHANGED faults /\ Deliver)
            \/ Outside(UNCHANGED faults /\ \E d \in deliveries : BackoffElapses(Id(d)))
            \/ Outside(UNCHANGED faults /\ ClockAdvances)
            \/ Refusal
            \/ Outside(Fault /\ \E id \in answered : RecordLost(id))
  <2>1. UNCHANGED <<claims, cursor, tickVars, chainVars>>
    BY <1>12, <1>13, <1>14, <1>16 DEF Outside, Refusal
  <2> QED BY <1>10, <2>1
<1>17. CASE Environment
  <2>1. \/ LedgerCloses /\ UNCHANGED ingesterVars
        \/ Fork /\ UNCHANGED ingesterVars
        \/ UNCHANGED <<ingesterVars, chainVars>>
    BY <1>17 DEF Environment
  <2> QED BY <1>8, <1>9, <1>10, <2>1 DEF ingesterVars
<1>18. CASE Faults
  BY <1>1, <1>2, <1>3, <1>16, <1>18 DEF Faults
<1> QED BY <1>15, <1>16, <1>17, <1>18 DEF IndexerNext

\* Where the range of the last checkpoint ends
RangeEnd == Until(chain, checkpoint.to)

BackfillPlace == IF job.running THEN job.at ELSE checkpoint.at

BackInv ==
    /\ claims \in SUBSET Row /\ cursor = 0 /\ phase = "idle"
    /\ checkpoint \in [done: BOOLEAN, from: Nat, to: Nat, at: Nat]
    /\ job \in [running: BOOLEAN, from: Nat, to: Nat, at: Nat]
    /\ page \in [fetched: BOOLEAN, left: Seq(Placed), short: BOOLEAN]
    /\ checkpoint.to <= head /\ checkpoint.at <= RangeEnd
    /\ checkpoint.done => checkpoint.at = RangeEnd
    /\ job.running =>
          job.to = checkpoint.to /\ checkpoint.at <= job.at /\ job.at <= RangeEnd
    /\ job.running /\ page.fetched =>
          /\ job.at + Len(page.left) <= Len(chain)
          /\ \A j \in 1..Len(page.left) : page.left[j] = chain[job.at + j]
          /\ page.short => job.at + Len(page.left) >= RangeEnd
    /\ \A r \in claims : Attests(chain, 0, Len(chain), r.key)
    /\ ~setup.overlap => Recoverable(chain, claims, BackfillPlace, RangeEnd)

\* Ledgers that close leave a range that ended below them what it is.
LEMMA ClosingLeavesBackfill ==
  ASSUME ChainInv, BackInv, LedgerCloses,
         UNCHANGED <<claims, cursor, phase, checkpoint, job, page>>
  PROVE  BackInv'
<1>0. /\ chain \in Seq(Placed) /\ Len(chain) \in Nat /\ head \in Nat
      /\ checkpoint.to \in Nat /\ checkpoint.to <= head
      /\ checkpoint.at \in Nat /\ job.at \in Nat /\ page.left \in Seq(Placed)
      /\ checkpoint.at <= RangeEnd /\ (job.running => job.at <= RangeEnd)
  BY DEF ChainInv, BackInv
<1>1. /\ head <= head' /\ Len(chain) <= Len(chain') /\ Len(chain') \in Nat
      /\ \A i \in 1..Len(chain) : chain'[i] = chain[i]
      /\ \A n \in Int : n <= head => Until(chain', n) = Until(chain, n)
      /\ head' \in Nat
  BY LedgerClosesMoves DEF ChainInv
<1>2. setup' = setup
  BY DEF LedgerCloses
<1>3. RangeEnd' = RangeEnd /\ RangeEnd \in 0..Len(chain)
  <2>1. checkpoint.to \in Int
    BY <1>0
  <2> QED BY <1>0, <1>1, <2>1, ChainUntil DEF RangeEnd
<1>4. BackfillPlace' = BackfillPlace /\ BackfillPlace \in Nat /\ BackfillPlace <= RangeEnd
  BY <1>0 DEF BackfillPlace
<1>5. ~setup.overlap => Recoverable(chain', claims, BackfillPlace, RangeEnd)
  <2>1. \A i \in 1..RangeEnd : chain'[i] = chain[i]
    BY <1>0, <1>1, <1>3
  <2>2. RangeEnd \in Nat
    BY <1>0, <1>3
  <2>3. ~setup.overlap => Recoverable(chain, claims, BackfillPlace, RangeEnd)
    BY DEF BackInv
  <2> QED BY <1>4, <2>1, <2>2, <2>3, SameEventsRecover
<1>6. \A r \in claims : Attests(chain', 0, Len(chain'), r.key)
  <2> SUFFICES ASSUME NEW r \in claims PROVE Attests(chain', 0, Len(chain'), r.key)
    OBVIOUS
  <2>1. PICK i \in (0 + 1)..Len(chain) : Kind(chain[i]) = "verified" /\ chain[i].key = r.key
    BY DEF BackInv, Attests
  <2>2. i \in (0 + 1)..Len(chain') /\ chain'[i] = chain[i]
    BY <1>0, <1>1
  <2> QED BY <2>1, <2>2 DEF Attests
<1>7. job.running /\ page.fetched =>
          /\ job.at + Len(page.left) <= Len(chain')
          /\ \A j \in 1..Len(page.left) : page.left[j] = chain'[job.at + j]
          /\ page.short => job.at + Len(page.left) >= RangeEnd
  <2> SUFFICES ASSUME job.running, page.fetched
               PROVE  /\ job.at + Len(page.left) <= Len(chain')
                      /\ \A j \in 1..Len(page.left) : page.left[j] = chain'[job.at + j]
                      /\ page.short => job.at + Len(page.left) >= RangeEnd
    OBVIOUS
  <2>1. /\ job.at + Len(page.left) <= Len(chain)
        /\ \A j \in 1..Len(page.left) : page.left[j] = chain[job.at + j]
        /\ page.short => job.at + Len(page.left) >= RangeEnd
    BY DEF BackInv
  <2>2. Len(page.left) \in Nat
    BY <1>0
  <2>3. \A j \in 1..Len(page.left) : job.at + j \in 1..Len(chain)
    BY <1>0, <2>1, <2>2
  <2>4. job.at + Len(page.left) <= Len(chain')
    BY <1>0, <1>1, <2>1, <2>2
  <2> QED BY <1>1, <2>1, <2>3, <2>4
<1>8. checkpoint.to <= head'
  BY <1>0, <1>1
<1> QED BY <1>2, <1>3, <1>4, <1>5, <1>6, <1>7, <1>8 DEF BackInv

\* A range begins where the operator says, or goes on from its checkpoint.
LEMMA BeginningKeepsBackfill ==
  ASSUME ChainInv, BackInv,
         \/ \E from \in OperatorRanges, to \in 1..head : StartBackfill(from, to)
         \/ ResumeBackfill
  PROVE  BackInv'
<1>0. /\ chain \in Seq(Placed) /\ Len(chain) \in Nat /\ head \in Nat
      /\ checkpoint \in [done: BOOLEAN, from: Nat, to: Nat, at: Nat]
      /\ checkpoint.to \in Nat /\ checkpoint.at \in Nat /\ checkpoint.from \in Nat
      /\ checkpoint.at <= RangeEnd
  BY DEF ChainInv, BackInv
<1>1. /\ UNCHANGED <<claims, cursor, phase, setup, chain, head>> /\ page' = NoPage
      /\ ~job.running
  BY DEF StartBackfill, ResumeBackfill, indexerVars, ingesterVars, tickVars, chainVars,
         NoJob, Job, NoFile
<1>2. page' \in [fetched: BOOLEAN, left: Seq(Placed), short: BOOLEAN] /\ ~page'.fetched
  BY <1>1 DEF NoPage
<1>3. CASE ResumeBackfill
  <2>1. job' = Job(checkpoint, TRUE) /\ checkpoint' = checkpoint
    BY <1>3 DEF ResumeBackfill
  <2>2. /\ job' \in [running: BOOLEAN, from: Nat, to: Nat, at: Nat]
        /\ job'.running /\ job'.to = checkpoint.to /\ job'.at = checkpoint.at
    BY <1>0, <2>1 DEF Job
  <2>3. BackfillPlace' = BackfillPlace /\ RangeEnd' = RangeEnd
    BY <1>1, <2>1, <2>2 DEF BackfillPlace, RangeEnd
  <2>4. ~setup'.overlap => Recoverable(chain', claims', BackfillPlace', RangeEnd')
    BY <1>1, <2>3 DEF BackInv
  <2>5. /\ checkpoint.at <= checkpoint.at
        /\ checkpoint.to <= head /\ (checkpoint.done => checkpoint.at = RangeEnd)
    BY <1>0 DEF BackInv
  <2>6. job'.running => job'.to = checkpoint'.to /\ checkpoint'.at <= job'.at /\ job'.at <= RangeEnd'
    BY <1>0, <2>1, <2>2, <2>3, <2>5
  <2>7. /\ checkpoint' \in [done: BOOLEAN, from: Nat, to: Nat, at: Nat]
        /\ checkpoint'.to <= head' /\ checkpoint'.at <= RangeEnd'
        /\ checkpoint'.done => checkpoint'.at = RangeEnd'
    BY <1>0, <1>1, <2>1, <2>3, <2>5
  <2>8. /\ claims' \in SUBSET Row /\ cursor' = 0 /\ phase' = "idle"
        /\ \A r \in claims' : Attests(chain', 0, Len(chain'), r.key)
    BY <1>1 DEF BackInv
  <2> QED BY <1>2, <2>2, <2>4, <2>6, <2>7, <2>8 DEF BackInv
<1>4. CASE \E from \in OperatorRanges, to \in 1..head : StartBackfill(from, to)
  <2>1. PICK from \in OperatorRanges, to \in 1..head : StartBackfill(from, to)
    BY <1>4
  <2>2. PICK begin : begin = Until(chain, from - 1)
    OBVIOUS
  <2>3. /\ checkpoint.done /\ from <= to
        /\ checkpoint' = [done |-> FALSE, from |-> from, to |-> to, at |-> begin]
        /\ job' = Job(checkpoint', TRUE)
    BY <2>1, <2>2 DEF StartBackfill
  <2>4. from \in Nat /\ to \in Nat /\ to <= head
        /\ (~setup.overlap => from = checkpoint.to + 1)
    BY <1>0, <2>1 DEF OperatorRanges
  <2>5. begin \in Nat /\ begin <= Until(chain, to) /\ Until(chain, to) \in Nat
    <3>1. from - 1 \in Int /\ to \in Int /\ from - 1 <= to
      BY <2>3, <2>4
    <3>2. begin \in 0..Len(chain) /\ begin <= Until(chain, to) /\ Until(chain, to) \in 0..Len(chain)
      BY <2>2, <3>1, ChainUntil
    <3> QED BY <1>0, <3>2
  <2>6. /\ checkpoint' \in [done: BOOLEAN, from: Nat, to: Nat, at: Nat]
        /\ ~checkpoint'.done /\ checkpoint'.to = to /\ checkpoint'.at = begin
    BY <2>3, <2>4, <2>5
  <2>7. /\ job' \in [running: BOOLEAN, from: Nat, to: Nat, at: Nat]
        /\ job'.running /\ job'.to = to /\ job'.at = begin
    BY <2>3, <2>4, <2>5 DEF Job
  <2>8. BackfillPlace' = begin /\ RangeEnd' = Until(chain, to)
    BY <1>1, <2>6, <2>7 DEF BackfillPlace, RangeEnd
  <2>9. ~setup.overlap => Recoverable(chain, claims, begin, Until(chain, to))
    <3> SUFFICES ASSUME ~setup.overlap PROVE Recoverable(chain, claims, begin, Until(chain, to))
      OBVIOUS
    <3>1. from - 1 = checkpoint.to
      BY <1>0, <2>4
    <3>2. begin = RangeEnd /\ checkpoint.at = RangeEnd
      BY <2>2, <2>3, <3>1 DEF BackInv, RangeEnd
    <3>3. BackfillPlace = begin
      BY <1>1, <3>2 DEF BackfillPlace
    <3>4. Recoverable(chain, claims, begin, begin)
      BY <3>2, <3>3 DEF BackInv
    <3>5. begin <= begin
      BY <2>5
    <3> QED BY <2>5, <3>4, <3>5, LaterRecovers
  <2>10. begin <= begin
    BY <2>5
  <2> QED BY <1>1, <1>2, <2>4, <2>5, <2>6, <2>7, <2>8, <2>9, <2>10 DEF BackInv
<1> QED BY <1>3, <1>4

\* A page is what the chain has next after the run's token.
LEMMA FetchKeepsBackfill ==
  ASSUME ChainInv, BackInv, FetchBatch
  PROVE  BackInv'
<1>0. /\ chain \in Seq(Placed) /\ Len(chain) \in Nat /\ BatchSize \in Nat \ {0}
      /\ job.running /\ job.at \in Nat /\ job.at <= RangeEnd /\ checkpoint.to \in Nat
  BY BackfillAssumption DEF ChainInv, BackInv, BackfillAssumption, FetchBatch
<1>1. RangeEnd \in Nat /\ RangeEnd <= Len(chain)
  <2>1. checkpoint.to \in Int
    BY <1>0
  <2>2. RangeEnd \in 0..Len(chain)
    BY <2>1, ChainUntil DEF RangeEnd
  <2> QED BY <1>0, <2>2
<1>2. PICK hi : hi = Smaller(job.at + BatchSize, Len(chain))
  OBVIOUS
<1>3. hi \in Nat /\ job.at <= hi /\ hi <= Len(chain) /\ (hi < Len(chain) => hi = job.at + BatchSize)
  BY <1>0, <1>1, <1>2 DEF Smaller
<1>4. PICK events : events = SubSeq(chain, job.at + 1, hi)
  OBVIOUS
<1>5. /\ events \in Seq(Placed) /\ Len(events) = hi - job.at
      /\ \A j \in 1..Len(events) : events[j] = chain[job.at + j]
  <2>1. /\ events \in Seq(Placed)
        /\ Len(events) = (IF job.at + 1 <= hi THEN hi - (job.at + 1) + 1 ELSE 0)
        /\ \A j \in 1..(hi - (job.at + 1) + 1) : events[j] = chain[(job.at + 1) + j - 1]
    BY <1>0, <1>3, <1>4, SubSeqProperties
  <2>2. Len(events) = hi - job.at
    BY <1>0, <1>3, <2>1
  <2>3. ASSUME NEW j \in 1..Len(events) PROVE events[j] = chain[job.at + j]
    <3>1. j \in 1..(hi - (job.at + 1) + 1) /\ (job.at + 1) + j - 1 = job.at + j
      BY <1>0, <1>3, <2>2
    <3> QED BY <2>1, <3>1
  <2> QED BY <2>1, <2>2, <2>3
<1>6. /\ page' = [fetched |-> TRUE, left |-> events, short |-> Len(events) < BatchSize]
      /\ UNCHANGED <<claims, cursor, phase, setup, chain, head, checkpoint, job>>
  BY <1>2, <1>4 DEF FetchBatch, indexerVars, ingesterVars, tickVars, chainVars
<1>7. /\ page' \in [fetched: BOOLEAN, left: Seq(Placed), short: BOOLEAN]
      /\ page'.left = events /\ (page'.short => Len(events) < BatchSize)
  <2>1. CASE Len(events) < BatchSize
    <3>1. page' = [fetched |-> TRUE, left |-> events, short |-> TRUE]
      BY <1>6, <2>1
    <3> QED BY <1>5, <2>1, <3>1
  <2>2. CASE ~(Len(events) < BatchSize)
    <3>0. Len(events) \in Nat /\ BatchSize \in Nat
      BY <1>0, <1>5
    <3>1. (Len(events) < BatchSize) = FALSE
      BY <2>2, <3>0
    <3>2. page' = [fetched |-> TRUE, left |-> events, short |-> FALSE]
      BY <1>6, <3>1
    <3> QED BY <1>5, <3>2
  <2> QED BY <2>1, <2>2
<1>8. /\ job.at + Len(events) <= Len(chain)
      /\ Len(events) < BatchSize => job.at + Len(events) >= RangeEnd
  BY <1>0, <1>1, <1>3, <1>5
<1>9. RangeEnd' = RangeEnd /\ BackfillPlace' = BackfillPlace
  BY <1>6 DEF RangeEnd, BackfillPlace
<1>10. ~setup'.overlap => Recoverable(chain', claims', BackfillPlace', RangeEnd')
  BY <1>6, <1>9 DEF BackInv
<1> QED BY <1>5, <1>6, <1>7, <1>8, <1>9, <1>10 DEF BackInv

\* An event of the page is written.
LEMMA WritingKeepsBackfill ==
  ASSUME ChainInv, BackInv, BackfillEvent
  PROVE  BackInv'
<1>0. /\ chain \in Seq(Placed) /\ Len(chain) \in Nat
      /\ job.running /\ page.fetched /\ page.left # <<>>
      /\ job \in [running: BOOLEAN, from: Nat, to: Nat, at: Nat]
      /\ page \in [fetched: BOOLEAN, left: Seq(Placed), short: BOOLEAN]
      /\ job.at \in Nat /\ job.at <= RangeEnd /\ job.to = checkpoint.to /\ checkpoint.to \in Nat
      /\ checkpoint.at \in Nat /\ checkpoint.at <= job.at /\ claims \in SUBSET Row
  BY DEF ChainInv, BackInv, BackfillEvent
<1>1. /\ Head(page.left).ledger <= job.to
      /\ claims' = ApplyEvent(claims, Head(page.left))
      /\ job' = [job EXCEPT !.at = @ + 1] /\ page' = [page EXCEPT !.left = Tail(@)]
      /\ UNCHANGED <<cursor, phase, setup, chain, head, checkpoint>>
  BY DEF BackfillEvent, tickVars, chainVars
<1>2. PICK left, n : left = page.left /\ n = job.at
  OBVIOUS
<1>3. /\ n \in Nat /\ left \in Seq(Placed) /\ left # <<>> /\ Len(left) \in Nat /\ Len(left) # 0
      /\ n + Len(left) <= Len(chain)
      /\ \A j \in 1..Len(left) : left[j] = chain[n + j]
      /\ page.short => n + Len(left) >= RangeEnd
  <2>1. left \in Seq(Placed) /\ left # <<>>
    BY <1>0, <1>2
  <2> QED BY <1>0, <1>2, <2>1 DEF BackInv
<1>4. /\ Head(left) \in Placed /\ Tail(left) \in Seq(Placed) /\ Len(Tail(left)) = Len(left) - 1
      /\ Head(left) = chain[n + 1]
      /\ \A j \in 1..Len(Tail(left)) : Tail(left)[j] = chain[(n + 1) + j]
  <2>1. /\ Head(left) \in Placed /\ Tail(left) \in Seq(Placed) /\ Len(Tail(left)) = Len(left) - 1
        /\ \A j \in 1..Len(Tail(left)) : Tail(left)[j] = left[j + 1]
    BY <1>3, HeadTailProperties
  <2>2. Head(left) = left[1] /\ 1 \in 1..Len(left)
    BY <1>3
  <2>3. ASSUME NEW j \in 1..Len(Tail(left)) PROVE Tail(left)[j] = chain[(n + 1) + j]
    <3>1. j + 1 \in 1..Len(left) /\ n + (j + 1) = (n + 1) + j
      BY <1>3, <2>1
    <3> QED BY <1>3, <2>1, <3>1
  <2> QED BY <1>3, <2>1, <2>2, <2>3
<1>5. n + 1 \in 1..Len(chain)
  BY <1>0, <1>3
<1>6. n < RangeEnd /\ RangeEnd \in Nat
  <2>1. checkpoint.to \in Int
    BY <1>0
  <2>2. chain[n + 1].ledger <= checkpoint.to
    BY <1>0, <1>1, <1>2, <1>4
  <2>3. RangeEnd \in 0..Len(chain) /\ n + 1 <= RangeEnd
    BY <1>5, <2>1, <2>2, ChainUntil DEF RangeEnd
  <2> QED BY <1>0, <1>3, <2>3
<1>7. /\ job' \in [running: BOOLEAN, from: Nat, to: Nat, at: Nat]
      /\ job'.running = job.running /\ job'.to = job.to /\ job'.at = n + 1
  <2>1. n + 1 \in Nat
    BY <1>3
  <2>2. job' = [job EXCEPT !.at = n + 1]
    BY <1>1, <1>2
  <2> QED BY <1>0, <2>1, <2>2
<1>8. /\ page' \in [fetched: BOOLEAN, left: Seq(Placed), short: BOOLEAN]
      /\ page'.left = Tail(left) /\ page'.short = page.short
  BY <1>0, <1>1, <1>2, <1>4
<1>9. claims' \in SUBSET Row
  BY <1>0, <1>1, <1>2, <1>4, ApplyEventType
<1>10. RangeEnd' = RangeEnd /\ BackfillPlace' = n + 1 /\ BackfillPlace = n
  BY <1>0, <1>1, <1>2, <1>7 DEF RangeEnd, BackfillPlace
<1>11. ~setup.overlap => Recoverable(chain, claims', n + 1, RangeEnd)
  <2>1. ~setup.overlap => Recoverable(chain, claims, n, RangeEnd)
    BY <1>10 DEF BackInv
  <2> QED BY <1>0, <1>1, <1>2, <1>3, <1>4, <1>6, <2>1, AppliedRecovers
<1>12. \A r \in claims' : Attests(chain, 0, Len(chain), r.key)
  <2>1. \A r \in claims : Attests(chain, 0, Len(chain), r.key)
    BY DEF BackInv
  <2>2. PICK e : e = chain[n + 1]
    OBVIOUS
  <2>3. Kind(e) = "verified" => Attests(chain, 0, Len(chain), e.key)
    <3>1. n + 1 \in (0 + 1)..Len(chain)
      BY <1>5
    <3> QED BY <2>2, <3>1 DEF Attests
  <2>4. claims' = ApplyEvent(claims, e)
    BY <1>1, <1>2, <1>4, <2>2
  <2>5. CASE Kind(e) = "verified"
    BY <2>1, <2>3, <2>4, <2>5 DEF ApplyEvent, Upsert
  <2>6. CASE Kind(e) = "revoked"
    <3>1. claims' = MarkRevoked(claims, e.key)
      BY <2>4, <2>6 DEF ApplyEvent
    <3>2. \A r \in claims : [r EXCEPT !.revoked = TRUE].key = r.key
      BY <1>0 DEF Row
    <3> QED BY <2>1, <3>1, <3>2 DEF MarkRevoked
  <2>7. CASE Kind(e) \notin {"verified", "revoked"}
    BY <2>1, <2>4, <2>7 DEF ApplyEvent
  <2> QED BY <2>5, <2>6, <2>7
<1>13. /\ (n + 1) + Len(Tail(left)) <= Len(chain)
       /\ page.short => (n + 1) + Len(Tail(left)) >= RangeEnd
  <2>1. (n + 1) + Len(Tail(left)) = n + Len(left)
    BY <1>3, <1>4
  <2> QED BY <1>3, <2>1
<1>14. n + 1 <= RangeEnd /\ checkpoint.at <= n + 1
  BY <1>0, <1>2, <1>3, <1>6
<1>15. cursor' = 0 /\ phase' = "idle"
  BY <1>1 DEF BackInv
<1>16. /\ checkpoint' \in [done: BOOLEAN, from: Nat, to: Nat, at: Nat]
       /\ checkpoint'.to <= head' /\ checkpoint'.at <= RangeEnd'
       /\ checkpoint'.done => checkpoint'.at = RangeEnd'
  BY <1>1, <1>10 DEF BackInv
<1>17. job'.running =>
          job'.to = checkpoint'.to /\ checkpoint'.at <= job'.at /\ job'.at <= RangeEnd'
  BY <1>0, <1>1, <1>7, <1>10, <1>14
<1>18. job'.at + Len(page'.left) <= Len(chain')
       /\ (\A j \in 1..Len(page'.left) : page'.left[j] = chain'[job'.at + j])
       /\ (page'.short => job'.at + Len(page'.left) >= RangeEnd')
  BY <1>1, <1>4, <1>7, <1>8, <1>10, <1>13
<1>19. /\ \A r \in claims' : Attests(chain', 0, Len(chain'), r.key)
       /\ ~setup'.overlap => Recoverable(chain', claims', BackfillPlace', RangeEnd')
  BY <1>1, <1>10, <1>11, <1>12
<1> QED BY <1>7, <1>8, <1>9, <1>15, <1>16, <1>17, <1>18, <1>19 DEF BackInv

\* The checkpoint is replaced, or the run is gone and its page with it.
LEMMA EndingKeepsBackfill ==
  ASSUME ChainInv, BackInv, SaveCheckpoint \/ BackfillDies
  PROVE  BackInv'
<1>0. /\ chain \in Seq(Placed) /\ Len(chain) \in Nat /\ head \in Nat
      /\ job.running /\ job \in [running: BOOLEAN, from: Nat, to: Nat, at: Nat]
      /\ page \in [fetched: BOOLEAN, left: Seq(Placed), short: BOOLEAN]
      /\ job.at \in Nat /\ job.at <= RangeEnd /\ job.to = checkpoint.to /\ checkpoint.to \in Nat
      /\ checkpoint.at \in Nat /\ checkpoint.at <= job.at /\ checkpoint.to <= head
      /\ job.from \in Nat /\ job.to \in Nat
  BY DEF ChainInv, BackInv, SaveCheckpoint, BackfillDies
<1>1. UNCHANGED <<claims, cursor, phase, setup, chain, head>> /\ page' = NoPage
  BY DEF SaveCheckpoint, BackfillDies, indexerVars, ingesterVars, tickVars, chainVars
<1>2. page' \in [fetched: BOOLEAN, left: Seq(Placed), short: BOOLEAN] /\ ~page'.fetched
  BY <1>1 DEF NoPage
<1>3. RangeEnd \in Nat /\ RangeEnd <= Len(chain)
  <2>1. checkpoint.to \in Int
    BY <1>0
  <2>2. RangeEnd \in 0..Len(chain)
    BY <2>1, ChainUntil DEF RangeEnd
  <2> QED BY <1>0, <2>2
<1>4. ~setup.overlap => Recoverable(chain, claims, job.at, RangeEnd)
  <2>1. BackfillPlace = job.at
    BY <1>0 DEF BackfillPlace
  <2> QED BY <2>1 DEF BackInv
<1>5. NoJob \in [running: BOOLEAN, from: Nat, to: Nat, at: Nat] /\ ~NoJob.running
  BY DEF NoJob, Job, NoFile
<1>6. CASE BackfillDies
  <2>1. job' = NoJob /\ checkpoint' = checkpoint
    BY <1>6 DEF BackfillDies
  <2>2. BackfillPlace' = checkpoint.at /\ RangeEnd' = RangeEnd
    BY <1>1, <1>5, <2>1 DEF BackfillPlace, RangeEnd
  <2>3. ~setup.overlap => Recoverable(chain, claims, checkpoint.at, RangeEnd)
    BY <1>0, <1>3, <1>4, EarlierRecovers
  <2> QED BY <1>1, <1>2, <1>5, <2>1, <2>2, <2>3 DEF BackInv
<1>7. CASE SaveCheckpoint
  <2>1. PICK end \in BOOLEAN : end = ReachedEnd
    BY <1>0 DEF ReachedEnd
  <2>2. /\ page.fetched /\ (page.left # <<>> => Head(page.left).ledger > job.to)
        /\ checkpoint' = [done |-> end, from |-> job.from, to |-> job.to, at |-> job.at]
        /\ job' = IF end THEN NoJob ELSE job
    BY <1>7, <2>1 DEF SaveCheckpoint
  <2>3. /\ checkpoint' \in [done: BOOLEAN, from: Nat, to: Nat, at: Nat]
        /\ checkpoint'.done = end /\ checkpoint'.to = checkpoint.to /\ checkpoint'.at = job.at
    BY <1>0, <2>2
  <2>4. RangeEnd' = RangeEnd
    BY <1>1, <2>3 DEF RangeEnd
  <2>5. /\ job' \in [running: BOOLEAN, from: Nat, to: Nat, at: Nat]
        /\ job'.running => job' = job
    BY <1>0, <1>5, <2>2
  <2>6. BackfillPlace' = job.at
    BY <2>3, <2>5 DEF BackfillPlace
  <2>7. end => job.at = RangeEnd
    <3> SUFFICES ASSUME end PROVE job.at >= RangeEnd
      BY <1>0, <1>3
    <3>1. PICK left : left = page.left
      OBVIOUS
    <3>2. /\ left \in Seq(Placed) /\ job.at + Len(left) <= Len(chain)
          /\ \A j \in 1..Len(left) : left[j] = chain[job.at + j]
          /\ page.short => job.at + Len(left) >= RangeEnd
      BY <1>0, <2>2, <3>1 DEF BackInv
    <3>3. CASE left = <<>>
      <4>1. page.short /\ Len(left) = 0
        BY <2>1, <3>1, <3>3 DEF ReachedEnd
      <4> QED BY <1>0, <1>3, <3>2, <4>1
    <3>4. CASE left # <<>>
      <4>1. 1 \in 1..Len(left) /\ Head(left) = left[1] /\ Len(left) \in Nat
        BY <3>2, <3>4
      <4>2. job.at + 1 \in 1..Len(chain) /\ Head(left) = chain[job.at + 1]
        BY <1>0, <3>2, <4>1
      <4>3. chain[job.at + 1].ledger > checkpoint.to
        BY <1>0, <2>2, <3>1, <3>4, <4>2
      <4>4. checkpoint.to \in Int /\ chain[job.at + 1].ledger \in Int
        BY <1>0, <4>2 DEF ChainInv
      <4>5. ~(chain[job.at + 1].ledger <= checkpoint.to)
        BY <4>3, <4>4
      <4>6. ~(job.at + 1 <= RangeEnd)
        BY <4>2, <4>4, <4>5, ChainUntil DEF RangeEnd
      <4> QED BY <1>0, <1>3, <4>6
    <3> QED BY <3>3, <3>4
  <2>8. job.at <= job.at
    BY <1>0
  <2>9. job'.running =>
          job'.to = checkpoint'.to /\ checkpoint'.at <= job'.at /\ job'.at <= RangeEnd'
    BY <1>0, <2>3, <2>4, <2>5, <2>8
  <2>10. /\ checkpoint'.to <= head' /\ checkpoint'.at <= RangeEnd'
         /\ checkpoint'.done => checkpoint'.at = RangeEnd'
    BY <1>0, <1>1, <2>3, <2>4, <2>7
  <2>11. /\ claims' \in SUBSET Row /\ cursor' = 0 /\ phase' = "idle"
         /\ \A r \in claims' : Attests(chain', 0, Len(chain'), r.key)
         /\ ~setup'.overlap => Recoverable(chain', claims', BackfillPlace', RangeEnd')
    BY <1>1, <1>4, <2>4, <2>6 DEF BackInv
  <2> QED BY <1>2, <2>3, <2>5, <2>9, <2>10, <2>11 DEF BackInv
<1> QED BY <1>6, <1>7

\* Every step preserves the invariant while the service is off.
LEMMA BackfillStep ==
  ASSUME ChainInv, BackInv, ~setup.live, [CompositionNext]_allVars
  PROVE  BackInv'
<1>1. CASE LedgerCloses /\ UNCHANGED <<ingesterVars, outboxVars, backfillVars>>
  BY <1>1, ClosingLeavesBackfill DEF ingesterVars, tickVars, backfillVars
<1>2. CASE BackfillNext
  BY <1>2, BeginningKeepsBackfill, FetchKeepsBackfill, WritingKeepsBackfill,
     EndingKeepsBackfill DEF BackfillNext
<1>3. CASE UNCHANGED allVars
  BY <1>3 DEF allVars, indexerVars, ingesterVars, tickVars, chainVars, backfillVars, BackInv,
     RangeEnd, BackfillPlace, Recoverable, LastWord, States, Attests, Revokes
<1> QED BY <1>1, <1>2, <1>3 DEF CompositionNext

\* The chain is the network's: no other step touches it.
LEMMA ChainStep ==
  ASSUME ChainInv, [CompositionNext]_allVars
  PROVE  ChainInv' /\ setup' = setup
<1>1. LedgerCloses \/ Fork \/ UNCHANGED chainVars
  <2>1. Tick => UNCHANGED chainVars
    BY DEF Tick, TickStarts, QueueProcessed, PollHead, RollBackClaims, RollBackCursor,
           FetchEvents, WriteEvent, EnqueueRevocation, SaveCursor
  <2>2. Faults => UNCHANGED chainVars
    BY DEF Faults, PollHead, PollFails, FetchFails, Crash, Outside
  <2>3. IndexerNext => LedgerCloses \/ Fork \/ UNCHANGED chainVars
    BY <2>1, <2>2 DEF IndexerNext, Refusal, Outside, Environment
  <2>4. BackfillNext => UNCHANGED chainVars
    BY DEF BackfillNext, StartBackfill, ResumeBackfill, FetchBatch, BackfillEvent,
           SaveCheckpoint, BackfillDies, indexerVars
  <2> QED BY <2>3, <2>4 DEF CompositionNext, allVars, indexerVars
<1>2. CASE LedgerCloses
  BY <1>2, LedgerClosesMoves DEF LedgerCloses
<1>3. CASE Fork
  BY <1>3, ForkMoves DEF Fork
<1>4. CASE UNCHANGED chainVars
  BY <1>4 DEF chainVars, ChainInv, Ordered
<1> QED BY <1>1, <1>2, <1>3, <1>4

LEMMA IndexInit ==
  ASSUME CompositionInit
  PROVE  ChainInv /\ LiveInv /\ BackInv
<1> USE DEF CompositionInit, IndexerInit, ChainInit, OutboxInit, IngesterInit, BackfillInit
<1>1. ChainInv
  BY ChainAssumption DEF ChainAssumption, ChainInv, Ordered
<1>2. \A n \in Nat : Until(chain, n) = 0
  <2> SUFFICES ASSUME NEW n \in Nat PROVE Until(chain, n) = 0
    OBVIOUS
  <2>1. n \in Int /\ head <= n /\ Len(chain) = 0
    OBVIOUS
  <2> QED BY <1>1, <2>1, ChainUntil
<1>3. Recoverable(chain, {}, 0, 0)
  BY NothingRecovers
<1>4. LiveInv
  <2>1. ReplayPlace = 0 /\ Until(chain, settled) = 0
    BY <1>2 DEF ReplayPlace
  <2> QED BY <1>3, <2>1 DEF LiveInv
<1>5. BackInv
  <2>1. /\ checkpoint = NoFile /\ job = NoJob /\ ~job.running /\ page = NoPage
    BY DEF NoJob, Job, NoFile
  <2>2. checkpoint.to = 0 /\ checkpoint.at = 0
    BY <2>1 DEF NoFile
  <2>3. RangeEnd = 0 /\ BackfillPlace = 0
    BY <1>2, <2>1, <2>2 DEF RangeEnd, BackfillPlace
  <2>4. checkpoint \in [done: BOOLEAN, from: Nat, to: Nat, at: Nat]
    BY <2>1 DEF NoFile
  <2>5. job \in [running: BOOLEAN, from: Nat, to: Nat, at: Nat]
    BY <2>1 DEF NoJob, Job, NoFile
  <2>6. page \in [fetched: BOOLEAN, left: Seq(Placed), short: BOOLEAN]
    BY <2>1 DEF NoPage
  <2> QED BY <1>3, <2>1, <2>2, <2>3, <2>4, <2>5, <2>6 DEF BackInv
<1> QED BY <1>1, <1>4, <1>5

\* What LiveInv and BackInv say at the cursor.
LEMMA NothingLostLive ==
  ASSUME ChainInv, LiveInv
  PROVE  NothingLostBehindCursor
<1> SUFFICES ASSUME phase # "reset"
             PROVE  Replay(claims, chain, Until(chain, cursor)) = Replay({}, chain, 0)
  BY DEF NothingLostBehindCursor
<1>0. chain \in Seq(Placed) /\ Len(chain) \in Nat /\ claims \in SUBSET Row
  BY DEF ChainInv, LiveInv
<1>1. PICK at, w : at = Until(chain, cursor) /\ w = Until(chain, settled)
  OBVIOUS
<1>2. at \in Nat /\ w \in Nat /\ at <= ReplayPlace /\ ReplayPlace <= w /\ ReplayPlace \in Nat /\ w <= Len(chain)
  <2>1. settled \in Int
    BY DEF ChainInv
  <2>2. w \in 0..Len(chain)
    BY <1>1, <2>1, ChainUntil
  <2> QED BY <1>0, <1>1, <2>2, PlaceIs
<1>3. Recoverable(chain, claims, ReplayPlace, w)
  BY <1>1 DEF LiveInv
<1>4. Recoverable(chain, claims, at, w)
  BY <1>2, <1>3, EarlierRecovers
<1>5. at <= w /\ at <= Len(chain)
  BY <1>0, <1>2
<1>6. Recoverable(chain, claims, at, Len(chain))
  BY <1>0, <1>2, <1>4, <1>5, LaterRecovers
<1> QED BY <1>0, <1>1, <1>2, <1>5, <1>6, RecoverableReplays

LEMMA NothingLostBackfill ==
  ASSUME ChainInv, BackInv
  PROVE  NothingLostBehindCursor
<1>0. chain \in Seq(Placed) /\ Len(chain) \in Nat /\ claims \in SUBSET Row /\ cursor = 0
  BY DEF ChainInv, BackInv
<1>1. Until(chain, cursor) = 0
  BY <1>0, ChainUntil
<1>2. Recoverable(chain, claims, 0, Len(chain))
  BY DEF Recoverable, BackInv
<1>3. Replay(claims, chain, 0) = Replay({}, chain, 0)
  BY <1>0, <1>2, RecoverableReplays
<1> QED BY <1>1, <1>3 DEF NothingLostBehindCursor

\* Where the reorganisations the network makes are no deeper than the finality
\* lag, no page ends inside a ledger, and reconcile runs to its end, a restart
\* from the saved cursor makes the table what the whole chain says, whatever of
\* it was written before: no crash, fork, stale replica or failed request leaves
\* an event behind the cursor (the live loop, or the backfill, alone).
THEOREM CursorLosesNothing ==
  ASSUME FinalityLag >= MaxReorg, ~CrashDuringRollback,
         \A s \in Setups : ~(s.live /\ s.backfill)
  PROVE  CompositionSpec /\ []WholePages => []NothingLostBehindCursor
<1> DEFINE Inv == ChainInv /\ (setup.live => LiveInv) /\ (~setup.live => BackInv)
<1>1. CompositionInit => Inv
  BY IndexInit
<1>2. Inv /\ WholePages /\ [CompositionNext]_allVars => Inv'
  <2> SUFFICES ASSUME Inv, WholePages, [CompositionNext]_allVars PROVE Inv'
    OBVIOUS
  <2>1. ChainInv' /\ setup' = setup
    BY ChainStep
  <2>2. CASE setup.live
    <3>1. ~setup.backfill
      BY <2>2 DEF ChainInv
    <3>2. CASE IndexerNext
      BY <2>1, <2>2, <3>2, LiveStep
    <3>3. CASE UNCHANGED allVars
      <4>1. UNCHANGED <<claims, cursor, tickVars, chainVars>>
        BY <3>3 DEF allVars, indexerVars, ingesterVars
      <4> QED BY <2>1, <2>2, <4>1, OthersLeaveLive
    <3> QED BY <2>2, <3>1, <3>2, <3>3 DEF CompositionNext
  <2>3. CASE ~setup.live
    BY <2>1, <2>3, BackfillStep
  <2> QED BY <2>2, <2>3
<1>3. Inv => NothingLostBehindCursor
  BY NothingLostLive, NothingLostBackfill
<1> QED BY <1>1, <1>2, <1>3, PTL DEF CompositionSpec

\* While the service is off and ranges follow one another: after any death in
\* the middle of a page, the events after the checkpoint's token are all that the
\* table misses of the ranges asked for, and a checkpoint marked done misses none.
THEOREM BackfillResumes == CompositionSpec => []BackfillResumable
<1> DEFINE Inv == ChainInv /\ (~setup.live => BackInv)
<1>1. CompositionInit => Inv
  BY IndexInit
<1>2. Inv /\ [CompositionNext]_allVars => Inv'
  BY ChainStep, BackfillStep
<1>3. Inv => BackfillResumable
  <2> SUFFICES ASSUME ChainInv, BackInv, ~setup.overlap
               PROVE  LET range == UpTo(chain, checkpoint.to) IN
                      /\ checkpoint.done => checkpoint.at >= Len(range)
                      /\ Replay(claims, range, checkpoint.at) = Replay({}, range, 0)
    BY DEF BackfillResumable
  <2>0. /\ chain \in Seq(Placed) /\ Len(chain) \in Nat /\ claims \in SUBSET Row
        /\ checkpoint.at \in Nat /\ checkpoint.to \in Nat /\ checkpoint.at <= RangeEnd
    BY DEF ChainInv, BackInv
  <2>1. RangeEnd \in 0..Len(chain) /\ RangeEnd \in Nat
    <3>1. checkpoint.to \in Int
      BY <2>0
    <3>2. RangeEnd \in 0..Len(chain)
      BY <3>1, ChainUntil DEF RangeEnd
    <3> QED BY <2>0, <3>2
  <2>2. PICK range : range = UpTo(chain, checkpoint.to)
    OBVIOUS
  <2>3. /\ range \in Seq(Placed) /\ Len(range) = RangeEnd
        /\ \A i \in 1..RangeEnd : range[i] = chain[i]
    <3>1. range = SubSeq(chain, 1, RangeEnd)
      BY <2>2 DEF UpTo, RangeEnd
    <3> QED BY <2>0, <2>1, <3>1
  <2>4. Recoverable(chain, claims, checkpoint.at, RangeEnd)
    <3>1. Recoverable(chain, claims, BackfillPlace, RangeEnd)
      BY DEF BackInv
    <3>2. /\ BackfillPlace \in Nat /\ checkpoint.at <= BackfillPlace
          /\ BackfillPlace <= RangeEnd
      BY <2>0 DEF BackInv, BackfillPlace
    <3> QED BY <2>0, <2>1, <3>1, <3>2, EarlierRecovers
  <2>5. Recoverable(range, claims, checkpoint.at, Len(range))
    BY <2>0, <2>1, <2>3, <2>4, SameEventsRecover
  <2>6. Replay(claims, range, checkpoint.at) = Replay({}, range, 0)
    BY <2>0, <2>3, <2>5, RecoverableReplays
  <2>7. checkpoint.done => checkpoint.at >= Len(range)
    BY <2>0, <2>1, <2>3 DEF BackInv
  <2> QED BY <2>2, <2>6, <2>7
<1> QED BY <1>1, <1>2, <1>3, PTL DEF CompositionSpec

-----------------------------------------------------------------------------
(* The indexer: what is said of a claim reaches whoever subscribed to it     *)

\* How many events have had their webhooks enqueued
HookPlace ==
    IF phase \in {"apply", "enqueue"} THEN BatchFrom ELSE Until(chain, cursor)

\* What event e owes subscription s, and whether it has it
Owed(s, e) == Kind(e) = "revoked" /\ e.key = s.key /\ s.since < e.ledger
Queued(s, e) == <<s.id, RevocationEvent(e)>> \in {Id(d) : d \in deliveries}

\* The columns a delivery row has
RowsOfDeliveries ==
    \A d \in deliveries : DOMAIN d = {"sub", "event", "attempts", "due", "delivered"}

HooksInv ==
    /\ RowsOfDeliveries
    /\ phase \in {"apply", "enqueue"} => top <= ceiling
    /\ setup.hooks =>
          \A i \in 1..HookPlace : \A s \in subs : Owed(s, chain[i]) => Queued(s, chain[i])

\* The webhooks are between the cursor and what is settled.
LEMMA HookPlaceIs ==
  ASSUME ChainInv, LiveInv
  PROVE  /\ Until(chain, cursor) \in Nat /\ HookPlace \in Nat
         /\ Until(chain, cursor) <= HookPlace /\ HookPlace <= Until(chain, settled)
         /\ Until(chain, settled) \in 0..Len(chain)
<1>0. settled \in Int /\ Len(chain) \in Nat /\ Len(batch) \in Nat
  BY DEF ChainInv, LiveInv
<1>1. Until(chain, settled) \in 0..Len(chain)
  BY <1>0, ChainUntil
<1>2. CASE phase \in {"apply", "enqueue"}
  <2>1. HookPlace = BatchFrom /\ Until(chain, cursor) <= BatchFrom
    BY <1>2 DEF HookPlace, LiveInv
  <2>2. BatchFrom \in Nat /\ BatchFrom + Len(batch) <= Until(chain, settled)
    BY <1>2, PlaceIs
  <2>3. Until(chain, cursor) \in Nat /\ Until(chain, settled) \in Nat
    BY PlaceIs
  <2> QED BY <1>0, <1>1, <2>1, <2>2, <2>3
<1>3. CASE phase \notin {"apply", "enqueue"}
  <2>1. HookPlace = Until(chain, cursor)
    BY <1>3 DEF HookPlace
  <2>2. Until(chain, cursor) \in Nat /\ Until(chain, cursor) <= Until(chain, settled)
    <3>1. cursor \in Int /\ cursor <= settled
      BY DEF LiveInv
    <3>2. Until(chain, cursor) <= Until(chain, settled)
      BY <1>0, <3>1, ChainUntil
    <3> QED BY <3>2, PlaceIs
  <2> QED BY <1>1, <2>1, <2>2
<1> QED BY <1>2, <1>3

\* What an attempt or a backoff leaves of the rows: all of them, marked.
LEMMA MarkingKeepsRows ==
  ASSUME RowsOfDeliveries, NEW id, NEW ok,
         \/ deliveries' = Attempted(id, ok)
         \/ deliveries' = {IF Id(d) = id THEN [d EXCEPT !.due = TRUE] ELSE d : d \in deliveries}
  PROVE  /\ RowsOfDeliveries'
         /\ {Id(d) : d \in deliveries} \subseteq {Id(d) : d \in deliveries'}
<1> DEFINE marked(d) == [d EXCEPT !.attempts = @ + 1, !.due = ok, !.delivered = ok]
           woken(d) == [d EXCEPT !.due = TRUE]
<1>1. ASSUME NEW d \in deliveries
      PROVE  /\ DOMAIN marked(d) = DOMAIN d /\ Id(marked(d)) = Id(d)
             /\ DOMAIN woken(d) = DOMAIN d /\ Id(woken(d)) = Id(d)
  <2>1. "sub" \in DOMAIN d /\ "event" \in DOMAIN d
    BY DEF RowsOfDeliveries
  <2>2. marked(d).sub = d.sub /\ marked(d).event = d.event
    BY <2>1
  <2>3. woken(d).sub = d.sub /\ woken(d).event = d.event
    BY <2>1
  <2>4. DOMAIN marked(d) = DOMAIN d /\ DOMAIN woken(d) = DOMAIN d
    OBVIOUS
  <2> HIDE DEF marked, woken
  <2> QED BY <2>2, <2>3, <2>4 DEF Id
<1>2. \/ deliveries' = {IF Id(d) = id THEN marked(d) ELSE d : d \in deliveries}
      \/ deliveries' = {IF Id(d) = id THEN woken(d) ELSE d : d \in deliveries}
  BY Zenon DEF Attempted
<1> HIDE DEF marked, woken
<1>3. ASSUME NEW n \in deliveries' PROVE DOMAIN n = {"sub", "event", "attempts", "due", "delivered"}
  <2>1. PICK d \in deliveries : n \in {d, marked(d), woken(d)}
    BY <1>2
  <2> QED BY <1>1, <2>1 DEF RowsOfDeliveries
<1>4. ASSUME NEW d \in deliveries PROVE \E n \in deliveries' : Id(n) = Id(d)
  <2>1. d \in deliveries' \/ marked(d) \in deliveries' \/ woken(d) \in deliveries'
    BY <1>2
  <2> QED BY <1>1, <2>1
<1> QED BY <1>3, <1>4 DEF RowsOfDeliveries

\* New rows have the columns, and leave the others where they are.
LEMMA EnqueuedKeepsRows ==
  ASSUME RowsOfDeliveries, NEW E, deliveries' = deliveries \cup UNION {Enqueued(e) : e \in E}
  PROVE  /\ RowsOfDeliveries'
         /\ {Id(d) : d \in deliveries} \subseteq {Id(d) : d \in deliveries'}
<1>1. ASSUME NEW n \in deliveries', n \notin deliveries
      PROVE  DOMAIN n = {"sub", "event", "attempts", "due", "delivered"}
  <2>1. PICK e \in E : n \in Enqueued(e)
    BY <1>1
  <2>2. PICK s \in subs :
            n = [sub |-> s.id, event |-> e, attempts |-> 0, due |-> TRUE, delivered |-> FALSE]
    BY <1>1, <2>1 DEF Enqueued
  <2> QED BY <2>2
<1> QED BY <1>1 DEF RowsOfDeliveries

\* Rows of deliveries are never taken away, only marked.
LEMMA DeliveriesStay ==
  ASSUME RowsOfDeliveries, [IndexerNext]_indexerVars
  PROVE  /\ RowsOfDeliveries'
         /\ {Id(d) : d \in deliveries} \subseteq {Id(d) : d \in deliveries'}
<1>1. ASSUME UNCHANGED deliveries
      PROVE  /\ RowsOfDeliveries'
             /\ {Id(d) : d \in deliveries} \subseteq {Id(d) : d \in deliveries'}
  BY <1>1 DEF RowsOfDeliveries
<1>2. CASE EnqueueRevocation
  <2>1. deliveries' = Enqueued(RevocationEvent(Head(batch)))
    BY <1>2 DEF EnqueueRevocation
  <2>2. deliveries' = deliveries \cup UNION {Enqueued(e) : e \in {RevocationEvent(Head(batch))}}
    BY <2>1 DEF Enqueued
  <2> QED BY <2>2, EnqueuedKeepsRows
<1>3. CASE EnqueueExpired
  <2>1. PICK E : deliveries' = deliveries \cup UNION {Enqueued(e) : e \in E}
    BY <1>3 DEF EnqueueExpired
  <2> QED BY <2>1, EnqueuedKeepsRows
<1>4. CASE \E id, ok : \/ deliveries' = Attempted(id, ok)
                       \/ deliveries' = {IF Id(d) = id THEN [d EXCEPT !.due = TRUE] ELSE d :
                                             d \in deliveries}
  <2>1. PICK id, ok : \/ deliveries' = Attempted(id, ok)
                      \/ deliveries' = {IF Id(d) = id THEN [d EXCEPT !.due = TRUE] ELSE d :
                                            d \in deliveries}
    BY <1>4
  <2> QED BY <2>1, MarkingKeepsRows
<1>5. Tick => EnqueueRevocation \/ UNCHANGED deliveries
  BY DEF Tick, TickStarts, QueueProcessed, PollHead, RollBackClaims, RollBackCursor,
         FetchEvents, WriteEvent, SaveCursor, outboxVars
<1>6. Deliver => \/ EnqueueExpired \/ UNCHANGED deliveries
                 \/ \E id \in answered : deliveries' = Attempted(id, TRUE)
  BY DEF Deliver, SelectPending, EndpointAnswers, RecordDelivered, QueueDone
<1>7. ClockAdvances \/ Environment => UNCHANGED deliveries
  BY DEF ClockAdvances, Environment, Subscribe, Unsubscribe, outboxVars
<1>8. /\ \A id : RecordFailure(id) => deliveries' = Attempted(id, FALSE)
      /\ \A id : RecordLost(id) => deliveries' = Attempted(id, FALSE)
      /\ \A id : BackoffElapses(id) =>
             deliveries' = {IF Id(d) = id THEN [d EXCEPT !.due = TRUE] ELSE d : d \in deliveries}
  BY DEF RecordFailure, RecordLost, BackoffElapses
<1>9. Faults => \/ UNCHANGED deliveries
                \/ \E id \in answered : deliveries' = Attempted(id, FALSE)
  BY <1>8 DEF Faults, PollHead, PollFails, FetchFails, Crash, Outside, outboxVars
<1>10. CASE UNCHANGED indexerVars
  BY <1>1, <1>10 DEF indexerVars, outboxVars
<1> QED BY <1>1, <1>2, <1>3, <1>4, <1>5, <1>6, <1>7, <1>8, <1>9, <1>10
     DEF IndexerNext, Outside, Refusal

\* A subscription is new only to ledgers that are not processed yet.
LEMMA NewSubscriptions ==
  ASSUME IndexerNext
  PROVE  \/ subs' \subseteq subs
         \/ /\ \A s \in subs' : s \in subs \/ s.since = ProcessedUpTo
            /\ UNCHANGED <<ingesterVars, chainVars>>
<1>1. Tick => subs' = subs
  BY DEF Tick, TickStarts, QueueProcessed, PollHead, RollBackClaims, RollBackCursor,
         FetchEvents, WriteEvent, EnqueueRevocation, SaveCursor, outboxVars
<1>2. Deliver => subs' = subs
  BY DEF Deliver, EnqueueExpired, SelectPending, EndpointAnswers, RecordDelivered, QueueDone
<1>3. Refusal \/ Faults \/ ClockAdvances => subs' = subs
  BY DEF Refusal, Faults, PollHead, PollFails, FetchFails, Crash, Outside, outboxVars,
         RecordFailure, RecordLost, ClockAdvances
<1>4. (\E d \in deliveries : BackoffElapses(Id(d))) => subs' = subs
  BY DEF BackoffElapses
<1>5. ASSUME Environment
      PROVE  \/ subs' \subseteq subs
             \/ /\ \A s \in subs' : s \in subs \/ s.since = ProcessedUpTo
                /\ UNCHANGED <<ingesterVars, chainVars>>
  <2>1. CASE \E k \in Keys, id \in Subscriptions :
                Subscribe(k, id, ProcessedUpTo) /\ UNCHANGED <<ingesterVars, chainVars>>
    BY <2>1 DEF Subscribe
  <2> QED BY <1>5, <2>1 DEF Environment, Unsubscribe, outboxVars
<1> QED BY <1>1, <1>2, <1>3, <1>4, <1>5 DEF IndexerNext, Outside

DeliveriesKept ==
    RowsOfDeliveries' /\ {Id(d) : d \in deliveries} \subseteq {Id(d) : d \in deliveries'}

\* Nobody subscribed in this step to what the first n events say
NoneNewBefore(n) ==
    \A s \in subs' : s \in subs \/ (\A i \in 1..n : ~(s.since < chain[i].ledger))

\* Where no further event is passed, what was owed stays enqueued.
LEMMA QueuedStays ==
  ASSUME HooksInv, setup' = setup, HookPlace \in Nat, HookPlace' \in Nat,
         HookPlace' <= HookPlace, \A i \in 1..HookPlace : chain'[i] = chain[i],
         NoneNewBefore(HookPlace), DeliveriesKept,
         phase' \in {"apply", "enqueue"} => top' <= ceiling'
  PROVE  HooksInv'
<1>1. ASSUME setup.hooks', NEW i \in 1..HookPlace', NEW s \in subs', Owed(s, chain[i])'
      PROVE  Queued(s, chain[i])'
  <2>1. i \in 1..HookPlace /\ chain'[i] = chain[i] /\ setup.hooks
    BY <1>1
  <2>2. s \in subs /\ Owed(s, chain[i])
    <3>1. s.since < chain[i].ledger
      BY <1>1, <2>1 DEF Owed
    <3> QED BY <1>1, <2>1, <3>1 DEF Owed, NoneNewBefore
  <2>3. Queued(s, chain[i])
    BY <2>1, <2>2 DEF HooksInv
  <2> QED BY <2>1, <2>3 DEF Queued, DeliveriesKept
<1> QED BY <1>1 DEF HooksInv, DeliveriesKept

\* The chain leaves the events behind HookPlace where they are.
LEMMA HookPlaceStays ==
  ASSUME ChainInv, LiveInv, UNCHANGED <<ingesterVars, setup>>,
         \A n \in Int : n <= settled => Until(chain', n) = Until(chain, n),
         \A i \in 1..Until(chain, settled) : chain'[i] = chain[i]
  PROVE  HookPlace' = HookPlace /\ \A i \in 1..HookPlace : chain'[i] = chain[i]
<1>1. UNCHANGED <<cursor, phase, batch, top>>
  BY DEF ingesterVars, tickVars
<1>2. cursor \in Int /\ cursor <= settled /\ top \in Int
      /\ (phase \in {"apply", "enqueue"} => top <= settled)
  BY DEF LiveInv
<1>3. Until(chain', cursor) = Until(chain, cursor)
      /\ (phase \in {"apply", "enqueue"} => Until(chain', top) = Until(chain, top))
  BY <1>2
<1>4. HookPlace' = HookPlace
  BY <1>1, <1>3 DEF HookPlace, BatchFrom
<1>5. \A i \in 1..HookPlace : i \in 1..Until(chain, settled)
  <2>1. HookPlace \in Nat /\ HookPlace <= Until(chain, settled)
        /\ Until(chain, settled) \in 0..Len(chain) /\ Len(chain) \in Nat
    BY HookPlaceIs DEF ChainInv
  <2> QED BY <2>1
<1> QED BY <1>4, <1>5

\* Each step of the service passes a revocation only by enqueuing it for everyone
\* who subscribed to its claim.
LEMMA HooksStep ==
  ASSUME FinalityLag >= MaxReorg, ~CrashDuringRollback,
         ChainInv, LiveInv, HooksInv, WholePages, IndexerNext
  PROVE  HooksInv'
<1>0. /\ chain \in Seq(Placed) /\ Len(chain) \in Nat /\ batch \in Seq(Placed)
      /\ cursor \in Nat /\ ceiling \in Nat /\ top \in Nat /\ settled \in Nat /\ Len(batch) \in Nat
  BY DEF ChainInv, LiveInv
<1>2. DeliveriesKept /\ (subs' \subseteq subs => NoneNewBefore(HookPlace))
  BY DeliveriesStay DEF HooksInv, DeliveriesKept, NoneNewBefore
<1>3. /\ HookPlace \in Nat /\ Until(chain, cursor) \in Nat
      /\ Until(chain, cursor) <= HookPlace /\ HookPlace <= Until(chain, settled)
      /\ Until(chain, settled) \in 0..Len(chain)
  BY HookPlaceIs
<1>4. CASE /\ UNCHANGED <<setup, chain, cursor>> /\ subs' \subseteq subs
           /\ phase' \notin {"apply", "enqueue"}
  <2>1. HookPlace' = Until(chain, cursor)
    BY <1>4 DEF HookPlace
  <2> QED BY <1>2, <1>3, <1>4, <2>1, QueuedStays
<1>5. CASE RollBackCursor
  <2>1. /\ phase = "reset" /\ phase' = "idle" /\ cursor' = ceiling
        /\ UNCHANGED <<setup, chain, subs>>
    BY <1>5 DEF RollBackCursor, chainVars, outboxVars
  <2>2. ceiling <= cursor
    BY <2>1 DEF LiveInv
  <2>3. HookPlace = Until(chain, cursor) /\ HookPlace' = Until(chain, ceiling)
    BY <2>1 DEF HookPlace
  <2>4. Until(chain, ceiling) <= Until(chain, cursor) /\ Until(chain, ceiling) \in Nat
    <3>1. ceiling \in Int /\ cursor \in Int
      BY <1>0
    <3>2. Until(chain, ceiling) \in 0..Len(chain)
      BY <3>1, ChainUntil
    <3> QED BY <1>0, <2>2, <3>1, <3>2, ChainUntil
  <2> QED BY <1>2, <1>3, <2>1, <2>3, <2>4, QueuedStays
<1>6. CASE FetchEvents
  <2>1. /\ phase = "fetch" /\ phase' \in {"idle", "apply"}
        /\ UNCHANGED <<setup, chain, cursor, subs, ceiling>>
    BY <1>6 DEF FetchEvents, chainVars, outboxVars
  <2>2. phase' = "apply" => BatchFrom' = Until(chain, cursor) /\ top' <= ceiling
    BY <1>6, FetchLeavesLive
  <2>3. HookPlace' = Until(chain, cursor)
    BY <2>1, <2>2 DEF HookPlace
  <2>4. phase' \in {"apply", "enqueue"} => top' <= ceiling'
    BY <2>1, <2>2
  <2> QED BY <1>2, <1>3, <2>1, <2>3, <2>4, QueuedStays
<1>7. CASE SaveCursor
  <2>1. /\ phase = "apply" /\ batch = <<>> /\ cursor' = Larger(cursor, top)
        /\ phase' \in {"after", "idle"} /\ UNCHANGED <<setup, chain, subs>>
    BY <1>7 DEF SaveCursor, Advanced, ProcessWebhookQueue, chainVars
  <2>2. cursor' = top
    <3>1. cursor <= top
      BY <2>1 DEF LiveInv
    <3> QED BY <1>0, <2>1, <3>1 DEF Larger
  <2>3. HookPlace = Until(chain, top) - 0 /\ HookPlace' = Until(chain, top)
    BY <2>1, <2>2 DEF HookPlace, BatchFrom
  <2>4. HookPlace' <= HookPlace /\ HookPlace' \in Nat
    <3>1. Until(chain, top) \in Int
      <4>1. top \in Int
        BY <1>0
      <4>2. Until(chain, top) \in 0..Len(chain)
        BY <4>1, ChainUntil
      <4> QED BY <1>0, <4>2
    <3> QED BY <1>3, <2>3, <3>1
  <2> QED BY <1>2, <1>3, <2>1, <2>4, QueuedStays
<1>8. CASE WriteEvent \/ EnqueueRevocation
  <2>1. /\ phase \in {"apply", "enqueue"} /\ batch # <<>> /\ phase' \in {"apply", "enqueue"}
        /\ UNCHANGED <<setup, chain, cursor, top, ceiling, subs>>
        /\ batch' \in {batch, Tail(batch)}
    <3>1. CASE WriteEvent
      BY <3>1 DEF WriteEvent, chainVars, outboxVars
    <3>2. CASE EnqueueRevocation
      <4>1. phase = "enqueue" /\ phase' = "apply" /\ batch' = Tail(batch)
            /\ UNCHANGED <<setup, chain, cursor, top, ceiling, subs>>
        BY <3>2 DEF EnqueueRevocation, chainVars
      <4>2. batch # <<>>
        BY <4>1 DEF LiveInv
      <4> QED BY <4>1, <4>2
    <3> QED BY <1>8, <3>1, <3>2
  <2>5. batch' # batch /\ setup.hooks /\ Kind(Head(batch)) = "revoked" =>
            deliveries' = Enqueued(RevocationEvent(Head(batch)))
    BY <1>8 DEF WriteEvent, EnqueueRevocation
  <2>2. top' <= ceiling'
    BY <2>1 DEF HooksInv
  <2>3. CASE batch' = batch
    <3>1. HookPlace' = HookPlace
      BY <2>1, <2>3 DEF HookPlace, BatchFrom
    <3> QED BY <1>2, <1>3, <2>1, <2>2, <3>1, QueuedStays
  <2>4. CASE batch' = Tail(batch)
    <3>1. PICK b : b = BatchFrom
      OBVIOUS
    <3>2. HookPlace = b /\ b \in Nat
      BY <1>3, <2>1, <3>1 DEF HookPlace
    <3>3. Len(batch) # 0 /\ Head(batch) = batch[1] /\ 1 \in 1..Len(batch)
          /\ Len(Tail(batch)) = Len(batch) - 1
      BY <1>0, <2>1
    <3>4. Head(batch) = chain[b + 1]
      BY <2>1, <3>1, <3>3 DEF LiveInv
    <3>5. HookPlace' = b + 1
      <4>1. HookPlace' = Until(chain, top) - (Len(batch) - 1)
        BY <2>1, <2>4, <3>3 DEF HookPlace, BatchFrom
      <4>2. b = Until(chain, top) - Len(batch) /\ Until(chain, top) \in Int
        <5>1. top \in Int
          BY <1>0
        <5>2. Until(chain, top) \in 0..Len(chain)
          BY <5>1, ChainUntil
        <5> QED BY <1>0, <3>1, <5>2 DEF BatchFrom
      <4> QED BY <1>0, <4>1, <4>2
    <3>6. ASSUME setup.hooks, NEW s \in subs, Owed(s, chain[b + 1])
          PROVE  <<s.id, RevocationEvent(chain[b + 1])>> \in {Id(d) : d \in deliveries'}
      <4>1. Kind(Head(batch)) = "revoked" /\ Head(batch).key = s.key
        BY <3>4, <3>6 DEF Owed
      <4>2. PICK e : e = RevocationEvent(chain[b + 1])
        OBVIOUS
      <4>3. deliveries' = Enqueued(e)
        <5>1. Len(Tail(batch)) # Len(batch)
          <6>1. PICK n, m : n = Len(batch) /\ m = Len(Tail(batch))
            OBVIOUS
          <6>2. n \in Nat /\ m = n - 1
            BY <1>0, <3>3, <6>1
          <6>3. m # n
            BY <6>2
          <6> QED BY <6>1, <6>3
        <5>2. batch' # batch
          BY <2>4, <5>1
        <5> QED BY <2>5, <3>4, <3>6, <4>1, <4>2, <5>2
      <4>4. e.key = s.key
        BY <3>4, <4>1, <4>2 DEF RevocationEvent
      <4>5. CASE <<s.id, e>> \in {Id(d) : d \in deliveries}
        BY <1>2, <4>2, <4>5 DEF DeliveriesKept
      <4>6. CASE <<s.id, e>> \notin {Id(d) : d \in deliveries}
        <5>1. PICK n : n = [sub |-> s.id, event |-> e, attempts |-> 0, due |-> TRUE,
                            delivered |-> FALSE]
          OBVIOUS
        <5>2. n \in deliveries'
          BY <3>6, <4>3, <4>4, <4>6, <5>1 DEF Enqueued
        <5>3. Id(n) = <<s.id, e>>
          BY <5>1 DEF Id
        <5> QED BY <4>2, <5>2, <5>3
      <4> QED BY <4>5, <4>6
    <3>7. ASSUME setup.hooks', NEW i \in 1..HookPlace', NEW s \in subs', Owed(s, chain[i])'
          PROVE  Queued(s, chain[i])'
      <4>1. setup.hooks /\ s \in subs /\ chain'[i] = chain[i] /\ Owed(s, chain[i])
        BY <2>1, <3>7 DEF Owed
      <4>2. CASE i = b + 1
        BY <3>6, <4>1, <4>2 DEF Queued
      <4>3. CASE i # b + 1
        <5>1. i \in 1..HookPlace
          BY <3>2, <3>5, <4>3
        <5>2. Queued(s, chain[i])
          BY <4>1, <5>1 DEF HooksInv
        <5> QED BY <1>2, <4>1, <5>2 DEF Queued, DeliveriesKept
      <4> QED BY <4>2, <4>3
    <3> QED BY <1>2, <2>2, <3>7 DEF HooksInv, DeliveriesKept
  <2> QED BY <2>1, <2>3, <2>4
<1>9. CASE (LedgerCloses \/ Fork) /\ UNCHANGED <<ingesterVars, outboxVars>>
  <2>1. /\ \A n \in Int : n <= settled => Until(chain', n) = Until(chain, n)
        /\ \A i \in 1..Until(chain, settled) : chain'[i] = chain[i]
        /\ setup' = setup
    <3>1. CASE LedgerCloses
      <4>1. settled \in Int /\ head \in Int /\ settled <= head
        BY DEF ChainInv
      <4>2. /\ \A i \in 1..Len(chain) : chain'[i] = chain[i]
            /\ \A n \in Int : n <= head => Until(chain', n) = Until(chain, n)
        BY <3>1, LedgerClosesMoves
      <4>3. \A i \in 1..Until(chain, settled) : i \in 1..Len(chain)
        BY <1>0, <1>3
      <4>4. \A n \in Int : n <= settled => n <= head
        BY <4>1
      <4> QED BY <3>1, <4>2, <4>3, <4>4 DEF LedgerCloses
    <3>2. CASE Fork
      BY <3>2, ForkMoves DEF Fork
    <3> QED BY <1>9, <3>1, <3>2
  <2>2. HookPlace' = HookPlace /\ \A i \in 1..HookPlace : chain'[i] = chain[i]
    BY <1>9, <2>1, HookPlaceStays
  <2>3. subs' = subs /\ phase' = phase /\ top' = top /\ ceiling' = ceiling
    BY <1>9 DEF ingesterVars, tickVars, outboxVars
  <2>4. phase' \in {"apply", "enqueue"} => top' <= ceiling'
    BY <2>3 DEF HooksInv
  <2> QED BY <1>2, <1>3, <2>1, <2>2, <2>3, <2>4, QueuedStays
<1>10. CASE UNCHANGED <<cursor, tickVars, chainVars>>
  <2>1. UNCHANGED <<cursor, phase, ceiling, batch, top, setup, chain, head, settled, forks>>
    BY <1>10 DEF tickVars, chainVars
  <2>2. HookPlace' = HookPlace
    BY <2>1 DEF HookPlace, BatchFrom
  <2>3. phase' \in {"apply", "enqueue"} => top' <= ceiling'
    BY <2>1 DEF HooksInv
  <2>4. ASSUME NEW i \in 1..HookPlace PROVE ~(ProcessedUpTo < chain[i].ledger)
    <3>1. i \in 1..Len(chain) /\ chain[i].ledger \in Int
      <4>1. i \in 1..Len(chain)
        BY <1>0, <1>3, <2>4
      <4>2. head \in Nat /\ chain[i].ledger \in 1..head
        BY <4>1 DEF ChainInv
      <4> QED BY <4>1, <4>2
    <3>2. CASE phase \in {"apply", "enqueue"}
      <4>1. top <= ceiling /\ ProcessedUpTo = Larger(cursor, ceiling)
        BY <3>2 DEF HooksInv, ProcessedUpTo
      <4>2. HookPlace <= Until(chain, top)
        <5>1. top \in Int
          BY <1>0
        <5>2. Until(chain, top) \in 0..Len(chain)
          BY <5>1, ChainUntil
        <5> QED BY <1>0, <3>2, <5>2 DEF HookPlace, BatchFrom
      <4>3. i <= Until(chain, top) /\ top \in Int
        <5>1. top \in Int
          BY <1>0
        <5>2. Until(chain, top) \in 0..Len(chain)
          BY <5>1, ChainUntil
        <5> QED BY <1>0, <1>3, <2>4, <4>2, <5>1, <5>2
      <4>4. chain[i].ledger <= top
        BY <3>1, <4>3, ChainUntil
      <4> QED BY <1>0, <3>1, <4>1, <4>4 DEF Larger
    <3>3. CASE phase \notin {"apply", "enqueue"}
      <4>1. HookPlace = Until(chain, cursor)
        BY <3>3 DEF HookPlace
      <4>2. i <= Until(chain, cursor) /\ cursor \in Int
        BY <1>0, <1>3, <2>4, <4>1
      <4>3. chain[i].ledger <= cursor
        BY <3>1, <4>2, ChainUntil
      <4> QED BY <1>0, <3>1, <4>3 DEF ProcessedUpTo, Larger
    <3> QED BY <3>2, <3>3
  <2>5. NoneNewBefore(HookPlace)
    BY <2>4, NewSubscriptions DEF NoneNewBefore
  <2> QED BY <1>2, <1>3, <2>1, <2>2, <2>3, <2>5, QueuedStays
<1>11. CASE \/ TickStarts \/ QueueProcessed \/ PollFails \/ FetchFails \/ Crash \/ RollBackClaims
            \/ \E h \in ReplicaHeads \cup {head} : PollHead(h)
  <2>1. /\ UNCHANGED <<setup, chain, cursor, subs>>
        /\ phase' \notin {"apply", "enqueue"}
    BY <1>11 DEF TickStarts, ProcessWebhookQueue, QueueProcessed, PollFails, FetchFails,
       Crash, RollBackClaims, PollHead, chainVars, outboxVars
  <2> QED BY <1>4, <2>1
<1>12. CASE Tick
  BY <1>5, <1>6, <1>7, <1>8, <1>11, <1>12 DEF Tick
<1>13. CASE \/ Outside(UNCHANGED faults /\ Deliver)
            \/ Outside(UNCHANGED faults /\ \E d \in deliveries : BackoffElapses(Id(d)))
            \/ Outside(UNCHANGED faults /\ ClockAdvances)
            \/ Refusal
            \/ Outside(Fault /\ \E id \in answered : RecordLost(id))
  BY <1>10, <1>13 DEF Outside, Refusal
<1>14. CASE Environment
  <2>1. \/ (LedgerCloses \/ Fork) /\ UNCHANGED <<ingesterVars, outboxVars>>
        \/ UNCHANGED <<ingesterVars, chainVars>>
    BY <1>14 DEF Environment
  <2> QED BY <1>9, <1>10, <2>1 DEF ingesterVars
<1>15. CASE Faults
  BY <1>11, <1>13, <1>15 DEF Faults
<1> QED BY <1>12, <1>13, <1>14, <1>15 DEF IndexerNext

\* Under the same conditions: every revocation behind the cursor has a delivery row
\* for whoever had subscribed to its claim before its ledger was processed, whatever
\* crashes, forks, replicas and lost updates came between, and whoever subscribes
\* and unsubscribes meanwhile.
THEOREM RevocationsReachSubscribers ==
  ASSUME FinalityLag >= MaxReorg, ~CrashDuringRollback,
         \A s \in Setups : ~(s.live /\ s.backfill)
  PROVE  CompositionSpec /\ []WholePages => []RevocationsEnqueued
<1> DEFINE Inv == /\ ChainInv /\ (setup.live => LiveInv /\ HooksInv)
                  /\ (~setup.live => BackInv)
<1>1. CompositionInit => Inv
  <2> SUFFICES ASSUME CompositionInit PROVE HooksInv
    BY IndexInit
  <2>1. deliveries = {} /\ subs = {} /\ phase = "idle"
    BY DEF CompositionInit, IndexerInit, OutboxInit, IngesterInit
  <2> QED BY <2>1 DEF HooksInv, RowsOfDeliveries
<1>2. Inv /\ WholePages /\ [CompositionNext]_allVars => Inv'
  <2> SUFFICES ASSUME Inv, WholePages, [CompositionNext]_allVars PROVE Inv'
    OBVIOUS
  <2>1. ChainInv' /\ setup' = setup
    BY ChainStep
  <2>2. CASE setup.live
    <3>1. ~setup.backfill
      BY <2>2 DEF ChainInv
    <3>2. CASE IndexerNext
      BY <2>1, <2>2, <3>2, LiveStep, HooksStep
    <3>3. CASE UNCHANGED allVars
      <4>1. UNCHANGED <<claims, cursor, tickVars, chainVars>> /\ UNCHANGED <<subs, deliveries>>
        BY <3>3 DEF allVars, indexerVars, ingesterVars, outboxVars
      <4>2. LiveInv'
        BY <2>2, <4>1, OthersLeaveLive
      <4>3. HooksInv'
        BY <2>2, <4>1 DEF HooksInv, RowsOfDeliveries, HookPlace, BatchFrom, Owed, Queued,
           tickVars, chainVars
      <4> QED BY <2>1, <2>2, <4>2, <4>3
    <3> QED BY <2>2, <3>1, <3>2, <3>3 DEF CompositionNext
  <2>3. CASE ~setup.live
    BY <2>1, <2>3, BackfillStep
  <2> QED BY <2>2, <2>3
<1>3. Inv => RevocationsEnqueued
  <2> SUFFICES ASSUME Inv, setup.hooks, NEW j \in DOMAIN chain, NEW s \in subs,
                      Kind(chain[j]) = "revoked", chain[j].ledger <= cursor,
                      chain[j].key = s.key, s.since < chain[j].ledger
               PROVE  <<s.id, RevocationEvent(chain[j])>> \in {Id(d) : d \in deliveries}
    BY DEF RevocationsEnqueued
  <2>1. /\ j \in 1..Len(chain) /\ head \in Nat /\ chain[j].ledger \in 1..head /\ j \in Nat
        /\ Len(chain) \in Nat
    BY DEF ChainInv
  <2>2. CASE setup.live
    <3>1. cursor \in Int /\ LiveInv /\ HooksInv
      BY <2>2 DEF LiveInv
    <3>2. j <= Until(chain, cursor)
      BY <2>1, <3>1, ChainUntil
    <3>3. j \in 1..HookPlace
      BY <2>1, <3>1, <3>2, HookPlaceIs
    <3> QED BY <3>1, <3>3 DEF HooksInv, Owed, Queued
  <2>3. CASE ~setup.live
    BY <2>1, <2>3 DEF BackInv
  <2> QED BY <2>2, <2>3
<1> QED BY <1>1, <1>2, <1>3, PTL DEF CompositionSpec

\* What is answered was received, and only what is answered is marked delivered.
OutboxInv ==
    /\ RowsOfDeliveries
    /\ answered \subseteq received
    /\ \A d \in deliveries : d.delivered = TRUE => Id(d) \in received

LEMMA OutboxStep ==
  ASSUME OutboxInv, [IndexerNext]_indexerVars
  PROVE  OutboxInv'
<1>1. RowsOfDeliveries'
  BY DeliveriesStay DEF OutboxInv
<1>2. received \subseteq received' /\ answered' \subseteq received'
  <2>1. Tick => UNCHANGED <<answered, received>>
    BY DEF Tick, TickStarts, QueueProcessed, PollHead, RollBackClaims, RollBackCursor,
           FetchEvents, WriteEvent, EnqueueRevocation, SaveCursor, outboxVars
  <2>2. Deliver => received \subseteq received' /\ answered' \subseteq received'
    BY DEF Deliver, EnqueueExpired, SelectPending, EndpointAnswers, RecordDelivered,
           QueueDone, OutboxInv
  <2>3. ClockAdvances \/ Environment => UNCHANGED <<answered, received>>
    BY DEF ClockAdvances, Environment, Subscribe, Unsubscribe, outboxVars
  <2>4. Refusal \/ Faults => received' = received /\ answered' \subseteq answered
    BY DEF Refusal, Faults, PollHead, PollFails, FetchFails, Crash, Outside, outboxVars,
           RecordFailure, RecordLost
  <2>5. (\E d \in deliveries : BackoffElapses(Id(d))) => UNCHANGED <<answered, received>>
    BY DEF BackoffElapses
  <2> QED BY <2>1, <2>2, <2>3, <2>4, <2>5 DEF IndexerNext, Outside, OutboxInv, indexerVars, outboxVars
<1>3. ASSUME NEW n \in deliveries', n.delivered = TRUE PROVE Id(n) \in received'
  <2>1. CASE n \in deliveries
    BY <1>2, <1>3, <2>1 DEF OutboxInv
  <2>2. ASSUME NEW id \in answered, deliveries' = Attempted(id, TRUE), n \notin deliveries
        PROVE  Id(n) \in received
    <3>1. PICK d \in deliveries :
              Id(d) = id /\ n = [d EXCEPT !.attempts = @ + 1, !.due = TRUE, !.delivered = TRUE]
      <4>1. n \in Attempted(id, TRUE)
        BY <2>2
      <4> QED BY <2>2, <4>1, Zenon DEF Attempted
    <3>2. "sub" \in DOMAIN d /\ "event" \in DOMAIN d
      BY DEF OutboxInv, RowsOfDeliveries
    <3>3. n.sub = d.sub /\ n.event = d.event
      BY <3>1, <3>2
    <3>4. Id(n) = id
      BY <3>1, <3>3 DEF Id
    <3> QED BY <2>2, <3>4 DEF OutboxInv
  <2>3. ASSUME NEW id, deliveries' = Attempted(id, FALSE), n \notin deliveries
        PROVE  FALSE
    <3>1. PICK d \in deliveries :
              n = [d EXCEPT !.attempts = @ + 1, !.due = FALSE, !.delivered = FALSE]
      <4>1. n \in Attempted(id, FALSE)
        BY <2>3
      <4> QED BY <2>3, <4>1, Zenon DEF Attempted
    <3>2. "delivered" \in DOMAIN d
      BY DEF OutboxInv, RowsOfDeliveries
    <3>3. n.delivered = FALSE
      BY <3>1, <3>2
    <3> QED BY <1>3, <3>3
  <2>4. ASSUME NEW id, BackoffElapses(id), n \notin deliveries
        PROVE  Id(n) \in received
    <3>1. PICK d \in deliveries : n = [d EXCEPT !.due = TRUE]
      BY <2>4 DEF BackoffElapses
    <3>2. DOMAIN d = {"sub", "event", "attempts", "due", "delivered"}
      BY DEF OutboxInv, RowsOfDeliveries
    <3>3. n.sub = d.sub /\ n.event = d.event /\ n.delivered = d.delivered
      BY <3>1, <3>2
    <3>4. d.delivered = TRUE
      BY <1>3, <3>3
    <3> QED BY <3>3, <3>4 DEF Id, OutboxInv
  <2>5. ASSUME NEW e, n \in Enqueued(e), n \notin deliveries PROVE FALSE
    <3>1. PICK s \in subs :
              n = [sub |-> s.id, event |-> e, attempts |-> 0, due |-> TRUE, delivered |-> FALSE]
      BY <2>5 DEF Enqueued
    <3>2. n.delivered = FALSE
      BY <3>1
    <3> QED BY <1>3, <3>2
  <2>6. Tick => n \in deliveries \/ \E e : n \in Enqueued(e)
    BY DEF Tick, TickStarts, QueueProcessed, PollHead, RollBackClaims, RollBackCursor,
           FetchEvents, WriteEvent, EnqueueRevocation, SaveCursor, outboxVars
  <2>7. Deliver => \/ n \in deliveries
                   \/ \E e : n \in Enqueued(e)
                   \/ \E id \in answered : deliveries' = Attempted(id, TRUE)
    <3>1. ASSUME EnqueueExpired PROVE n \in deliveries \/ \E e : n \in Enqueued(e)
      <4>1. PICK E : deliveries' = deliveries \cup UNION {Enqueued(e) : e \in E}
        BY <3>1 DEF EnqueueExpired
      <4> QED BY <4>1
    <3> QED BY <3>1 DEF Deliver, SelectPending, EndpointAnswers, RecordDelivered, QueueDone
  <2>8. ClockAdvances \/ Environment => n \in deliveries
    BY DEF ClockAdvances, Environment, Subscribe, Unsubscribe, outboxVars
  <2>9. Refusal \/ Faults => n \in deliveries \/ \E id : deliveries' = Attempted(id, FALSE)
    BY DEF Refusal, Faults, PollHead, PollFails, FetchFails, Crash, Outside, outboxVars,
           RecordFailure, RecordLost
  <2>10. UNCHANGED indexerVars => n \in deliveries
    BY DEF indexerVars, outboxVars
  <2> QED BY <1>2, <2>1, <2>2, <2>3, <2>4, <2>5, <2>6, <2>7, <2>8, <2>9, <2>10
          DEF IndexerNext, Outside
<1> QED BY <1>1, <1>2, <1>3 DEF OutboxInv

\* What is marked delivered was received by its endpoint: for every chain, number of
\* subscriptions, bound of attempts, and whatever crashes and lost updates come.
THEOREM DeliveredIsReceived == CompositionSpec => []DeliveredWasReceived
<1>1. CompositionInit => OutboxInv
  BY DEF CompositionInit, IndexerInit, OutboxInit, OutboxInv, RowsOfDeliveries
<1>2. OutboxInv /\ [CompositionNext]_allVars => OutboxInv'
  <2> SUFFICES ASSUME OutboxInv, [CompositionNext]_allVars PROVE OutboxInv'
    OBVIOUS
  <2>1. CASE IndexerNext
    BY <2>1, OutboxStep
  <2>2. CASE UNCHANGED outboxVars
    BY <2>2 DEF outboxVars, OutboxInv, RowsOfDeliveries
  <2>3. BackfillNext => UNCHANGED outboxVars
    BY DEF BackfillNext, StartBackfill, ResumeBackfill, FetchBatch, BackfillEvent,
           SaveCheckpoint, BackfillDies, indexerVars
  <2> QED BY <2>1, <2>2, <2>3 DEF CompositionNext, allVars, indexerVars
<1>3. OutboxInv => DeliveredWasReceived
  BY DEF OutboxInv, DeliveredWasReceived
<1> QED BY <1>1, <1>2, <1>3, PTL DEF CompositionSpec

\* Every row of a table is of one of the first m events of a chain
Sourced(c, t, m) ==
    \A r \in t : \E i \in 1..m : Kind(c[i]) = "verified" /\ c[i].key = r.key
                                 /\ c[i].ledger = r.ledger

SourcedInv == Sourced(chain, claims, Until(chain, settled))

LEMMA ApplyingSources ==
  ASSUME NEW c, NEW t \in SUBSET Row, NEW m \in Nat, NEW j \in 1..m, Sourced(c, t, m)
  PROVE  Sourced(c, ApplyEvent(t, c[j]), m)
<1>1. ASSUME NEW r \in ApplyEvent(t, c[j])
      PROVE  \E i \in 1..m : Kind(c[i]) = "verified" /\ c[i].key = r.key
                             /\ c[i].ledger = r.ledger
  <2>1. CASE r \in t
    BY <2>1 DEF Sourced
  <2>2. ASSUME Kind(c[j]) = "verified", r \notin t
        PROVE  r.key = c[j].key /\ r.ledger = c[j].ledger
    BY <1>1, <2>2 DEF ApplyEvent, Upsert
  <2>3. ASSUME Kind(c[j]) = "revoked"
        PROVE  \E o \in t : r.key = o.key /\ r.ledger = o.ledger
    <3>1. r \in MarkRevoked(t, c[j].key)
      BY <1>1, <2>3 DEF ApplyEvent
    <3>2. PICK o \in t : r \in {o, [o EXCEPT !.revoked = TRUE]}
      BY <3>1 DEF MarkRevoked
    <3>3. o \in Row
      OBVIOUS
    <3>4. [o EXCEPT !.revoked = TRUE].key = o.key /\ [o EXCEPT !.revoked = TRUE].ledger = o.ledger
      BY <3>3 DEF Row
    <3> QED BY <3>2, <3>4
  <2>4. Kind(c[j]) \in {"verified", "revoked"} \/ r \in t
    BY <1>1 DEF ApplyEvent
  <2> QED BY <2>1, <2>2, <2>3, <2>4 DEF Sourced
<1> QED BY <1>1 DEF Sourced

\* What the chain does leaves rows that are settled with the event they state.
LEMMA ChainLeavesSourced ==
  ASSUME ChainInv, ChainInv', SourcedInv, settled <= settled', claims' = claims,
         \A n \in Int : n <= settled => Until(chain', n) = Until(chain, n),
         \A i \in 1..Until(chain, settled) : chain'[i] = chain[i]
  PROVE  SourcedInv'
<1>0. /\ settled \in Int /\ settled' \in Int /\ chain' \in Seq(Placed) /\ Ordered(chain')
      /\ Len(chain) \in Nat /\ Len(chain') \in Nat
      /\ \A i \in 1..Len(chain') : chain'[i].ledger \in Nat
  <2>1. head' \in Nat /\ \A i \in 1..Len(chain') : chain'[i].ledger \in 1..head'
    BY DEF ChainInv
  <2>2. \A i \in 1..Len(chain') : chain'[i].ledger \in Nat
    BY <2>1
  <2>3. settled \in Int /\ Len(chain) \in Nat
    BY DEF ChainInv
  <2>4. settled' \in Int /\ chain' \in Seq(Placed) /\ Ordered(chain') /\ Len(chain') \in Nat
    BY DEF ChainInv
  <2> QED BY <2>2, <2>3, <2>4
<1>1. Until(chain, settled) \in 0..Len(chain)
  BY <1>0, ChainUntil
<1>2. Until(chain', settled) <= Until(chain', settled')
  BY <1>0, UntilGrows
<1>3. Until(chain', settled') \in 0..Len(chain')
  BY <1>0, UntilIs
<1>4. Until(chain, settled) <= Until(chain', settled')
  BY <1>0, <1>2
<1>5. \A i \in 1..Until(chain, settled) : i \in 1..Until(chain', settled')
  BY <1>0, <1>1, <1>3, <1>4
<1> QED BY <1>5 DEF SourcedInv, Sourced

LEMMA ChainSteps ==
  ASSUME ChainInv, ChainInv', SourcedInv, LedgerCloses \/ Fork, claims' = claims
  PROVE  SourcedInv'
<1>0. settled \in Int /\ head \in Int /\ settled <= head /\ Len(chain) \in Nat
  BY DEF ChainInv
<1>1. CASE LedgerCloses
  <2>1. /\ settled <= settled' /\ \A i \in 1..Len(chain) : chain'[i] = chain[i]
        /\ \A n \in Int : n <= head => Until(chain', n) = Until(chain, n)
    BY <1>1, LedgerClosesMoves
  <2>2. Until(chain, settled) \in 0..Len(chain)
    BY <1>0, ChainUntil
  <2>3. \A i \in 1..Until(chain, settled) : chain'[i] = chain[i]
    BY <1>0, <2>1, <2>2
  <2>4. \A n \in Int : n <= settled => Until(chain', n) = Until(chain, n)
    BY <1>0, <2>1
  <2> QED BY <2>1, <2>3, <2>4, ChainLeavesSourced
<1>2. CASE Fork
  <2>1. settled <= settled'
    BY <1>0, <1>2, ForkMoves
  <2> QED BY <1>2, <2>1, ForkMoves, ChainLeavesSourced
<1> QED BY <1>1, <1>2

\* The live service writes only what is settled.
LEMMA LiveSources ==
  ASSUME ChainInv, ChainInv', LiveInv, SourcedInv, IndexerNext
  PROVE  SourcedInv'
<1>0. settled \in Int /\ Len(chain) \in Nat /\ claims \in SUBSET Row /\ batch \in Seq(Placed)
  BY DEF ChainInv, LiveInv
<1>1. CASE WriteEvent
  <2>1. /\ phase = "apply" /\ batch # <<>> /\ claims' = ApplyEvent(claims, Head(batch))
        /\ UNCHANGED <<chain, settled>>
    BY <1>1 DEF WriteEvent, chainVars
  <2>2. PICK b, w : b = BatchFrom /\ w = Until(chain, settled)
    OBVIOUS
  <2>3. 1 \in 1..Len(batch) /\ Head(batch) = batch[1] /\ Len(batch) \in Nat \ {0}
    BY <1>0, <2>1
  <2>4. b \in Nat /\ w \in Nat /\ b + Len(batch) <= w
    BY <2>1, <2>2, PlaceIs
  <2>5. b + 1 \in 1..w
    BY <2>3, <2>4
  <2>6. Head(batch) = chain[b + 1]
    BY <2>1, <2>2, <2>3 DEF LiveInv
  <2>7. Sourced(chain, claims', w)
    BY <1>0, <2>1, <2>2, <2>4, <2>5, <2>6, ApplyingSources DEF SourcedInv
  <2> QED BY <2>1, <2>2, <2>7 DEF SourcedInv
<1>2. CASE (LedgerCloses \/ Fork) /\ claims' = claims
  BY <1>2, ChainSteps
<1>3. CASE UNCHANGED chainVars /\ claims' \subseteq claims
  BY <1>3 DEF chainVars, SourcedInv, Sourced
<1>4. Tick => WriteEvent \/ (UNCHANGED chainVars /\ claims' \subseteq claims)
  BY DEF Tick, TickStarts, QueueProcessed, PollHead, RollBackClaims, RollBackCursor,
         FetchEvents, EnqueueRevocation, SaveCursor, DeleteAfter
<1>5. Deliver => claims' = claims
  BY DEF Deliver, EnqueueExpired, SelectPending, EndpointAnswers, RecordDelivered, QueueDone
<1>6. /\ (\E d \in deliveries : BackoffElapses(Id(d))) \/ ClockAdvances => claims' = claims
      /\ (\E id \in sending : RecordFailure(id)) => claims' = claims
      /\ (\E id \in answered : RecordLost(id)) => claims' = claims
  BY DEF BackoffElapses, ClockAdvances, RecordFailure, RecordLost
<1>7. Environment => \/ (LedgerCloses \/ Fork) /\ claims' = claims
                     \/ UNCHANGED chainVars /\ claims' = claims
  BY DEF Environment, ingesterVars
<1>8. Faults => UNCHANGED chainVars /\ claims' = claims
  BY <1>6 DEF Faults, PollHead, PollFails, FetchFails, Crash, Outside
<1> QED BY <1>1, <1>2, <1>3, <1>4, <1>5, <1>6, <1>7, <1>8 DEF IndexerNext, Outside, Refusal

\* ... and so does the backfill, whose ranges end below the finality lag.
LEMMA BackfillSources ==
  ASSUME FinalityLag >= MaxReorg, ChainInv, ChainInv', BackInv, SourcedInv,
         checkpoint.to <= settled, ~setup.live, [CompositionNext]_allVars
  PROVE  SourcedInv' /\ checkpoint'.to <= settled'
<1>0. /\ settled \in Int /\ Len(chain) \in Nat /\ claims \in SUBSET Row /\ head \in Nat
      /\ FinalityLag \in Nat /\ MaxReorg \in Nat /\ head <= settled + MaxReorg
      /\ page \in [fetched: BOOLEAN, left: Seq(Placed), short: BOOLEAN]
      /\ job \in [running: BOOLEAN, from: Nat, to: Nat, at: Nat]
  <2>1. FinalityLag \in Nat /\ MaxReorg \in Nat
    BY ChainAssumption, IngesterAssumption DEF ChainAssumption, IngesterAssumption
  <2>2. settled \in Int /\ Len(chain) \in Nat /\ head \in Nat /\ head <= settled + MaxReorg
    BY DEF ChainInv
  <2>3. /\ claims \in SUBSET Row
        /\ page \in [fetched: BOOLEAN, left: Seq(Placed), short: BOOLEAN]
        /\ job \in [running: BOOLEAN, from: Nat, to: Nat, at: Nat]
    BY DEF BackInv
  <2> QED BY <2>1, <2>2, <2>3
<1>1. CASE BackfillEvent
  <2>1. /\ job.running /\ page.fetched /\ page.left # <<>> /\ Head(page.left).ledger <= job.to
        /\ claims' = ApplyEvent(claims, Head(page.left))
        /\ UNCHANGED <<chain, settled, checkpoint>>
    BY <1>1 DEF BackfillEvent, chainVars
  <2>2. PICK b, w : b = job.at /\ w = Until(chain, settled)
    OBVIOUS
  <2>3. /\ page.left \in Seq(Placed) /\ 1 \in 1..Len(page.left)
        /\ Head(page.left) = page.left[1] /\ Len(page.left) \in Nat \ {0}
    BY <1>0, <2>1
  <2>4. Head(page.left) = chain[b + 1] /\ b \in Nat /\ b + Len(page.left) <= Len(chain)
    BY <1>0, <2>1, <2>2, <2>3 DEF BackInv
  <2>5. b + 1 \in 1..Len(chain) /\ chain[b + 1].ledger \in Int
    <3>1. b + 1 \in 1..Len(chain)
      BY <1>0, <2>3, <2>4
    <3>2. chain[b + 1].ledger \in 1..head
      BY <3>1 DEF ChainInv
    <3> QED BY <1>0, <3>1, <3>2
  <2>6. chain[b + 1].ledger <= settled
    <3>1. job.to = checkpoint.to /\ job.to \in Int
      BY <1>0, <2>1 DEF BackInv
    <3> QED BY <1>0, <2>1, <2>4, <2>5, <3>1
  <2>7. w \in 0..Len(chain) /\ b + 1 <= w
    BY <1>0, <2>2, <2>5, <2>6, ChainUntil
  <2>8. w \in Nat /\ b + 1 \in 1..w
    BY <1>0, <2>4, <2>7
  <2>9. Sourced(chain, claims', w)
    BY <1>0, <2>1, <2>2, <2>4, <2>8, ApplyingSources DEF SourcedInv
  <2> QED BY <2>1, <2>2, <2>9 DEF SourcedInv
<1>2. CASE LedgerCloses /\ UNCHANGED <<ingesterVars, outboxVars, backfillVars>>
  <2>1. claims' = claims /\ checkpoint' = checkpoint
    BY <1>2 DEF ingesterVars, backfillVars
  <2>2. settled <= settled' /\ settled' \in Int
    BY <1>2, LedgerClosesMoves DEF ChainInv
  <2>3. checkpoint.to \in Int
    BY DEF BackInv
  <2> QED BY <1>0, <1>2, <2>1, <2>2, <2>3, ChainSteps
<1>3. CASE UNCHANGED <<chain, settled, claims, checkpoint>>
  BY <1>3 DEF SourcedInv
<1>4. CASE UNCHANGED <<chain, settled, claims>> /\ checkpoint'.to <= settled
  BY <1>4 DEF SourcedInv
<1>5. ASSUME NEW from \in OperatorRanges, NEW to \in 1..head, StartBackfill(from, to)
      PROVE  UNCHANGED <<chain, settled, claims>> /\ checkpoint'.to <= settled
  <2>1. to <= head - FinalityLag /\ checkpoint'.to = to /\ UNCHANGED <<chain, settled, claims>>
    BY <1>5 DEF StartBackfill, indexerVars, ingesterVars, chainVars
  <2> QED BY <1>0, <2>1
<1>6. CASE SaveCheckpoint
  <2>1. checkpoint'.to = job.to /\ job.running /\ UNCHANGED <<chain, settled, claims>>
    BY <1>6 DEF SaveCheckpoint, indexerVars, ingesterVars, chainVars
  <2>2. job.to = checkpoint.to
    BY <2>1 DEF BackInv
  <2> QED BY <1>4, <2>1, <2>2
<1>7. CASE ResumeBackfill \/ FetchBatch \/ BackfillDies \/ UNCHANGED allVars
  BY <1>3, <1>7 DEF ResumeBackfill, FetchBatch, BackfillDies, allVars, indexerVars,
     ingesterVars, chainVars, backfillVars
<1> QED BY <1>1, <1>2, <1>4, <1>5, <1>6, <1>7 DEF CompositionNext, BackfillNext

\* Under the same conditions: a row states an event of a ledger that no
\* reorganisation replaces, written by the live loop or by the backfill.
THEOREM RowsAreAlwaysFinal ==
  ASSUME FinalityLag >= MaxReorg, ~CrashDuringRollback,
         \A s \in Setups : ~(s.live /\ s.backfill)
  PROVE  CompositionSpec /\ []WholePages => []RowsAreFinal
<1> DEFINE Inv == /\ ChainInv /\ SourcedInv /\ (setup.live => LiveInv)
                  /\ (~setup.live => BackInv /\ checkpoint.to <= settled)
<1>1. CompositionInit => Inv
  <2> SUFFICES ASSUME CompositionInit PROVE SourcedInv /\ checkpoint.to <= settled
    BY IndexInit
  <2>1. claims = {} /\ checkpoint = NoFile /\ settled = 0
    BY DEF CompositionInit, IndexerInit, ChainInit, IngesterInit, BackfillInit
  <2> QED BY <2>1 DEF SourcedInv, Sourced, NoFile
<1>2. Inv /\ WholePages /\ [CompositionNext]_allVars => Inv'
  <2> SUFFICES ASSUME Inv, WholePages, [CompositionNext]_allVars PROVE Inv'
    OBVIOUS
  <2>1. ChainInv' /\ setup' = setup
    BY ChainStep
  <2>2. CASE setup.live
    <3>1. ~setup.backfill
      BY <2>2 DEF ChainInv
    <3>2. CASE IndexerNext
      BY <2>1, <2>2, <3>2, LiveStep, LiveSources
    <3>3. CASE UNCHANGED allVars
      <4>1. UNCHANGED <<claims, cursor, tickVars, chainVars>>
        BY <3>3 DEF allVars, indexerVars, ingesterVars
      <4>2. SourcedInv'
        BY <4>1 DEF SourcedInv, chainVars
      <4> QED BY <2>1, <2>2, <4>1, <4>2, OthersLeaveLive
    <3> QED BY <2>2, <3>1, <3>2, <3>3 DEF CompositionNext
  <2>3. CASE ~setup.live
    BY <2>1, <2>3, BackfillStep, BackfillSources
  <2> QED BY <2>2, <2>3
<1>3. Inv => RowsAreFinal
  <2> SUFFICES ASSUME ChainInv, SourcedInv, NEW r \in claims
               PROVE  /\ r.ledger <= settled
                      /\ \E i \in DOMAIN chain : /\ Kind(chain[i]) = "verified"
                                                 /\ chain[i].key = r.key
                                                 /\ chain[i].ledger = r.ledger
    BY DEF RowsAreFinal
  <2>1. PICK i \in 1..Until(chain, settled) :
            Kind(chain[i]) = "verified" /\ chain[i].key = r.key /\ chain[i].ledger = r.ledger
    BY DEF SourcedInv, Sourced
  <2>2. settled \in Int /\ Len(chain) \in Nat /\ DOMAIN chain = 1..Len(chain)
    BY DEF ChainInv
  <2>3. Until(chain, settled) \in 0..Len(chain)
    BY <2>2, ChainUntil
  <2>4. i \in 1..Len(chain) /\ i <= Until(chain, settled)
    BY <2>2, <2>3
  <2>5. chain[i].ledger <= settled
    BY <2>2, <2>4, ChainUntil
  <2> QED BY <2>1, <2>2, <2>4, <2>5
<1> QED BY <1>1, <1>2, <1>3, PTL DEF CompositionSpec
=============================================================================
