------------------------------- MODULE GatedPool -------------------------------
(***************************************************************************)
(* contracts/gated_pool: a pool whose deposits are gated by a claim in the *)
(* ProofRegistry, which this module extends, and whose withdrawals are     *)
(* not.  With a token configured, balances mirror tokens the pool holds.   *)
(*                                                                         *)
(* The token contract is external: transfer moves what the sender has or   *)
(* fails, and anybody may send the pool tokens without calling it.  i128   *)
(* overflow is out of reach of any real supply; entry TTLs are left out.   *)
(***************************************************************************)
EXTENDS ProofRegistry, FiniteSetTheorems, TLAPS

CONSTANTS
    RequiredType, MinThreshold,  \* the gate; MinThreshold may be None
    TokenConfigured,             \* FALSE: reference demo mode
    InitialWallet                \* tokens each holder starts with

ASSUME PoolAssumption ==
    /\ RequiredType \in ClaimTypes
    /\ MinThreshold \in Nat \cup {None}
    /\ TokenConfigured \in BOOLEAN
    /\ InitialWallet \in Nat
    /\ IsFiniteSet(Holders)

VARIABLES
    balance,    \* DataKey::Balance
    wallet,     \* tokens of each holder
    poolTokens  \* tokens of the pool contract

poolVars == <<balance, wallet, poolTokens>>
pvars == <<vars, poolVars>>

\* Bound of the amounts a call names.
Supply == InitialWallet * Cardinality(Holders)

PoolTypeOK ==
    /\ balance \in [Holders -> Nat]
    /\ wallet \in [Holders -> Nat]
    /\ poolTokens \in Nat

PoolInit ==
    /\ balance = [h \in Holders |-> 0]
    /\ wallet = [h \in Holders |-> InitialWallet]
    /\ poolTokens = 0

\* External: token.transfer between a holder and the pool.
PayIn(h, amount) ==
    /\ wallet[h] >= amount
    /\ wallet' = [wallet EXCEPT ![h] = @ - amount]
    /\ poolTokens' = poolTokens + amount

PayOut(h, amount) ==
    /\ poolTokens >= amount
    /\ wallet' = [wallet EXCEPT ![h] = @ + amount]
    /\ poolTokens' = poolTokens - amount

\* (Faulty: credits without taking the tokens.)
DepositCreditsFirst(caller, amount) ==
    /\ amount > 0
    /\ CheckClaim(caller, RequiredType, MinThreshold, None)
    /\ balance[caller] + amount <= Supply
    /\ balance' = [balance EXCEPT ![caller] = @ + amount]
    /\ UNCHANGED <<wallet, poolTokens, vars>>

\* check_claim panics on a record it cannot deserialise, and so does the call.
Deposit(caller, amount) ==
    /\ amount > 0
    /\ CheckClaim(caller, RequiredType, MinThreshold, None)
    /\ IF TokenConfigured THEN PayIn(caller, amount)
       ELSE UNCHANGED <<wallet, poolTokens>>
    /\ balance' = [balance EXCEPT ![caller] = @ + amount]
    /\ UNCHANGED vars

\* (Faulty: leaving takes a valid claim, like entering.)
WithdrawGated(caller, amount) ==
    /\ amount > 0
    /\ CheckClaim(caller, RequiredType, MinThreshold, None)
    /\ amount <= balance[caller]
    /\ IF TokenConfigured THEN PayOut(caller, amount)
       ELSE UNCHANGED <<wallet, poolTokens>>
    /\ balance' = [balance EXCEPT ![caller] = @ - amount]
    /\ UNCHANGED vars

Withdraw(caller, amount) ==
    /\ amount > 0
    /\ amount <= balance[caller]
    /\ IF TokenConfigured THEN PayOut(caller, amount)
       ELSE UNCHANGED <<wallet, poolTokens>>
    /\ balance' = [balance EXCEPT ![caller] = @ - amount]
    /\ UNCHANGED vars

\* External: a direct transfer to the pool's address.
Donate(h, amount) ==
    /\ amount > 0
    /\ PayIn(h, amount)
    /\ UNCHANGED <<balance, vars>>

PoolStep ==
    \E h \in Holders, amount \in 1..Supply :
        \/ Deposit(h, amount)
        \/ Withdraw(h, amount)
        \/ Donate(h, amount)

PoolNext == PoolStep \/ (Next /\ UNCHANGED poolVars)

PoolSpec == Init /\ PoolInit /\ [][PoolNext]_pvars

\* For TLC: a deployment whose issuers and circuits stay as they are; what
\* varies is the claims, the pauses and the pool.
ClaimsNext == SubmitStep \/ RevocationStep \/ AdminStep \/ Tick

DeployedNext == PoolStep \/ (ClaimsNext /\ UNCHANGED poolVars)

DeployedInit == Deployed /\ PoolInit

DeployedSpec == DeployedInit /\ [][DeployedNext]_pvars

-----------------------------------------------------------------------------
(* Properties *)

\* Every holder can take out their whole balance in every state of the pool and
\* of the registry: after the claim behind the deposit expired, was revoked or
\* deleted, while intake is paused, whatever others withdrew before.
ExitAlwaysOpen ==
    \A h \in Holders :
        balance[h] > 0 => ENABLED Withdraw(h, balance[h])

\* The tokens the pool owes, one by one: the n-th of holder h.
Owed(b) == UNION {{h} \X (1..b[h]) : h \in Holders}

\* The pool's tokens cover the balances it owes.
Solvent == TokenConfigured => Cardinality(Owed(balance)) <= poolTokens

\* So a withdrawal of a whole balance finds the tokens it pays out, in whatever
\* order the others left.
ExitIsFunded ==
    TokenConfigured => \A h \in Holders : balance[h] <= poolTokens

\* Nobody takes out more than they put in.
NobodyGains ==
    TokenConfigured =>
        \A h \in Holders : wallet[h] + balance[h] <= InitialWallet

\* A balance grows only for a holder whose claim the registry vouches for at
\* that moment, at the pool's threshold: an expired or a revoked claim, one whose
\* threshold is lower or was never stored, or another type's, opens no gate.
DepositsAreGated ==
    [][\A h \in Holders :
        balance'[h] > balance[h] =>
            /\ ~proofs[<<h, RequiredType>>].revoked
            /\ now < proofs[<<h, RequiredType>>].expiry
            /\ MinThreshold # None /\ MinThreshold > 0 =>
                   /\ proofs[<<h, RequiredType>>].threshold # None
                   /\ proofs[<<h, RequiredType>>].threshold >= MinThreshold]_pvars
-----------------------------------------------------------------------------
(* Theorems, for every set of holders and every supply.                    *)

\* A stretch of one holder's tokens.
LEMMA SliceSize ==
  ASSUME NEW h, NEW first \in Nat, NEW last \in Nat, first <= last + 1
  PROVE  /\ IsFiniteSet({h} \X (first .. last))
         /\ Cardinality({h} \X (first .. last)) = last - first + 1
<1>1. /\ IsFiniteSet(first .. last)
      /\ Cardinality(first .. last) = last - first + 1
  BY FS_Interval
<1>2. IsFiniteSet({h}) /\ Cardinality({h}) = 1
  BY FS_Singleton
<1>3. /\ IsFiniteSet({h} \X (first .. last))
      /\ Cardinality({h} \X (first .. last)) = 1 * Cardinality(first .. last)
  BY <1>1, <1>2, FS_Product
<1>4. 1 * (last - first + 1) = last - first + 1
  OBVIOUS
<1> QED BY <1>1, <1>3, <1>4

\* A deposit adds its amount to what is owed.
LEMMA OwedGrows ==
  ASSUME NEW b \in [Holders -> Nat], NEW h \in Holders, NEW amount \in Nat,
         IsFiniteSet(Owed(b))
  PROVE  LET c == [b EXCEPT ![h] = @ + amount] IN
         /\ IsFiniteSet(Owed(c))
         /\ Cardinality(Owed(c)) = Cardinality(Owed(b)) + amount
<1> DEFINE c == [b EXCEPT ![h] = @ + amount]
           new == {h} \X (b[h] + 1 .. b[h] + amount)
<1>1. Owed(c) = Owed(b) \cup new
  <2>1. ASSUME NEW g \in Holders
        PROVE  c[g] = IF g = h THEN b[g] + amount ELSE b[g]
    OBVIOUS
  <2>2. \A g \in Holders : b[g] \in Nat
    OBVIOUS
  <2>3. ASSUME NEW x, x \in Owed(c)
        PROVE  x \in Owed(b) \cup new
    <3>1. PICK g \in Holders : x \in {g} \X (1..c[g])
      BY <2>3 DEF Owed
    <3>2. PICK n \in 1..c[g] : x = <<g, n>>
      BY <3>1
    <3>3. CASE n \in 1..b[g]
      BY <3>2, <3>3 DEF Owed
    <3>4. CASE n \notin 1..b[g]
      <4>1. g = h /\ n \in b[h] + 1 .. b[h] + amount
        BY <2>1, <2>2, <3>2, <3>4
      <4> QED BY <3>2, <4>1
    <3> QED BY <3>3, <3>4
  <2>4. ASSUME NEW x, x \in Owed(b)
        PROVE  x \in Owed(c)
    <3>1. PICK g \in Holders : x \in {g} \X (1..b[g])
      BY <2>4 DEF Owed
    <3>2. x \in {g} \X (1..c[g])
      BY <2>1, <2>2, <3>1
    <3> QED BY <3>2 DEF Owed
  <2>5. ASSUME NEW x, x \in new
        PROVE  x \in Owed(c)
    <3>1. x \in {h} \X (1..c[h])
      BY <2>1, <2>2, <2>5
    <3> QED BY <3>1 DEF Owed
  <2> QED BY <2>3, <2>4, <2>5
<1>2. Owed(b) \cap new = {}
  <2> SUFFICES ASSUME NEW x, x \in Owed(b), x \in new PROVE FALSE
    OBVIOUS
  <2>1. PICK g \in Holders : x \in {g} \X (1..b[g])
    BY DEF Owed
  <2>2. PICK n \in b[h] + 1 .. b[h] + amount : x = <<h, n>>
    OBVIOUS
  <2>3. g = h /\ n \in 1..b[h] /\ b[h] \in Nat
    BY <2>1, <2>2
  <2> QED BY <2>3
<1>3. IsFiniteSet(new) /\ Cardinality(new) = amount
  <2> DEFINE first == b[h] + 1
             last == b[h] + amount
  <2>1. b[h] \in Nat
    OBVIOUS
  <2>2. first \in Nat /\ last \in Nat /\ first <= last + 1
        /\ last - first + 1 = amount
    BY <2>1
  <2>3. new = {h} \X (first .. last)
    OBVIOUS
  <2> HIDE DEF first, last, new
  <2> QED BY <2>2, <2>3, SliceSize
<1>4. Cardinality(Owed(b)) \in Nat
  BY FS_CardinalityType
<1> HIDE DEF c, new
<1>5. /\ IsFiniteSet(Owed(b) \cup new)
      /\ Cardinality(Owed(b) \cup new) = Cardinality(Owed(b)) + amount
  BY <1>2, <1>3, <1>4, FS_Union, FS_EmptySet
<1> QED BY <1>1, <1>5 DEF c

\* What is owed to one holder is part of what is owed.
LEMMA OwedCoversBalance ==
  ASSUME NEW b \in [Holders -> Nat], NEW h \in Holders, IsFiniteSet(Owed(b))
  PROVE  b[h] <= Cardinality(Owed(b))
<1> DEFINE own == {h} \X (1 .. b[h])
<1>1. own \in SUBSET Owed(b)
  BY DEF Owed
<1>2. Cardinality(own) = b[h]
  <2>1. 1 \in Nat /\ b[h] \in Nat /\ 1 <= b[h] + 1 /\ b[h] - 1 + 1 = b[h]
    OBVIOUS
  <2>2. Cardinality(own) = b[h] - 1 + 1
    BY <2>1, SliceSize
  <2> QED BY <2>1, <2>2
<1> HIDE DEF own
<1>3. Cardinality(own) <= Cardinality(Owed(b))
  BY <1>1, FS_Subset
<1> QED BY <1>2, <1>3

PoolInv ==
    /\ PoolTypeOK
    /\ IsFiniteSet(Owed(balance))
    /\ Solvent

LEMMA PoolDeposit ==
  ASSUME PoolInv, NEW h \in Holders, NEW amount \in Nat, Deposit(h, amount)
  PROVE  PoolInv'
<1> USE DEF PoolInv, PoolTypeOK
<1>1. balance' = [balance EXCEPT ![h] = @ + amount]
  BY DEF Deposit
<1>2. /\ IsFiniteSet(Owed(balance'))
      /\ Cardinality(Owed(balance')) = Cardinality(Owed(balance)) + amount
  BY <1>1, OwedGrows
<1>3. Cardinality(Owed(balance)) \in Nat
  BY FS_CardinalityType
<1>4. PoolTypeOK'
  BY <1>1 DEF Deposit, PayIn
<1>5. Solvent'
  BY <1>2, <1>3 DEF Solvent, Deposit, PayIn
<1> QED BY <1>2, <1>4, <1>5

LEMMA PoolWithdraw ==
  ASSUME PoolInv, NEW h \in Holders, NEW amount \in Nat, Withdraw(h, amount)
  PROVE  PoolInv'
<1> USE DEF PoolInv, PoolTypeOK
<1>1. balance' = [balance EXCEPT ![h] = @ - amount] /\ amount <= balance[h]
  BY DEF Withdraw
<1>2. balance' \in [Holders -> Nat]
  BY <1>1
<1>3. balance = [balance' EXCEPT ![h] = @ + amount]
  <2>1. /\ balance'[h] = balance[h] - amount
        /\ \A g \in Holders : g # h => balance'[g] = balance[g]
    BY <1>1
  <2>2. balance[h] \in Nat /\ balance'[h] + amount = balance[h]
    BY <2>1
  <2> QED BY <1>2, <2>1, <2>2
<1>4. IsFiniteSet(Owed(balance'))
  <2>1. Owed(balance') \in SUBSET Owed(balance)
    <3>1. \A g \in Holders : balance'[g] <= balance[g] /\ balance'[g] \in Nat
      BY <1>1, <1>2
    <3> QED BY <3>1 DEF Owed
  <2> QED BY <2>1, FS_Subset
<1>5. Cardinality(Owed(balance)) = Cardinality(Owed(balance')) + amount
  BY <1>2, <1>3, <1>4, OwedGrows
<1>6. Cardinality(Owed(balance)) \in Nat /\ Cardinality(Owed(balance')) \in Nat
  BY <1>4, FS_CardinalityType
<1>7. PoolTypeOK'
  BY <1>2 DEF Withdraw, PayOut
<1>8. Solvent'
  BY <1>5, <1>6 DEF Solvent, Withdraw, PayOut
<1> QED BY <1>4, <1>7, <1>8

\* The inductive invariant of the pool: after any deposit, withdrawal or donation its
\* balance of the token covers what deposit and withdraw have recorded.
THEOREM PoolInvariant == PoolSpec => []PoolInv
<1>1. PoolInit => PoolInv
  <2> SUFFICES ASSUME PoolInit PROVE PoolInv
    OBVIOUS
  <2>1. PoolTypeOK
    BY PoolAssumption DEF PoolAssumption, PoolInit, PoolTypeOK
  <2>2. Owed(balance) = {}
    BY DEF Owed, PoolInit
  <2>3. IsFiniteSet(Owed(balance)) /\ Cardinality(Owed(balance)) = 0
    BY <2>2, FS_EmptySet
  <2> QED BY <2>1, <2>3 DEF PoolInv, Solvent, PoolTypeOK, PoolInit
<1>2. PoolInv /\ [PoolNext]_pvars => PoolInv'
  <2> SUFFICES ASSUME PoolInv, [PoolNext]_pvars PROVE PoolInv'
    OBVIOUS
  <2>1. CASE PoolStep
    <3>1. PICK h \in Holders, amount \in 1..Supply :
            Deposit(h, amount) \/ Withdraw(h, amount) \/ Donate(h, amount)
      BY <2>1 DEF PoolStep
    <3>2. amount \in Nat
      OBVIOUS
    <3>3. CASE Donate(h, amount)
      <4>1. balance' = balance
        BY <3>3 DEF Donate
      <4>2. IsFiniteSet(Owed(balance')) /\ Cardinality(Owed(balance)) \in Nat
        BY <4>1, FS_CardinalityType DEF PoolInv
      <4> QED BY <3>2, <3>3, <4>1, <4>2
              DEF Donate, PayIn, PoolInv, PoolTypeOK, Solvent
    <3> QED BY <3>1, <3>2, <3>3, PoolDeposit, PoolWithdraw
  <2>2. CASE UNCHANGED poolVars
    BY <2>2 DEF poolVars, PoolInv, PoolTypeOK, Solvent
  <2> QED BY <2>1, <2>2 DEF PoolNext, pvars
<1> QED BY <1>1, <1>2, PTL DEF PoolSpec

\* Whoever deposits, withdraws or sends the pool tokens, and whatever becomes of
\* their claims, the pool can pay everybody (deposit, withdraw).
THEOREM PoolIsSolvent == PoolSpec => []Solvent
<1>1. PoolInv => Solvent
  BY DEF PoolInv
<1> QED BY <1>1, PoolInvariant, PTL

\* The transfer behind a withdrawal never fails for want of tokens.
THEOREM ExitsAreFunded == PoolSpec => []ExitIsFunded
<1>1. ASSUME PoolInv
      PROVE  ExitIsFunded
  <2> SUFFICES ASSUME TokenConfigured, NEW h \in Holders
               PROVE  balance[h] <= poolTokens
    BY DEF ExitIsFunded
  <2>1. /\ balance[h] <= Cardinality(Owed(balance))
        /\ Cardinality(Owed(balance)) <= poolTokens
    BY <1>1, OwedCoversBalance DEF PoolInv, PoolTypeOK, Solvent
  <2>2. Cardinality(Owed(balance)) \in Nat
    BY <1>1, FS_CardinalityType DEF PoolInv
  <2> QED BY <1>1, <2>1, <2>2 DEF PoolInv, PoolTypeOK
<1> QED BY <1>1, PoolInvariant, PTL

\* What a holder has outside and inside the pool never exceeds what they began
\* with: no sequence of deposits and withdrawals pays anybody another's tokens.
THEOREM NobodyTakesMore == PoolSpec => []NobodyGains
<1>1. PoolInit => NobodyGains
  BY PoolAssumption DEF PoolAssumption, PoolInit, NobodyGains
<1>2. PoolInv /\ NobodyGains /\ [PoolNext]_pvars => NobodyGains'
  <2> SUFFICES ASSUME PoolInv, NobodyGains, [PoolNext]_pvars PROVE NobodyGains'
    OBVIOUS
  <2>1. CASE PoolStep
    <3>1. PICK h \in Holders, amount \in 1..Supply :
            Deposit(h, amount) \/ Withdraw(h, amount) \/ Donate(h, amount)
      BY <2>1 DEF PoolStep
    <3>2. amount \in Nat
      OBVIOUS
    <3> SUFFICES ASSUME TokenConfigured, NEW g \in Holders
                 PROVE  wallet'[g] + balance'[g] <= InitialWallet
      BY DEF NobodyGains
    <3>3. wallet[g] + balance[g] <= InitialWallet
      BY DEF NobodyGains
    <3>4. InitialWallet \in Nat
      BY PoolAssumption DEF PoolAssumption
    <3> QED BY <3>1, <3>2, <3>3, <3>4
            DEF Deposit, Withdraw, Donate, PayIn, PayOut, PoolInv, PoolTypeOK
  <2>2. CASE UNCHANGED poolVars
    BY <2>2 DEF poolVars, NobodyGains
  <2> QED BY <2>1, <2>2 DEF PoolNext, pvars
<1> QED BY <1>1, <1>2, PoolInvariant, PTL DEF PoolSpec

\* The pool asks the registry and never writes to it: whatever depositors do, the
\* registry behaves as it does alone, and what is proved of it holds beside a pool.
THEOREM PoolOnlyReads == PoolSpec => Spec
<1>1. PoolStep => UNCHANGED vars
  BY DEF PoolStep, Deposit, Withdraw, Donate
<1>2. [PoolNext]_pvars => [Next]_vars
  BY <1>1 DEF PoolNext, pvars
<1> QED BY <1>2, PTL DEF PoolSpec, Spec

\* The gate cannot be passed on an expired or revoked claim, nor on one whose
\* threshold is lower or absent (check_claim as deposit calls it).
THEOREM DepositsGated == PoolSpec => DepositsAreGated
<1> DEFINE Gated(h) ==
        balance'[h] > balance[h] =>
            /\ ~proofs[<<h, RequiredType>>].revoked
            /\ now < proofs[<<h, RequiredType>>].expiry
            /\ MinThreshold # None /\ MinThreshold > 0 =>
                   /\ proofs[<<h, RequiredType>>].threshold # None
                   /\ proofs[<<h, RequiredType>>].threshold >= MinThreshold
<1>1. ASSUME PoolInv, [PoolNext]_pvars, NEW h \in Holders
      PROVE  Gated(h)
  <2>0. balance \in [Holders -> Nat]
    BY <1>1 DEF PoolInv, PoolTypeOK
  <2>1. ASSUME NEW g \in Holders, NEW amount \in 1..Supply, Deposit(g, amount)
        PROVE  Gated(h)
    <3>1. balance' = [balance EXCEPT ![g] = @ + amount]
      BY <2>1 DEF Deposit
    <3>2. CASE h = g
      <4>1. CheckClaim(h, RequiredType, MinThreshold, None)
        BY <2>1, <3>2 DEF Deposit
      <4>2. /\ ~proofs[<<h, RequiredType>>].revoked
            /\ proofs[<<h, RequiredType>>].expiry > now
        BY <4>1 DEF CheckClaim, IsVerified
      <4>3. ASSUME MinThreshold # None, MinThreshold > 0
            PROVE  /\ proofs[<<h, RequiredType>>].threshold # None
                   /\ proofs[<<h, RequiredType>>].threshold >= MinThreshold
        <5>1. MinThreshold \in Nat
          BY <4>3, PoolAssumption DEF PoolAssumption
        <5> QED BY <4>1, <4>3, <5>1 DEF CheckClaim
      <4> QED BY <4>2, <4>3
    <3>3. CASE h # g
      BY <2>0, <3>1, <3>3
    <3> QED BY <3>2, <3>3
  <2>2. ASSUME NEW g \in Holders, NEW amount \in 1..Supply, Withdraw(g, amount)
        PROVE  Gated(h)
    BY <2>0, <2>2 DEF Withdraw
  <2>3. ASSUME NEW g \in Holders, NEW amount \in 1..Supply, Donate(g, amount)
        PROVE  Gated(h)
    BY <2>0, <2>3 DEF Donate
  <2>4. CASE UNCHANGED poolVars
    BY <2>0, <2>4 DEF poolVars
  <2> QED BY <1>1, <2>1, <2>2, <2>3, <2>4 DEF PoolNext, PoolStep, pvars
<1>2. ASSUME PoolInv, [PoolNext]_pvars
      PROVE  [\A h \in Holders : Gated(h)]_pvars
  BY <1>1, <1>2
<1> QED BY <1>2, PoolInvariant, PTL DEF PoolSpec, DepositsAreGated

=============================================================================
