---------------------------- MODULE HolderProofs ----------------------------
(***************************************************************************)
(* Theorems about what a holder keeps and sees in the browser and is given *)
(* by the export routes: the credential store, submissions to the chain,   *)
(* administrative exports and exports of holders, the guardian dialog, the *)
(* session and the claim reads of the SDK.  Each part states its inductive *)
(* invariant, shows that the initial states have it and that every step    *)
(* keeps it, and draws the property from it.                               *)
(***************************************************************************)
EXTENDS CredentialStore, Submissions, AdminExports, UserExports, GuardianRecovery,
        HolderSession, ClaimReads, FiniteSetTheorems, SequenceTheorems, TLAPS

-----------------------------------------------------------------------------
(* The credential store: what was saved in turn is kept                    *)

\* Credentials, keys, the item, an operation on it.
Contents == UNION {[S -> Proofs] : S \in SUBSET Commitments}
StoreKey == [pass : Passphrases \cup {"none"}, salt : Nat]
Item == [form : {"none", "plain", "sealed"}, key : StoreKey, creds : Contents]

Operation ==
    [tab : Tabs, op : {"save", "mark", "remove", "wipe", "unlock", "backup"},
     of : Commitments, proof : Proofs, pass : Passphrases \cup {"none"},
     at : {"reading", "deriving", "sealing", "over"},
     raw : Item, key : StoreKey, creds : Contents]

StoreTypeOK ==
    /\ stored \in Item
    /\ tabKey \in [Tabs -> StoreKey]
    /\ salts \in Nat
    /\ tasks \in Seq(Operation)
    /\ kit.creds \in Contents
    /\ ideal \in Contents
    /\ overtaken \in BOOLEAN /\ blind \in BOOLEAN

\* What is about to be sealed is what the operation made of what it read.
SealsItsWork(task) ==
    /\ task.at = "deriving" => task.op = "unlock"
    /\ task.at = "sealing" /\ ~blind => task.creds = Apply(task, task.raw.creds)

StoreInv ==
    /\ StoreTypeOK
    /\ SavesInTurnAreKept
    /\ \A i \in DOMAIN tasks : SealsItsWork(tasks[i])
-----------------------------------------------------------------------------
LEMMA ContentsFacts ==
  /\ Blank \in Contents /\ Empty \in Item /\ NoKey \in StoreKey
  /\ \A p \in Passphrases : LegacyKey(p) \in StoreKey
  /\ \A cs \in Contents : Plain(cs) \in Item /\ Plain(cs).creds = cs
  /\ \A cs \in Contents, k \in StoreKey : Sealed(cs, k) \in Item /\ Sealed(cs, k).creds = cs
<1>1. Blank \in Contents
  BY DEF Blank, Contents
<1>2. NoKey \in StoreKey /\ \A p \in Passphrases : LegacyKey(p) \in StoreKey
  BY DEF NoKey, StoreKey, LegacyKey
<1>3. Empty \in Item
  BY <1>1, <1>2 DEF Empty, Item
<1> QED BY <1>1, <1>2, <1>3 DEF Plain, Sealed, Item

LEMMA ApplyContents ==
  ASSUME NEW task \in Operation, NEW cs \in Contents
  PROVE  Apply(task, cs) \in Contents
<1>1. PICK S \in SUBSET Commitments : cs \in [S -> Proofs]
  BY DEF Contents
<1>2. Save(cs, task.of, task.proof) \in Contents
  <2>1. S \cup {task.of} \in SUBSET Commitments
    BY DEF Operation
  <2>2. Save(cs, task.of, task.proof) \in [S \cup {task.of} -> Proofs]
    BY <1>1 DEF Save, Operation
  <2> QED BY <2>1, <2>2 DEF Contents
<1>3. Mark(cs, {task.of}) \in Contents
  <2>1. Mark(cs, {task.of}) \in [S -> Proofs]
    BY <1>1 DEF Mark, Proofs
  <2> QED BY <2>1 DEF Contents
<1>4. Removed(cs, task.of) \in Contents
  <2>1. Removed(cs, task.of) \in [S \ {task.of} -> Proofs]
    BY <1>1 DEF Removed
  <2>2. S \ {task.of} \in SUBSET Commitments
    OBVIOUS
  <2> QED BY <2>1, <2>2 DEF Contents
<1> QED
  BY <1>2, <1>3, <1>4, ContentsFacts DEF Apply

\* Apply looks at three fields only.
LEMMA ApplySame ==
  ASSUME NEW t1, NEW t2, NEW cs, t1.op = t2.op, t1.of = t2.of, t1.proof = t2.proof
  PROVE  Apply(t1, cs) = Apply(t2, cs)
BY DEF Apply

LEMMA FiniteSeq ==
  ASSUME NEW S \in SUBSET Commitments
  PROVE  SetToSeq(S) \in Seq(S)
<1>1. IsFiniteSet(S)
  BY StoreAssumption, FS_Subset
<1>2. Cardinality(S) \in Nat /\ ExistsBijection(1..Cardinality(S), S)
  BY <1>1, FS_CardinalityType
<1>3. \E f \in [1..Cardinality(S) -> S] : IsInjective(f)
  BY <1>2 DEF ExistsBijection, Bijection, Injection
<1>4. SetToSeq(S) \in [1..Cardinality(S) -> S]
  BY <1>3 DEF SetToSeq
<1> QED BY <1>2, <1>4

LEMMA LoadedContents ==
  ASSUME NEW task \in Operation
  PROVE  Loaded(task) \in Contents
<1>1. task.raw \in Item
  BY DEF Operation
<1> QED BY <1>1, ContentsFacts DEF Loaded, Item

LEMMA TaskFacts ==
  ASSUME StoreTypeOK, NEW t \in Tabs, NEW c \in Commitments, NEW proof \in Proofs,
         NEW op \in {"save", "mark", "remove", "wipe", "unlock", "backup"}
  PROVE  /\ Task(t, op, c, proof) \in Operation
         /\ Task(t, op, c, proof).at = "reading"
<1>1. stored \in Item /\ tabKey[t] \in StoreKey
  BY DEF StoreTypeOK
<1> QED BY <1>1, ContentsFacts DEF Task, Operation

-----------------------------------------------------------------------------
LEMMA InitStoreInv == StoreInit => StoreInv
<1> SUFFICES ASSUME StoreInit PROVE StoreInv
  OBVIOUS
<1>1. PICK cs \in {Blank} \cup [Commitments -> {"unproved"}] :
          /\ stored \in {IF cs = Blank THEN Empty ELSE Plain(cs)} \cup {Sealed(cs, LegacyKey(p)) : p \in Passphrases}
          /\ ideal = cs
  BY DEF StoreInit
<1>2. cs \in Contents
  <2>1. cs \in [Commitments -> Proofs] \/ cs = Blank
    BY DEF Proofs
  <2>2. [Commitments -> Proofs] \subseteq Contents
    BY DEF Contents
  <2> QED BY <2>1, <2>2, ContentsFacts
<1>3. stored \in Item /\ stored.creds = cs
  <2>1. Empty.creds = Blank
    BY DEF Empty
  <2> QED BY <1>1, <1>2, <2>1, ContentsFacts
<1>4. /\ tabKey = [t \in Tabs |-> NoKey] /\ salts = 0 /\ tasks = <<>> /\ kit = NoKit
      /\ overtaken = FALSE /\ blind = FALSE
  BY DEF StoreInit
<1>5. kit.creds \in Contents
  BY <1>4, ContentsFacts DEF NoKit
<1>6. tasks \in Seq(Operation) /\ DOMAIN tasks = {}
  BY <1>4
<1>7. StoreTypeOK
  BY <1>1, <1>2, <1>3, <1>4, <1>5, <1>6, ContentsFacts DEF StoreTypeOK
<1>8. SavesInTurnAreKept
  BY <1>1, <1>3 DEF SavesInTurnAreKept
<1> QED BY <1>6, <1>7, <1>8 DEF StoreInv

\* Operations begin: they have read the store, and written nothing.
LEMMA StoreBegins ==
  ASSUME StoreInv, NEW new \in Seq(Operation), tasks' = tasks \o new,
         \A n \in DOMAIN new : new[n].at \in {"reading", "deriving"}
                                /\ (new[n].at = "deriving" => new[n].op = "unlock"),
         UNCHANGED <<stored, tabKey, salts, kit, ideal, overtaken, blind>>
  PROVE  StoreInv'
<1>1. tasks \in Seq(Operation)
  BY DEF StoreInv, StoreTypeOK
<1>2. /\ tasks' \in Seq(Operation)
      /\ \A i \in DOMAIN tasks' : \/ i \in DOMAIN tasks /\ tasks'[i] = tasks[i]
                                  \/ \E n \in DOMAIN new : tasks'[i] = new[n]
  BY <1>1
<1>3. StoreTypeOK' /\ SavesInTurnAreKept'
  BY <1>2 DEF StoreInv, StoreTypeOK, SavesInTurnAreKept
<1>4. ASSUME NEW i \in DOMAIN tasks' PROVE SealsItsWork(tasks[i])'
  <2>1. CASE i \in DOMAIN tasks /\ tasks'[i] = tasks[i]
    <3>1. SealsItsWork(tasks[i])
      BY <2>1 DEF StoreInv
    <3> QED BY <3>1, <2>1 DEF SealsItsWork, Apply
  <2>2. CASE \E n \in DOMAIN new : tasks'[i] = new[n]
    BY <2>2 DEF SealsItsWork
  <2> QED BY <1>2, <2>1, <2>2
<1> QED BY <1>3, <1>4 DEF StoreInv

\* An operation goes on: its record changes, and blind and the store perhaps.
LEMMA StoreGoesOn ==
  ASSUME StoreInv, NEW i \in DOMAIN tasks, NEW x \in Operation, TaskAt(i, x),
         blind => blind', blind' \in BOOLEAN, overtaken' \in BOOLEAN,
         SealsItsWork(x)', SavesInTurnAreKept',
         stored' \in Item, tabKey' \in [Tabs -> StoreKey], salts' \in Nat,
         kit'.creds \in Contents, ideal' \in Contents
  PROVE  StoreInv'
<1>1. tasks \in Seq(Operation)
  BY DEF StoreInv, StoreTypeOK
<1>2. /\ tasks' \in Seq(Operation) /\ DOMAIN tasks' = DOMAIN tasks /\ tasks'[i] = x
      /\ \A j \in DOMAIN tasks : j # i => tasks'[j] = tasks[j]
  BY <1>1 DEF TaskAt
<1>3. StoreTypeOK'
  BY <1>2 DEF StoreTypeOK
<1>4. ASSUME NEW j \in DOMAIN tasks' PROVE SealsItsWork(tasks[j])'
  <2>1. CASE j = i
    BY <2>1, <1>2 DEF SealsItsWork
  <2>2. CASE j # i
    <3>1. SealsItsWork(tasks[j]) /\ tasks'[j] = tasks[j]
      BY <2>2, <1>2 DEF StoreInv
    <3> QED BY <3>1 DEF SealsItsWork, Apply
  <2> QED BY <2>1, <2>2
<1> QED BY <1>3, <1>4 DEF StoreInv

\* Steps that leave the operations and the store alone.
LEMMA StoreIdle ==
  ASSUME StoreInv, UNCHANGED <<stored, tasks, ideal, overtaken, blind>>,
         tabKey' \in [Tabs -> StoreKey], salts' \in Nat, kit'.creds \in Contents
  PROVE  StoreInv'
<1>1. StoreTypeOK' /\ SavesInTurnAreKept'
  BY DEF StoreInv, StoreTypeOK, SavesInTurnAreKept
<1>2. ASSUME NEW i \in DOMAIN tasks' PROVE SealsItsWork(tasks[i])'
  <2>1. SealsItsWork(tasks[i])
    BY <1>2 DEF StoreInv
  <2> QED BY <2>1 DEF SealsItsWork, Apply
<1> QED BY <1>1, <1>2 DEF StoreInv
-----------------------------------------------------------------------------
\* An operation writes what Apply makes of what it has read, as the store holds
\* it: unless another wrote meanwhile, or it could not read the store.
LEMMA WritesInTurn ==
  ASSUME StoreInv, NEW i \in DOMAIN tasks, NEW value \in Item, Writes(i, value),
         blind \in BOOLEAN, blind' \in BOOLEAN, blind => blind',
         ~blind' => value.creds = Apply(tasks[i], tasks[i].raw.creds)
  PROVE  /\ SavesInTurnAreKept' /\ stored' \in Item /\ ideal' \in Contents
         /\ overtaken' \in BOOLEAN
<1>1. stored' = value /\ overtaken' = (overtaken \/ tasks[i].raw # stored) /\ ideal' = Apply(tasks[i], ideal)
  BY DEF Writes
<1>2. ideal' \in Contents
  BY <1>1, ApplyContents DEF StoreInv, StoreTypeOK
<1>3. ASSUME ~overtaken', ~blind' PROVE stored'.creds = ideal'
  <2>1. tasks[i].raw = stored /\ ~overtaken /\ ~blind
    BY <1>1, <1>3 DEF StoreInv, StoreTypeOK
  <2>2. stored.creds = ideal
    BY <2>1 DEF StoreInv, SavesInTurnAreKept
  <2> QED BY <1>1, <1>3, <2>1, <2>2
<1>4. overtaken' \in BOOLEAN
  BY <1>1 DEF StoreInv, StoreTypeOK
<1> QED BY <1>1, <1>2, <1>3, <1>4 DEF SavesInTurnAreKept

LEMMA NextStoreInv == StoreInv /\ [StoreNext]_storeVars => StoreInv'
<1> SUFFICES ASSUME StoreInv, [StoreNext]_storeVars PROVE StoreInv'
  OBVIOUS
<1>t. /\ stored \in Item /\ tabKey \in [Tabs -> StoreKey] /\ salts \in Nat
      /\ tasks \in Seq(Operation) /\ \A i \in DOMAIN tasks : tasks[i] \in Operation
      /\ kit.creds \in Contents /\ ideal \in Contents
      /\ overtaken \in BOOLEAN /\ blind \in BOOLEAN
  BY DEF StoreInv, StoreTypeOK
<1>c. (CHOOSE c \in Commitments : TRUE) \in Commitments /\ "unproved" \in Proofs
  BY StoreAssumption DEF Proofs
<1>o. ASSUME NEW i \in DOMAIN tasks,
             NEW x, x = [tasks[i] EXCEPT !.at = "over", !.raw = Empty, !.key = NoKey, !.creds = Blank]
      PROVE  /\ x \in Operation /\ x.at = "over"
             /\ Over(i) <=> TaskAt(i, x)
  <2>1. tasks[i] \in Operation
    BY <1>t
  <2>2. x \in Operation /\ x.at = "over"
    BY <2>1, <1>o, ContentsFacts DEF Operation
  <2> QED BY <2>2, <1>o DEF Over
<1>1. ASSUME NEW t \in Tabs, BeginOne(t) PROVE StoreInv'
  <2>1. PICK c \in Commitments, op \in {"save", "mark", "remove"} :
            tasks' = tasks \o <<Task(t, op, c, "unproved")>>
    BY <1>1 DEF BeginOne, Begins
  <2> DEFINE x == Task(t, op, c, "unproved")
  <2>2. x \in Operation /\ x.at = "reading"
    BY <1>c, TaskFacts DEF StoreInv
  <2>3. UNCHANGED <<stored, tabKey, salts, kit, ideal, overtaken, blind>>
    BY <1>1 DEF BeginOne
  <2> HIDE DEF x
  <2>4. <<x>> \in Seq(Operation) /\ \A n \in DOMAIN <<x>> : <<x>>[n] = x
    BY <2>2
  <2>5. tasks' = tasks \o <<x>>
    BY <2>1 DEF x
  <2> QED BY <2>2, <2>3, <2>4, <2>5, StoreBegins
<1>2. ASSUME NEW t \in Tabs, BeginAll(t) PROVE StoreInv'
  <2> DEFINE cs == SetToSeq(Commitments)
  <2> DEFINE new == [n \in DOMAIN cs |-> Task(t, "save", cs[n], "unproved")]
  <2>1. cs \in Seq(Commitments)
    BY FiniteSeq
  <2>2. tasks' = tasks \o new /\ UNCHANGED <<stored, tabKey, salts, kit, ideal, overtaken, blind>>
    BY <1>2 DEF BeginAll, Begins
  <2> HIDE DEF cs
  <2>3. ASSUME NEW n \in DOMAIN cs
        PROVE  new[n] \in Operation /\ new[n].at = "reading"
    <3>1. cs[n] \in Commitments
      BY <2>1
    <3> QED BY <3>1, <1>c, TaskFacts DEF StoreInv
  <2>4. DOMAIN new = DOMAIN cs
    OBVIOUS
  <2> HIDE DEF new
  <2>5. new \in Seq(Operation)
    <3>1. PICK k \in Nat : DOMAIN cs = 1..k
      BY <2>1
    <3>2. new \in [1..k -> Operation]
      BY <2>3, <2>4, <3>1 DEF new
    <3> QED BY <3>1, <3>2
  <2> QED BY <2>2, <2>3, <2>4, <2>5, StoreBegins
<1>3. ASSUME NEW t \in Tabs, Lock(t) PROVE StoreInv'
  <2>1. tabKey' \in [Tabs -> StoreKey]
    BY <1>3, <1>t, ContentsFacts DEF Lock
  <2> QED BY <1>3, <1>t, <2>1, StoreIdle DEF Lock
<1>4. ASSUME NEW t \in Tabs, NEW op \in {"wipe", "backup"},
             tasks' = tasks \o <<Task(t, op, CHOOSE c \in Commitments : TRUE, "unproved")>>,
             UNCHANGED <<stored, tabKey, salts, kit, ideal, overtaken, blind>>
      PROVE  StoreInv'
  <2> DEFINE x == Task(t, op, CHOOSE c \in Commitments : TRUE, "unproved")
  <2>1. x \in Operation /\ x.at = "reading"
    BY <1>c, TaskFacts DEF StoreInv
  <2>2. tasks' = tasks \o <<x>>
    BY <1>4
  <2> HIDE DEF x
  <2>3. <<x>> \in Seq(Operation) /\ \A n \in DOMAIN <<x>> : <<x>>[n] = x
    BY <2>1
  <2> QED BY <1>4, <2>1, <2>2, <2>3, StoreBegins
<1>5. ASSUME NEW t \in Tabs, BeginWipe(t) PROVE StoreInv'
  BY <1>4, <1>5 DEF BeginWipe, Begins
<1>6. ASSUME NEW t \in Tabs, BeginBackup(t) PROVE StoreInv'
  BY <1>4, <1>6 DEF BeginBackup, Begins
<1>7. ASSUME NEW t \in Tabs, RestoreReplacing(t) PROVE StoreInv'
  <2>1. /\ stored' = Plain(kit.creds) /\ ideal' = kit.creds
        /\ UNCHANGED <<tabKey, salts, tasks, kit, overtaken, blind>>
    BY <1>7 DEF RestoreReplacing
  <2>2. stored' \in Item /\ stored'.creds = ideal' /\ ideal' \in Contents
    BY <2>1, <1>t, ContentsFacts
  <2>3. StoreTypeOK' /\ SavesInTurnAreKept'
    BY <2>1, <2>2, <1>t DEF StoreTypeOK, SavesInTurnAreKept
  <2>4. ASSUME NEW i \in DOMAIN tasks' PROVE SealsItsWork(tasks[i])'
    <3>1. SealsItsWork(tasks[i])
      BY <2>1, <2>4 DEF StoreInv
    <3> QED BY <3>1, <2>1 DEF SealsItsWork, Apply
  <2> QED BY <2>3, <2>4 DEF StoreInv
<1>8. ASSUME NEW t \in Tabs, RestoreMerging(t) PROVE StoreInv'
  <2> DEFINE cs == SetToSeq(DOMAIN kit.creds)
  <2> DEFINE new == [n \in DOMAIN cs |-> Task(t, "save", cs[n], kit.creds[cs[n]])]
  <2>0. PICK S \in SUBSET Commitments : kit.creds \in [S -> Proofs]
    BY <1>t DEF Contents
  <2>1. cs \in Seq(S)
    BY <2>0, FiniteSeq
  <2>2. tasks' = tasks \o new /\ UNCHANGED <<stored, tabKey, salts, kit, ideal, overtaken, blind>>
    BY <1>8 DEF RestoreMerging, Begins
  <2> HIDE DEF cs
  <2>3. ASSUME NEW n \in DOMAIN cs
        PROVE  new[n] \in Operation /\ new[n].at = "reading"
    <3>1. cs[n] \in Commitments /\ kit.creds[cs[n]] \in Proofs
      BY <2>0, <2>1
    <3> QED BY <3>1, TaskFacts DEF StoreInv
  <2>4. DOMAIN new = DOMAIN cs
    OBVIOUS
  <2> HIDE DEF new
  <2>5. new \in Seq(Operation)
    <3>1. PICK k \in Nat : DOMAIN cs = 1..k
      BY <2>1
    <3>2. new \in [1..k -> Operation]
      BY <2>3, <2>4, <3>1 DEF new
    <3> QED BY <3>1, <3>2
  <2> QED BY <2>2, <2>3, <2>4, <2>5, StoreBegins
<1>9. ASSUME NEW t \in Tabs, NEW p \in Passphrases, BeginUnlock(t, p) PROVE StoreInv'
  <2> DEFINE y == Task(t, "unlock", CHOOSE c \in Commitments : TRUE, "unproved")
  <2> DEFINE x == [y EXCEPT !.pass = p, !.at = "deriving"]
  <2>1. y \in Operation /\ y.op = "unlock"
    <3>1. y \in Operation
      BY <1>c, TaskFacts DEF StoreInv
    <3> QED BY <3>1 DEF Task
  <2>2. tasks' = tasks \o <<x>> /\ UNCHANGED <<stored, tabKey, salts, kit, ideal, overtaken, blind>>
    BY <1>9 DEF BeginUnlock, Begins
  <2> HIDE DEF y
  <2>3. x \in Operation /\ x.at = "deriving" /\ x.op = "unlock"
    BY <2>1 DEF Operation
  <2> HIDE DEF x
  <2>4. <<x>> \in Seq(Operation) /\ \A n \in DOMAIN <<x>> : <<x>>[n] = x
    BY <2>3
  <2> QED BY <2>2, <2>3, <2>4, StoreBegins
<1>10. ASSUME NEW i \in DOMAIN tasks, Change(i) PROVE StoreInv'
  <2>a. PICK task : task = tasks[i]
    OBVIOUS
  <2>b. PICK next : next = Apply(task, Loaded(task))
    OBVIOUS
  <2>0. task \in Operation /\ next \in Contents
    BY <2>a, <2>b, <1>t, LoadedContents, ApplyContents
  <2>1. /\ task.op \in {"save", "mark", "remove"} /\ task.at = "reading"
        /\ blind' = (blind \/ ~Readable(task)) /\ UNCHANGED <<tabKey, salts, kit>>
    BY <2>a, <1>10 DEF Change
  <2>2. blind' \in BOOLEAN /\ (blind => blind') /\ (~blind' => next = Apply(task, task.raw.creds))
    BY <2>1, <2>b, <1>t DEF Loaded, Readable
  <2>3. CASE tabKey[task.tab] = NoKey
    <3>1. Writes(i, Plain(next)) /\ Over(i)
      BY <1>10, <2>a, <2>b, <2>3 DEF Change
    <3>2. Plain(next) \in Item /\ Plain(next).creds = next
      BY <2>0, ContentsFacts
    <3>3. /\ SavesInTurnAreKept' /\ stored' \in Item /\ ideal' \in Contents
          /\ overtaken' \in BOOLEAN
      BY <3>1, <3>2, <2>2, <2>a, <1>t, WritesInTurn
    <3>4. PICK x : x = [tasks[i] EXCEPT !.at = "over", !.raw = Empty, !.key = NoKey, !.creds = Blank]
      OBVIOUS
    <3>5. x \in Operation /\ x.at = "over" /\ TaskAt(i, x)
      BY <1>o, <3>1, <3>4
    <3>6. SealsItsWork(x)'
      BY <3>5 DEF SealsItsWork
    <3> QED BY <1>t, <2>1, <2>2, <3>3, <3>5, <3>6, StoreGoesOn
  <2>4. CASE tabKey[task.tab] # NoKey
    <3>k. PICK k : k = tabKey[task.tab]
      OBVIOUS
    <3>x. PICK x : x = [task EXCEPT !.at = "sealing", !.creds = next, !.key = k]
      OBVIOUS
    <3>1. TaskAt(i, x) /\ UNCHANGED <<stored, ideal, overtaken>>
      BY <1>10, <2>a, <2>b, <3>k, <3>x, <2>4 DEF Change
    <3>2. k \in StoreKey
      BY <1>t, <2>0, <3>k DEF Operation
    <3>3. /\ x \in Operation /\ x.at = "sealing" /\ x.creds = next /\ x.raw = task.raw
          /\ x.op = task.op /\ x.of = task.of /\ x.proof = task.proof
      BY <2>0, <3>2, <3>x DEF Operation
    <3>4. Apply(x, x.raw.creds) = Apply(task, task.raw.creds)
      BY <3>3, ApplySame
    <3>5. SealsItsWork(x)'
      BY <2>2, <3>3, <3>4 DEF SealsItsWork, Apply
    <3>6. SavesInTurnAreKept'
      BY <3>1, <2>2, <1>t DEF StoreInv, SavesInTurnAreKept
    <3> QED BY <1>t, <2>1, <2>2, <3>1, <3>3, <3>5, <3>6, StoreGoesOn
  <2> QED BY <2>3, <2>4
<1>11. ASSUME NEW i \in DOMAIN tasks, WriteSealed(i) PROVE StoreInv'
  <2>1. /\ tasks[i].at = "sealing" /\ Writes(i, Sealed(tasks[i].creds, tasks[i].key)) /\ Over(i)
        /\ UNCHANGED <<tabKey, salts, kit, blind>>
    BY <1>11 DEF WriteSealed
  <2>2. tasks[i] \in Operation /\ SealsItsWork(tasks[i])
    BY <1>t DEF StoreInv
  <2>3. tasks[i].creds \in Contents /\ tasks[i].key \in StoreKey
    BY <2>2 DEF Operation
  <2>4. PICK value \in Item : /\ value = Sealed(tasks[i].creds, tasks[i].key)
                             /\ value.creds = tasks[i].creds
    BY <2>3, ContentsFacts
  <2>5. ~blind' => value.creds = Apply(tasks[i], tasks[i].raw.creds)
    BY <2>1, <2>2, <2>4 DEF SealsItsWork
  <2>6. /\ SavesInTurnAreKept' /\ stored' \in Item /\ ideal' \in Contents
        /\ overtaken' \in BOOLEAN
    BY <2>1, <2>4, <2>5, <1>t, WritesInTurn
  <2>7. PICK x : x = [tasks[i] EXCEPT !.at = "over", !.raw = Empty, !.key = NoKey, !.creds = Blank]
    OBVIOUS
  <2>8. x \in Operation /\ x.at = "over" /\ TaskAt(i, x)
    BY <1>o, <2>1, <2>7
  <2>9. SealsItsWork(x)'
    BY <2>8 DEF SealsItsWork
  <2> QED BY <1>t, <2>1, <2>6, <2>8, <2>9, StoreGoesOn
<1>12. ASSUME NEW i \in DOMAIN tasks, Unlock(i) PROVE StoreInv'
  <2> DEFINE task == tasks[i]
  <2>1. /\ task.at = "deriving" /\ UNCHANGED <<stored, kit, ideal, overtaken, blind>>
        /\ task \in Operation /\ task.op = "unlock"
    BY <1>12, <1>t DEF Unlock, StoreInv, SealsItsWork
  <2>2. task.tab \in Tabs /\ task.raw \in Item /\ task.raw.key \in StoreKey /\ task.raw.creds \in Contents
    BY <2>1 DEF Operation, Item
  <2>f. ASSUME FreshKey(i) PROVE tabKey' \in [Tabs -> StoreKey] /\ salts' \in Nat
    <3>1. salts' = salts + 1 /\ salts' \in Nat
      BY <2>f, <1>t DEF FreshKey
    <3>2. task.pass \in Passphrases \cup {"none"}
      BY <2>1 DEF Operation
    <3>3. [pass |-> task.pass, salt |-> salts'] \in StoreKey
      BY <3>1, <3>2 DEF StoreKey
    <3> QED BY <2>f, <3>1, <3>3, <1>t DEF FreshKey
  <2>3. tabKey' \in [Tabs -> StoreKey] /\ salts' \in Nat
    <3>1. FreshKey(i) \/ (tabKey' = [tabKey EXCEPT ![task.tab] = task.raw.key] /\ UNCHANGED salts)
      BY <1>12 DEF Unlock
    <3> QED BY <3>1, <2>f, <2>2, <1>t
  <2>4. SavesInTurnAreKept'
    BY <2>1 DEF StoreInv, SavesInTurnAreKept
  <2>5. CASE Over(i)
    <3>1. PICK x : x = [tasks[i] EXCEPT !.at = "over", !.raw = Empty, !.key = NoKey, !.creds = Blank]
      OBVIOUS
    <3>2. x \in Operation /\ x.at = "over" /\ TaskAt(i, x)
      BY <1>o, <2>5, <3>1
    <3>3. SealsItsWork(x)'
      BY <3>2 DEF SealsItsWork
    <3> HIDE DEF task
    <3> QED BY <1>t, <2>1, <2>3, <2>4, <3>2, <3>3, StoreGoesOn
  <2>6. CASE ~Over(i)
    <3>1. PICK k : k = tabKey'[task.tab]
      OBVIOUS
    <3>2. k \in StoreKey
      BY <2>2, <2>3, <3>1
    <3>3. PICK x : x = [task EXCEPT !.at = "sealing", !.creds = task.raw.creds, !.key = k]
      OBVIOUS
    <3>4. TaskAt(i, x)
      BY <1>12, <2>6, <3>1, <3>3 DEF Unlock
    <3> HIDE DEF task
    <3>5. /\ x \in Operation /\ x.at = "sealing" /\ x.creds = x.raw.creds /\ x.op = "unlock"
      BY <2>1, <2>2, <3>2, <3>3 DEF Operation
    <3>6. SealsItsWork(x)'
      BY <3>5 DEF SealsItsWork, Apply
    <3> QED BY <1>t, <2>1, <2>3, <2>4, <3>4, <3>5, <3>6, StoreGoesOn
  <2> QED BY <2>5, <2>6
<1>13. ASSUME NEW i \in DOMAIN tasks, WipeStore(i) PROVE StoreInv'
  <2>1. /\ tasks[i].op = "wipe" /\ Writes(i, Empty) /\ Over(i)
        /\ tabKey' = [tabKey EXCEPT ![tasks[i].tab] = NoKey] /\ UNCHANGED <<salts, kit, blind>>
    BY <1>13 DEF WipeStore
  <2>2. Empty \in Item /\ Empty.creds = Apply(tasks[i], tasks[i].raw.creds)
    BY <2>1, ContentsFacts DEF Apply, Empty
  <2>3. /\ SavesInTurnAreKept' /\ stored' \in Item /\ ideal' \in Contents
        /\ overtaken' \in BOOLEAN
    BY <2>1, <2>2, <1>t, WritesInTurn
  <2>4. PICK x : x = [tasks[i] EXCEPT !.at = "over", !.raw = Empty, !.key = NoKey, !.creds = Blank]
    OBVIOUS
  <2>5. x \in Operation /\ x.at = "over" /\ TaskAt(i, x)
    BY <1>o, <2>1, <2>4
  <2>6. SealsItsWork(x)'
    BY <2>5 DEF SealsItsWork
  <2>7. tabKey' \in [Tabs -> StoreKey]
    BY <2>1, <1>t, ContentsFacts
  <2> QED BY <1>t, <2>1, <2>3, <2>5, <2>6, <2>7, StoreGoesOn
<1>14. ASSUME NEW i \in DOMAIN tasks, MakeBackup(i) PROVE StoreInv'
  <2>1. /\ kit' = [made |-> TRUE, creds |-> Loaded(tasks[i]), whole |-> ~hidesValue] /\ Over(i)
        /\ UNCHANGED <<stored, tabKey, salts, ideal, overtaken, blind>>
    BY <1>14 DEF MakeBackup
  <2>2. kit'.creds \in Contents
    BY <2>1, <1>t, LoadedContents
  <2>3. PICK x : x = [tasks[i] EXCEPT !.at = "over", !.raw = Empty, !.key = NoKey, !.creds = Blank]
    OBVIOUS
  <2>4. x \in Operation /\ x.at = "over" /\ TaskAt(i, x)
    BY <1>o, <2>1, <2>3
  <2>5. SealsItsWork(x)'
    BY <2>4 DEF SealsItsWork
  <2>6. SavesInTurnAreKept'
    BY <2>1 DEF StoreInv, SavesInTurnAreKept
  <2> QED BY <1>t, <2>1, <2>2, <2>4, <2>5, <2>6, StoreGoesOn
<1>15. ASSUME ChangeVisibility \/ RecoverFromShares \/ \E g \in Guardians : AddShare(g) \/ RemoveShare(g)
       PROVE StoreInv'
  <2>1. UNCHANGED <<stored, tasks, ideal, overtaken, blind, tabKey, salts, kit>>
    BY <1>15 DEF ChangeVisibility, RecoverFromShares, AddShare, RemoveShare
  <2> QED BY <2>1, <1>t, StoreIdle
<1>16. CASE UNCHANGED storeVars
  BY <1>16, <1>t, StoreIdle DEF storeVars
<1> QED
  BY <1>1, <1>2, <1>3, <1>5, <1>6, <1>7, <1>8, <1>9, <1>10, <1>11, <1>12, <1>13, <1>14, <1>15,
     <1>16 DEF StoreNext

-----------------------------------------------------------------------------
\* The inductive invariant of the credential store.
THEOREM StoreInvariant == StoreSpec => []StoreInv
BY InitStoreInv, NextStoreInv, PTL DEF StoreSpec

\* For every number of tabs, operations, passphrases and credentials: while no
\* operation wrote over another's work and none met a store it could not read,
\* the store holds what the operations made of it in their order.
THEOREM SavesAreKept == StoreSpec => []SavesInTurnAreKept
<1>1. StoreInv => SavesInTurnAreKept
  BY DEF StoreInv
<1> QED BY <1>1, StoreInvariant, PTL
-----------------------------------------------------------------------------
(* Submissions: marked means on the chain                                  *)

\* A submission, and the types of the module's state.
Submission ==
    [creds : SUBSET Creds, single : BOOLEAN,
     at : {"preflight", "build", "stuck", "sign", "sent", "landed"},
     number : Nat, until : Nat, polled : Nat, landed : Nat, ok : BOOLEAN,
     answer : {"none", "success", "error", "notFound"}, shown : BOOLEAN]

BatchView ==
    [open : BOOLEAN, creds : SUBSET Creds, made : BOOLEAN,
     stage : {"none", "checking", "blocked", "generating", "submitting", "error", "confirmed"}]

SubTypeOK ==
    /\ proved \subseteq Creds /\ picked \subseteq Creds
    /\ batch \in BatchView /\ generators \in Nat /\ asking \in BOOLEAN
    /\ txs \in Seq(Submission) /\ sequence \in Nat /\ now \in Nat
    /\ unreadable \in BOOLEAN

\* A single submission that is still being polled for is in time: it can land
\* only before its bound, and its bound is before the end of the polling.
InTime(x) ==
    x.single /\ x.answer = "none" =>
        /\ x.at = "sign"   => x.until <= now + SingleBound
        /\ x.at = "sent"   => x.polled <= now /\ x.until <= x.polled + SingleBound
        /\ x.at = "landed" => x.landed <= now /\ x.landed <= x.polled + SingleBound

\* One that was given up can land no more.
OutOfTime(x) == x.single /\ x.answer = "notFound" => x.at = "sent" /\ x.until < now

OnTime == \A i \in DOMAIN txs : InTime(txs[i]) /\ OutOfTime(txs[i])

SubInv == SubTypeOK /\ MarksAreOnChain /\ OnTime
-----------------------------------------------------------------------------
LEMMA InitSubInv == SubInit => SubInv
<1> SUFFICES ASSUME SubInit PROVE SubInv
  OBVIOUS
<1> USE DEF SubInit
<1>1. txs \in Seq(Submission)
  OBVIOUS
<1>2. batch \in BatchView
  BY DEF BatchView, NoBatch
<1>3. OnTime
  BY DEF OnTime
<1>4. MarksAreOnChain
  BY DEF MarksAreOnChain
<1>5. SubTypeOK
  BY <1>1, <1>2 DEF SubTypeOK
<1> QED
  BY <1>3, <1>4, <1>5 DEF SubInv

\* What a proof that was accepted says stays said.
Stays(i) ==
    /\ i \in DOMAIN txs'
    /\ txs'[i].creds = txs[i].creds
    /\ txs[i].at = "landed" => txs'[i].at = "landed" /\ txs'[i].ok = txs[i].ok

LEMMA MarksStay ==
  ASSUME MarksAreOnChain, proved' = proved, unreadable' = unreadable,
         \A i \in DOMAIN txs : Stays(i)
  PROVE  MarksAreOnChain'
BY DEF MarksAreOnChain, Stays

\* Steps that leave the submissions and the clock alone.
LEMMA SubIdle ==
  ASSUME SubInv, UNCHANGED <<txs, sequence, now, unreadable, proved>>,
         picked' \subseteq Creds, batch' \in BatchView, generators' \in Nat, asking' \in BOOLEAN
  PROVE  SubInv'
BY DEF SubInv, SubTypeOK, MarksAreOnChain, OnTime, InTime, OutOfTime

\* Steps that add a submission.
LEMMA SubAppends ==
  ASSUME SubInv, NEW cs \in SUBSET Creds, NEW single \in BOOLEAN,
         txs' = Append(txs, Submitted(cs, single)),
         UNCHANGED <<sequence, now, unreadable, proved, picked, generators, asking>>,
         batch' \in BatchView
  PROVE  SubInv'
<1> DEFINE x == Submitted(cs, single)
<1>1. x \in Submission /\ InTime(x) /\ OutOfTime(x)
  BY DEF Submitted, Submission, InTime, OutOfTime
<1> HIDE DEF x
<1>2. txs \in Seq(Submission)
  BY DEF SubInv, SubTypeOK
<1>3. /\ txs' \in Seq(Submission) /\ DOMAIN txs \subseteq DOMAIN txs'
      /\ \A i \in DOMAIN txs : txs'[i] = txs[i]
      /\ \A i \in DOMAIN txs' : i \in DOMAIN txs \/ txs'[i] = x
  BY <1>1, <1>2 DEF x
<1>4. SubTypeOK'
  BY <1>3 DEF SubInv, SubTypeOK
<1>5. MarksAreOnChain'
  BY <1>3, MarksStay DEF SubInv, Stays
<1>6. OnTime'
  BY <1>1, <1>3 DEF SubInv, OnTime, InTime, OutOfTime
<1> QED BY <1>4, <1>5, <1>6 DEF SubInv

\* Steps of one submission, its answer aside: what they owe.
Moved(i, x) ==
    /\ i \in DOMAIN txs /\ txs' = [txs EXCEPT ![i] = x]
    /\ x \in Submission /\ x.creds = txs[i].creds
    /\ txs[i].at = "landed" => x.at = "landed" /\ x.ok = txs[i].ok
    /\ InTime(x) /\ OutOfTime(x)

LEMMA SubMoves ==
  ASSUME SubInv, NEW i, NEW x, Moved(i, x),
         UNCHANGED <<now, picked, generators, asking>>,
         sequence' \in Nat, batch' \in BatchView,
         \/ UNCHANGED <<proved, unreadable>>
         \/ unreadable' = TRUE /\ proved' \subseteq Creds
         \/ UNCHANGED unreadable /\ proved' = proved \cup x.creds /\ x.at = "landed" /\ x.ok
  PROVE  SubInv'
<1>1. txs \in Seq(Submission)
  BY DEF SubInv, SubTypeOK
<1>2. /\ txs' \in Seq(Submission) /\ DOMAIN txs' = DOMAIN txs
      /\ txs'[i] = x /\ \A j \in DOMAIN txs : j # i => txs'[j] = txs[j]
  BY <1>1 DEF Moved
<1>3. x.creds \subseteq Creds
  BY DEF Moved, Submission
<1>4. SubTypeOK'
  BY <1>2, <1>3 DEF SubInv, SubTypeOK
<1>5. \A j \in DOMAIN txs : Stays(j)
  BY <1>2 DEF Moved, Stays
<1>6. MarksAreOnChain'
  <2>1. CASE UNCHANGED <<proved, unreadable>>
    BY <1>5, <2>1, MarksStay DEF SubInv
  <2>2. CASE unreadable' = TRUE
    BY <2>2 DEF MarksAreOnChain
  <2>3. CASE UNCHANGED unreadable /\ proved' = proved \cup x.creds /\ x.at = "landed" /\ x.ok
    <3> SUFFICES ASSUME ~unreadable, NEW c \in proved'
                 PROVE \E j \in DOMAIN txs' :
                          c \in txs'[j].creds /\ txs'[j].at = "landed" /\ txs'[j].ok
      BY <2>3 DEF MarksAreOnChain
    <3>1. CASE c \in proved
      BY <3>1, <1>5 DEF SubInv, MarksAreOnChain, Stays
    <3>2. CASE c \in x.creds
      BY <3>2, <1>2, <2>3 DEF Moved
    <3> QED BY <2>3, <3>1, <3>2
  <2> QED BY <2>1, <2>2, <2>3
<1>7. OnTime'
  BY <1>2 DEF SubInv, OnTime, Moved, InTime, OutOfTime
<1> QED BY <1>4, <1>6, <1>7 DEF SubInv

-----------------------------------------------------------------------------
LEMMA AnsweredMoves ==
  ASSUME SubInv, NEW i \in DOMAIN txs, NEW why \in {"success", "error", "notFound"},
         txs' = Answered(i, why),
         why = "notFound" /\ txs[i].single => txs[i].at = "sent" /\ txs[i].until < now
  PROVE  \E x : /\ Moved(i, x) /\ x.at = txs[i].at /\ x.ok = txs[i].ok
<1> DEFINE x == [txs[i] EXCEPT !.answer = why, !.polled = 0, !.landed = 0]
<1>1. txs \in Seq(Submission) /\ txs[i] \in Submission
  BY DEF SubInv, SubTypeOK
<1>2. /\ x \in Submission /\ x.creds = txs[i].creds /\ x.at = txs[i].at /\ x.ok = txs[i].ok
      /\ x.single = txs[i].single /\ x.answer = why /\ x.until = txs[i].until
  BY <1>1 DEF Submission
<1>3. InTime(x) /\ OutOfTime(x)
  BY <1>2 DEF InTime, OutOfTime
<1>4. txs' = [txs EXCEPT ![i] = x]
  BY <1>1 DEF Answered
<1> HIDE DEF x
<1>5. Moved(i, x)
  BY <1>2, <1>3, <1>4 DEF Moved
<1> QED BY <1>2, <1>5

LEMMA ToldKeeps ==
  ASSUME SubInv, NEW i, NEW to \in {"error", "confirmed"}, Told(i, to)
  PROVE  batch' \in BatchView
BY DEF SubInv, SubTypeOK, Told, BatchView

LEMMA SubFails ==
  ASSUME SubInv, NEW i \in DOMAIN txs, NEW why \in {"error", "notFound"}, Fails(i, why),
         UNCHANGED <<picked, generators, asking, sequence, now>>,
         why = "notFound" /\ txs[i].single => txs[i].at = "sent" /\ txs[i].until < now
  PROVE  SubInv'
<1>1. PICK x : Moved(i, x)
  BY AnsweredMoves DEF Fails
<1>2. batch' \in BatchView /\ UNCHANGED <<proved, unreadable>>
  BY ToldKeeps DEF Fails
<1>3. sequence' \in Nat
  BY DEF SubInv, SubTypeOK
<1> QED BY <1>1, <1>2, <1>3, SubMoves

LEMMA SubConfirms ==
  ASSUME SubInv, NEW i \in DOMAIN txs, Confirms(i, "success"),
         UNCHANGED <<picked, generators, asking, sequence, now>>,
         \/ unreadable' = TRUE
         \/ UNCHANGED unreadable /\ txs[i].at = "landed" /\ txs[i].ok
  PROVE  SubInv'
<1>1. PICK x : Moved(i, x) /\ x.at = txs[i].at /\ x.ok = txs[i].ok
  BY AnsweredMoves DEF Confirms
<1>2. batch' \in BatchView /\ proved' = proved \cup txs[i].creds
  BY ToldKeeps DEF Confirms
<1>3. /\ sequence' \in Nat /\ proved' \subseteq Creds /\ x.creds = txs[i].creds
  <2>1. txs[i] \in Submission
    BY DEF SubInv, SubTypeOK
  <2> QED BY <1>1, <1>2, <2>1 DEF SubInv, SubTypeOK, Submission, Moved
<1> QED BY <1>1, <1>2, <1>3, SubMoves

\* Steps of a submission that is not answered.
LEMMA SubProceeds ==
  ASSUME SubInv, NEW i \in DOMAIN txs, NEW x \in Submission, txs' = [txs EXCEPT ![i] = x],
         x.creds = txs[i].creds, txs[i].at # "landed",
         InTime(x), OutOfTime(x), sequence' \in Nat,
         UNCHANGED <<now, picked, generators, asking, proved, batch, unreadable>>
  PROVE  SubInv'
<1>1. Moved(i, x)
  BY DEF Moved
<1>2. batch' \in BatchView
  BY DEF SubInv, SubTypeOK
<1> QED BY <1>1, <1>2, SubMoves
-----------------------------------------------------------------------------
LEMMA NextSubInv == SubInv /\ [SubNext]_subVars => SubInv'
<1> SUFFICES ASSUME SubInv, [SubNext]_subVars PROVE SubInv'
  OBVIOUS
<1>t. /\ txs \in Seq(Submission) /\ \A i \in DOMAIN txs : txs[i] \in Submission
      /\ proved \subseteq Creds /\ picked \subseteq Creds /\ batch \in BatchView
      /\ generators \in Nat /\ asking \in BOOLEAN /\ sequence \in Nat /\ now \in Nat
  BY DEF SubInv, SubTypeOK
<1>s. Selected \subseteq Creds
  BY <1>t DEF Selected, Unproved
<1>b. /\ SingleBound \in Nat /\ BatchBound \in Nat /\ PollFor \in Nat /\ RpcLag \in Nat
      /\ SingleBound < PollFor /\ SingleBound + RpcLag <= PollFor
  BY TimesAssumption
<1>1. ASSUME SubTick PROVE SubInv'
  <2>1. now' = now + 1 /\ UNCHANGED <<txs, proved, picked, batch, generators, asking, sequence, unreadable>>
    BY <1>1 DEF SubTick
  <2>2. SubTypeOK' /\ MarksAreOnChain'
    BY <2>1 DEF SubInv, SubTypeOK, MarksAreOnChain
  <2>3. ASSUME NEW i \in DOMAIN txs PROVE InTime(txs[i])' /\ OutOfTime(txs[i])'
    <3>1. InTime(txs[i]) /\ OutOfTime(txs[i]) /\ txs[i] \in Submission
      BY <1>t DEF SubInv, OnTime
    <3>2. txs[i].until \in Nat /\ txs[i].polled \in Nat /\ txs[i].landed \in Nat
      BY <3>1 DEF Submission
    <3>3. txs'[i] = txs[i] /\ now' = now + 1
      BY <2>1
    <3> QED BY <3>1, <3>2, <3>3, <1>t, <1>b DEF InTime, OutOfTime
  <2> QED BY <2>1, <2>2, <2>3 DEF SubInv, OnTime
<1>2. ASSUME SelectEligible PROVE SubInv'
  <2>1. picked' \subseteq Creds /\ UNCHANGED <<proved, batch, generators, asking, txs, sequence, now, unreadable>>
    BY <1>2 DEF SelectEligible, Unproved
  <2> QED BY <2>1, <1>t, SubIdle
<1>3. ASSUME ClearSelection PROVE SubInv'
  BY <1>3, <1>t, SubIdle DEF ClearSelection
<1>4. ASSUME NEW c \in Creds, Toggle(c) PROVE SubInv'
  <2>1. picked' \subseteq Creds /\ UNCHANGED <<proved, batch, generators, asking, txs, sequence, now, unreadable>>
    BY <1>4, <1>t, <1>s DEF Toggle
  <2> QED BY <2>1, <1>t, SubIdle
<1>5. ASSUME NEW c \in Creds, SubmitSingle(c) PROVE SubInv'
  <2>1. /\ txs' = Append(txs, Submitted({c}, TRUE))
        /\ UNCHANGED <<proved, picked, batch, generators, asking, sequence, now, unreadable>>
    BY <1>5 DEF SubmitSingle
  <2>2. {c} \in SUBSET Creds /\ TRUE \in BOOLEAN /\ batch' \in BatchView
    BY <2>1, <1>t
  <2> QED BY <2>1, <2>2, SubAppends
<1>6. ASSUME OpenBatch PROVE SubInv'
  <2>1. batch' \in BatchView /\ UNCHANGED <<proved, picked, generators, asking, txs, sequence, now, unreadable>>
    BY <1>6, <1>s DEF OpenBatch, NoBatch, BatchView
  <2> QED BY <2>1, <1>t, SubIdle
<1>7. ASSUME BatchProbeAnswers PROVE SubInv'
  <2>1. batch' \in BatchView /\ generators' \in Nat
    BY <1>7, <1>t DEF BatchProbeAnswers, Generating, BatchView
  <2> QED BY <1>7, <2>1, <1>t, SubIdle DEF BatchProbeAnswers
<1>8. ASSUME BatchProceeds PROVE SubInv'
  <2>1. batch' \in BatchView /\ generators' \in Nat
    BY <1>8, <1>t DEF BatchProceeds, Generating, BatchView
  <2> QED BY <1>8, <2>1, <1>t, SubIdle DEF BatchProceeds
<1>9. ASSUME BatchAsksAgain PROVE SubInv'
  BY <1>9, <1>t, SubIdle DEF BatchAsksAgain
<1>10. ASSUME BatchAskAnswers PROVE SubInv'
  <2>1. batch' \in BatchView /\ generators' \in Nat
    BY <1>10, <1>t DEF BatchAskAnswers, Generating, BatchView
  <2> QED BY <1>10, <2>1, <1>t, SubIdle DEF BatchAskAnswers
<1>11. ASSUME GenerationEnds PROVE SubInv'
  <2>1. generators' \in Nat
    BY <1>11, <1>t DEF GenerationEnds
  <2>2. batch' \in BatchView
    BY <1>11, <1>t DEF GenerationEnds, BatchView
  <2> QED BY <1>11, <2>1, <2>2, <1>t, SubIdle DEF GenerationEnds
<1>12. ASSUME SubmitBatch PROVE SubInv'
  <2>1. /\ txs' = Append(txs, Submitted(batch.creds, FALSE))
        /\ UNCHANGED <<proved, picked, generators, asking, sequence, now, unreadable>>
    BY <1>12 DEF SubmitBatch
  <2>2. batch.creds \in SUBSET Creds /\ FALSE \in BOOLEAN /\ batch' \in BatchView
    BY <1>12, <1>t DEF SubmitBatch, BatchView
  <2> QED BY <2>1, <2>2, SubAppends
<1>13. ASSUME LeaveBatch PROVE SubInv'
  <2>1. /\ txs' = [i \in DOMAIN txs |-> [txs[i] EXCEPT !.shown = txs[i].single]]
        /\ batch' = NoBatch /\ generators' = 0 /\ asking' = FALSE
        /\ UNCHANGED <<proved, picked, sequence, now, unreadable>>
    BY <1>13 DEF LeaveBatch
  <2>2. ASSUME NEW i \in DOMAIN txs
        PROVE  /\ txs'[i] \in Submission /\ txs'[i].creds = txs[i].creds
               /\ txs'[i].at = txs[i].at /\ txs'[i].ok = txs[i].ok
               /\ txs'[i].single = txs[i].single /\ txs'[i].answer = txs[i].answer
               /\ txs'[i].until = txs[i].until /\ txs'[i].polled = txs[i].polled
               /\ txs'[i].landed = txs[i].landed
    BY <2>1, <1>t DEF Submission
  <2>3. txs' \in Seq(Submission) /\ DOMAIN txs' = DOMAIN txs
    <3>1. PICK n \in Nat : DOMAIN txs = 1..n
      BY <1>t
    <3>2. txs' \in [1..n -> Submission]
      BY <2>1, <2>2, <3>1
    <3> QED BY <3>1, <3>2
  <2>4. SubTypeOK'
    BY <2>1, <2>3, <1>t DEF SubTypeOK, NoBatch, BatchView, SubInv
  <2>5. MarksAreOnChain'
    BY <2>1, <2>2, <2>3, MarksStay DEF SubInv, Stays
  <2>6. OnTime'
    BY <2>1, <2>2, <2>3 DEF SubInv, OnTime, InTime, OutOfTime
  <2> QED BY <2>4, <2>5, <2>6 DEF SubInv
<1>14. ASSUME NEW i \in DOMAIN txs, PreflightAnswers(i) PROVE SubInv'
  <2>1. CASE TxAt(i, "build") /\ UNCHANGED <<proved, batch, unreadable>>
    <3> DEFINE x == [txs[i] EXCEPT !.at = "build"]
    <3>1. x \in Submission /\ x.creds = txs[i].creds /\ x.at = "build" /\ x.answer = "none"
      BY <1>14, <1>t DEF PreflightAnswers, Submission
    <3>2. txs' = [txs EXCEPT ![i] = x] /\ UNCHANGED <<picked, generators, asking, sequence, now>>
      BY <1>14, <2>1, <1>t DEF PreflightAnswers, TxAt
    <3>3. InTime(x) /\ OutOfTime(x)
      BY <3>1 DEF InTime, OutOfTime
    <3> HIDE DEF x
    <3> QED BY <1>14, <1>t, <2>1, <3>1, <3>2, <3>3, SubProceeds DEF PreflightAnswers
  <2>2. CASE TxAt(i, "stuck") /\ UNCHANGED <<proved, batch, unreadable>>
    <3> DEFINE x == [txs[i] EXCEPT !.at = "stuck"]
    <3>1. x \in Submission /\ x.creds = txs[i].creds /\ x.at = "stuck" /\ x.answer = "none"
      BY <1>14, <1>t DEF PreflightAnswers, Submission
    <3>2. txs' = [txs EXCEPT ![i] = x] /\ UNCHANGED <<picked, generators, asking, sequence, now>>
      BY <1>14, <2>2, <1>t DEF PreflightAnswers, TxAt
    <3>3. InTime(x) /\ OutOfTime(x)
      BY <3>1 DEF InTime, OutOfTime
    <3> HIDE DEF x
    <3> QED BY <1>14, <1>t, <2>2, <3>1, <3>2, <3>3, SubProceeds DEF PreflightAnswers
  <2>3. CASE Fails(i, "error")
    BY <1>14, <2>3, SubFails DEF PreflightAnswers
  <2> QED BY <1>14, <2>1, <2>2, <2>3 DEF PreflightAnswers
<1>15. ASSUME NEW i \in DOMAIN txs, BuildTx(i) PROVE SubInv'
  <2>1. CASE Fails(i, "error")
    BY <1>15, <2>1, SubFails DEF BuildTx
  <2>2. CASE ~Fails(i, "error")
    <3> DEFINE number == sequence + 1
    <3> DEFINE until == now + BoundOf(i)
    <3> DEFINE x == [txs[i] EXCEPT !.at = "sign", !.number = number, !.until = until]
    <3>0. BoundOf(i) \in Nat /\ (txs[i].single => BoundOf(i) = SingleBound)
      BY <1>b DEF BoundOf
    <3>n. number \in Nat /\ until \in Nat /\ txs[i] \in Submission /\ txs[i].answer = "none"
      BY <1>15, <1>t, <3>0 DEF BuildTx
    <3> HIDE DEF number, until
    <3>1. /\ x \in Submission /\ x.creds = txs[i].creds /\ x.at = "sign" /\ x.answer = "none"
          /\ x.single = txs[i].single /\ x.until = until
      BY <3>n DEF Submission
    <3>2. /\ txs' = [txs EXCEPT ![i] = x]
          /\ UNCHANGED <<picked, generators, asking, sequence, now, proved, batch, unreadable>>
      BY <1>15, <2>2, <1>t DEF BuildTx, number, until
    <3>3. InTime(x) /\ OutOfTime(x)
      BY <3>0, <3>1, <1>t, <1>b DEF InTime, OutOfTime, until
    <3>4. txs[i].at # "landed"
      BY <1>15 DEF BuildTx
    <3> HIDE DEF x
    <3> QED BY <1>t, <3>1, <3>2, <3>3, <3>4, SubProceeds
  <2> QED BY <2>1, <2>2
<1>16. ASSUME NEW i \in DOMAIN txs, SendTx(i) PROVE SubInv'
  <2>1. CASE Fails(i, "error")
    BY <1>16, <2>1, SubFails DEF SendTx
  <2>2. CASE ~Fails(i, "error")
    <3> DEFINE x == [txs[i] EXCEPT !.at = "sent", !.polled = now]
    <3>1. /\ x \in Submission /\ x.creds = txs[i].creds /\ x.at = "sent" /\ x.answer = "none"
          /\ x.single = txs[i].single /\ x.until = txs[i].until /\ x.polled = now
      BY <1>16, <1>t DEF SendTx, Submission
    <3>2. /\ txs' = [txs EXCEPT ![i] = x]
          /\ UNCHANGED <<picked, generators, asking, sequence, now, proved, batch, unreadable>>
      BY <1>16, <2>2, <1>t DEF SendTx
    <3>3. InTime(x) /\ OutOfTime(x)
      <4>1. InTime(txs[i]) /\ txs[i].at = "sign" /\ txs[i].answer = "none"
        BY <1>16 DEF SendTx, SubInv, OnTime
      <4> QED BY <4>1, <3>1, <1>t, <1>b DEF InTime, OutOfTime
    <3>4. txs[i].at # "landed"
      BY <1>16 DEF SendTx
    <3> HIDE DEF x
    <3> QED BY <1>t, <3>1, <3>2, <3>3, <3>4, SubProceeds
  <2> QED BY <2>1, <2>2
<1>17. ASSUME NEW i \in DOMAIN txs, Land(i) PROVE SubInv'
  <2>1. PICK ok \in BOOLEAN :
          txs' = [txs EXCEPT ![i].at = "landed", ![i].ok = ok, ![i].number = 0, ![i].until = 0,
                             ![i].landed = IF txs[i].answer = "none" THEN now ELSE 0]
    BY <1>17 DEF Land
  <2> DEFINE x == [txs[i] EXCEPT !.at = "landed", !.ok = ok, !.number = 0, !.until = 0,
                                 !.landed = IF txs[i].answer = "none" THEN now ELSE 0]
  <2>2. /\ x \in Submission /\ x.creds = txs[i].creds /\ x.at = "landed"
        /\ x.answer = txs[i].answer /\ x.single = txs[i].single /\ x.polled = txs[i].polled
        /\ x.landed = IF txs[i].answer = "none" THEN now ELSE 0
    BY <1>t DEF Submission
  <2>3. /\ txs' = [txs EXCEPT ![i] = x] /\ sequence' = sequence + 1
        /\ UNCHANGED <<picked, generators, asking, now, proved, batch, unreadable>>
    BY <1>17, <2>1, <1>t DEF Land
  <2>4. InTime(txs[i]) /\ OutOfTime(txs[i]) /\ txs[i].at = "sent" /\ now <= txs[i].until
    BY <1>17 DEF Land, SubInv, OnTime
  <2>5. txs[i].until \in Nat /\ txs[i].polled \in Nat
    BY <1>t DEF Submission
  <2>6. InTime(x) /\ OutOfTime(x)
    BY <2>2, <2>4, <2>5, <1>t, <1>b DEF InTime, OutOfTime
  <2>7. sequence' \in Nat /\ txs[i].at # "landed"
    BY <2>3, <2>4, <1>t
  <2> HIDE DEF x
  <2> QED BY <2>2, <2>3, <2>6, <2>7, SubProceeds
<1>18. ASSUME NEW i \in DOMAIN txs, PollTx(i) PROVE SubInv'
  <2>u. UNCHANGED <<picked, generators, asking, sequence, now>>
    BY <1>18 DEF PollTx
  <2>1. CASE Fails(i, "error")
    BY <2>1, <2>u, SubFails
  <2>2. CASE Confirms(i, "success") /\ (unreadable' = TRUE \/ (UNCHANGED unreadable /\ Found(i) /\ txs[i].ok))
    BY <2>2, <2>u, SubConfirms DEF Found
  <2>3. CASE ~MustBeFound(i) /\ now - txs[i].polled >= PollFor /\ Fails(i, "notFound")
    <3>1. InTime(txs[i]) /\ txs[i] \in Submission /\ txs[i].answer = "none"
          /\ txs[i].at \in {"sent", "landed"}
      BY <1>18, <1>t DEF PollTx, SubInv, OnTime
    <3>n. txs[i].until \in Nat /\ txs[i].polled \in Nat /\ txs[i].landed \in Nat
      BY <3>1 DEF Submission
    <3>2. ASSUME txs[i].single PROVE txs[i].at = "sent" /\ txs[i].until < now
      <4>1. txs[i].at # "landed"
        BY <2>3, <3>1, <3>2, <3>n, <1>t, <1>b DEF InTime, MustBeFound, Found
      <4> QED BY <4>1, <2>3, <3>1, <3>2, <3>n, <1>t, <1>b DEF InTime
    <3> QED BY <2>3, <2>u, <3>2, SubFails
  <2> QED BY <1>18, <2>1, <2>2, <2>3 DEF PollTx
<1>19. CASE UNCHANGED subVars
  BY <1>19, <1>t, SubIdle DEF subVars
<1> QED
  BY <1>1, <1>2, <1>3, <1>4, <1>5, <1>6, <1>7, <1>8, <1>9, <1>10, <1>11, <1>12, <1>13, <1>14,
     <1>15, <1>16, <1>17, <1>18, <1>19 DEF SubNext

-----------------------------------------------------------------------------
\* The inductive invariant of submissions: types, marks on chain, and times.
THEOREM SubmissionInvariant == SubSpec => []SubInv
BY InitSubInv, NextSubInv, PTL DEF SubSpec

\* A credential shown as proved has an accepted proof on chain, for every set of
\* credentials, every number of submissions and every time bound.
THEOREM MarkedIsOnChain == SubSpec => []MarksAreOnChain
<1>1. SubInv => MarksAreOnChain
  BY DEF SubInv
<1> QED BY <1>1, SubmissionInvariant, PTL

\* A single submission reported as not found never lands, because its time
\* bound is shorter than the polling by at least the lag of the RPC endpoint.
THEOREM NotFoundIsFinal == SubSpec => []GivingUpIsFinal
<1>1. SubInv => GivingUpIsFinal
  BY DEF SubInv, OnTime, OutOfTime, GivingUpIsFinal
<1> QED BY <1>1, SubmissionInvariant, PTL
-----------------------------------------------------------------------------
(* Administrative exports: downloads are whole                             *)

ExportJob == [total : Nat, stored : Nat]
Ask ==
    [at : {"none", "find", "acquire", "undo", "undone", "create", "store", "serve", "serveNew",
           "dequeue", "release", "released"},
     job : Nat, seen : Nat]

ExportsTypeOK ==
    /\ jobs \in Seq(ExportJob) /\ byRecord \in Nat /\ active \in Nat
    /\ ask \in [Admins -> Ask]
    /\ got \in [Admins -> Seq(Nat \X Nat)]
    /\ cursor \in [Admins -> Nat \X Nat]

\* A job whose chunks are all stored; it stays so.
Complete(j) == j \in DOMAIN jobs /\ jobs[j].stored = jobs[j].total

\* What a client has is a beginning of one job.
Beginning(a) == \A n \in DOMAIN got[a] : got[a][n] = <<got[a][1][1], n - 1>>

\* A cursor continues what its holder has, and names a complete job.
Continues(a) ==
    cursor[a] # NoCursor =>
        /\ got[a] # <<>>
        /\ cursor[a] = <<got[a][1][1], Len(got[a])>>
        /\ Complete(cursor[a][1]) /\ cursor[a][2] < jobs[cursor[a][1]].stored

\* A request that begins a download has nothing yet, one that goes on what the
\* cursor says; and both are served from a complete job.
Fresh(a) == got[a] = <<>> /\ cursor[a] = NoCursor /\ ask[a].seen = 0

Serves(a) ==
    /\ ask[a].at \in {"find", "acquire", "create", "store", "serveNew"} => Fresh(a)
    /\ ask[a].at = "serve" => Fresh(a) \/ (cursor[a] # NoCursor /\ cursor[a] = <<ask[a].job, ask[a].seen>>)
    /\ ask[a].at = "store" => ask[a].job \in DOMAIN jobs
    /\ ask[a].at \in {"serve", "serveNew"} => Complete(ask[a].job)

ExportsInv ==
    /\ ExportsTypeOK
    /\ byRecord # 0 => Complete(byRecord)
    /\ \A a \in Admins : Beginning(a) /\ Continues(a) /\ Serves(a)
-----------------------------------------------------------------------------
LEMMA InitExportsInv == ExportsInit => ExportsInv
<1> SUFFICES ASSUME ExportsInit PROVE ExportsInv
  OBVIOUS
<1> USE DEF ExportsInit
<1>1. <<>> \in Seq(ExportJob) /\ <<>> \in Seq(Nat \X Nat) /\ NoAsk \in Ask /\ NoCursor \in Nat \X Nat
  BY DEF NoAsk, Ask, NoCursor
<1>2. ExportsTypeOK
  BY <1>1 DEF ExportsTypeOK
<1>3. ASSUME NEW a \in Admins PROVE Beginning(a) /\ Continues(a) /\ Serves(a)
  <2>1. got[a] = <<>> /\ cursor[a] = NoCursor /\ ask[a].at = "none"
    BY DEF NoAsk
  <2> QED BY <2>1 DEF Beginning, Continues, Serves
<1> QED BY <1>2, <1>3 DEF ExportsInv

\* Steps that leave the jobs alone, and of the requests change a's at most.
LEMMA ExportsStep ==
  ASSUME ExportsInv, NEW a \in Admins, ExportsTypeOK',
         UNCHANGED jobs, byRecord' # byRecord => Complete(byRecord'),
         \A b \in Admins : b # a => ask'[b] = ask[b] /\ got'[b] = got[b] /\ cursor'[b] = cursor[b],
         Beginning(a)', Continues(a)', Serves(a)'
  PROVE  ExportsInv'
<1>1. ASSUME NEW b \in Admins PROVE Beginning(b)' /\ Continues(b)' /\ Serves(b)'
  <2>1. CASE b = a
    BY <2>1
  <2>2. CASE b # a
    <3>1. Beginning(b) /\ Continues(b) /\ Serves(b)
      BY DEF ExportsInv
    <3> QED BY <2>2, <3>1 DEF Beginning, Continues, Serves, Fresh, Complete
  <2> QED BY <2>1, <2>2
<1>2. byRecord' # 0 => Complete(byRecord)'
  BY DEF ExportsInv, Complete
<1> QED BY <1>1, <1>2 DEF ExportsInv

\* Steps in which jobs grow.
LEMMA JobsGrow ==
  ASSUME ExportsInv, NEW a \in Admins, ExportsTypeOK', UNCHANGED <<byRecord, got, cursor>>,
         DOMAIN jobs \subseteq DOMAIN jobs',
         \A j \in DOMAIN jobs : /\ jobs'[j].stored >= jobs[j].stored
                                /\ Complete(j) => jobs'[j] = jobs[j],
         \A b \in Admins : b # a => ask'[b] = ask[b],
         Serves(a)'
  PROVE  ExportsInv'
<1>0. jobs \in Seq(ExportJob) /\ \A j \in DOMAIN jobs : jobs[j].stored \in Nat /\ jobs[j].total \in Nat
  <2>1. jobs \in Seq(ExportJob)
    BY DEF ExportsInv, ExportsTypeOK
  <2>2. \A j \in DOMAIN jobs : jobs[j] \in ExportJob
    BY <2>1
  <2> QED BY <2>1, <2>2 DEF ExportJob
<1>1. \A j : Complete(j) => Complete(j)' /\ jobs'[j] = jobs[j]
  BY DEF Complete
<1>2. ASSUME NEW b \in Admins PROVE Beginning(b)' /\ Continues(b)' /\ Serves(b)'
  <2>1. Beginning(b) /\ Continues(b) /\ Serves(b)
    BY DEF ExportsInv
  <2>2. Beginning(b)'
    BY <2>1 DEF Beginning
  <2>3. Continues(b)'
    BY <2>1, <1>1 DEF Continues
  <2>4. CASE b = a
    BY <2>2, <2>3, <2>4
  <2>5. CASE b # a
    BY <2>1, <2>2, <2>3, <2>5, <1>1 DEF Serves, Fresh
  <2> QED BY <2>4, <2>5
<1>3. byRecord' # 0 => Complete(byRecord)'
  BY <1>1 DEF ExportsInv
<1> QED BY <1>2, <1>3 DEF ExportsInv
-----------------------------------------------------------------------------
LEMMA NextExportsInv == ExportsInv /\ [ExportsNext]_exportVars => ExportsInv'
<1> SUFFICES ASSUME ExportsInv, [ExportsNext]_exportVars PROVE ExportsInv'
  OBVIOUS
<1>t. /\ jobs \in Seq(ExportJob) /\ byRecord \in Nat /\ active \in Nat
      /\ ask \in [Admins -> Ask] /\ \A a \in Admins : ask[a] \in Ask
      /\ got \in [Admins -> Seq(Nat \X Nat)] /\ cursor \in [Admins -> Nat \X Nat]
  BY DEF ExportsInv, ExportsTypeOK
<1>i. \A a \in Admins : Beginning(a) /\ Continues(a) /\ Serves(a)
  BY DEF ExportsInv
<1>n. NoAsk \in Ask /\ NoAsk.at = "none" /\ NoCursor \in Nat \X Nat /\ <<>> \in Seq(Nat \X Nat)
  BY DEF NoAsk, Ask, NoCursor
<1>1. ASSUME NEW a \in Admins, StartDownload(a) PROVE ExportsInv'
  <2>1. /\ ask[a] = NoAsk /\ cursor[a] = NoCursor /\ got' = [got EXCEPT ![a] = <<>>]
        /\ ask' = [ask EXCEPT ![a].at = "find"] /\ UNCHANGED <<jobs, byRecord, active, cursor>>
    BY <1>1 DEF StartDownload, Step
  <2>2. ask'[a] \in Ask /\ ask'[a].at = "find" /\ ask'[a].seen = 0
    BY <2>1, <1>t DEF NoAsk, Ask
  <2>3. ExportsTypeOK'
    BY <2>1, <2>2, <1>t, <1>n DEF ExportsTypeOK
  <2>4. Beginning(a)' /\ Continues(a)' /\ Serves(a)'
    BY <2>1, <2>2, <1>t DEF Beginning, Continues, Serves, Fresh
  <2>5. \A b \in Admins : b # a => ask'[b] = ask[b] /\ got'[b] = got[b] /\ cursor'[b] = cursor[b]
    BY <2>1, <1>t
  <2> QED BY <2>1, <2>3, <2>4, <2>5, ExportsStep
<1>2. ASSUME NEW a \in Admins, FindJob(a) PROVE ExportsInv'
  <2>1. ask[a].at = "find" /\ UNCHANGED <<jobs, byRecord, active, got, cursor>> /\ Fresh(a)
    BY <1>2, <1>i DEF FindJob, clientVars, Serves
  <2>2. CASE byRecord # 0
    <3>1. ask' = [ask EXCEPT ![a] = [at |-> "serve", job |-> byRecord, seen |-> 0]]
      BY <1>2, <2>2 DEF FindJob
    <3>2. [at |-> "serve", job |-> byRecord, seen |-> 0] \in Ask
      BY <1>t DEF Ask
    <3>3. ExportsTypeOK'
      BY <2>1, <3>1, <3>2, <1>t DEF ExportsTypeOK
    <3>4. Complete(byRecord)
      BY <2>2 DEF ExportsInv
    <3>5. Beginning(a)' /\ Continues(a)' /\ Serves(a)'
      BY <2>1, <3>1, <3>4, <1>t, <1>i DEF Beginning, Continues, Serves, Fresh, Complete
    <3>6. \A b \in Admins : b # a => ask'[b] = ask[b] /\ got'[b] = got[b] /\ cursor'[b] = cursor[b]
      BY <2>1, <3>1, <1>t
    <3> QED BY <2>1, <3>3, <3>5, <3>6, ExportsStep
  <2>3. CASE byRecord = 0
    <3>1. ask' = [ask EXCEPT ![a].at = "acquire"]
      BY <1>2, <2>3 DEF FindJob, Step
    <3>2. ask'[a] \in Ask /\ ask'[a].at = "acquire" /\ ask'[a].seen = ask[a].seen
      BY <3>1, <1>t DEF Ask
    <3>3. ExportsTypeOK'
      BY <2>1, <3>1, <3>2, <1>t DEF ExportsTypeOK
    <3>5. Beginning(a)' /\ Continues(a)' /\ Serves(a)'
      BY <2>1, <3>2, <1>i DEF Beginning, Continues, Serves, Fresh, Complete
    <3>6. \A b \in Admins : b # a => ask'[b] = ask[b] /\ got'[b] = got[b] /\ cursor'[b] = cursor[b]
      BY <2>1, <3>1, <1>t
    <3> QED BY <2>1, <3>3, <3>5, <3>6, ExportsStep
  <2> QED BY <2>2, <2>3
\* A request ends, or goes on to a phase of which nothing is asked.
<1>e. ASSUME NEW a \in Admins, NEW x \in Ask, ask' = [ask EXCEPT ![a] = x],
             x.at \in {"none", "undo", "undone", "release", "released", "dequeue"},
             UNCHANGED <<jobs, byRecord, got, cursor>>, active' \in Nat
      PROVE  ExportsInv'
  <2>1. ExportsTypeOK'
    BY <1>e, <1>t DEF ExportsTypeOK
  <2>2. Beginning(a)' /\ Continues(a)' /\ Serves(a)'
    BY <1>e, <1>t, <1>i DEF Beginning, Continues, Serves, Complete
  <2>3. \A b \in Admins : b # a => ask'[b] = ask[b] /\ got'[b] = got[b] /\ cursor'[b] = cursor[b]
    BY <1>e, <1>t
  <2> QED BY <1>e, <2>1, <2>2, <2>3, ExportsStep
<1>3. ASSUME NEW a \in Admins, Throttled(a) PROVE ExportsInv'
  BY <1>3, <1>e, <1>n, <1>t DEF Throttled, clientVars
<1>4. ASSUME NEW a \in Admins, AcquireSlot(a) PROVE ExportsInv'
  <2>1. /\ ask[a].at = "acquire" /\ active' = active + 1 /\ active' \in Nat
        /\ UNCHANGED <<jobs, byRecord, got, cursor>> /\ Fresh(a)
    BY <1>4, <1>t, <1>i DEF AcquireSlot, clientVars, Serves
  <2>2. PICK where \in {"undo", "create"} : ask' = [ask EXCEPT ![a].at = where]
    BY <1>4 DEF AcquireSlot, Step
  <2>3. ask'[a] \in Ask /\ ask'[a].at = where /\ ask'[a].seen = ask[a].seen
    BY <2>2, <1>t DEF Ask
  <2>4. ExportsTypeOK'
    BY <2>1, <2>2, <2>3, <1>t DEF ExportsTypeOK
  <2>5. Beginning(a)' /\ Continues(a)' /\ Serves(a)'
    BY <2>1, <2>3, <1>i DEF Beginning, Continues, Serves, Fresh, Complete
  <2>6. \A b \in Admins : b # a => ask'[b] = ask[b] /\ got'[b] = got[b] /\ cursor'[b] = cursor[b]
    BY <2>1, <2>2, <1>t
  <2> QED BY <2>1, <2>4, <2>5, <2>6, ExportsStep
<1>5. ASSUME NEW a \in Admins, ReadSlots(a) PROVE ExportsInv'
  <2>1. PICK at \in {"undone", "released"} : ask' = [ask EXCEPT ![a] = [ask[a] EXCEPT !.at = at, !.seen = active]]
    BY <1>5, <1>t DEF ReadSlots
  <2>2. PICK x : x = [ask[a] EXCEPT !.at = at, !.seen = active]
    OBVIOUS
  <2>3. ask[a] \in Ask /\ active \in Nat
    BY <1>t
  <2>4. x \in Ask
    <3>1. ask[a].job \in Nat
      BY <2>3 DEF Ask
    <3>2. x = [at |-> at, job |-> ask[a].job, seen |-> active]
      BY <2>2, <2>3 DEF Ask
    <3> QED BY <3>1, <3>2, <2>1, <2>3 DEF Ask
  <2>5. x.at = at
    BY <2>2, <2>3 DEF Ask
  <2>6. ask' = [ask EXCEPT ![a] = x]
    BY <2>1, <2>2
  <2>7. UNCHANGED <<jobs, byRecord, active, got, cursor>>
    BY <1>5 DEF ReadSlots, clientVars
  <2>8. x.at \in {"none", "undo", "undone", "release", "released", "dequeue"}
    BY <2>5
  <2> QED BY <2>3, <2>4, <2>6, <2>7, <2>8, <1>e
<1>6. ASSUME NEW a \in Admins, WriteSlots(a) PROVE ExportsInv'
  <2>1. ask[a].seen \in Nat
    BY <1>t DEF Ask
  <2>2. active' \in Nat
    BY <1>6, <2>1, <1>t DEF WriteSlots
  <2> QED BY <1>6, <2>2, <1>e, <1>n DEF WriteSlots, clientVars
<1>7. ASSUME NEW a \in Admins, NewJob(a) PROVE ExportsInv'
  <2>1. PICK n \in 1..Chunks : jobs' = Append(jobs, [total |-> n, stored |-> 0])
    BY <1>7 DEF NewJob
  <2>2. n \in Nat /\ [total |-> n, stored |-> 0] \in ExportJob
    BY ExportAssumption DEF ExportJob
  <2>3. /\ jobs' \in Seq(ExportJob) /\ DOMAIN jobs \subseteq DOMAIN jobs'
        /\ \A j \in DOMAIN jobs : jobs'[j] = jobs[j]
        /\ Len(jobs') \in DOMAIN jobs' /\ Len(jobs') \in Nat
    BY <2>1, <2>2, <1>t
  <2>4. \A j \in DOMAIN jobs : jobs'[j].stored >= jobs[j].stored
    <3>1. \A j \in DOMAIN jobs : jobs[j] \in ExportJob
      BY <1>t
    <3>2. \A j \in DOMAIN jobs : jobs[j].stored \in Nat
      BY <3>1 DEF ExportJob
    <3> QED BY <3>2, <2>3
  <2>5. PICK k \in Nat : k = Len(jobs') /\ k \in DOMAIN jobs'
    BY <2>3
  <2>6. ask' = [ask EXCEPT ![a].at = "store", ![a].job = k]
    BY <1>7, <2>5 DEF NewJob
  <2>7. ask'[a] \in Ask /\ ask'[a].at = "store" /\ ask'[a].seen = ask[a].seen /\ ask'[a].job = k
    BY <2>6, <1>t DEF Ask
  <2>8. UNCHANGED <<byRecord, active, got, cursor>> /\ Fresh(a)
    BY <1>7, <1>i DEF NewJob, clientVars, Serves
  <2>9. ExportsTypeOK'
    BY <2>3, <2>6, <2>7, <2>8, <1>t DEF ExportsTypeOK
  <2>10. Serves(a)'
    BY <2>5, <2>7, <2>8 DEF Serves, Fresh
  <2>11. \A b \in Admins : b # a => ask'[b] = ask[b]
    BY <2>6, <1>t
  <2> QED BY <2>3, <2>4, <2>8, <2>9, <2>10, <2>11, JobsGrow
<1>8. ASSUME NEW a \in Admins, StoreChunk(a) PROVE ExportsInv'
  <2>1. PICK k : k = ask[a].job
    OBVIOUS
  <2>2. /\ ask[a].at = "store" /\ k \in DOMAIN jobs /\ jobs[k].stored < jobs[k].total
        /\ jobs' = [jobs EXCEPT ![k].stored = jobs[k].stored + 1]
        /\ UNCHANGED <<byRecord, active, ask, got, cursor>>
    BY <1>8, <2>1, <1>i DEF StoreChunk, clientVars, Serves
  <2>10. \A j \in DOMAIN jobs : jobs[j] \in ExportJob
    BY <1>t
  <2>3. jobs[k] \in ExportJob /\ \A j \in DOMAIN jobs : jobs[j].stored \in Nat /\ jobs[j].total \in Nat
    BY <2>2, <2>10 DEF ExportJob
  <2>4. PICK y : y = [jobs[k] EXCEPT !.stored = jobs[k].stored + 1]
    OBVIOUS
  <2>5. y \in ExportJob /\ y.stored = jobs[k].stored + 1
    BY <2>3, <2>4 DEF ExportJob
  <2>6. /\ jobs' \in Seq(ExportJob) /\ DOMAIN jobs' = DOMAIN jobs /\ jobs'[k] = y
        /\ \A j \in DOMAIN jobs : j # k => jobs'[j] = jobs[j]
    BY <2>2, <2>4, <2>5, <1>t
  <2>7. ExportsTypeOK'
    BY <2>2, <2>6, <1>t DEF ExportsTypeOK
  <2>8. \A j \in DOMAIN jobs : /\ jobs'[j].stored >= jobs[j].stored
                               /\ Complete(j) => jobs'[j] = jobs[j]
    BY <2>2, <2>3, <2>5, <2>6 DEF Complete
  <2>9. Serves(a)'
    BY <2>2, <2>6, <1>i DEF Serves, Fresh
  <2> QED BY <2>2, <2>6, <2>7, <2>8, <2>9, JobsGrow
<1>9. ASSUME NEW a \in Admins, LinkJob(a) PROVE ExportsInv'
  <2>1. /\ ask[a].at = "store" /\ Fresh(a) /\ Complete(ask[a].job) /\ byRecord' = ask[a].job
        /\ ask' = [ask EXCEPT ![a].at = "serveNew"] /\ UNCHANGED <<jobs, active, got, cursor>>
    BY <1>9, <1>i DEF LinkJob, clientVars, Serves, Complete, Step
  <2>2. ask'[a] \in Ask /\ ask'[a].at = "serveNew" /\ ask'[a].seen = ask[a].seen /\ ask'[a].job = ask[a].job
    BY <2>1, <1>t DEF Ask
  <2>3. ask[a].job \in Nat
    BY <1>t DEF Ask
  <2>4. ExportsTypeOK'
    BY <2>1, <2>2, <2>3, <1>t DEF ExportsTypeOK
  <2>5. Beginning(a)' /\ Continues(a)' /\ Serves(a)'
    BY <2>1, <2>2, <1>i DEF Beginning, Continues, Serves, Fresh, Complete
  <2>6. \A b \in Admins : b # a => ask'[b] = ask[b] /\ got'[b] = got[b] /\ cursor'[b] = cursor[b]
    BY <2>1, <1>t
  <2>7. Complete(byRecord')
    BY <2>1
  <2> QED BY <2>1, <2>4, <2>5, <2>6, <2>7, ExportsStep
<1>10. ASSUME NEW a \in Admins, Resume(a) PROVE ExportsInv'
  <2>0. cursor[a] \in Nat \X Nat
    BY <1>t
  <2>1. PICK j \in Nat, i \in Nat : cursor[a] = <<j, i>>
    BY <2>0
  <2>2. /\ cursor[a] # NoCursor /\ ask' = [ask EXCEPT ![a] = [at |-> "serve", job |-> j, seen |-> i]]
        /\ UNCHANGED <<jobs, byRecord, active, got, cursor>>
    BY <1>10, <2>1 DEF Resume, clientVars
  <2>3. [at |-> "serve", job |-> j, seen |-> i] \in Ask
    BY DEF Ask
  <2>4. ExportsTypeOK'
    BY <2>2, <2>3, <1>t DEF ExportsTypeOK
  <2>5. ask'[a].at = "serve" /\ ask'[a].job = j /\ ask'[a].seen = i
    BY <2>2, <1>t
  <2>6. Complete(j)
    <3>1. cursor[a][1] = j /\ Continues(a)
      BY <2>1, <1>i
    <3> QED BY <2>2, <3>1 DEF Continues
  <2>7. Beginning(a)' /\ Continues(a)' /\ Serves(a)'
    BY <2>1, <2>2, <2>5, <2>6, <1>i DEF Beginning, Continues, Serves, Complete
  <2>8. \A b \in Admins : b # a => ask'[b] = ask[b] /\ got'[b] = got[b] /\ cursor'[b] = cursor[b]
    BY <2>2, <1>t
  <2> QED BY <2>2, <2>4, <2>7, <2>8, ExportsStep
<1>11. ASSUME NEW a \in Admins, ServeChunk(a) PROVE ExportsInv'
  <2>1. PICK j \in Nat, i \in Nat : j = ask[a].job /\ i = ask[a].seen
    BY <1>t DEF Ask
  <2>2. /\ ask[a].at \in {"serve", "serveNew"} /\ Complete(j) /\ UNCHANGED <<jobs, byRecord, active>>
        /\ Beginning(a) /\ Continues(a)
        /\ Fresh(a) \/ (cursor[a] # NoCursor /\ cursor[a] = <<j, i>>)
    BY <1>11, <2>1, <1>i DEF ServeChunk, Serves
  <2>3. PICK x \in Ask : ask' = [ask EXCEPT ![a] = x] /\ x.at \in {"none", "dequeue"}
    <3>1. CASE ask[a].at = "serveNew"
      <4>1. PICK x : x = [ask[a] EXCEPT !.at = "dequeue"]
        OBVIOUS
      <4>2. x \in Ask /\ x.at = "dequeue"
        BY <4>1, <1>t DEF Ask
      <4> QED BY <1>11, <3>1, <4>1, <4>2 DEF ServeChunk
    <3>2. CASE ask[a].at # "serveNew"
      BY <1>11, <3>2, <1>n DEF ServeChunk
    <3> QED BY <3>1, <3>2
  <2>4. Serves(a)'
    BY <2>3, <1>t DEF Serves
  <2>5. got[a] \in Seq(Nat \X Nat) /\ i = Len(got[a]) /\ (got[a] # <<>> => got[a][1][1] = j)
    <3>1. got[a] \in Seq(Nat \X Nat)
      BY <1>t
    <3>2. CASE Fresh(a)
      BY <2>1, <3>1, <3>2 DEF Fresh
    <3>3. CASE cursor[a] # NoCursor /\ cursor[a] = <<j, i>>
      BY <2>2, <3>1, <3>3 DEF Continues
    <3> QED BY <2>2, <3>2, <3>3, <3>1
  <2>6. CASE i < jobs[j].stored
    <3>1. /\ got' = [got EXCEPT ![a] = Append(got[a], <<j, i>>)]
          /\ cursor' = [cursor EXCEPT ![a] = IF i + 1 >= jobs[j].total THEN NoCursor ELSE <<j, i + 1>>]
      BY <1>11, <2>1, <2>6 DEF ServeChunk
    <3>2. PICK g : g = Append(got[a], <<j, i>>)
      OBVIOUS
    <3>3. /\ g \in Seq(Nat \X Nat) /\ Len(g) = i + 1 /\ g # <<>> /\ g[i + 1] = <<j, i>>
          /\ \A n \in DOMAIN g : (n \in DOMAIN got[a] /\ g[n] = got[a][n]) \/ n = i + 1
      <4>1. <<j, i>> \in Nat \X Nat
        OBVIOUS
      <4>2. g \in Seq(Nat \X Nat)
        BY <4>1, <2>5, <3>2
      <4>3. Len(g) = i + 1 /\ g[i + 1] = <<j, i>>
        BY <2>5, <3>2
      <4>4. DOMAIN g = 1..(i + 1)
        BY <4>2, <4>3
      <4>5. \A n \in DOMAIN g : (n \in DOMAIN got[a] /\ g[n] = got[a][n]) \/ n = i + 1
        BY <2>5, <3>2, <4>4
      <4>6. g # <<>>
        BY <4>3
      <4> QED BY <4>2, <4>3, <4>5, <4>6
    <3>4. g[1][1] = j
      <4>1. CASE got[a] = <<>>
        BY <4>1, <2>5, <3>3
      <4>2. CASE got[a] # <<>>
        <5>1. 1 \in DOMAIN got[a] /\ g[1] = got[a][1]
          BY <4>2, <2>5, <3>2
        <5> QED BY <5>1, <4>2, <2>5
      <4> QED BY <4>1, <4>2
    <3>5. got'[a] = g /\ got' \in [Admins -> Seq(Nat \X Nat)]
      BY <3>1, <3>2, <3>3, <1>t
    <3>6. Beginning(a)'
      <4> SUFFICES ASSUME NEW n \in DOMAIN g PROVE g[n] = <<j, n - 1>>
        BY <3>4, <3>5 DEF Beginning
      <4>1. CASE n = i + 1
        BY <4>1, <3>3
      <4>2. CASE n \in DOMAIN got[a] /\ g[n] = got[a][n]
        <5>1. got[a] # <<>>
          BY <4>2, <2>5
        <5> QED BY <4>2, <5>1, <2>2, <2>5 DEF Beginning
      <4> QED BY <4>1, <4>2, <3>3
    <3>7. jobs[j].total = jobs[j].stored /\ jobs[j].total \in Nat
      <4>1. jobs[j] \in ExportJob
        BY <2>2, <1>t DEF Complete
      <4> QED BY <2>2, <4>1 DEF Complete, ExportJob
    <3>8. cursor'[a] = (IF i + 1 >= jobs[j].total THEN NoCursor ELSE <<j, i + 1>>)
          /\ cursor' \in [Admins -> Nat \X Nat]
      <4>1. i + 1 \in Nat
        OBVIOUS
      <4> QED BY <3>1, <4>1, <1>t, <1>n
    <3>9. Continues(a)'
      <4>1. CASE cursor'[a] = NoCursor
        BY <4>1 DEF Continues
      <4>2. CASE cursor'[a] = <<j, i + 1>> /\ i + 1 < jobs[j].total
        BY <4>2, <2>2, <3>3, <3>4, <3>5, <3>7 DEF Continues, Complete
      <4> QED BY <4>1, <4>2, <3>7, <3>8
    <3>10. ExportsTypeOK'
      BY <2>2, <2>3, <3>5, <3>8, <1>t DEF ExportsTypeOK
    <3>11. \A b \in Admins : b # a => ask'[b] = ask[b] /\ got'[b] = got[b] /\ cursor'[b] = cursor[b]
      BY <2>3, <3>1, <1>t
    <3> QED BY <2>2, <2>4, <3>6, <3>9, <3>10, <3>11, ExportsStep
  <2>7. CASE ~(i < jobs[j].stored)
    <3>1. cursor' = [cursor EXCEPT ![a] = NoCursor] /\ UNCHANGED got
      BY <1>11, <2>1, <2>7 DEF ServeChunk
    <3>2. ExportsTypeOK'
      BY <2>2, <2>3, <3>1, <1>t, <1>n DEF ExportsTypeOK
    <3>3. Beginning(a)' /\ Continues(a)'
      BY <2>2, <3>1, <1>t DEF Beginning, Continues
    <3>4. \A b \in Admins : b # a => ask'[b] = ask[b] /\ got'[b] = got[b] /\ cursor'[b] = cursor[b]
      BY <2>3, <3>1, <1>t
    <3> QED BY <2>2, <2>4, <3>2, <3>3, <3>4, ExportsStep
  <2> QED BY <2>6, <2>7
<1>12. ASSUME NEW a \in Admins, Dequeue(a) PROVE ExportsInv'
  <2>1. PICK x : x = [ask[a] EXCEPT !.at = "release"]
    OBVIOUS
  <2>2. x \in Ask /\ x.at = "release"
    BY <2>1, <1>t DEF Ask
  <2> QED BY <1>12, <2>1, <2>2, <1>e, <1>t DEF Dequeue, clientVars, Step
<1>13. ASSUME NEW a \in Admins, ProcessDies(a) PROVE ExportsInv'
  BY <1>13, <1>e, <1>n, <1>t DEF ProcessDies, clientVars
<1>14. ASSUME UNCHANGED <<jobs, byRecord, active, ask, got, cursor>> PROVE ExportsInv'
  <2>1. ExportsTypeOK' /\ (byRecord' # 0 => Complete(byRecord)')
    BY <1>14 DEF ExportsInv, ExportsTypeOK, Complete
  <2>2. ASSUME NEW a \in Admins PROVE Beginning(a)' /\ Continues(a)' /\ Serves(a)'
    BY <1>14, <1>i DEF Beginning, Continues, Serves, Fresh, Complete
  <2> QED BY <2>1, <2>2 DEF ExportsInv
<1>15. CASE CancelQueued \/ RevokeExport
  BY <1>14, <1>15 DEF CancelQueued, RevokeExport, clientVars
<1>16. CASE UNCHANGED exportVars
  BY <1>14, <1>16 DEF exportVars
<1> QED
  BY <1>1, <1>2, <1>3, <1>4, <1>5, <1>6, <1>7, <1>8, <1>9, <1>10, <1>11, <1>12, <1>13, <1>15,
     <1>16 DEF ExportsNext
-----------------------------------------------------------------------------
\* The inductive invariant of the administrative exports.
THEOREM ExportsInvariant == ExportsSpec => []ExportsInv
BY InitExportsInv, NextExportsInv, PTL DEF ExportsSpec

\* Downloads are whole for every number of admins, jobs, chunks, slots and
\* deaths.
THEOREM DownloadsAreAlwaysWhole == ExportsSpec => []DownloadsAreWhole
<1>1. ExportsInv => DownloadsAreWhole
  BY DEF ExportsInv, Beginning, Continues, DownloadsAreWhole
<1> QED BY <1>1, ExportsInvariant, PTL
-----------------------------------------------------------------------------
(* Exports of holders: a link offered downloads                            *)

JobStatus == {"none", "pending", "processing", "ready"}
JobStage == {"none", "list", "listRead", "created", "working", "saved", "over"}

UserTypeOK ==
    /\ status \in [Places -> [UserJobs -> JobStatus]]
    /\ artifact \in [Places -> SUBSET UserJobs]
    /\ left \in [UserJobs -> Nat] /\ stage \in [UserJobs -> JobStage]
    /\ userFaults \in Nat /\ userRestarts \in Nat

\* Of a job being worked on, or that has a link, the memory knows as long as
\* the process lives, and the store as long as it has lost nothing ...
Known(j) ==
    left[j] > 0 \/ stage[j] \in {"working", "saved"} =>
        /\ userRestarts = 0 => status["memory"][j] # "none"
        /\ userFaults = 0 => status["store"][j] # "none"

\* ... and so it is with what a link leads to.
KeptFor(j) ==
    left[j] > 0 =>
        /\ userRestarts = 0 => j \in artifact["memory"]
        /\ userFaults = 0 => j \in artifact["store"]

UserInv == UserTypeOK /\ \A j \in UserJobs : Known(j) /\ KeptFor(j)
-----------------------------------------------------------------------------
LEMMA InitUserInv == UserInit => UserInv
<1> SUFFICES ASSUME UserInit PROVE UserInv
  OBVIOUS
<1>1. UserTypeOK
  BY DEF UserInit, UserTypeOK, NoJobs, JobStatus, JobStage, Places
<1>2. \A j \in UserJobs : left[j] = 0 /\ stage[j] = "none"
  BY DEF UserInit
<1> QED BY <1>1, <1>2 DEF UserInv, Known, KeptFor

\* A command of the store is one more fault or none.
LEMMA CommandCounts ==
  ASSUME userFaults \in Nat, NEW lost \in BOOLEAN, Command(lost)
  PROVE  userFaults' \in Nat /\ (userFaults' = 0 => userFaults = 0 /\ ~lost)
BY DEF Command

\* Steps that forget no status, and change neither links nor contents; of the
\* jobs only j changes its stage.
LEMMA StatusStep ==
  ASSUME UserInv, NEW j \in UserJobs, UNCHANGED <<artifact, left, userRestarts>>,
         userFaults' \in Nat, userFaults' = 0 => userFaults = 0,
         status' \in [Places -> [UserJobs -> JobStatus]],
         \A p \in Places, k \in UserJobs : status'[p][k] = "none" => status[p][k] = "none",
         NEW s \in JobStage, stage' = [stage EXCEPT ![j] = s],
         Known(j)'
  PROVE  UserInv'
<1>1. UserTypeOK'
  BY DEF UserInv, UserTypeOK
<1>2. ASSUME NEW k \in UserJobs PROVE Known(k)' /\ KeptFor(k)'
  <2>1. Known(k) /\ KeptFor(k) /\ stage \in [UserJobs -> JobStage]
    BY DEF UserInv, UserTypeOK
  <2>2. KeptFor(k)'
    BY <2>1 DEF KeptFor
  <2>3. CASE k = j
    BY <2>2, <2>3
  <2>4. CASE k # j
    <3>1. stage'[k] = stage[k]
      BY <2>1, <2>4
    <3>2. "memory" \in Places /\ "store" \in Places
      BY DEF Places
    <3>3. Known(k)'
      BY <2>1, <3>1, <3>2 DEF Known
    <3> QED BY <2>2, <3>3
  <2> QED BY <2>3, <2>4
<1> QED BY <1>1, <1>2 DEF UserInv

LEMMA NextUserInv == UserInv /\ [UserNext]_userVars => UserInv'
<1> SUFFICES ASSUME UserInv, [UserNext]_userVars PROVE UserInv'
  OBVIOUS
<1>t. /\ status \in [Places -> [UserJobs -> JobStatus]] /\ artifact \in [Places -> SUBSET UserJobs]
      /\ left \in [UserJobs -> Nat] /\ stage \in [UserJobs -> JobStage]
      /\ userFaults \in Nat /\ userRestarts \in Nat
  BY DEF UserInv, UserTypeOK
<1>i. \A j \in UserJobs : Known(j) /\ KeptFor(j)
  BY DEF UserInv
<1>p. Places = {"store", "memory"}
  BY DEF Places
<1>d. \A p \in Places : status[p] \in [UserJobs -> JobStatus]
  BY <1>t
\* The fallback of a creation
<1>m. ASSUME NEW j \in UserJobs, CreateInMemory(j), NEW lost \in BOOLEAN, Command(lost),
             stage[j] # "working", stage[j] # "saved", left[j] = 0 \/ Known(j),
             UNCHANGED <<artifact, left, userRestarts>>
      PROVE  UserInv'
  <2>1. stage' = [stage EXCEPT ![j] = "created"] /\ status' = [status EXCEPT !["memory"][j] = "pending"]
    BY <1>m DEF CreateInMemory, Reaches
  <2>2. PICK g : g = [status["memory"] EXCEPT ![j] = "pending"]
    OBVIOUS
  <2>3. "pending" \in JobStatus /\ "created" \in JobStage
    BY DEF JobStatus, JobStage
  <2>4. g \in [UserJobs -> JobStatus] /\ g[j] = "pending" /\ \A k \in UserJobs : g[k] = "none" => status["memory"][k] = "none"
    BY <2>2, <2>3, <1>p, <1>d
  <2>5. status' = [status EXCEPT !["memory"] = g]
    BY <2>1, <2>2
  <2>6. /\ status' \in [Places -> [UserJobs -> JobStatus]]
        /\ status'["memory"] = g /\ status'["store"] = status["store"]
    BY <2>4, <2>5, <1>p, <1>t
  <2>7. \A p \in Places, k \in UserJobs : status'[p][k] = "none" => status[p][k] = "none"
    BY <2>4, <2>6, <1>p
  <2>8. userFaults' \in Nat /\ (userFaults' = 0 => userFaults = 0)
    BY <1>m, <1>t, CommandCounts
  <2>9. stage'[j] = "created"
    BY <2>1, <1>t
  <2>10. Known(j)'
    BY <1>m, <1>i, <2>4, <2>6, <2>8, <2>9 DEF Known
  <2> QED BY <1>m, <2>1, <2>3, <2>6, <2>7, <2>8, <2>10, StatusStep
\* Statuses stay: the stage alone moves, to one of which nothing is asked
<1>s. ASSUME NEW j \in UserJobs, NEW s \in {"listRead", "created", "over"},
             Reaches(j, s), UNCHANGED <<status, artifact, left, userRestarts>>,
             userFaults' \in Nat, userFaults' = 0 => userFaults = 0
      PROVE  UserInv'
  <2>1. stage' = [stage EXCEPT ![j] = s] /\ s \in JobStage
    BY <1>s DEF Reaches, JobStage
  <2>2. stage'[j] = s
    BY <2>1, <1>t
  <2>3. Known(j)'
    BY <1>s, <1>i, <2>2 DEF Known
  <2> QED BY <1>s, <2>1, <2>3, <1>t, StatusStep
\* updateExportJob: the memory always, the store if it does not fail
<1>u. ASSUME NEW j \in UserJobs, NEW s \in {"processing", "ready"}, UpdateExportJob(j, s)
      PROVE  /\ userFaults' \in Nat /\ (userFaults' = 0 => userFaults = 0)
             /\ status' \in [Places -> [UserJobs -> JobStatus]]
             /\ \A p \in Places, k \in UserJobs : status'[p][k] = "none" => status[p][k] = "none"
             /\ status'["memory"][j] # "none" /\ (userFaults' = 0 => status'["store"][j] # "none")
  <2>1. PICK lost \in BOOLEAN :
           /\ Command(lost)
           /\ status' = [p \in Places |-> IF p = "store" /\ lost THEN status[p]
                                          ELSE [status[p] EXCEPT ![j] = s]]
    BY <1>u DEF UpdateExportJob
  <2>2. userFaults' \in Nat /\ (userFaults' = 0 => userFaults = 0 /\ ~lost)
    BY <2>1, <1>t, CommandCounts
  <2>3. s \in JobStatus /\ s # "none"
    BY DEF JobStatus
  <2>4. \A p \in Places : /\ [status[p] EXCEPT ![j] = s] \in [UserJobs -> JobStatus]
                          /\ [status[p] EXCEPT ![j] = s][j] = s
                          /\ \A k \in UserJobs : k # j => [status[p] EXCEPT ![j] = s][k] = status[p][k]
    BY <2>3, <1>d
  <2>5. status' \in [Places -> [UserJobs -> JobStatus]]
    BY <2>1, <2>4, <1>d
  <2>6. ASSUME NEW p \in Places, NEW k \in UserJobs, status'[p][k] = "none" PROVE status[p][k] = "none"
    <3>1. CASE p = "store" /\ lost
      BY <3>1, <2>1, <2>6
    <3>2. CASE ~(p = "store" /\ lost)
      <4>1. status'[p] = [status[p] EXCEPT ![j] = s]
        BY <3>2, <2>1
      <4> QED BY <4>1, <2>3, <2>4, <2>6
    <3> QED BY <3>1, <3>2
  <2>7. status'["memory"] = [status["memory"] EXCEPT ![j] = s]
    BY <2>1, <1>p
  <2>8. ~lost => status'["store"] = [status["store"] EXCEPT ![j] = s]
    BY <2>1, <1>p
  <2> QED BY <2>2, <2>3, <2>4, <2>5, <2>6, <2>7, <2>8, <1>p
<1>1. ASSUME NEW j \in UserJobs, RequestExport(j) PROVE UserInv'
  <2>1. stage[j] = "none" /\ UNCHANGED <<artifact, left, userRestarts>>
    BY <1>1 DEF RequestExport, FormOffers, CreateExportJob
  <2>2. PICK lost \in BOOLEAN :
           /\ Command(lost)
           /\ IF lost THEN CreateInMemory(j)
              ELSE status' = [status EXCEPT !["store"][j] = "pending"] /\ Reaches(j, "list")
    BY <1>1 DEF RequestExport, CreateExportJob
  <2>3. CASE lost
    BY <2>1, <2>2, <2>3, <1>m, <1>i
  <2>4. CASE ~lost
    <3>1. stage' = [stage EXCEPT ![j] = "list"] /\ status' = [status EXCEPT !["store"][j] = "pending"]
      BY <2>2, <2>4 DEF Reaches
    <3>2. PICK g : g = [status["store"] EXCEPT ![j] = "pending"]
      OBVIOUS
    <3>3. "pending" \in JobStatus /\ "list" \in JobStage
      BY DEF JobStatus, JobStage
    <3>4. g \in [UserJobs -> JobStatus] /\ g[j] = "pending" /\ \A k \in UserJobs : g[k] = "none" => status["store"][k] = "none"
      BY <3>2, <3>3, <1>p, <1>d
    <3>5. status' = [status EXCEPT !["store"] = g]
      BY <3>1, <3>2
    <3>6. /\ status' \in [Places -> [UserJobs -> JobStatus]]
          /\ status'["store"] = g /\ status'["memory"] = status["memory"]
      BY <3>4, <3>5, <1>p, <1>t
    <3>7. \A p \in Places, k \in UserJobs : status'[p][k] = "none" => status[p][k] = "none"
      BY <3>4, <3>6, <1>p
    <3>8. userFaults' \in Nat /\ (userFaults' = 0 => userFaults = 0)
      BY <2>2, <1>t, CommandCounts
    <3>9. stage'[j] = "list"
      BY <3>1, <1>t
    <3>10. Known(j)'
      BY <2>1, <1>i, <3>4, <3>6, <3>8, <3>9 DEF Known
    <3> QED BY <2>1, <3>1, <3>3, <3>6, <3>7, <3>8, <3>10, StatusStep
  <2> QED BY <2>3, <2>4
<1>2. ASSUME NEW j \in UserJobs, ReadJobList(j) PROVE UserInv'
  <2>1. stage[j] = "list" /\ UNCHANGED <<artifact, left, userRestarts>>
    BY <1>2 DEF ReadJobList
  <2>2. PICK lost \in BOOLEAN :
           /\ Command(lost)
           /\ IF lost THEN CreateInMemory(j) ELSE Reaches(j, "listRead") /\ UNCHANGED status
    BY <1>2 DEF ReadJobList
  <2>3. userFaults' \in Nat /\ (userFaults' = 0 => userFaults = 0)
    BY <2>2, <1>t, CommandCounts
  <2>4. CASE lost
    BY <2>1, <2>2, <2>4, <1>m, <1>i
  <2>5. CASE ~lost
    BY <2>1, <2>2, <2>3, <2>5, <1>s
  <2> QED BY <2>4, <2>5
<1>3. ASSUME NEW j \in UserJobs, WriteJobList(j) PROVE UserInv'
  <2>1. stage[j] = "listRead" /\ UNCHANGED <<artifact, left, userRestarts>>
    BY <1>3 DEF WriteJobList
  <2>2. PICK lost \in BOOLEAN :
           /\ Command(lost)
           /\ IF lost THEN CreateInMemory(j) ELSE Reaches(j, "created") /\ UNCHANGED status
    BY <1>3 DEF WriteJobList
  <2>3. userFaults' \in Nat /\ (userFaults' = 0 => userFaults = 0)
    BY <2>2, <1>t, CommandCounts
  <2>4. CASE lost
    BY <2>1, <2>2, <2>4, <1>m, <1>i
  <2>5. CASE ~lost
    BY <2>1, <2>2, <2>3, <2>5, <1>s
  <2> QED BY <2>4, <2>5
<1>4. ASSUME NEW j \in UserJobs, PickUp(j) PROVE UserInv'
  <2>1. UNCHANGED <<artifact, left, userRestarts>>
    BY <1>4 DEF PickUp
  <2>2. CASE JobOf(j, FALSE) = "none"
    <3>1. Reaches(j, "over") /\ UNCHANGED <<status, userFaults>>
      BY <1>4, <2>2 DEF PickUp
    <3> QED BY <2>1, <3>1, <1>s, <1>t
  <2>3. CASE JobOf(j, FALSE) # "none"
    <3>1. stage' = [stage EXCEPT ![j] = "working"] /\ UpdateExportJob(j, "processing")
      BY <1>4, <2>3 DEF PickUp, Reaches
    <3>2. "working" \in JobStage
      BY DEF JobStage
    <3>3. Known(j)'
      BY <3>1, <1>u DEF Known
    <3> QED BY <2>1, <3>1, <3>2, <3>3, <1>u, StatusStep
  <2> QED BY <2>2, <2>3
<1>5. ASSUME NEW j \in UserJobs, SaveExportArtifact(j) PROVE UserInv'
  <2>1. PICK lost \in BOOLEAN :
           /\ Command(lost)
           /\ artifact' = [p \in Places |-> IF p = "store" /\ lost THEN artifact[p]
                                            ELSE artifact[p] \cup {j}]
    BY <1>5 DEF SaveExportArtifact
  <2>2. /\ stage[j] = "working" /\ left' = [left EXCEPT ![j] = LinkLife]
        /\ stage' = [stage EXCEPT ![j] = "saved"] /\ UNCHANGED <<status, userRestarts>>
    BY <1>5 DEF SaveExportArtifact, Reaches
  <2>3. userFaults' \in Nat /\ (userFaults' = 0 => userFaults = 0 /\ ~lost)
    BY <2>1, <1>t, CommandCounts
  <2>4. /\ \A p \in Places : artifact[p] \subseteq artifact'[p] /\ artifact'[p] \subseteq UserJobs
        /\ j \in artifact'["memory"] /\ (~lost => j \in artifact'["store"])
    BY <2>1, <1>p, <1>t
  <2>5. UserTypeOK'
    <3>1. artifact' \in [Places -> SUBSET UserJobs]
      BY <2>1, <2>4
    <3>2. LinkLife \in Nat /\ "saved" \in JobStage
      BY UserExportAssumption DEF JobStage
    <3> QED BY <2>2, <2>3, <3>1, <3>2, <1>t DEF UserTypeOK
  <2>6. ASSUME NEW k \in UserJobs PROVE Known(k)' /\ KeptFor(k)'
    <3>1. CASE k = j
      <4>1. Known(j)'
        BY <2>2, <2>3, <1>i DEF Known
      <4>2. KeptFor(j)'
        BY <2>3, <2>4 DEF KeptFor
      <4> QED BY <3>1, <4>1, <4>2
    <3>2. CASE k # j
      <4>1. left'[k] = left[k] /\ stage'[k] = stage[k]
        BY <2>2, <3>2, <1>t
      <4>2. Known(k)'
        BY <2>2, <2>3, <4>1, <1>i DEF Known
      <4>3. KeptFor(k)'
        BY <2>2, <2>3, <2>4, <4>1, <1>i, <1>p DEF KeptFor
      <4> QED BY <4>2, <4>3
    <3> QED BY <3>1, <3>2
  <2> QED BY <2>5, <2>6 DEF UserInv
<1>6. ASSUME NEW j \in UserJobs, MarkReady(j) PROVE UserInv'
  <2>1. /\ stage[j] = "saved" /\ UpdateExportJob(j, "ready") /\ stage' = [stage EXCEPT ![j] = "over"]
        /\ UNCHANGED <<artifact, left, userRestarts>>
    BY <1>6 DEF MarkReady, Reaches
  <2>2. "over" \in JobStage
    BY DEF JobStage
  <2>3. Known(j)'
    BY <2>1, <1>u DEF Known
  <2> QED BY <2>1, <2>2, <2>3, <1>u, StatusStep
<1>7. CASE LinkAges
  <2>1. /\ left' = [j \in UserJobs |-> IF left[j] > 0 THEN left[j] - 1 ELSE 0]
        /\ artifact' = [p \in Places |-> {j \in artifact[p] : left'[j] > 0}]
        /\ UNCHANGED <<status, stage, userFaults, userRestarts>>
    BY <1>7 DEF LinkAges
  <2>2. left' \in [UserJobs -> Nat] /\ \A j \in UserJobs : left'[j] > 0 => left[j] > 0
    BY <2>1, <1>t
  <2>3. UserTypeOK'
    BY <2>1, <2>2, <1>t DEF UserTypeOK
  <2>4. ASSUME NEW j \in UserJobs PROVE Known(j)' /\ KeptFor(j)'
    BY <2>1, <2>2, <1>i, <1>p DEF Known, KeptFor
  <2> QED BY <2>3, <2>4 DEF UserInv
<1>8. CASE UserServerRestarts
  <2>1. /\ userRestarts' = userRestarts + 1 /\ status' = [status EXCEPT !["memory"] = NoJobs]
        /\ artifact' = [artifact EXCEPT !["memory"] = {}]
        /\ stage' = [j \in UserJobs |-> IF stage[j] = "none" THEN "none" ELSE "over"]
        /\ UNCHANGED <<left, userFaults>>
    BY <1>8 DEF UserServerRestarts
  <2>2. userRestarts' \in Nat /\ userRestarts' # 0
    BY <2>1, <1>t
  <2>3. /\ status'["store"] = status["store"] /\ artifact'["store"] = artifact["store"]
        /\ \A j \in UserJobs : stage'[j] \in {"none", "over"}
    BY <2>1, <1>t, <1>p
  <2>4. UserTypeOK'
    <3>1. NoJobs \in [UserJobs -> JobStatus] /\ stage' \in [UserJobs -> JobStage]
      BY <2>1 DEF NoJobs, JobStatus, JobStage
    <3> QED BY <2>1, <2>2, <3>1, <1>t DEF UserTypeOK
  <2>5. ASSUME NEW j \in UserJobs PROVE Known(j)' /\ KeptFor(j)'
    BY <2>1, <2>2, <2>3, <1>i DEF Known, KeptFor
  <2> QED BY <2>4, <2>5 DEF UserInv
<1>9. ASSUME UNCHANGED <<status, artifact, left, stage, userRestarts>>,
             userFaults' \in Nat, userFaults' = 0 => userFaults = 0
      PROVE  UserInv'
  <2>1. UserTypeOK'
    BY <1>9, <1>t DEF UserTypeOK
  <2>2. ASSUME NEW j \in UserJobs PROVE Known(j)' /\ KeptFor(j)'
    BY <1>9, <1>i DEF Known, KeptFor
  <2> QED BY <2>1, <2>2 DEF UserInv
<1>10. CASE FetchJobs
  <2>1. PICK lost \in BOOLEAN : Command(lost)
    BY <1>10 DEF FetchJobs
  <2>2. userFaults' \in Nat /\ (userFaults' = 0 => userFaults = 0)
    BY <2>1, <1>t, CommandCounts
  <2> QED BY <1>10, <2>2, <1>9 DEF FetchJobs
<1>11. CASE JobsArrive \/ TurnDialog \/ UNCHANGED userVars
  BY <1>11, <1>9, <1>t DEF JobsArrive, TurnDialog, userVars
<1> QED
  BY <1>1, <1>2, <1>3, <1>4, <1>5, <1>6, <1>7, <1>8, <1>10, <1>11 DEF UserNext
-----------------------------------------------------------------------------
\* The inductive invariant of the holders' exports.
THEOREM UserExportsInvariant == UserSpec => []UserInv
BY InitUserInv, NextUserInv, PTL DEF UserSpec

\* Every link the dialog offers downloads, for every number of jobs, lost
\* commands, restarts and lists on their way.
THEOREM LinksAlwaysDownload == UserSpec => []LinksOfferedDownload
<1>1. ASSUME UserInv PROVE LinksOfferedDownload
  <2> SUFFICES ASSUME NEW j \in UserJobs, left[j] > 0, userRestarts = 0 \/ userFaults = 0
               PROVE  Downloads(j)
    BY DEF LinksOfferedDownload, OffersLink
  <2>1. Known(j) /\ KeptFor(j)
    BY <1>1 DEF UserInv
  <2> QED BY <2>1 DEF Known, KeptFor, Downloads, JobOf
<1> QED BY <1>1, UserExportsInvariant, PTL
-----------------------------------------------------------------------------
(* The guardian dialog: a preview is earned                                *)

RecoverySet == [total : Nat, threshold : Nat, creds : {Recoverable}, readable : BOOLEAN]
Split == [total : Nat, threshold : Nat]
Document == [kind : {"none", "backup", "kit", "share"}, of : Nat, index : Nat, whole : BOOLEAN]
File == [input : {"backup", "share"}, document : Document, backup : Document, shares : SUBSET Document]

GuardianTypeOK ==
    /\ sets \in Seq(RecoverySet) /\ form \in Split /\ generating \in Split
    /\ shown \in 0..Len(sets)
    /\ documents \subseteq Document /\ collected \subseteq Document
    /\ backup \in Document /\ reading \in Seq(File)

Made(n) == n \in DOMAIN sets

\* Shares of which no two are of the same guardian.
OneOfEach(shares) ==
    IsFiniteSet(shares) /\ \A s, t \in shares : s.index = t.index => s = t

\* What is offered to be restored was all in one recovery set, and came by
\* enough unaltered shares of it, one of each guardian.
Earned ==
    preview # NoPreview =>
        /\ Made(preview.of) /\ preview.creds = sets[preview.of].creds
        /\ OneOfEach(preview.by) /\ \A s \in preview.by : s.of = preview.of /\ s.whole
        /\ Cardinality(preview.by) >= sets[preview.of].threshold

\* Documents are of sets that were made; collected shares, and the shares a
\* file's onload will add to, are one of each guardian.
GuardianInv ==
    /\ GuardianTypeOK
    /\ \A d \in documents : Made(d.of)
    /\ backup # NoDocument => Made(backup.of)
    /\ OneOfEach(collected)
    /\ \A i \in DOMAIN reading : Made(reading[i].document.of) /\ OneOfEach(reading[i].shares)
    /\ opening # NotOpening => Made(opening.backup.of) /\ OneOfEach(opening.shares)
    /\ Earned
-----------------------------------------------------------------------------
\* Shares one of each guardian are as many as their guardians.
LEMMA GuardiansCounted ==
  ASSUME NEW shares, OneOfEach(shares)
  PROVE  Cardinality({s.index : s \in shares}) = Cardinality(shares)
<1> DEFINE T == {s.index : s \in shares}
           f == [s \in shares |-> s.index]
<1>1. f \in [shares -> T] /\ \A s \in shares : f[s] = s.index
  OBVIOUS
<1>2. f \in Injection(shares, T)
  BY <1>1 DEF OneOfEach, Injection, IsInjective
<1>3. f \in Surjection(shares, T)
  BY <1>1 DEF Surjection
<1>4. ExistsBijection(shares, T)
  BY <1>2, <1>3 DEF ExistsBijection, Bijection
<1> QED BY <1>4, FS_Bijection DEF OneOfEach

LEMMA NoShares == OneOfEach({})
BY FS_EmptySet DEF OneOfEach

LEMMA ShareAdded ==
  ASSUME NEW shares, OneOfEach(shares), NEW d, NEW b, Accepts(d, b, shares)
  PROVE  OneOfEach(shares \cup {d})
BY FS_AddElement DEF OneOfEach, Accepts

LEMMA ShareDropped ==
  ASSUME NEW shares, OneOfEach(shares), NEW s
  PROVE  OneOfEach(shares \ {s})
BY FS_RemoveElement DEF OneOfEach

\* What is left of a sequence without one of its elements.
LEMMA WithoutOne ==
  ASSUME NEW S, NEW q \in Seq(S), NEW i \in DOMAIN q
  PROVE  /\ RemoveAt(q, i) \in Seq(S)
         /\ \A n \in DOMAIN RemoveAt(q, i) : \E m \in DOMAIN q : RemoveAt(q, i)[n] = q[m]
<1>1. PICK k \in Nat, m \in Nat : i = k + 1 /\ Len(q) = k + 1 + m /\ DOMAIN q = 1..(k + 1 + m)
  <2>1. i \in 1..Len(q) /\ Len(q) \in Nat /\ DOMAIN q = 1..Len(q)
    OBVIOUS
  <2>2. /\ i - 1 \in Nat /\ Len(q) - i \in Nat
        /\ i = (i - 1) + 1 /\ Len(q) = (i - 1) + 1 + (Len(q) - i)
    BY <2>1
  <2> QED BY <2>1, <2>2, Zenon
<1>2. PICK a : a = SubSeq(q, 1, k)
  OBVIOUS
<1>3. PICK b : b = SubSeq(q, k + 2, k + 1 + m)
  OBVIOUS
<1>4. a \in Seq(S) /\ Len(a) = k /\ \A n \in 1..k : a[n] = q[n]
  BY <1>1, <1>2
<1>5. b \in Seq(S) /\ Len(b) = m /\ \A n \in 1..m : b[n] = q[k + 1 + n]
  BY <1>1, <1>3
<1>6. RemoveAt(q, i) = a \o b
  <2>1. i - 1 = k /\ i + 1 = k + 2 /\ Len(q) = k + 1 + m
    BY <1>1
  <2> QED BY <2>1, <1>2, <1>3 DEF RemoveAt
<1>7. a \o b \in Seq(S) /\ DOMAIN (a \o b) = 1..(k + m)
  <2>1. a \o b \in Seq(S)
    BY <1>4, <1>5
  <2>2. Len(a \o b) = k + m
    <3>1. Len(a \o b) = Len(a) + Len(b)
      BY <1>4, <1>5, ConcatProperties
    <3> QED BY <3>1, <1>4, <1>5
  <2> QED BY <2>1, <2>2
<1>8. ASSUME NEW n \in 1..(k + m) PROVE \E o \in DOMAIN q : (a \o b)[n] = q[o]
  <2>1. CASE n <= k
    <3>1. (a \o b)[n] = a[n] /\ n \in 1..k
      BY <2>1, <1>1, <1>4, <1>5
    <3> QED BY <3>1, <1>1, <1>4
  <2>2. CASE n > k
    <3>1. n - k \in 1..m /\ n + 1 \in 1..(k + 1 + m) /\ k + 1 + (n - k) = n + 1
      BY <2>2, <1>1
    <3>2. (a \o b)[n] = b[n - k]
      BY <2>2, <1>1, <1>4, <1>5
    <3>3. b[n - k] = q[n + 1]
      BY <3>1, <1>5
    <3> QED BY <3>1, <3>2, <3>3, <1>1
  <2>3. n \in Nat /\ (n <= k \/ n > k)
    BY <1>1
  <2> QED BY <2>1, <2>2, <2>3
<1> QED BY <1>6, <1>7, <1>8

\* What recovery answers with is earned.
LEMMA OpenedIsEarned ==
  ASSUME NEW b, Made(b.of), NEW shares, OneOfEach(shares),
         NEW answer, answer = Opened(b, shares), answer # NoPreview
  PROVE  /\ Made(answer.of) /\ answer.creds = sets[answer.of].creds
         /\ OneOfEach(answer.by) /\ \A s \in answer.by : s.of = answer.of /\ s.whole
         /\ Cardinality(answer.by) >= sets[answer.of].threshold
<1>1. Opens(b, shares) /\ answer = [of |-> b.of, creds |-> sets[b.of].creds, by |-> shares]
  BY DEF Opened
<1>2. answer.of = b.of /\ answer.creds = sets[b.of].creds /\ answer.by = shares
  BY <1>1
<1> QED BY <1>1, <1>2 DEF Opens
-----------------------------------------------------------------------------
LEMMA NothingYet ==
  /\ NoDocument \in Document /\ NoDocument.of = 0 /\ NoForm \in Split /\ FirstForm \in Split
  /\ <<>> \in Seq(File)
<1>1. NoDocument \in Document /\ NoDocument.of = 0 /\ NoForm \in Split
  BY DEF NoDocument, Document, NoForm, Split
<1>2. FirstForm \in Split
  BY GuardianAssumption DEF GuardianAssumption, FirstForm, Split
<1> QED BY <1>1, <1>2

LEMMA InitGuardianInv == GuardianInit => GuardianInv
<1> SUFFICES ASSUME GuardianInit PROVE GuardianInv
  OBVIOUS
<1>1. PICK readable \in BOOLEAN, a \in BOOLEAN, b \in BOOLEAN :
        LET set == [total |-> 2, threshold |-> 2, creds |-> Recoverable, readable |-> readable] IN
        /\ sets \in {<<set>>, <<set, set>>}
        /\ documents = {d \in {Backup(1, a), Backup(2, TRUE), Share(1, 1, b), Share(1, 2, TRUE),
                               Share(2, 1, TRUE)} : d.of <= Len(sets)}
  BY DEF GuardianInit
<1>2. /\ form = FirstForm /\ generating = NoForm /\ shown = 0 /\ backup = NoDocument /\ reading = <<>>
      /\ collected = {} /\ opening = NotOpening /\ preview = NoPreview
  BY DEF GuardianInit
<1>3. PICK set : set = [total |-> 2, threshold |-> 2, creds |-> Recoverable, readable |-> readable]
  OBVIOUS
<1>4. set \in RecoverySet
  BY <1>3 DEF RecoverySet
<1>5. sets \in Seq(RecoverySet) /\ Len(sets) \in {1, 2}
  <2>1. sets = <<set>> \/ sets = <<set, set>>
    BY <1>1, <1>3
  <2>2. CASE sets = <<set>>
    BY <2>2, <1>4
  <2>3. CASE sets = <<set, set>>
    BY <2>3, <1>4
  <2> QED BY <2>1, <2>2, <2>3
<1>6. ASSUME NEW d \in documents PROVE d \in Document /\ Made(d.of)
  <2>1. d.of <= Len(sets) /\ d \in {Backup(1, a), Backup(2, TRUE), Share(1, 1, b), Share(1, 2, TRUE),
                                    Share(2, 1, TRUE)}
    BY <1>1
  <2>2. \A n \in Nat, w \in BOOLEAN : Backup(n, w) \in Document /\ Backup(n, w).of = n
    BY DEF Backup, Document
  <2>3. \A n \in Nat, g \in Nat, w \in BOOLEAN : Share(n, g, w) \in Document /\ Share(n, g, w).of = n
    BY DEF Share, Document
  <2>4. d \in Document /\ d.of \in {1, 2}
    <3>1. a \in BOOLEAN /\ b \in BOOLEAN /\ TRUE \in BOOLEAN /\ 1 \in Nat /\ 2 \in Nat
      BY <1>1
    <3>2. CASE d = Backup(1, a)
      BY <3>1, <3>2, <2>2
    <3>3. CASE d = Backup(2, TRUE)
      BY <3>1, <3>3, <2>2
    <3>4. CASE d = Share(1, 1, b)
      BY <3>1, <3>4, <2>3
    <3>5. CASE d = Share(1, 2, TRUE)
      BY <3>1, <3>5, <2>3
    <3>6. CASE d = Share(2, 1, TRUE)
      BY <3>1, <3>6, <2>3
    <3> QED BY <2>1, <3>2, <3>3, <3>4, <3>5, <3>6
  <2> QED BY <2>1, <2>4, <1>5 DEF Made
<1>7. GuardianTypeOK
  BY <1>2, <1>5, <1>6, NothingYet DEF GuardianTypeOK
<1> QED BY <1>2, <1>6, <1>7, NoShares DEF GuardianInv, Earned

\* Steps that make no set.
LEMMA NextGuardianInv == GuardianInv /\ [GuardianNext]_guardianVars => GuardianInv'
<1> SUFFICES ASSUME GuardianInv, [GuardianNext]_guardianVars PROVE GuardianInv'
  OBVIOUS
<1>t. /\ sets \in Seq(RecoverySet) /\ form \in Split /\ generating \in Split
      /\ shown \in 0..Len(sets)
      /\ documents \subseteq Document /\ collected \subseteq Document
      /\ backup \in Document /\ reading \in Seq(File)
  BY DEF GuardianInv, GuardianTypeOK
<1>i. /\ \A d \in documents : Made(d.of)
      /\ backup # NoDocument => Made(backup.of)
      /\ OneOfEach(collected)
      /\ \A i \in DOMAIN reading : Made(reading[i].document.of) /\ OneOfEach(reading[i].shares)
      /\ opening # NotOpening => Made(opening.backup.of) /\ OneOfEach(opening.shares)
      /\ Earned
  BY DEF GuardianInv
\* The recovery tab: the sets and the documents stay as they are
<1>r. ASSUME UNCHANGED setupVars,
             collected' \subseteq Document, OneOfEach(collected'),
             backup' \in Document, backup' # NoDocument => Made(backup'.of),
             reading' \in Seq(File),
             \A i \in DOMAIN reading' : Made(reading'[i].document.of) /\ OneOfEach(reading'[i].shares),
             opening' # NotOpening => Made(opening'.backup.of) /\ OneOfEach(opening'.shares),
             preview' \in {preview, NoPreview} \/ Earned'
      PROVE  GuardianInv'
  <2>1. UNCHANGED <<sets, form, generating, shown, documents>>
    BY <1>r DEF setupVars
  <2>2. GuardianTypeOK'
    BY <2>1, <1>r, <1>t DEF GuardianTypeOK
  <2>3. Earned'
    BY <2>1, <1>r, <1>i DEF Earned, Made
  <2> QED BY <2>1, <2>2, <2>3, <1>r, <1>i DEF GuardianInv, Made, OneOfEach
\* The setup tab: sets are appended to, documents of them handed out
<1>u. ASSUME UNCHANGED recoverVars,
             sets' \in Seq(RecoverySet), DOMAIN sets \subseteq DOMAIN sets',
             \A n \in DOMAIN sets : sets'[n] = sets[n],
             form' \in Split, generating' \in Split, shown' \in 0..Len(sets'),
             documents' \subseteq Document, \A d \in documents' : d.of \in DOMAIN sets'
      PROVE  GuardianInv'
  <2>1. UNCHANGED <<backup, reading, collected, opening, preview>>
    BY <1>u DEF recoverVars
  <2>2. GuardianTypeOK'
    BY <2>1, <1>u, <1>t DEF GuardianTypeOK
  <2>3. \A n : Made(n) => Made(n)' /\ sets'[n] = sets[n]
    BY <1>u DEF Made
  <2>4. Earned'
    BY <2>1, <2>3, <1>i DEF Earned, OneOfEach
  <2>5. \A d \in documents' : Made(d.of)'
    BY <1>u DEF Made
  <2> QED BY <2>1, <2>2, <2>3, <2>4, <2>5, <1>i DEF GuardianInv, OneOfEach
<1>1. ASSUME UNCHANGED <<setupVars, recoverVars>> PROVE GuardianInv'
  <2>1. UNCHANGED <<backup, reading, collected, opening, preview>>
    BY <1>1 DEF recoverVars
  <2> QED BY <2>1, <1>1, <1>r, <1>t, <1>i
<1>2. CASE CloseDialog
  <2>1. /\ form' = FirstForm /\ generating' = NoForm /\ shown' = 0
        /\ backup' = NoDocument /\ reading' = <<>> /\ collected' = {}
        /\ opening' = NotOpening /\ preview' = NoPreview /\ UNCHANGED <<sets, documents>>
    BY <1>2 DEF CloseDialog
  <2>2. GuardianTypeOK'
    BY <2>1, <1>t, NothingYet DEF GuardianTypeOK
  <2>3. OneOfEach(collected)'
    BY <2>1, NoShares DEF OneOfEach
  <2>4. \A d \in documents' : Made(d.of)'
    BY <2>1, <1>i DEF Made
  <2>5. Earned' /\ DOMAIN reading' = {}
    BY <2>1 DEF Earned
  <2> QED BY <2>1, <2>2, <2>3, <2>4, <2>5 DEF GuardianInv
<1>3. ASSUME NEW n \in TotalChoices, ChangeTotal(n) PROVE GuardianInv'
  <2>1. form' = [total |-> n, threshold |-> IF form.threshold > n THEN n ELSE form.threshold]
        /\ UNCHANGED <<generating, sets, shown, documents, recoverVars>>
    BY <1>3 DEF ChangeTotal
  <2>2. n \in Nat /\ form.threshold \in Nat
    BY <1>t, GuardianAssumption DEF GuardianAssumption, Split
  <2>3. form' \in Split
    BY <2>1, <2>2 DEF Split
  <2> QED BY <2>1, <2>3, <1>u, <1>t, <1>i DEF Made
<1>4. ASSUME NEW k \in 2..form.total, ChangeThreshold(k) PROVE GuardianInv'
  <2>1. form' = [form EXCEPT !.threshold = k] /\ UNCHANGED <<generating, sets, shown, documents, recoverVars>>
    BY <1>4 DEF ChangeThreshold
  <2>2. form.total \in Nat
    BY <1>t DEF Split
  <2>3. form' \in Split
    BY <2>1, <2>2, <1>t DEF Split
  <2> QED BY <2>1, <2>3, <1>u, <1>t, <1>i DEF Made
<1>5. CASE Generate
  BY <1>5, <1>u, <1>t, <1>i DEF Generate, Made
<1>6. CASE Generated
  <2>1. generating' = NoForm /\ UNCHANGED <<form, documents, recoverVars>>
    BY <1>6 DEF Generated
  <2>2. CASE Splittable(generating)
    <3>1. PICK readable \in BOOLEAN :
             sets' = Append(sets, [total |-> generating.total, threshold |-> generating.threshold,
                                   creds |-> Recoverable, readable |-> readable])
      BY <1>6, <2>2 DEF Generated
    <3>2. PICK set : set = [total |-> generating.total, threshold |-> generating.threshold,
                            creds |-> Recoverable, readable |-> readable]
      OBVIOUS
    <3>3. generating.total \in Nat /\ generating.threshold \in Nat
      BY <1>t DEF Split
    <3>4. set \in RecoverySet
      BY <3>2, <3>3 DEF RecoverySet
    <3>5. sets' = Append(sets, set)
      BY <3>1, <3>2
    <3>6. /\ sets' \in Seq(RecoverySet) /\ DOMAIN sets \subseteq DOMAIN sets'
          /\ \A n \in DOMAIN sets : sets'[n] = sets[n]
      BY <3>4, <3>5, <1>t
    <3>7. shown' = Len(sets') /\ shown' \in 0..Len(sets')
      BY <1>6, <2>2, <3>6 DEF Generated
    <3>8. \A d \in documents : d.of \in DOMAIN sets'
      BY <3>6, <1>i DEF Made
    <3> QED BY <2>1, <3>6, <3>7, <3>8, <1>u, <1>t, NothingYet
  <2>3. CASE ~Splittable(generating)
    <3>1. UNCHANGED <<sets, shown>>
      BY <1>6, <2>3 DEF Generated
    <3> QED BY <2>1, <3>1, <1>u, <1>t, <1>i, NothingYet DEF Made
  <2> QED BY <2>2, <2>3
<1>7. ASSUME NEW d \in HandedOut, shown # 0, HandOut(d) PROVE GuardianInv'
  <2>1. documents' = documents \cup {d} /\ UNCHANGED <<form, generating, sets, shown, recoverVars>>
    BY <1>7 DEF HandOut
  <2>2. shown \in DOMAIN sets /\ shown \in Nat /\ sets[shown] \in RecoverySet
    BY <1>7, <1>t
  <2>3. sets[shown].total \in Nat
    BY <2>2 DEF RecoverySet
  <2>4. d \in Document /\ d.of = shown
    <3>1. CASE d \in {Backup(shown, TRUE), Kit(shown)}
      <4>1. Backup(shown, TRUE) \in Document /\ Backup(shown, TRUE).of = shown
        BY <2>2 DEF Backup, Document
      <4>2. Kit(shown) \in Document /\ Kit(shown).of = shown
        BY <2>2 DEF Kit, Document
      <4> QED BY <3>1, <4>1, <4>2
    <3>2. ASSUME NEW i \in 1..sets[shown].total, d = Share(shown, i, TRUE) PROVE d \in Document /\ d.of = shown
      <4>1. i \in Nat
        BY <2>3
      <4> QED BY <3>2, <4>1, <2>2 DEF Share, Document
    <3> QED BY <3>1, <3>2 DEF HandedOut
  <2> QED BY <2>1, <2>2, <2>4, <1>u, <1>t, <1>i DEF Made
\* parseGuardianBackup answers with a document of the set of the one it was given
<1>p. ASSUME NEW d \in Document, Made(d.of)
      PROVE  /\ ParsedBackup(d) \in Document
             /\ ParsedBackup(d) # NoDocument => Made(ParsedBackup(d).of)
  <2>1. d.of \in Nat /\ d.whole \in BOOLEAN
    BY DEF Document
  <2>2. CASE d.kind = "backup"
    BY <2>2, <1>p DEF ParsedBackup
  <2>3. CASE d.kind = "kit"
    <3>1. ParsedBackup(d) = Backup(d.of, d.whole)
      BY <2>3 DEF ParsedBackup
    <3>2. Backup(d.of, d.whole) \in Document /\ Backup(d.of, d.whole).of = d.of
      BY <2>1 DEF Backup, Document
    <3> QED BY <3>1, <3>2, <1>p
  <2>4. CASE d.kind # "backup" /\ d.kind # "kit"
    BY <2>4, NothingYet DEF ParsedBackup
  <2> QED BY <2>2, <2>3, <2>4
<1>8. ASSUME NEW d \in documents, PasteBackup(d) PROVE GuardianInv'
  <2>1. backup' = ParsedBackup(d) /\ preview' = NoPreview /\ UNCHANGED <<reading, collected, opening, setupVars>>
    BY <1>8 DEF PasteBackup, ParseBackup
  <2>2. d \in Document /\ Made(d.of)
    BY <1>t, <1>i
  <2>3. backup' \in Document /\ (backup' # NoDocument => Made(backup'.of))
    BY <2>1, <2>2, <1>p
  <2> QED BY <2>1, <2>3, <1>r, <1>t, <1>i
<1>9. ASSUME NEW d \in documents, EnterShare(d) PROVE GuardianInv'
  <2>1. collected' = collected \cup {d} /\ Accepts(d, backup, collected)
        /\ UNCHANGED <<backup, reading, opening, preview, setupVars>>
    BY <1>9 DEF EnterShare
  <2>2. OneOfEach(collected \cup {d})
    BY <2>1, <1>i, ShareAdded
  <2> QED BY <2>1, <2>2, <1>r, <1>t, <1>i
<1>10. ASSUME NEW d \in documents, NEW input \in {"backup", "share"}, ChooseFile(input, d) PROVE GuardianInv'
  <2>1. PICK f : f = [input |-> input, document |-> d,
                      backup |-> IF input = "share" THEN backup ELSE NoDocument,
                      shares |-> IF input = "share" THEN collected ELSE {}]
    OBVIOUS
  <2>2. reading' = Append(reading, f) /\ UNCHANGED <<backup, collected, opening, preview, setupVars>>
    BY <1>10, <2>1 DEF ChooseFile
  <2>3. f \in File
    <3>1. d \in Document
      BY <1>t
    <3> QED BY <3>1, <2>1, <1>t, NothingYet DEF File
  <2>4. f.document.of = d.of /\ OneOfEach(f.shares)
    BY <2>1, <1>i, NoShares
  <2>5. /\ reading' \in Seq(File)
        /\ \A i \in DOMAIN reading' : (i \in DOMAIN reading /\ reading'[i] = reading[i]) \/ reading'[i] = f
    BY <2>2, <2>3, <1>t
  <2>6. \A i \in DOMAIN reading' : Made(reading'[i].document.of) /\ OneOfEach(reading'[i].shares)
    BY <2>4, <2>5, <1>i
  <2> QED BY <2>2, <2>5, <2>6, <1>r, <1>t, <1>i
<1>11. CASE ClearBackup
  BY <1>11, <1>r, <1>t, <1>i, NothingYet DEF ClearBackup
<1>12. ASSUME NEW s \in collected, DropShare(s) PROVE GuardianInv'
  <2>1. collected' = collected \ {s} /\ preview' = NoPreview /\ UNCHANGED <<backup, reading, opening, setupVars>>
    BY <1>12 DEF DropShare
  <2>2. OneOfEach(collected \ {s})
    BY <1>i, ShareDropped
  <2> QED BY <2>1, <2>2, <1>r, <1>t, <1>i
<1>13. ASSUME NEW i \in DOMAIN reading, FileIsRead(i) PROVE GuardianInv'
  <2>1. PICK f : f = reading[i]
    OBVIOUS
  <2>2. f \in File /\ Made(f.document.of) /\ OneOfEach(f.shares)
    BY <2>1, <1>t, <1>i
  <2>3. f.document \in Document /\ f.shares \subseteq Document
    BY <2>2 DEF File
  <2>4. /\ reading' = RemoveAt(reading, i) /\ UNCHANGED <<opening, setupVars>>
        /\ IF f.input = "backup" THEN ParseBackup(f.document) /\ UNCHANGED collected
           ELSE /\ collected' = IF Accepts(f.document, f.backup, f.shares)
                                THEN f.shares \cup {f.document} ELSE collected
                /\ UNCHANGED <<backup, preview>>
    BY <1>13, <2>1 DEF FileIsRead
  <2>5. /\ reading' \in Seq(File)
        /\ \A n \in DOMAIN reading' : \E m \in DOMAIN reading : reading'[n] = reading[m]
    BY <2>4, <1>t, WithoutOne
  <2>6. \A n \in DOMAIN reading' : Made(reading'[n].document.of) /\ OneOfEach(reading'[n].shares)
    BY <2>5, <1>i
  <2>7. CASE f.input = "backup"
    <3>1. backup' = ParsedBackup(f.document) /\ preview' = NoPreview /\ UNCHANGED collected
      BY <2>4, <2>7 DEF ParseBackup
    <3>2. backup' \in Document /\ (backup' # NoDocument => Made(backup'.of))
      BY <3>1, <2>2, <2>3, <1>p
    <3> QED BY <2>4, <2>5, <2>6, <3>1, <3>2, <1>r, <1>t, <1>i
  <2>8. CASE f.input # "backup"
    <3>1. UNCHANGED <<backup, preview>>
      BY <2>4, <2>8
    <3>2. collected' \subseteq Document /\ OneOfEach(collected')
      <4>1. CASE Accepts(f.document, f.backup, f.shares)
        <5>1. collected' = f.shares \cup {f.document}
          BY <2>4, <2>8, <4>1
        <5> QED BY <5>1, <4>1, <2>2, <2>3, ShareAdded
      <4>2. CASE ~Accepts(f.document, f.backup, f.shares)
        BY <2>4, <2>8, <4>2, <1>t, <1>i
      <4> QED BY <4>1, <4>2
    <3> QED BY <2>4, <2>5, <2>6, <3>1, <3>2, <1>r, <1>t, <1>i
  <2> QED BY <2>7, <2>8
<1>14. CASE Decrypt
  <2>1. PICK o : o = [backup |-> backup, shares |-> collected]
    OBVIOUS
  <2>2. opening' = o /\ o.backup = backup /\ o.shares = collected /\ Made(backup.of)
        /\ UNCHANGED <<backup, reading, collected, preview, setupVars>>
    BY <1>14, <2>1, <1>i DEF Decrypt
  <2> QED BY <2>2, <1>r, <1>t, <1>i
<1>15. CASE Decrypted
  <2>1. PICK answer : answer = Opened(opening.backup, opening.shares)
    OBVIOUS
  <2>2. /\ opening # NotOpening /\ opening' = NotOpening
        /\ preview' = (IF answer = NoPreview THEN preview ELSE answer)
        /\ UNCHANGED <<backup, reading, collected, setupVars>>
    BY <1>15, <2>1 DEF Decrypted
  <2>3. preview' \in {preview, NoPreview} \/ Earned'
    <3>1. CASE answer = NoPreview
      BY <3>1, <2>2
    <3>2. CASE answer # NoPreview
      <4>1. preview' = answer /\ UNCHANGED sets
        BY <3>2, <2>2 DEF setupVars
      <4>2. /\ Made(answer.of) /\ answer.creds = sets[answer.of].creds
            /\ OneOfEach(answer.by) /\ \A s \in answer.by : s.of = answer.of /\ s.whole
            /\ Cardinality(answer.by) >= sets[answer.of].threshold
        BY <2>1, <2>2, <3>2, <1>i, OpenedIsEarned
      <4> QED BY <4>1, <4>2 DEF Earned, Made, OneOfEach
    <3> QED BY <3>1, <3>2
  <2> QED BY <2>2, <2>3, <1>r, <1>t, <1>i
<1>16. CASE Back
  BY <1>16, <1>r, <1>t, <1>i DEF Back
<1>17. ASSUME NEW tab \in {"setup", "recover"}, OpenDialog(tab) \/ SelectTab(tab) PROVE GuardianInv'
  BY <1>17, <1>1 DEF OpenDialog, SelectTab
<1>18. CASE UNCHANGED guardianVars
  BY <1>18, <1>1 DEF guardianVars, setupVars, recoverVars
<1>19. CASE ApplyRestore
  BY <1>19, <1>2 DEF ApplyRestore
<1> QED
  BY <1>2, <1>3, <1>4, <1>5, <1>6, <1>7, <1>8, <1>9, <1>10, <1>11, <1>12, <1>13, <1>14, <1>15,
     <1>16, <1>17, <1>18, <1>19 DEF GuardianNext
-----------------------------------------------------------------------------
\* The inductive invariant of the guardian dialog.
THEOREM GuardianInvariant == GuardianSpec => []GuardianInv
BY InitGuardianInv, NextGuardianInv, PTL DEF GuardianSpec

\* What the dialog offers to restore was earned, for every number of sets,
\* guardians, files being read and moves.
THEOREM PreviewIsAlwaysEarned == GuardianSpec => []PreviewIsEarned
<1>1. ASSUME GuardianInv PROVE PreviewIsEarned
  <2> SUFFICES ASSUME preview # NoPreview
               PROVE  LET mine == {s \in preview.by : s.of = preview.of /\ s.whole} IN
                      /\ preview.creds = sets[preview.of].creds
                      /\ Cardinality({s.index : s \in mine}) >= sets[preview.of].threshold
    BY DEF PreviewIsEarned
  <2>1. Earned
    BY <1>1 DEF GuardianInv
  <2>2. {s \in preview.by : s.of = preview.of /\ s.whole} = preview.by
    BY <2>1 DEF Earned
  <2>3. Cardinality({s.index : s \in preview.by}) = Cardinality(preview.by)
    BY <2>1, GuardiansCounted DEF Earned
  <2> QED BY <2>1, <2>2, <2>3 DEF Earned
<1> QED BY <1>1, GuardianInvariant, PTL

-----------------------------------------------------------------------------
(* The holder session: no wallet is shown the verdict on another           *)

CheckRun == [who : Accounts, live : BOOLEAN, phase : {"waiting", "reading"}]

\* What is shown of the connected account is what was read of it, ...
VerdictOfAccount ==
    address # NoAccount =>
        /\ verdict = "granted" => /\ readBy = [who |-> address, found |-> TRUE]
                                  /\ address \in Proved
        /\ verdict = "denied"  => readBy = [who |-> address, found |-> FALSE]

\* ... and only runs about it will still write the verdict.
LiveRunsOfAccount ==
    \A i \in DOMAIN checks : checks[i].live => checks[i].who = address

SessionInv ==
    /\ address \in Accounts \cup {NoAccount}
    /\ restoring \in Accounts \cup {NoAccount} /\ savedWallet \in Accounts \cup {NoAccount}
    /\ attempt.phase = "approving" => attempt.wallet \in Accounts
    /\ checks \in Seq(CheckRun)
    /\ LiveRunsOfAccount
    /\ VerdictOfAccount

LEMMA VerdictFollows == SessionInv => VerdictIsRead
BY DEF SessionInv, VerdictOfAccount, VerdictIsRead, ActionOffered, GetVerifiedOffered,
       RequirementShown

LEMMA InitSessionInv == SessionInit => SessionInv
<1> SUFFICES ASSUME SessionInit PROVE SessionInv
  OBVIOUS
<1> USE SessionAssumption DEF SessionAssumption
<1>1. /\ address = NoAccount /\ checks = <<>> /\ attempt.phase = "idle"
      /\ restoring \in Accounts \cup {NoAccount} /\ savedWallet \in Accounts \cup {NoAccount}
  BY DEF SessionInit, NoAttempt
<1> QED BY <1>1 DEF SessionInv, VerdictOfAccount, LiveRunsOfAccount

LEMMA CancelledRunsAreDead ==
  ASSUME checks \in Seq(CheckRun)
  PROVE  /\ CancelledRuns \in Seq(CheckRun)
         /\ \A i \in DOMAIN CancelledRuns : ~CancelledRuns[i].live
<1>1. Reading \in Seq(CheckRun)
  <2>1. CASE checks # <<>>
    <3>1. Len(checks) \in Nat \ {0}
      BY <2>1, EmptySeq
    <3>2. SubSeq(checks, 1, Len(checks) - 1) \in Seq(CheckRun)
      BY <3>1, SubSeqProperties
    <3> QED BY <3>2 DEF Reading, Front
  <2>2. CASE checks = <<>>
    BY <2>2 DEF Reading
  <2> QED BY <2>1, <2>2
<1>2. PICK q \in Seq(CheckRun) : q = Reading
  BY <1>1
<1>3. CancelledRuns = [i \in 1..Len(q) |-> [q[i] EXCEPT !.live = FALSE]]
  BY <1>2 DEF CancelledRuns
<1>4. \A c \in CheckRun : /\ [c EXCEPT !.live = FALSE] \in CheckRun
                          /\ ~[c EXCEPT !.live = FALSE].live
  BY DEF CheckRun
<1>5. Len(q) \in Nat /\ \A i \in 1..Len(q) : q[i] \in CheckRun
  OBVIOUS
<1>6. \A i \in 1..Len(q) : CancelledRuns[i] \in CheckRun /\ ~CancelledRuns[i].live
  BY <1>3, <1>4, <1>5
<1>7. CancelledRuns = [i \in 1..Len(q) |-> CancelledRuns[i]]
  BY <1>3
<1>8. CancelledRuns \in Seq(CheckRun)
  BY <1>5, <1>6, <1>7
<1> QED BY <1>3, <1>6, <1>8

\* Whatever account a run is about, the verdict waits for it, and no earlier run
\* will write it.
LEMMA RunCheckKeeps ==
  ASSUME checks \in Seq(CheckRun), NEW account \in Accounts \cup {NoAccount}, RunCheck(account)
  PROVE  /\ checks' \in Seq(CheckRun)
         /\ \A i \in DOMAIN checks' : checks'[i].live => checks'[i].who = account
         /\ account # NoAccount => verdict' = "loading"
<1>1. PICK q \in Seq(CheckRun) : q = CancelledRuns /\ \A i \in DOMAIN q : ~q[i].live
  BY CancelledRunsAreDead
<1>2. CASE account = NoAccount
  BY <1>1, <1>2 DEF RunCheck
<1>3. CASE account # NoAccount
  <2>1. PICK c \in CheckRun : c = [who |-> account, live |-> TRUE, phase |-> "waiting"]
    BY <1>3 DEF CheckRun
  <2>2. checks' = Append(q, c) /\ verdict' = "loading"
    BY <1>1, <1>3, <2>1 DEF RunCheck
  <2>3. Append(q, c) \in Seq(CheckRun) /\ c.who = account
    BY <2>1
  <2>4. \A i \in DOMAIN Append(q, c) :
          (i \in DOMAIN q /\ Append(q, c)[i] = q[i]) \/ Append(q, c)[i] = c
    BY <2>1
  <2> QED BY <1>1, <2>2, <2>3, <2>4
<1> QED BY <1>2, <1>3

LEMMA SetAddressKeeps ==
  ASSUME SessionInv, NEW account \in Accounts \cup {NoAccount}, SetAddress(account)
  PROVE  /\ address' \in Accounts \cup {NoAccount}
         /\ checks' \in Seq(CheckRun) /\ LiveRunsOfAccount' /\ VerdictOfAccount'
<1>1. address' = account /\ UNCHANGED readBy
  BY DEF SetAddress
<1>2. CASE account = address
  BY <1>1, <1>2 DEF SetAddress, SessionInv, LiveRunsOfAccount, VerdictOfAccount
<1>3. CASE account # address
  <2>1. RunCheck(account)
    BY <1>3 DEF SetAddress
  <2>2. /\ checks' \in Seq(CheckRun)
        /\ \A i \in DOMAIN checks' : checks'[i].live => checks'[i].who = account
        /\ account # NoAccount => verdict' = "loading"
    BY <2>1, RunCheckKeeps DEF SessionInv
  <2> QED BY <1>1, <2>2 DEF LiveRunsOfAccount, VerdictOfAccount
<1> QED BY <1>2, <1>3

\* A run of the account about which nothing is shown yet.
LEMMA CheckAgainKeeps ==
  ASSUME SessionInv, RunCheck(address), UNCHANGED <<walletVars, readBy>>
  PROVE  SessionInv'
<1>1. /\ checks' \in Seq(CheckRun)
      /\ \A i \in DOMAIN checks' : checks'[i].live => checks'[i].who = address
      /\ address # NoAccount => verdict' = "loading"
  BY RunCheckKeeps DEF SessionInv
<1> QED BY <1>1 DEF SessionInv, walletVars, LiveRunsOfAccount, VerdictOfAccount

LEMMA SetsTo ==
  ASSUME SessionInv, NEW account \in Accounts \cup {NoAccount}, SetAddress(account),
         restoring' \in {restoring, NoAccount}, attempt' \in {attempt, NoAttempt},
         savedWallet' \in Accounts \cup {NoAccount}
  PROVE  SessionInv'
<1>1. attempt'.phase = "approving" => attempt'.wallet \in Accounts
  BY DEF SessionInv, NoAttempt
<1> QED BY <1>1, SetAddressKeeps DEF SessionInv

\* A run that ends writes, if it is live, what was read of the account.
LEMMA CheckEndKeeps ==
  ASSUME SessionInv, NEW i \in DOMAIN checks, checks' = RemoveAt(checks, i),
         UNCHANGED walletVars, VerdictOfAccount'
  PROVE  SessionInv'
<1>1. checks' \in Seq(CheckRun)
  BY WithoutOne DEF SessionInv
<1>2. \A n \in DOMAIN checks' : \E m \in DOMAIN checks : checks'[n] = checks[m]
  BY WithoutOne DEF SessionInv
<1>3. address' = address
  BY DEF walletVars
<1>4. LiveRunsOfAccount'
  BY <1>2, <1>3 DEF SessionInv, LiveRunsOfAccount
<1> QED BY <1>1, <1>4 DEF SessionInv, walletVars

LEMMA RestKeeps ==
  ASSUME SessionInv, UNCHANGED <<address, checks, verdict, readBy>>,
         restoring' \in {restoring, NoAccount}, savedWallet' \in {savedWallet, NoAccount},
         attempt'.phase = "approving" => attempt'.wallet \in Accounts
  PROVE  SessionInv'
BY DEF SessionInv, LiveRunsOfAccount, VerdictOfAccount

LEMMA NextSessionInv == SessionInv /\ [SessionNext]_sessionVars => SessionInv'
<1> SUFFICES ASSUME SessionInv, [SessionNext]_sessionVars PROVE SessionInv'
  OBVIOUS
<1> USE SessionAssumption DEF SessionAssumption
<1>0. attempt.phase = "approving" => attempt.wallet \in Accounts
  BY DEF SessionInv
<1>1. ASSUME NEW i \in DOMAIN checks, CheckReads(i) PROVE SessionInv'
  <2>1. checks' = [checks EXCEPT ![i].phase = "reading"] /\ UNCHANGED <<walletVars, verdict, readBy>>
    BY <1>1 DEF CheckReads
  <2>2. /\ checks \in Seq(CheckRun) /\ checks[i] \in CheckRun
        /\ [checks[i] EXCEPT !.phase = "reading"] \in CheckRun
    <3>1. checks \in Seq(CheckRun) /\ checks[i] \in CheckRun
      BY DEF SessionInv
    <3> QED BY <3>1 DEF CheckRun
  <2>0. PICK x \in CheckRun : x = [checks[i] EXCEPT !.phase = "reading"]
    BY <2>2
  <2>3. checks' \in Seq(CheckRun) /\ DOMAIN checks' = DOMAIN checks
    BY <2>0, <2>1, <2>2
  <2>4. \A n \in DOMAIN checks : checks'[n].live = checks[n].live /\ checks'[n].who = checks[n].who
    <3> SUFFICES ASSUME NEW n \in DOMAIN checks
                 PROVE  checks'[n].live = checks[n].live /\ checks'[n].who = checks[n].who
      OBVIOUS
    <3>1. checks'[n] = IF n = i THEN [checks[i] EXCEPT !.phase = "reading"] ELSE checks[n]
      BY <2>1, <2>2
    <3> QED BY <3>1, <2>2 DEF CheckRun
  <2> QED BY <2>1, <2>3, <2>4 DEF SessionInv, walletVars, LiveRunsOfAccount, VerdictOfAccount
<1>2. ASSUME NEW i \in DOMAIN checks, CheckAnswers(i) PROVE SessionInv'
  <2>1. checks' = RemoveAt(checks, i) /\ UNCHANGED walletVars
    BY <1>2 DEF CheckAnswers, CheckAnswered, CheckUnanswered, CheckThrows
  <2>2. checks[i].live => checks[i].who = address
    BY DEF SessionInv, LiveRunsOfAccount
  <2>3. VerdictOfAccount'
    <3>1. CASE CheckAnswered(i)
      <4>1. address' = address
        BY <2>1 DEF walletVars
      <4>2. CASE ~checks[i].live
        BY <3>1, <4>1, <4>2 DEF CheckAnswered, SessionInv, VerdictOfAccount
      <4>3. CASE checks[i].live /\ address \in Proved
        <5>1. readBy' = [who |-> checks[i].who, found |-> (checks[i].who \in Proved)]
          BY <3>1, <4>3 DEF CheckAnswered
        <5>2. (checks[i].who \in Proved) = TRUE
          BY <2>2, <4>3
        <5>3. readBy' = [who |-> address, found |-> TRUE]
          BY <2>2, <4>3, <5>1, <5>2, Zenon
        <5>4. verdict' = "granted"
          BY <2>2, <3>1, <4>3 DEF CheckAnswered
        <5> QED BY <4>1, <4>3, <5>3, <5>4 DEF VerdictOfAccount
      <4>4. CASE checks[i].live /\ address \notin Proved
        <5>1. readBy' = [who |-> checks[i].who, found |-> (checks[i].who \in Proved)]
          BY <3>1, <4>4 DEF CheckAnswered
        <5>2. (checks[i].who \in Proved) = FALSE
          BY <2>2, <4>4
        <5>3. readBy' = [who |-> address, found |-> FALSE]
          BY <2>2, <4>4, <5>1, <5>2, Zenon
        <5>4. verdict' = "denied"
          BY <2>2, <3>1, <4>4 DEF CheckAnswered
        <5> QED BY <4>1, <4>4, <5>3, <5>4 DEF VerdictOfAccount
      <4> QED BY <4>2, <4>3, <4>4
    <3>2. CASE CheckUnanswered(i) \/ CheckThrows(i)
      BY <2>1, <3>2 DEF CheckUnanswered, CheckThrows, SessionInv, VerdictOfAccount, walletVars
    <3> QED BY <3>1, <3>2, <1>2 DEF CheckAnswers
  <2> QED BY <2>1, <2>3, CheckEndKeeps
<1>3. CASE RetryCheck
  BY <1>3, CheckAgainKeeps DEF RetryCheck
<1>4. ASSUME NEW i \in DOMAIN networkReads, NetworkAnswers(i) PROVE SessionInv'
  <2>1. UNCHANGED <<walletVars, readBy>>
    BY <1>4 DEF NetworkAnswers
  <2>2. CASE mismatch' # mismatch
    BY <1>4, <2>1, <2>2, CheckAgainKeeps DEF NetworkAnswers
  <2>3. CASE mismatch' = mismatch
    BY <1>0, <1>4, <2>1, <2>3, RestKeeps DEF NetworkAnswers, walletVars
  <2> QED BY <2>2, <2>3
<1>5. CASE RestoreAnswers
  BY <1>5, SetsTo DEF RestoreAnswers, SessionInv
<1>6. CASE WalletApproves
  BY <1>0, <1>6, SetsTo DEF WalletApproves
<1>7. CASE Disconnect
  BY <1>7, SetsTo DEF Disconnect
<1>8. CASE Reload
  <2>1. /\ address' = NoAccount /\ checks' = <<>> /\ attempt' = NoAttempt
        /\ restoring' = savedWallet /\ savedWallet' = savedWallet
    BY <1>8 DEF Reload
  <2> QED BY <2>1 DEF SessionInv, LiveRunsOfAccount, VerdictOfAccount, NoAttempt
<1>9. CASE NetworkPoll \/ \E w \in Accounts : WalletSwitchesNetwork(w)
  BY <1>0, <1>9, RestKeeps
     DEF NetworkPoll, WalletSwitchesNetwork, walletVars, accessVars
<1>10. ASSUME NEW w \in Accounts, SelectWallet(w) PROVE SessionInv'
  BY <1>10, RestKeeps DEF SelectWallet, accessVars
<1>11. CASE RestoreFails \/ Connect \/ KitLoads
  BY <1>0, <1>11, RestKeeps DEF RestoreFails, Connect, KitLoads, accessVars
<1>12. CASE ConnectFails
  BY <1>12, RestKeeps DEF ConnectFails, Fail, NoAttempt, accessVars
<1>13. CASE Probe \/ (\E i \in DOMAIN probes : NodeProbeAnswers(i)) \/ NodeChanges
  BY <1>0, <1>13, RestKeeps DEF Probe, NodeProbeAnswers, NodeChanges, walletVars, accessVars
<1>14. CASE UNCHANGED sessionVars
  BY <1>0, <1>14, RestKeeps DEF sessionVars, walletVars, accessVars
<1> QED BY <1>1, <1>2, <1>3, <1>4, <1>5, <1>6, <1>7, <1>8, <1>9, <1>10, <1>11, <1>12, <1>13, <1>14
        DEF SessionNext

THEOREM SessionInvariant == SessionSpec => []SessionInv
BY InitSessionInv, NextSessionInv, PTL DEF SessionSpec

THEOREM VerdictIsOfAccount == SessionSpec => []VerdictIsRead
BY SessionInvariant, VerdictFollows, PTL

-----------------------------------------------------------------------------
(* Claim reads: nothing asked for before an invalidation is cached         *)

ReadKey == [wallet : Wallets, threshold : BOOLEAN, source : Sources \cup {"chain"}]
OnChain == [live : BOOLEAN, until : Nat]
Answer == [holds : BOOLEAN, until : Int]

\* What the cache holds was asked for since the last invalidation.
NewEntry == [key : ReadKey, value : Answer, expiresAt : Int, old : {FALSE}]

Request == [of : Wallets, sent : Nat, state : {"sent", "done", "failed"}, rows : OnChain, old : BOOLEAN]

OpenRead ==
    [by : {"app", "gate", "hook", "watch"}, key : ReadKey, id : Nat, generation : Nat,
     old : BOOLEAN, at : {"chain", "rows", "arriving"}, fetch : Nat, value : Answer]

GateState ==
    [of : Wallets \cup {Nobody}, fetch : Nat, shown : Nat, loading : BOOLEAN, gone : BOOLEAN]

ReadTypeOK ==
    /\ clock \in Nat /\ claim \in [Wallets -> OnChain] /\ rows \in [Wallets -> OnChain]
    /\ generation \in Nat /\ cache \in Seq(NewEntry)
    /\ fetches \in Seq(Request) /\ rowsOf \in [Wallets -> Nat]
    /\ reads \in Seq(OpenRead)
    /\ gate \in GateState

\* The rows that reads of a wallet share were asked for since.
SharedRowsAreNew ==
    \A w \in Wallets : rowsOf[w] # 0 =>
        /\ rowsOf[w] \in DOMAIN fetches
        /\ fetches[rowsOf[w]].of = w /\ ~fetches[rowsOf[w]].old

\* A read of this generation was begun since, and so were the rows it waits for.
BegunSince(r, current, requests) ==
    /\ r.generation <= current
    /\ r.at = "rows" => r.fetch \in DOMAIN requests
    /\ r.generation = current =>
         /\ ~r.old
         /\ r.key.source = "indexer" => r.fetch \in DOMAIN requests /\ ~requests[r.fetch].old

ReadsInv ==
    /\ ReadTypeOK
    /\ SharedRowsAreNew
    /\ \A i \in DOMAIN reads : BegunSince(reads[i], generation, fetches)

LEMMA CacheIsNew == ReadsInv => NothingOlderThanInvalidate
<1> SUFFICES ASSUME ReadsInv, NEW i \in DOMAIN cache PROVE ~cache[i].old
  BY DEF NothingOlderThanInvalidate
<1>1. cache[i] \in NewEntry
  BY DEF ReadsInv, ReadTypeOK
<1>2. cache[i].old = FALSE
  BY <1>1 DEF NewEntry
<1> QED BY <1>2

-----------------------------------------------------------------------------
\* In a finite set of numbers, some number has just n of them up to it.
LEMMA RankReached ==
  ASSUME NEW K \in SUBSET Nat, IsFiniteSet(K), NEW n \in 1..Cardinality(K)
  PROVE  \E i \in K : Cardinality({j \in K : j <= i}) = n
<1> DEFINE Up(i) == {j \in K : j <= i}
<1>0. Cardinality(K) \in Nat
  BY FS_CardinalityType
<1>1. \A i \in K : /\ IsFiniteSet(Up(i)) /\ Cardinality(Up(i)) <= Cardinality(K)
                   /\ Cardinality(Up(i)) \in Nat /\ Up(i) \in SUBSET K
  BY FS_Subset, FS_CardinalityType
<1>2. \A i \in K : Cardinality(Up(i)) \in 1..Cardinality(K)
  <2> SUFFICES ASSUME NEW i \in K PROVE Cardinality(Up(i)) \in 1..Cardinality(K)
    OBVIOUS
  <2>1. i \in Up(i)
    OBVIOUS
  <2>2. Cardinality(Up(i)) # 0
    BY <1>1, <2>1, FS_EmptySet
  <2> HIDE DEF Up
  <2> QED BY <1>0, <1>1, <2>2
<1>3. ASSUME NEW i \in K, NEW k \in K, i < k PROVE Cardinality(Up(i)) # Cardinality(Up(k))
  <2>1. Up(i) \in SUBSET Up(k)
    <3>1. \A j \in K : j <= i => j <= k
      BY <1>3
    <3> QED BY <3>1
  <2>2. k \in Up(k) /\ k \notin Up(i)
    BY <1>3
  <2> HIDE DEF Up
  <2> QED BY <1>1, <2>1, <2>2, FS_Subset
<1>4. SUFFICES ASSUME \A i \in K : Cardinality(Up(i)) # n PROVE FALSE
  OBVIOUS
<1>5. PICK T : T = (1..Cardinality(K)) \ {n}
  OBVIOUS
<1>6. IsFiniteSet(T) /\ Cardinality(T) < Cardinality(K)
  <2>1. IsFiniteSet(1..Cardinality(K)) /\ Cardinality(1..Cardinality(K)) = Cardinality(K)
    BY <1>0, FS_Interval
  <2>2. IsFiniteSet(T) /\ Cardinality(T) = Cardinality(K) - 1
    <3>1. PICK I : I = 1..Cardinality(K)
      OBVIOUS
    <3>2. n \in I /\ IsFiniteSet(I) /\ Cardinality(I) = Cardinality(K) /\ T = I \ {n}
      BY <1>5, <2>1, <3>1
    <3> QED BY <3>2, FS_RemoveElement
  <2> QED BY <1>0, <2>2
<1>7. PICK f : f = [i \in K |-> Cardinality(Up(i))]
  OBVIOUS
<1>8. f \in [K -> T]
  <2> HIDE DEF Up
  <2> QED BY <1>2, <1>4, <1>5, <1>7
<1>9. PICK x \in K, y \in K : x # y /\ f[x] = f[y]
  BY <1>6, <1>8, FS_PigeonHole
<1>10. x < y \/ y < x
  BY <1>9
<1>11. f[x] = Cardinality(Up(x)) /\ f[y] = Cardinality(Up(y))
  BY <1>7
<1> HIDE DEF Up
<1> QED BY <1>3, <1>9, <1>10, <1>11

LEMMA WithoutSome ==
  ASSUME NEW S, NEW es \in Seq(S), NEW gone
  PROVE  Without(es, gone) \in Seq(S)
<1>1. PICK K : K = DOMAIN es \ gone
  OBVIOUS
<1>2. K \in SUBSET Nat /\ K \in SUBSET (1..Len(es)) /\ Len(es) \in Nat
  BY <1>1
<1>3. IsFiniteSet(K) /\ Cardinality(K) \in Nat
  <2>1. IsFiniteSet(1..Len(es))
    BY <1>2, FS_Interval
  <2> QED BY <1>2, <2>1, FS_Subset, FS_CardinalityType
<1> DEFINE At(n) == CHOOSE i \in K : Cardinality({j \in K : j <= i}) = n
<1>4. \A n \in 1..Cardinality(K) : At(n) \in K
  <2> SUFFICES ASSUME NEW n \in 1..Cardinality(K) PROVE At(n) \in K
    OBVIOUS
  <2>1. \E i \in K : Cardinality({j \in K : j <= i}) = n
    BY <1>2, <1>3, RankReached
  <2> QED BY <2>1
<1>5. Without(es, gone) = [n \in 1..Cardinality(K) |-> es[At(n)]]
  BY <1>1 DEF Without
<1>6. \A i \in K : es[i] \in S
  BY <1>2
<1> HIDE DEF At
<1> QED BY <1>3, <1>4, <1>5, <1>6

-----------------------------------------------------------------------------
LEMMA InitReadsInv == ReadInit => ReadsInv
<1> SUFFICES ASSUME ReadInit PROVE ReadsInv
  OBVIOUS
<1>1. ReadTypeOK
  BY DEF ReadInit, ReadTypeOK, NoClaim, OnChain, GateState
<1> QED BY <1>1 DEF ReadInit, ReadsInv, SharedRowsAreNew

LEMMA AnswerType ==
  ASSUME ReadsInv, NEW c \in OnChain
  PROVE  AnswerOf(c) \in Answer
<1>1. (c.live /\ c.until > clock) \in BOOLEAN /\ c.until \in Int
  BY DEF OnChain
<1> QED BY <1>1 DEF AnswerOf, Holds, Answer

LEMMA StoreKeeps ==
  ASSUME ReadsInv, NEW r \in OpenRead, BegunSince(r, generation, fetches), r.generation = generation,
         NEW v \in Answer, Store(r, v)
  PROVE  cache' \in Seq(NewEntry)
<1> USE SourcesAssumption DEF SourcesAssumption
<1>1. PICK others \in Seq(NewEntry) :
        others = Without(cache, {i \in DOMAIN cache : cache[i].key = r.key})
  BY WithoutSome DEF ReadsInv, ReadTypeOK
<1>2. (r.old \/ (r.key.source = "indexer" /\ fetches[r.fetch].old)) = FALSE
  BY DEF BegunSince
<1>3. ExpiresAt(r, v) \in Int
  <2>1. v.until \in Int /\ clock \in Int /\ Ttl \in Int
    BY DEF Answer, ReadsInv, ReadTypeOK
  <2> QED BY <2>1 DEF ExpiresAt
<1>4. PICK entry : entry = [key |-> r.key, value |-> v, expiresAt |-> ExpiresAt(r, v),
                            old |-> r.old \/ (r.key.source = "indexer" /\ fetches[r.fetch].old)]
  OBVIOUS
<1>5. entry \in NewEntry
  <2>1. entry = [key |-> r.key, value |-> v, expiresAt |-> ExpiresAt(r, v), old |-> FALSE]
    BY <1>2, <1>4, Zenon
  <2>2. r.key \in ReadKey
    BY DEF OpenRead
  <2> QED BY <1>3, <2>1, <2>2 DEF NewEntry
<1>6. PICK all \in Seq(NewEntry) : all = Append(others, entry)
  BY <1>1, <1>5, AppendProperties
<1>7. PICK kept \in Seq(NewEntry) :
        kept = IF Len(all) > MaxEntries
               THEN Without(all, {i \in DOMAIN all : all[i].expiresAt <= clock}) ELSE all
  BY WithoutSome
<1>8. cache' = SubSeq(kept, (IF Len(kept) > MaxEntries THEN Len(kept) - MaxEntries ELSE 0) + 1,
                      Len(kept))
  BY <1>1, <1>4, <1>6, <1>7 DEF Store
<1>9. PICK m \in Nat \ {0} :
        m = (IF Len(kept) > MaxEntries THEN Len(kept) - MaxEntries ELSE 0) + 1
  <2>1. PICK l \in Nat : l = Len(kept)
    BY <1>7, LenProperties
  <2>2. (IF l > MaxEntries THEN l - MaxEntries ELSE 0) + 1 \in Nat \ {0}
    OBVIOUS
  <2> QED BY <2>1, <2>2
<1>10. cache' = SubSeq(kept, m, Len(kept)) /\ Len(kept) \in Nat
  BY <1>8, <1>9
<1>11. \A n \in m..Len(kept) : n \in DOMAIN kept
  BY <1>10
<1> QED BY <1>10, <1>11, SubSeqProperties

LEMMA SettleKeeps ==
  ASSUME ReadsInv, NEW i \in DOMAIN reads, NEW v \in Answer, Settle(i, v),
         UNCHANGED <<sourceVars, generation, fetches, rowsOf>>
  PROVE  ReadsInv'
<1>1. PICK r \in OpenRead : r = reads[i]
  BY DEF ReadsInv, ReadTypeOK
<1>2. BegunSince(r, generation, fetches)
  BY <1>1 DEF ReadsInv
<1>3. cache' \in Seq(NewEntry)
  <2>1. CASE v # Null /\ Stores(r, ExpiresAt(r, v))
    BY <1>1, <1>2, <2>1, StoreKeeps DEF Settle, Stores
  <2>2. CASE ~(v # Null /\ Stores(r, ExpiresAt(r, v)))
    BY <1>1, <2>2 DEF Settle, ReadsInv, ReadTypeOK
  <2> QED BY <2>1, <2>2
<1>4. reads' \in Seq(OpenRead) /\ \A n \in DOMAIN reads' : \E m \in DOMAIN reads : reads'[n] = reads[m]
  BY WithoutOne DEF Settle, ReadsInv, ReadTypeOK
<1>5. \A n \in DOMAIN reads' : BegunSince(reads'[n], generation', fetches')
  BY <1>4 DEF ReadsInv, BegunSince
<1>6. gate' \in GateState
  <2>1. /\ gate \in GateState
        /\ r.id \in Nat
    BY DEF ReadsInv, ReadTypeOK, OpenRead
  <2>2. gate' = gate \/ gate' = [gate EXCEPT !.shown = r.id, !.loading = FALSE]
    BY <1>1 DEF Settle, Deliver
  <2> QED BY <2>1, <2>2 DEF GateState
<1>7. ReadTypeOK'
  BY <1>3, <1>4, <1>6 DEF ReadsInv, ReadTypeOK, sourceVars
<1> QED BY <1>5, <1>7 DEF ReadsInv, SharedRowsAreNew

\* A read moves on: nothing that counts of it changes.
LEMMA MovesKeeps ==
  ASSUME ReadsInv, NEW i \in DOMAIN reads, NEW x \in OpenRead, reads' = [reads EXCEPT ![i] = x],
         x.generation = reads[i].generation, x.old = reads[i].old, x.key = reads[i].key,
         x.fetch = reads[i].fetch, x.at # "rows",
         UNCHANGED <<sourceVars, cacheVars, readers>>
  PROVE  ReadsInv'
<1>1. reads' \in Seq(OpenRead) /\ DOMAIN reads' = DOMAIN reads
  BY DEF ReadsInv, ReadTypeOK
<1>2. \A n \in DOMAIN reads : BegunSince(reads'[n], generation, fetches)
  <2> SUFFICES ASSUME NEW n \in DOMAIN reads PROVE BegunSince(reads'[n], generation, fetches)
    OBVIOUS
  <2>1. reads'[n] = IF n = i THEN x ELSE reads[n]
    BY DEF ReadsInv, ReadTypeOK
  <2> QED BY <2>1 DEF ReadsInv, BegunSince
<1>3. \A n \in DOMAIN reads' : BegunSince(reads'[n], generation', fetches')
  BY <1>1, <1>2 DEF BegunSince, cacheVars
<1> QED BY <1>1, <1>3 DEF ReadsInv, ReadTypeOK, SharedRowsAreNew, sourceVars, cacheVars, readers

\* An open read is one of before, or was begun since.
WasOpenOrNew(n) ==
    \/ \E m \in DOMAIN reads : reads'[n] = reads[m]
    \/ BegunSince(reads'[n], generation', fetches')

\* A request is added, or has its answer: none is older for that.
LEMMA FetchesKeep ==
  ASSUME ReadsInv, fetches' \in Seq(Request), rowsOf' \in [Wallets -> Nat], 
         DOMAIN fetches \subseteq DOMAIN fetches',
         \A n \in DOMAIN fetches : fetches'[n].old = fetches[n].old /\ fetches'[n].of = fetches[n].of,
         \A w \in Wallets : \/ rowsOf'[w] \in {rowsOf[w], 0}
                            \/ /\ rowsOf'[w] \in DOMAIN fetches'
                               /\ fetches'[rowsOf'[w]].of = w /\ ~fetches'[rowsOf'[w]].old,
         UNCHANGED <<sourceVars, cache, generation>>,
         reads' \in Seq(OpenRead),
         \A n \in DOMAIN reads' : WasOpenOrNew(n),
         gate' \in GateState
  PROVE  ReadsInv'
<1>1. ReadTypeOK'
  BY DEF ReadsInv, ReadTypeOK, sourceVars
<1>2. SharedRowsAreNew'
  BY DEF ReadsInv, SharedRowsAreNew
<1>3. \A m \in DOMAIN reads : BegunSince(reads[m], generation', fetches')
  BY DEF ReadsInv, BegunSince
<1> QED BY <1>1, <1>2, <1>3 DEF ReadsInv, WasOpenOrNew

LEMMA StartReadKeeps ==
  ASSUME ReadsInv, NEW by \in {"app", "gate", "hook", "watch"}, NEW k \in ReadKey,
         NEW fresh \in BOOLEAN, NEW id \in Nat, StartRead(by, k, fresh, id),
         gate' \in GateState
  PROVE  ReadsInv'
<1>1. CASE ~fresh /\ Entries(k) # {}
  <2>1. UNCHANGED <<cacheVars, reads, sourceVars>>
    BY <1>1 DEF StartRead
  <2> QED BY <2>1 DEF ReadsInv, ReadTypeOK, SharedRowsAreNew, BegunSince, cacheVars, sourceVars
<1>2. CASE ~(~fresh /\ Entries(k) # {})
  <2>1. PICK r : r = Read(by, k, id)
    OBVIOUS
  <2>2. GoToSource(r) /\ UNCHANGED <<cache, generation, sourceVars>>
    BY <1>2, <2>1 DEF StartRead
  <2>3. /\ generation \in Nat /\ fetches \in Seq(Request)
        /\ rowsOf \in [Wallets -> Nat] /\ reads \in Seq(OpenRead)
    BY DEF ReadsInv, ReadTypeOK
  <2>4. r \in OpenRead
    BY <2>1, <2>3 DEF Read, OpenRead, Null, Answer
  <2>5. /\ r.key = k /\ r.generation = generation /\ r.old = FALSE /\ r.at = "chain"
        /\ k.wallet \in Wallets
    BY <2>1 DEF Read, ReadKey
  <2>w. PICK w \in Wallets : w = k.wallet
    BY <2>5
  <2>6. ASSUME NEW x \in OpenRead, reads' = Append(reads, x), BegunSince(x, generation', fetches')
        PROVE  /\ reads' \in Seq(OpenRead)
               /\ \A n \in DOMAIN reads' : WasOpenOrNew(n)
    <3>1. reads' \in Seq(OpenRead)
      BY <2>3, <2>6
    <3>2. \A n \in DOMAIN reads' : (n \in DOMAIN reads /\ reads'[n] = reads[n]) \/ reads'[n] = x
      BY <2>3, <2>6
    <3> QED BY <3>1, <3>2, <2>6 DEF WasOpenOrNew
  <2>7. CASE k.source = "chain"
    <3>1. reads' = Append(reads, r) /\ UNCHANGED <<fetches, rowsOf>>
      BY <2>2, <2>5, <2>7 DEF GoToSource
    <3>2. BegunSince(r, generation', fetches')
      BY <2>2, <2>3, <2>5, <2>7 DEF BegunSince
    <3>3. /\ reads' \in Seq(OpenRead)
          /\ \A n \in DOMAIN reads' : WasOpenOrNew(n)
      BY <2>4, <2>6, <3>1, <3>2
    <3> QED BY <2>2, <2>3, <3>1, <3>3, FetchesKeep
  <2>8. CASE k.source # "chain" /\ Shared(w)
    <3>1. PICK x : x = [r EXCEPT !.at = "rows", !.fetch = rowsOf[w]]
      OBVIOUS
    <3>2. /\ x \in OpenRead /\ x.fetch = rowsOf[w] /\ x.key = r.key
          /\ x.generation = r.generation /\ x.old = r.old
      BY <2>3, <2>4, <3>1 DEF OpenRead
    <3>3. reads' = Append(reads, x) /\ UNCHANGED <<fetches, rowsOf>>
      BY <2>2, <2>5, <2>8, <2>w, <3>1 DEF GoToSource
    <3>4. rowsOf[w] \in DOMAIN fetches /\ ~fetches[rowsOf[w]].old
      BY <2>8 DEF Shared, ReadsInv, SharedRowsAreNew
    <3>5. BegunSince(x, generation', fetches')
      BY <2>2, <2>3, <2>5, <3>2, <3>3, <3>4 DEF BegunSince
    <3>6. /\ reads' \in Seq(OpenRead)
          /\ \A n \in DOMAIN reads' : WasOpenOrNew(n)
      BY <2>6, <3>2, <3>3, <3>5
    <3> QED BY <2>2, <2>3, <3>3, <3>6, FetchesKeep
  <2>9. CASE k.source # "chain" /\ ~Shared(w)
    <3>1. PICK x : x = [r EXCEPT !.at = "rows", !.fetch = Len(fetches) + 1]
      OBVIOUS
    <3>l. Len(fetches) \in Nat /\ Len(fetches) + 1 \in Nat \ {0}
      BY <2>3
    <3>2. /\ x \in OpenRead /\ x.fetch = Len(fetches) + 1 /\ x.key = r.key
          /\ x.generation = r.generation /\ x.old = r.old
      BY <2>4, <3>1, <3>l DEF OpenRead
    <3>3. PICK q : q = [of |-> w, sent |-> clock, state |-> "sent", rows |-> NoClaim, old |-> FALSE]
      OBVIOUS
    <3>4. q \in Request /\ q.of = w /\ q.old = FALSE
      BY <3>3 DEF Request, NoClaim, OnChain, ReadsInv, ReadTypeOK
    <3>5. /\ reads' = Append(reads, x) /\ fetches' = Append(fetches, q)
          /\ rowsOf' = IF RowsTtl > 0 THEN [rowsOf EXCEPT ![w] = Len(fetches) + 1] ELSE rowsOf
      BY <2>2, <2>5, <2>9, <2>w, <3>1, <3>3 DEF GoToSource
    <3>6. /\ fetches' \in Seq(Request) /\ DOMAIN fetches \subseteq DOMAIN fetches'
          /\ \A n \in DOMAIN fetches : fetches'[n] = fetches[n]
          /\ Len(fetches) + 1 \in DOMAIN fetches' /\ fetches'[Len(fetches) + 1] = q
      BY <2>3, <3>4, <3>5
    <3>7. BegunSince(x, generation', fetches')
      BY <2>2, <2>3, <2>5, <3>2, <3>4, <3>6 DEF BegunSince
    <3>8. /\ reads' \in Seq(OpenRead)
          /\ \A n \in DOMAIN reads' : WasOpenOrNew(n)
      BY <2>6, <3>2, <3>5, <3>7
    <3>9. rowsOf' \in [Wallets -> Nat]
      BY <2>3, <3>5, <3>l
    <3>10. \A u \in Wallets : rowsOf'[u] = rowsOf[u] \/ (u = w /\ rowsOf'[u] = Len(fetches) + 1)
      BY <2>3, <3>5
    <3>11. \A u \in Wallets : \/ rowsOf'[u] \in {rowsOf[u], 0}
                              \/ /\ rowsOf'[u] \in DOMAIN fetches'
                                 /\ fetches'[rowsOf'[u]].of = u /\ ~fetches'[rowsOf'[u]].old
      BY <3>4, <3>6, <3>10
    <3> QED BY <2>2, <3>6, <3>8, <3>9, <3>11, FetchesKeep
  <2> QED BY <2>7, <2>8, <2>9
<1> QED BY <1>1, <1>2

LEMMA InvalidationKeeps ==
  ASSUME ReadsInv, cache' \in Seq(NewEntry), generation' = generation + 1,
         rowsOf' \in [Wallets -> Nat],
         \A w \in Wallets : rowsOf'[w] # 0 =>
            /\ rowsOf'[w] = rowsOf[w]
            /\ ~fetches'[rowsOf[w]].old,
         reads' \in Seq(OpenRead), DOMAIN reads' = DOMAIN reads,
         \A n \in DOMAIN reads : /\ reads'[n].generation = reads[n].generation
                                 /\ reads'[n].at = reads[n].at /\ reads'[n].fetch = reads[n].fetch,
         fetches' \in Seq(Request), DOMAIN fetches' = DOMAIN fetches,
         \A n \in DOMAIN fetches : fetches'[n].of = fetches[n].of,
         UNCHANGED <<sourceVars, readers>>
  PROVE  ReadsInv'
<1>2. ReadTypeOK'
  BY DEF ReadsInv, ReadTypeOK, sourceVars, readers
<1>3. SharedRowsAreNew'
  BY DEF ReadsInv, SharedRowsAreNew
<1>4. \A n \in DOMAIN reads' : BegunSince(reads'[n], generation', fetches')
  <2> SUFFICES ASSUME NEW n \in DOMAIN reads PROVE BegunSince(reads'[n], generation', fetches')
    OBVIOUS
  <2>0. reads[n] \in OpenRead
    BY DEF ReadsInv, ReadTypeOK
  <2>1. PICK a \in Nat : a = reads[n].generation
    BY <2>0 DEF OpenRead
  <2>2. a <= generation /\ generation \in Nat
    BY <2>1 DEF ReadsInv, ReadTypeOK, BegunSince
  <2>3. a <= generation' /\ a # generation'
    BY <2>2
  <2>4. reads'[n].generation = a
    BY <2>1
  <2>5. reads'[n].at = "rows" => reads'[n].fetch \in DOMAIN fetches'
    BY DEF ReadsInv, BegunSince
  <2> QED BY <2>3, <2>4, <2>5 DEF BegunSince
<1> QED BY <1>2, <1>3, <1>4 DEF ReadsInv

LEMMA MarkedOld ==
  ASSUME ReadsInv, NEW R \in [DOMAIN reads -> BOOLEAN], NEW F \in [DOMAIN fetches -> BOOLEAN]
  PROVE  /\ LET q == [i \in DOMAIN reads |-> [reads[i] EXCEPT !.old = R[i]]]
            IN /\ q \in Seq(OpenRead) /\ DOMAIN q = DOMAIN reads
               /\ \A n \in DOMAIN reads : /\ q[n].generation = reads[n].generation
                                          /\ q[n].at = reads[n].at /\ q[n].fetch = reads[n].fetch
         /\ LET q == [i \in DOMAIN fetches |-> [fetches[i] EXCEPT !.old = F[i]]]
            IN /\ q \in Seq(Request) /\ DOMAIN q = DOMAIN fetches
               /\ \A n \in DOMAIN fetches : q[n].of = fetches[n].of /\ q[n].old = F[n]
<1>1. reads \in Seq(OpenRead) /\ fetches \in Seq(Request)
  BY DEF ReadsInv, ReadTypeOK
<1>2. PICK q : q = [i \in DOMAIN reads |-> [reads[i] EXCEPT !.old = R[i]]]
  OBVIOUS
<1>3. /\ q \in Seq(OpenRead) /\ DOMAIN q = DOMAIN reads
      /\ \A n \in DOMAIN reads : /\ q[n].generation = reads[n].generation
                                 /\ q[n].at = reads[n].at /\ q[n].fetch = reads[n].fetch
  <2> DEFINE Marked(c, b) == [c EXCEPT !.old = b]
  <2>0. \A c \in OpenRead, b \in BOOLEAN :
          /\ Marked(c, b) \in OpenRead /\ Marked(c, b).generation = c.generation
          /\ Marked(c, b).at = c.at /\ Marked(c, b).fetch = c.fetch
    BY DEF OpenRead
  <2>a. \A n \in DOMAIN reads : reads[n] \in OpenRead /\ q[n] = Marked(reads[n], R[n])
    BY <1>1, <1>2
  <2> HIDE DEF Marked
  <2>1. \A n \in DOMAIN reads : /\ q[n] \in OpenRead /\ q[n].generation = reads[n].generation
                                /\ q[n].at = reads[n].at /\ q[n].fetch = reads[n].fetch
    <3>1. \A n \in DOMAIN reads : R[n] \in BOOLEAN
      OBVIOUS
    <3> SUFFICES ASSUME NEW n \in DOMAIN reads
                 PROVE  /\ q[n] \in OpenRead /\ q[n].generation = reads[n].generation
                        /\ q[n].at = reads[n].at /\ q[n].fetch = reads[n].fetch
      OBVIOUS
    <3>2. q[n] = Marked(reads[n], R[n]) /\ reads[n] \in OpenRead /\ R[n] \in BOOLEAN
      BY <2>a, <3>1
    <3> QED BY <2>0, <3>2
  <2>2. DOMAIN reads = 1..Len(reads) /\ Len(reads) \in Nat
    BY <1>1
  <2> QED BY <1>2, <2>1, <2>2
<1>4. PICK p : p = [i \in DOMAIN fetches |-> [fetches[i] EXCEPT !.old = F[i]]]
  OBVIOUS
<1>5. /\ p \in Seq(Request) /\ DOMAIN p = DOMAIN fetches
      /\ \A n \in DOMAIN fetches : p[n].of = fetches[n].of /\ p[n].old = F[n]
  <2>1. \A n \in DOMAIN fetches : p[n] \in Request /\ p[n].of = fetches[n].of /\ p[n].old = F[n]
    <3> DEFINE Marked(c, b) == [c EXCEPT !.old = b]
    <3>1. \A c \in Request, b \in BOOLEAN :
            Marked(c, b) \in Request /\ Marked(c, b).of = c.of /\ Marked(c, b).old = b
      BY DEF Request
    <3>2. \A n \in DOMAIN fetches : fetches[n] \in Request /\ p[n] = Marked(fetches[n], F[n])
      BY <1>1, <1>4
    <3> HIDE DEF Marked
    <3>3. \A n \in DOMAIN fetches : F[n] \in BOOLEAN
      OBVIOUS
    <3> SUFFICES ASSUME NEW n \in DOMAIN fetches
                 PROVE  p[n] \in Request /\ p[n].of = fetches[n].of /\ p[n].old = F[n]
      OBVIOUS
    <3>4. p[n] = Marked(fetches[n], F[n]) /\ fetches[n] \in Request /\ F[n] \in BOOLEAN
      BY <3>2, <3>3
    <3> QED BY <3>1, <3>4
  <2>2. DOMAIN fetches = 1..Len(fetches) /\ Len(fetches) \in Nat
    BY <1>1
  <2> QED BY <1>4, <2>1, <2>2
<1> QED BY <1>2, <1>3, <1>4, <1>5

LEMMA NextReadsInv == ReadsInv /\ [ReadNext]_readVars => ReadsInv'
<1> SUFFICES ASSUME ReadsInv, [ReadNext]_readVars PROVE ReadsInv'
  OBVIOUS
<1>t. ReadTypeOK /\ fetches \in Seq(Request) /\ reads \in Seq(OpenRead) /\ gate \in GateState
  BY DEF ReadsInv, ReadTypeOK
<1>0. ASSUME UNCHANGED <<cacheVars, reads>>, ReadTypeOK' PROVE ReadsInv'
  BY <1>0 DEF ReadsInv, SharedRowsAreNew, cacheVars
<1>1. CASE ReadTick
  BY <1>0, <1>1, <1>t DEF ReadTick, ReadTypeOK, cacheVars, readers
<1>2. ASSUME NEW w \in Wallets, ClaimChanges(w) \/ IndexerFollows(w) PROVE ReadsInv'
  <2>1. \A c \in {NoClaim, [live |-> TRUE, until |-> clock + 1]} : c \in OnChain
    <3>1. NoClaim \in OnChain
      BY DEF NoClaim, OnChain
    <3>2. clock + 1 \in Nat
      BY <1>t DEF ReadTypeOK
    <3>3. [live |-> TRUE, until |-> clock + 1] \in OnChain
      BY <3>2 DEF OnChain
    <3> QED BY <3>1, <3>3
  <2>2. claim' \in [Wallets -> OnChain] /\ rows' \in [Wallets -> OnChain] /\ clock' = clock
    BY <1>2, <1>t, <2>1 DEF ClaimChanges, IndexerFollows, ReadTypeOK
  <2> QED BY <1>0, <1>2, <1>t, <2>2 DEF ClaimChanges, IndexerFollows, ReadTypeOK, cacheVars, readers
<1>3. ASSUME NEW w \in Wallets, Invalidate(w) PROVE ReadsInv'
  <2>1. PICK R : R = [i \in DOMAIN reads |-> reads[i].old \/ reads[i].key.wallet = w]
    OBVIOUS
  <2>2. PICK F : F = [i \in DOMAIN fetches |-> fetches[i].old \/ fetches[i].of = w]
    OBVIOUS
  <2>3. R \in [DOMAIN reads -> BOOLEAN] /\ F \in [DOMAIN fetches -> BOOLEAN]
    BY <2>1, <2>2
  <2>4. /\ generation' = generation + 1 /\ UNCHANGED <<sourceVars, readers>>
        /\ cache' = Without(cache, {i \in DOMAIN cache : cache[i].key.wallet = w})
        /\ rowsOf' = [rowsOf EXCEPT ![w] = 0]
    BY <1>3 DEF Invalidate
  <2>5. reads' = [i \in DOMAIN reads |-> [reads[i] EXCEPT !.old = R[i]]]
    BY <1>3, <2>1 DEF Invalidate
  <2>6. fetches' = [i \in DOMAIN fetches |-> [fetches[i] EXCEPT !.old = F[i]]]
    BY <1>3, <2>2 DEF Invalidate
  <2>7. /\ reads' \in Seq(OpenRead) /\ DOMAIN reads' = DOMAIN reads
        /\ \A n \in DOMAIN reads : /\ reads'[n].generation = reads[n].generation
                                   /\ reads'[n].at = reads[n].at /\ reads'[n].fetch = reads[n].fetch
        /\ fetches' \in Seq(Request) /\ DOMAIN fetches' = DOMAIN fetches
        /\ \A n \in DOMAIN fetches : fetches'[n].of = fetches[n].of /\ fetches'[n].old = F[n]
    BY <2>3, <2>5, <2>6, MarkedOld
  <2>c. cache' \in Seq(NewEntry)
    BY <1>t, <2>4, WithoutSome DEF ReadTypeOK
  <2>8. rowsOf' \in [Wallets -> Nat] /\ \A u \in Wallets : rowsOf'[u] = IF u = w THEN 0 ELSE rowsOf[u]
    BY <1>t, <2>4 DEF ReadTypeOK
  <2>9. \A u \in Wallets : rowsOf'[u] # 0 => rowsOf'[u] = rowsOf[u] /\ ~fetches'[rowsOf[u]].old
    <3> SUFFICES ASSUME NEW u \in Wallets, rowsOf'[u] # 0
                 PROVE  rowsOf'[u] = rowsOf[u] /\ ~fetches'[rowsOf[u]].old
      OBVIOUS
    <3>1. u # w /\ rowsOf'[u] = rowsOf[u]
      BY <2>8
    <3>2. rowsOf[u] \in DOMAIN fetches /\ fetches[rowsOf[u]].of = u /\ ~fetches[rowsOf[u]].old
      BY <3>1 DEF ReadsInv, SharedRowsAreNew
    <3>3. ~F[rowsOf[u]]
      BY <2>2, <3>1, <3>2
    <3> QED BY <2>7, <3>1, <3>2, <3>3
  <2> QED BY <2>4, <2>7, <2>8, <2>9, <2>c, InvalidationKeeps
<1>4. CASE Configure
  <2>1. PICK R : R = [i \in DOMAIN reads |-> TRUE]
    OBVIOUS
  <2>2. PICK F : F = [i \in DOMAIN fetches |-> TRUE]
    OBVIOUS
  <2>3. R \in [DOMAIN reads -> BOOLEAN] /\ F \in [DOMAIN fetches -> BOOLEAN]
    BY <2>1, <2>2
  <2>4. /\ generation' = generation + 1 /\ UNCHANGED <<sourceVars, readers>>
        /\ cache' = <<>> /\ rowsOf' = [u \in Wallets |-> 0]
    BY <1>4 DEF Configure
  <2>5. /\ reads' = [i \in DOMAIN reads |-> [reads[i] EXCEPT !.old = R[i]]]
        /\ fetches' = [i \in DOMAIN fetches |-> [fetches[i] EXCEPT !.old = F[i]]]
    BY <1>4, <2>1, <2>2 DEF Configure
  <2>6. /\ reads' \in Seq(OpenRead) /\ DOMAIN reads' = DOMAIN reads
        /\ \A n \in DOMAIN reads : /\ reads'[n].generation = reads[n].generation
                                   /\ reads'[n].at = reads[n].at /\ reads'[n].fetch = reads[n].fetch
        /\ fetches' \in Seq(Request) /\ DOMAIN fetches' = DOMAIN fetches
        /\ \A n \in DOMAIN fetches : fetches'[n].of = fetches[n].of
    BY <2>3, <2>5, MarkedOld
  <2>7. cache' \in Seq(NewEntry)
    BY <2>4
  <2>8. rowsOf' \in [Wallets -> Nat] /\ \A u \in Wallets : rowsOf'[u] = 0
    BY <2>4
  <2> QED BY <2>4, <2>6, <2>7, <2>8, InvalidationKeeps
<1>5. CASE GateDestroyed
  <2>1. gate' = [gate EXCEPT !.gone = TRUE, !.fetch = @ + 1]
    BY <1>5 DEF GateDestroyed
  <2>2. gate' \in GateState
    <3>1. gate.fetch \in Nat
      BY <1>t DEF GateState
    <3>2. gate.fetch + 1 \in Nat
      BY <3>1
    <3> QED BY <1>t, <2>1, <3>2 DEF GateState
  <2> QED BY <1>0, <1>5, <1>t, <2>2 DEF GateDestroyed, ReadTypeOK, cacheVars, sourceVars
<1>6. CASE HookDisconnects \/ WatchStops
  BY <1>0, <1>6, <1>t DEF HookDisconnects, WatchStops, ReadTypeOK, cacheVars, sourceVars
<1>7. ASSUME NEW w \in Wallets, AppReads(w) PROVE ReadsInv'
  <2>1. PICK threshold \in BOOLEAN, source \in Sources, fresh \in BOOLEAN :
          StartRead("app", Key(w, threshold, source), fresh, 0)
    BY <1>7 DEF AppReads
  <2>2. PICK k \in ReadKey : k = Key(w, threshold, source)
    BY DEF Key, ReadKey
  <2>3. gate' \in GateState
    BY <1>7, <1>t DEF AppReads, readers
  <2> QED BY <2>1, <2>2, <2>3, StartReadKeeps
<1>8. ASSUME NEW w \in Wallets PROVE \E k \in ReadKey : k = Key(w, FALSE, "chain")
  BY DEF Key, ReadKey
<1>9. ASSUME NEW w \in Wallets, WatchPolls(w) PROVE ReadsInv'
  <2>1. StartRead("watch", Key(w, FALSE, "chain"), TRUE, 0) /\ gate' \in GateState
    BY <1>9, <1>t DEF WatchPolls
  <2> QED BY <1>8, <2>1, StartReadKeeps
<1>10. ASSUME NEW w \in Wallets, NEW fresh \in BOOLEAN, GateFetches(w, fresh) PROVE ReadsInv'
  <2>1. PICK k \in ReadKey : k = Key(w, FALSE, "chain")
    BY <1>8
  <2>2. StartRead("gate", k, fresh, gate.fetch + 1) /\ gate.fetch + 1 \in Nat
    <3>1. StartRead("gate", k, fresh, gate.fetch + 1)
      BY <1>10, <2>1 DEF GateFetches
    <3>2. gate.fetch \in Nat
      BY <1>t DEF GateState
    <3> QED BY <3>1, <3>2
  <2>3. gate' = [gate EXCEPT !.of = w, !.fetch = gate.fetch + 1, !.loading = ~Hit(k, fresh),
                             !.shown = IF Hit(k, fresh) THEN gate.fetch + 1 ELSE gate.shown]
    BY <1>10, <1>t, <2>1 DEF GateFetches, GateState
  <2>4. (~Hit(k, fresh)) \in BOOLEAN
    BY DEF Hit
  <2>5. gate' \in GateState
    BY <1>t, <2>2, <2>3, <2>4 DEF GateState
  <2> QED BY <2>2, <2>5, StartReadKeeps
<1>11. ASSUME NEW w \in Wallets, NEW fresh \in BOOLEAN, HookFetches(w, fresh) PROVE ReadsInv'
  <2>1. StartRead("hook", Key(w, FALSE, "chain"), fresh, 0) /\ gate' \in GateState
    BY <1>11, <1>t DEF HookFetches
  <2> QED BY <1>8, <2>1, StartReadKeeps
<1>12. ASSUME NEW i \in DOMAIN fetches, RequestAnswers(i) PROVE ReadsInv'
  <2>1. fetches[i] \in Request /\ rows \in [Wallets -> OnChain] /\ rowsOf \in [Wallets -> Nat]
    BY <1>t DEF ReadTypeOK
  <2>2. fetches[i].of \in Wallets /\ rows[fetches[i].of] \in OnChain
    BY <2>1 DEF Request
  <2>3. PICK x : fetches' = [fetches EXCEPT ![i] = x] /\ x \in Request
                 /\ x.old = fetches[i].old /\ x.of = fetches[i].of
    <3>1. CASE fetches' = [fetches EXCEPT ![i].state = "done", ![i].rows = rows[fetches[i].of]]
      <4>1. PICK x : x = [fetches[i] EXCEPT !.state = "done", !.rows = rows[fetches[i].of]]
        OBVIOUS
      <4>2. x \in Request /\ x.old = fetches[i].old /\ x.of = fetches[i].of
        BY <2>1, <2>2, <4>1 DEF Request
      <4>3. fetches' = [fetches EXCEPT ![i] = x]
        BY <3>1, <4>1, <1>t
      <4> QED BY <4>2, <4>3
    <3>2. CASE fetches' = [fetches EXCEPT ![i].state = "failed"]
      <4>1. PICK x : x = [fetches[i] EXCEPT !.state = "failed"]
        OBVIOUS
      <4>2. x \in Request /\ x.old = fetches[i].old /\ x.of = fetches[i].of
        BY <2>1, <4>1 DEF Request
      <4>3. fetches' = [fetches EXCEPT ![i] = x]
        BY <3>2, <4>1
      <4> QED BY <4>2, <4>3
    <3> QED BY <1>12, <3>1, <3>2 DEF RequestAnswers
  <2>4. /\ fetches' \in Seq(Request) /\ DOMAIN fetches' = DOMAIN fetches
        /\ \A n \in DOMAIN fetches : fetches'[n] = IF n = i THEN x ELSE fetches[n]
    BY <1>t, <2>3
  <2>5. rowsOf' \in [Wallets -> Nat] /\ \A w \in Wallets : rowsOf'[w] \in {rowsOf[w], 0}
    BY <1>12, <2>1 DEF RequestAnswers
  <2>6. \A n \in DOMAIN fetches : fetches'[n].old = fetches[n].old /\ fetches'[n].of = fetches[n].of
    BY <2>3, <2>4
  <2>7. UNCHANGED <<sourceVars, cache, generation, reads, readers>>
    BY <1>12 DEF RequestAnswers
  <2> QED BY <1>t, <2>4, <2>5, <2>6, <2>7, FetchesKeep DEF readers, WasOpenOrNew
<1>13. ASSUME NEW i \in DOMAIN reads PROVE reads[i] \in OpenRead /\ reads[i].key.wallet \in Wallets
  <2>1. reads[i] \in OpenRead
    BY <1>t
  <2>2. reads[i].key \in ReadKey
    BY <2>1 DEF OpenRead
  <2> QED BY <2>1, <2>2 DEF ReadKey
<1>14. ASSUME NEW i \in DOMAIN reads, RowsRead(i) PROVE ReadsInv'
  <2>1. UNCHANGED <<sourceVars, generation, fetches, rowsOf>>
    BY <1>14 DEF RowsRead
  <2>2. CASE reads[i].key.source = "indexer-verified"
    <3>1. PICK x : x = [reads[i] EXCEPT !.at = "chain"]
      OBVIOUS
    <3>2. /\ x \in OpenRead /\ x.generation = reads[i].generation /\ x.old = reads[i].old
          /\ x.key = reads[i].key /\ x.fetch = reads[i].fetch /\ x.at # "rows"
      BY <1>13, <3>1 DEF OpenRead
    <3>3. reads' = [reads EXCEPT ![i] = x] /\ UNCHANGED <<cache, readers>>
      BY <1>14, <2>2, <3>1 DEF RowsRead
    <3> QED BY <2>1, <3>2, <3>3, MovesKeeps DEF cacheVars
  <2>3. CASE reads[i].key.source # "indexer-verified"
    <3>1. PICK v : v = IF fetches[reads[i].fetch].state = "done"
                       THEN AnswerOf(fetches[reads[i].fetch].rows) ELSE Null
      OBVIOUS
    <3>2. Settle(i, v)
      BY <1>14, <2>3, <3>1 DEF RowsRead
    <3>3. v \in Answer
      <4>1. reads[i].fetch \in DOMAIN fetches
        BY <1>14 DEF RowsRead, ReadsInv, BegunSince
      <4>2. fetches[reads[i].fetch] \in Request
        BY <1>t, <4>1
      <4>3. fetches[reads[i].fetch].rows \in OnChain
        BY <4>2 DEF Request
      <4> QED BY <3>1, <4>3, AnswerType DEF Null, Answer
    <3> QED BY <2>1, <3>2, <3>3, SettleKeeps
  <2> QED BY <2>2, <2>3
<1>15. ASSUME NEW i \in DOMAIN reads, RegistryAnswers(i) PROVE ReadsInv'
  <2>1. PICK v \in Answer : v = AnswerOf(claim[reads[i].key.wallet])
    BY <1>13, <1>t, AnswerType DEF ReadTypeOK
  <2>2. PICK x : x = [reads[i] EXCEPT !.at = "arriving", !.value = v]
    OBVIOUS
  <2>3. /\ x \in OpenRead /\ x.generation = reads[i].generation /\ x.old = reads[i].old
        /\ x.key = reads[i].key /\ x.fetch = reads[i].fetch /\ x.at # "rows"
    BY <1>13, <2>2 DEF OpenRead
  <2>4. reads' = [reads EXCEPT ![i] = x] /\ UNCHANGED <<sourceVars, cacheVars, readers>>
    BY <1>15, <1>t, <2>1, <2>2 DEF RegistryAnswers
  <2> QED BY <2>3, <2>4, MovesKeeps
<1>16. ASSUME NEW i \in DOMAIN reads, ChainRead(i) PROVE ReadsInv'
  <2>1. UNCHANGED <<sourceVars, generation, fetches, rowsOf>>
    BY <1>16 DEF ChainRead
  <2>2. \E v \in Answer : Settle(i, v)
    <3>1. reads[i].value \in Answer /\ Null \in Answer
      BY <1>13 DEF OpenRead, Null, Answer
    <3> QED BY <1>16, <3>1 DEF ChainRead
  <2> QED BY <2>1, <2>2, SettleKeeps
<1>17. CASE UNCHANGED readVars
  BY <1>0, <1>17, <1>t DEF readVars, ReadTypeOK, sourceVars, cacheVars, readers
<1> QED BY <1>1, <1>2, <1>3, <1>4, <1>5, <1>6, <1>7, <1>9, <1>10, <1>11, <1>12, <1>14, <1>15, <1>16,
           <1>17 DEF ReadNext

THEOREM ReadsInvariant == ReadSpec => []ReadsInv
BY InitReadsInv, NextReadsInv, PTL DEF ReadSpec

THEOREM NothingOlderIsCached == ReadSpec => []NothingOlderThanInvalidate
BY ReadsInvariant, CacheIsNew, PTL
=============================================================================
