--------------------------- MODULE CredentialStore ---------------------------
(***************************************************************************)
(* The holder's credentials in the browser's localStorage: the operations  *)
(* of every tab on them, each of which reads the store, computes and       *)
(* writes it back; sealing them under a passphrase; the guardian backup    *)
(* they are restored from; and wiping them.                                *)
(*                                                                         *)
(* A task of a tab that needs no cryptography runs to its end before the   *)
(* tab does anything else, but tasks begun by the same handler all read    *)
(* the store before the first of them writes it.                           *)
(***************************************************************************)
EXTENDS Integers, Sequences, SequencesExt, FiniteSets

CONSTANTS
    Tabs, Commitments, Passphrases,
    Guardians,      \* who hold the shares of a guardian backup
    Threshold,      \* shares that make up its key
    MaxTasks,       \* bound: operations begun
    MaxSalts        \* bound: keys derived anew

ASSUME StoreAssumption == IsFiniteSet(Commitments) /\ Commitments # {}

VARIABLES
    stored,     \* the item "stellarcred:credentials"
    tabKey,     \* the key each tab has cached
    salts,      \* salts drawn
    tasks,      \* operations on the store, in the order they began
    kit,        \* the guardian backup, once it was made
    hidesValue, \* export visibility: backups leave the value out
    recovery,   \* the recovery dialog: shares collected, what they opened, and merged
                \* (history): the tasks of a merge that began with none under way
    ideal,      \* history: the store, had every operation run by itself
    overtaken,  \* history: one wrote over what another had written meanwhile
    blind       \* history: one took credentials it could not read for none

storeVars == <<stored, tabKey, salts, tasks, kit, hidesValue, recovery, ideal, overtaken, blind>>

NoKey == [pass |-> "none", salt |-> 0]
LegacyKey(p) == [pass |-> p, salt |-> 0]     \* the iterations of version 1

\* The credentials in the store; each one: what is known of its proof
Proofs == {"unproved", "proved"}
Blank == [c \in {} |-> "unproved"]
Plain(cs) == [form |-> "plain", key |-> NoKey, creds |-> cs]
Sealed(cs, k) == [form |-> "sealed", key |-> k, creds |-> cs]
Empty == [form |-> "none", key |-> NoKey, creds |-> Blank]

NoRecovery == [shares |-> {}, opened |-> FALSE, restored |-> FALSE, merged |-> {}]
NoKit == [made |-> FALSE, creds |-> Blank, whole |-> TRUE]

StoreInit ==
    /\ \E cs \in {Blank} \cup [Commitments -> {"unproved"}] :
          /\ stored \in {IF cs = Blank THEN Empty ELSE Plain(cs)} \cup {Sealed(cs, LegacyKey(p)) : p \in Passphrases}
          /\ ideal = cs
    /\ tabKey = [t \in Tabs |-> NoKey] /\ salts = 0 /\ tasks = <<>>
    /\ kit = NoKit /\ hidesValue = FALSE /\ recovery = NoRecovery
    /\ overtaken = FALSE /\ blind = FALSE

---------------------------------------------------------------------------
\* The operations: functions from credentials to credentials
Save(cs, c, proof) == [x \in DOMAIN cs \cup {c} |-> IF x = c THEN proof ELSE cs[x]]
Mark(cs, marked) == [x \in DOMAIN cs |-> IF x \in marked THEN "proved" ELSE cs[x]]
Removed(cs, c) == [x \in DOMAIN cs \ {c} |-> cs[x]]

Apply(task, cs) ==
    CASE task.op = "save" -> Save(cs, task.of, task.proof)
      [] task.op = "mark" -> Mark(cs, {task.of})
      [] task.op = "remove" -> Removed(cs, task.of)
      [] task.op = "wipe" -> Blank
      [] OTHER -> cs

Task(t, op, c, proof) ==
    [tab |-> t, op |-> op, of |-> c, proof |-> proof, pass |-> "none",
     at |-> "reading", raw |-> stored, key |-> tabKey[t], creds |-> Blank]

\* loadCredentials: of a sealed store only with the key that opens it
Readable(task) == task.raw.form # "sealed" \/ task.raw.key = task.key
\* (Faulty: an envelope is taken for the old format, which nobody can read)
LoadedPlain(task) == IF task.raw.form = "sealed" THEN Blank ELSE task.raw.creds

Loaded(task) == IF Readable(task) THEN task.raw.creds ELSE Blank

\* Between two awaits of cryptography, the tab does nothing else
AwaitsCrypto(task) ==
    \/ task.at \in {"deriving", "sealing"}
    \/ task.at = "reading" /\ task.raw.form = "sealed" /\ task.key # NoKey
Idle(t) == \A i \in DOMAIN tasks :
    tasks[i].tab = t => tasks[i].at = "over" \/ AwaitsCrypto(tasks[i])

\* The first of the tab's tasks that are ready to go on, or an answer of crypto
Resumes(i) ==
    /\ tasks[i].at # "over"
    /\ ~AwaitsCrypto(tasks[i]) =>
          \A j \in 1..(i - 1) : tasks[j].tab = tasks[i].tab =>
              tasks[j].at = "over" \/ AwaitsCrypto(tasks[j])
    /\ AwaitsCrypto(tasks[i]) => Idle(tasks[i].tab)

Begins(new) ==
    /\ Len(tasks) + Len(new) <= MaxTasks
    /\ tasks' = tasks \o new

TaskAt(i, next) == tasks' = [tasks EXCEPT ![i] = next]
Over(i) == TaskAt(i, [tasks[i] EXCEPT !.at = "over", !.raw = Empty, !.key = NoKey, !.creds = Blank])

\* setItem: the others have not read it
Writes(i, value) ==
    /\ stored' = value
    /\ overtaken' = (overtaken \/ tasks[i].raw # stored)
    /\ ideal' = Apply(tasks[i], ideal)

---------------------------------------------------------------------------
\* saveCredential, markProved, removeCredential, begun by handlers of a tab

\* One operation: the issuer page, the import panel, the proof that was confirmed
BeginOne(t) ==
    /\ Idle(t)
    /\ \E c \in Commitments, op \in {"save", "mark", "remove"} :
          Begins(<<Task(t, op, c, "unproved")>>)
    /\ UNCHANGED <<stored, tabKey, salts, kit, hidesValue, recovery, ideal, overtaken, blind>>

\* handleSuccess and GetCredentialStep: all the credentials of an answer at once
BeginAll(t) ==
    /\ Idle(t)
    /\ LET cs == SetToSeq(Commitments) IN
       Begins([n \in DOMAIN cs |-> Task(t, "save", cs[n], "unproved")])
    /\ UNCHANGED <<stored, tabKey, salts, kit, hidesValue, recovery, ideal, overtaken, blind>>

\* The load answers: compute, then seal under the cached key or write
Change(i) ==
    LET task == tasks[i]
        next == Apply(task, Loaded(task))
    IN
    /\ task.op \in {"save", "mark", "remove"} /\ task.at = "reading" /\ Resumes(i)
    /\ blind' = (blind \/ ~Readable(task))
    /\ IF tabKey[task.tab] = NoKey
       THEN Writes(i, Plain(next)) /\ Over(i)
       ELSE /\ TaskAt(i, [task EXCEPT !.at = "sealing", !.creds = next, !.key = tabKey[task.tab]])
            /\ UNCHANGED <<stored, ideal, overtaken>>
    /\ UNCHANGED <<tabKey, salts, kit, hidesValue, recovery>>

\* serializeEncrypted answers
WriteSealed(i) ==
    /\ tasks[i].at = "sealing" /\ Resumes(i)
    /\ Writes(i, Sealed(tasks[i].creds, tasks[i].key)) /\ Over(i)
    /\ UNCHANGED <<tabKey, salts, kit, hidesValue, recovery, blind>>

---------------------------------------------------------------------------
\* unlockCredentialStore, lockCredentialStore

BeginUnlock(t, p) ==
    /\ Idle(t)
    /\ Begins(<<[Task(t, "unlock", CHOOSE c \in Commitments : TRUE, "unproved") EXCEPT
                    !.pass = p, !.at = "deriving"]>>)
    /\ UNCHANGED <<stored, tabKey, salts, kit, hidesValue, recovery, ideal, overtaken, blind>>

\* setFreshKey
FreshKey(i) ==
    /\ salts < MaxSalts /\ salts' = salts + 1
    /\ tabKey' = [tabKey EXCEPT ![tasks[i].tab] = [pass |-> tasks[i].pass, salt |-> salts']]

\* The passphrase opens the envelope: its key is the tab's, and an envelope of
\* version 1 is sealed anew.  It does not: a fresh key all the same.
Unlock(i) ==
    LET task == tasks[i]
        opens == task.raw.form = "sealed" /\ task.raw.key.pass = task.pass
    IN
    /\ task.at = "deriving" /\ Resumes(i)
    /\ IF opens /\ task.raw.key.salt # 0
       THEN tabKey' = [tabKey EXCEPT ![task.tab] = task.raw.key] /\ UNCHANGED salts
       ELSE FreshKey(i)
    /\ IF opens /\ task.raw.key.salt = 0
       THEN TaskAt(i, [task EXCEPT !.at = "sealing", !.creds = task.raw.creds,
                          !.key = tabKey'[task.tab]])
       ELSE Over(i)
    /\ UNCHANGED <<stored, kit, hidesValue, recovery, ideal, overtaken, blind>>

Lock(t) ==
    /\ Idle(t) /\ tabKey[t] # NoKey
    /\ tabKey' = [tabKey EXCEPT ![t] = NoKey]
    /\ UNCHANGED <<stored, salts, tasks, kit, hidesValue, recovery, ideal, overtaken, blind>>

---------------------------------------------------------------------------
\* wipeAllData: the backup is downloaded first, then everything goes

BeginWipe(t) ==
    /\ Idle(t)
    /\ Begins(<<Task(t, "wipe", CHOOSE c \in Commitments : TRUE, "unproved")>>)
    /\ UNCHANGED <<stored, tabKey, salts, kit, hidesValue, recovery, ideal, overtaken, blind>>

WipeStore(i) ==
    /\ tasks[i].op = "wipe" /\ tasks[i].at = "reading" /\ Resumes(i)
    /\ Writes(i, Empty) /\ Over(i)
    /\ tabKey' = [tabKey EXCEPT ![tasks[i].tab] = NoKey]
    /\ hidesValue' = FALSE
    /\ UNCHANGED <<salts, kit, recovery, blind>>

---------------------------------------------------------------------------
\* Guardian recovery

ChangeVisibility ==
    /\ hidesValue' = ~hidesValue
    /\ UNCHANGED <<stored, tabKey, salts, tasks, kit, recovery, ideal, overtaken, blind>>

BeginBackup(t) ==
    /\ Idle(t) /\ ~kit.made
    /\ Begins(<<Task(t, "backup", CHOOSE c \in Commitments : TRUE, "unproved")>>)
    /\ UNCHANGED <<stored, tabKey, salts, kit, hidesValue, recovery, ideal, overtaken, blind>>

\* createGuardianRecoverySetup: what the visibility settings let through
MakeBackup(i) ==
    /\ tasks[i].op = "backup" /\ tasks[i].at = "reading" /\ Resumes(i)
    /\ kit' = [made |-> TRUE, creds |-> Loaded(tasks[i]), whole |-> ~hidesValue]
    /\ Over(i)
    /\ UNCHANGED <<stored, tabKey, salts, hidesValue, recovery, ideal, overtaken, blind>>

\* addShareFromText refuses a guardian's second share; handleRemoveShare
AddShare(g) ==
    /\ kit.made /\ g \notin recovery.shares /\ ~recovery.opened
    /\ recovery' = [recovery EXCEPT !.shares = @ \cup {g}]
    /\ UNCHANGED <<stored, tabKey, salts, tasks, kit, hidesValue, ideal, overtaken, blind>>

RemoveShare(g) ==
    /\ g \in recovery.shares /\ ~recovery.opened
    /\ recovery' = [recovery EXCEPT !.shares = @ \ {g}]
    /\ UNCHANGED <<stored, tabKey, salts, tasks, kit, hidesValue, ideal, overtaken, blind>>

\* combineShares gives the key that splitSecret split
Reconstructs(shares) == Cardinality(shares) >= Threshold

\* parseCredential refuses a credential without its value
Parses(k) == k.whole \/ DOMAIN k.creds = {}

\* recoverCredentialsFromShares
RecoverFromShares ==
    /\ kit.made /\ ~recovery.opened
    /\ Reconstructs(recovery.shares) /\ Parses(kit)
    /\ recovery' = [recovery EXCEPT !.opened = TRUE]
    /\ UNCHANGED <<stored, tabKey, salts, tasks, kit, hidesValue, ideal, overtaken, blind>>

\* handleApplyRestore, "replace": the item is written, sealed or not before
RestoreReplacing(t) ==
    /\ Idle(t) /\ recovery.opened /\ ~recovery.restored
    /\ stored' = Plain(kit.creds) /\ ideal' = kit.creds
    /\ recovery' = [recovery EXCEPT !.restored = TRUE]
    /\ UNCHANGED <<tabKey, salts, tasks, kit, hidesValue, overtaken, blind>>

\* handleApplyRestore, "merge": a save of each credential, none awaited
RestoreMerging(t) ==
    /\ Idle(t) /\ recovery.opened /\ ~recovery.restored
    /\ LET cs == SetToSeq(DOMAIN kit.creds) IN
       Begins([n \in DOMAIN cs |-> Task(t, "save", cs[n], kit.creds[cs[n]])])
    /\ recovery' = [recovery EXCEPT !.restored = TRUE,
           !.merged = IF \A i \in DOMAIN tasks : tasks[i].at = "over"
                      THEN DOMAIN tasks' \ DOMAIN tasks ELSE {}]
    /\ UNCHANGED <<stored, tabKey, salts, kit, hidesValue, ideal, overtaken, blind>>

StoreNext ==
    \/ \E t \in Tabs :
          \/ BeginOne(t) \/ BeginAll(t) \/ Lock(t) \/ BeginWipe(t) \/ BeginBackup(t)
          \/ RestoreReplacing(t) \/ RestoreMerging(t)
          \/ \E p \in Passphrases : BeginUnlock(t, p)
    \/ \E i \in DOMAIN tasks :
          Change(i) \/ WriteSealed(i) \/ Unlock(i) \/ WipeStore(i) \/ MakeBackup(i)
    \/ ChangeVisibility \/ RecoverFromShares
    \/ \E g \in Guardians : AddShare(g) \/ RemoveShare(g)

StoreSpec == StoreInit /\ [][StoreNext]_storeVars
---------------------------------------------------------------------------
\* saveCredential and its siblings: as long as no operation wrote over what
\* another had written since it read, and none met a store it had no key for,
\* the store holds exactly what the operations made of it in their order,
\* whatever was locked, unlocked, migrated, wiped or restored in between.
SavesInTurnAreKept == ~overtaken /\ ~blind => stored.creds = ideal

\* "Merge with existing local credentials": once the saves of a merge are over, and
\* no operation of any tab was under way when it began or has begun since, every
\* credential recovered is in the store.  handleApplyRestore awaits none of its saves,
\* so that all of them read the store before the first writes it.
MergeRestoresAll ==
    /\ recovery.merged # {} /\ \A i \in DOMAIN tasks : tasks[i].at = "over"
    /\ Len(tasks) \in recovery.merged
    => DOMAIN kit.creds \subseteq DOMAIN stored.creds
=============================================================================
