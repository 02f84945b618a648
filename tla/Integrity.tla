----------------------------- MODULE Integrity -----------------------------
(***************************************************************************)
(* The indexer's integrity checker: passes that sample the claims table in *)
(* turn, read each sampled claim's record from the contract and report how *)
(* they differ.  The table is written by the ingester meanwhile, the       *)
(* contract's records by everybody.                                        *)
(***************************************************************************)
EXTENDS Integers, Sequences, FiniteSets, SequencesExt

CONSTANTS
    RecordKeys,   \* <<wallet, credential type>>
    MaxId,        \* bound: rows ever inserted
    SampleSize,   \* INTEGRITY_CHECK_SAMPLE_SIZE
    RecordThresholds,   \* thresholds that proofs state, among them NoThreshold
    NoThreshold,
    RecordExpiries,     \* expiries claims carry: 0 none, 1 the later of two times
    Absent

ASSUME IntegrityAssumption == MaxId \in Nat /\ SampleSize \in Nat \ {0}

VARIABLES
    rows,      \* id -> row, or Absent
    lastId,    \* highest id given out
    records,   \* key -> ProofRecord in contract storage, or Absent
    chainTime, \* the newest ledger's close time: 0, or 1 when claims have expired
    sampleAt,  \* data_integrity_state.last_claim_id
    pass,      \* the pass in flight
    callers,   \* who awaits it: "timer", "operator"
    timer,     \* is the next pass scheduled?
    report,    \* of the last pass that ended
    waited     \* history: id -> samplings since the row was inserted or sampled

integrityVars == <<rows, lastId, records, chainTime, sampleAt, pass, callers,
                   timer, report, waited>>

NoPass == [at |-> "off"]
Ids == 1..MaxId
Present == {i \in Ids : rows[i] # Absent}

IntegrityInit ==
    /\ rows = [i \in Ids |-> Absent]
    /\ lastId = 0
    /\ records = [k \in RecordKeys |-> Absent]
    /\ chainTime = 0
    /\ sampleAt = 0
    /\ pass = NoPass
    /\ callers = {}
    /\ timer = TRUE
    /\ report = [complete |-> FALSE, mismatches |-> 0]
    /\ waited = [i \in Ids |-> 0]

checkerVars == <<sampleAt, pass, callers, timer, report>>

\* What the ingester writes for a record whose events it has processed
IndexedRow(key, record) ==
    [key |-> key, revoked |-> record.revoked, expiry |-> record.expiry,
     threshold |-> NoThreshold]

ContractVerifies(key) ==
    /\ chainTime = 0
    /\ \E x \in RecordExpiries, h \in RecordThresholds :
          records' = [records EXCEPT ![key] = [revoked |-> FALSE, expiry |-> x, threshold |-> h]]
    /\ UNCHANGED <<rows, lastId, chainTime, checkerVars, waited>>

ContractRevokes(key) ==
    /\ records[key] # Absent /\ ~records[key].revoked
    /\ records' = [records EXCEPT ![key].revoked = TRUE]
    /\ UNCHANGED <<rows, lastId, chainTime, checkerVars, waited>>

\* The entry of an expired claim may be evicted from storage
TimeEvicts ==
    /\ chainTime' = 1
    /\ \E gone \in SUBSET {k \in RecordKeys : records[k] # Absent /\ records[k].expiry = 1} :
          records' = [k \in RecordKeys |-> IF k \in gone THEN Absent ELSE records[k]]
    /\ UNCHANGED <<rows, lastId, checkerVars, waited>>

\* The ingester reaches the events of a key: a row keeps its id when upserted
IndexerCatchesUp(key) ==
    /\ records[key] # Absent
    /\ LET old == {i \in Present : rows[i].key = key} IN
       IF old # {}
       THEN /\ rows' = [i \in Ids |-> IF i \in old THEN IndexedRow(key, records[key]) ELSE rows[i]]
            /\ UNCHANGED <<lastId, waited>>
       ELSE /\ lastId < MaxId
            /\ lastId' = lastId + 1
            /\ rows' = [rows EXCEPT ![lastId + 1] = IndexedRow(key, records[key])]
            /\ waited' = [waited EXCEPT ![lastId + 1] = 0]
    /\ UNCHANGED <<records, chainTime, checkerVars>>

\* reconcile: rows above the reorganisation point are deleted
RowRolledBack(id) ==
    /\ id \in Present
    /\ rows' = [rows EXCEPT ![id] = Absent]
    /\ waited' = [waited EXCEPT ![id] = 0]
    /\ UNCHANGED <<lastId, records, chainTime, checkerVars>>

\* run(): a second caller gets the promise of the pass in flight
RunPass(who) ==
    /\ who \notin callers
    /\ who = "timer" => timer
    /\ callers' = callers \cup {who}
    /\ timer' = (timer /\ who # "timer")
    /\ pass' = IF pass = NoPass THEN [at |-> "clock"] ELSE pass
    /\ UNCHANGED <<rows, lastId, records, chainTime, sampleAt, report, waited>>

\* The next SampleSize ids after the cursor, topped up from the start
AfterCursor == {i \in Present : i > sampleAt}

FirstOf(ids, n) == {i \in ids : Cardinality({j \in ids : j < i}) < n}

Onward == FirstOf(AfterCursor, SampleSize)

\* (Faulty: the sweep does not begin again at the start)
SweepStopsAtEnd == {}

FromStart ==
    IF Cardinality(Onward) < SampleSize /\ sampleAt > 0
    THEN FirstOf(Present \ AfterCursor, SampleSize - Cardinality(Onward))
    ELSE {}

Sample == Onward \cup FromStart
ReadingOrder == SetToSortSeq(Onward, <) \o SetToSortSeq(FromStart, <)

GreatestOf(ids) == CHOOSE i \in ids : \A j \in ids : j <= i

CursorAfter ==
    IF Sample = {} THEN sampleAt ELSE GreatestOf(IF FromStart # {} THEN FromStart ELSE Onward)

\* The chain's clock, or the host's when it cannot be read, then the sample
\* and its cursor
TakeSample(clock) ==
    /\ pass.at = "clock"
    /\ sampleAt' = CursorAfter
    /\ pass' = [at |-> "reading", now |-> clock, unreadable |-> 0, mismatches |-> 0,
                left |-> [n \in DOMAIN ReadingOrder |-> rows[ReadingOrder[n]]]]
    /\ waited' = [i \in Ids |-> IF i \in Sample THEN 0
                                ELSE IF i \in Present THEN waited[i] + 1 ELSE waited[i]]
    /\ UNCHANGED <<rows, lastId, records, chainTime, callers, timer, report>>

\* The kinds of verifying time and issuer are left out: rows and records of the model
\* have neither field
Compare(row, record, clock) ==
    IF record = Absent
    THEN IF row.expiry > 0 /\ row.expiry <= clock THEN {} ELSE {"missing_on_chain"}
    ELSE {kind \in {"revoked_on_chain", "revoked_in_index", "expiry_mismatch",
                    "threshold_mismatch"} :
            \/ kind = "revoked_on_chain"   /\ record.revoked /\ ~row.revoked
            \/ kind = "revoked_in_index"   /\ row.revoked /\ ~record.revoked
            \/ kind = "expiry_mismatch"    /\ row.expiry # record.expiry
            \/ kind = "threshold_mismatch" /\ row.threshold # record.threshold}

ReadRecord ==
    /\ pass.at = "reading" /\ pass.left # <<>>
    /\ LET row == Head(pass.left) IN
       pass' = [pass EXCEPT !.left = Tail(@), !.mismatches =
                  IF Compare(row, records[row.key], pass.now) = {} THEN @ ELSE @ + 1]
    /\ UNCHANGED <<rows, lastId, records, chainTime, sampleAt, callers, timer, report, waited>>

ReadFails ==
    /\ pass.at = "reading" /\ pass.left # <<>>
    /\ pass' = [pass EXCEPT !.unreadable = @ + 1, !.left = Tail(@)]
    /\ UNCHANGED <<rows, lastId, records, chainTime, sampleAt, callers, timer, report, waited>>

\* The report, the metrics; the timer is armed again if it was waiting
PassEnds ==
    /\ pass.at = "reading" /\ pass.left = <<>>
    /\ report' = [complete |-> pass.unreadable = 0, mismatches |-> pass.mismatches]
    /\ pass' = NoPass
    /\ timer' = (timer \/ "timer" \in callers)
    /\ callers' = {}
    /\ UNCHANGED <<rows, lastId, records, chainTime, sampleAt, waited>>

IntegrityNext ==
    \/ \E k \in RecordKeys : ContractVerifies(k) \/ ContractRevokes(k) \/ IndexerCatchesUp(k)
    \/ TimeEvicts
    \/ \E i \in Ids : RowRolledBack(i)
    \/ \E who \in {"timer", "operator"} : RunPass(who)
    \/ \E clock \in {0, chainTime} : TakeSample(clock)
    \/ ReadRecord
    \/ ReadFails
    \/ PassEnds

IntegritySpec == IntegrityInit /\ [][IntegrityNext]_integrityVars
---------------------------------------------------------------------------
\* "Successive passes sweep the whole table": while rows are inserted, upserted
\* and rolled back and passes overlap, no row is passed over longer than one
\* sweep of all ids ever given out.
SampledInTurn == \A i \in Present : waited[i] * SampleSize < MaxId

\* A row that says all its claim's events said is reported as no disagreement.
InSyncIsSilent ==
    \A i \in Present :
        LET record == records[rows[i].key] IN
        record # Absent =>
            (rows[i] = IndexedRow(rows[i].key, record) => Compare(rows[i], record, chainTime) = {})
===========================================================================
