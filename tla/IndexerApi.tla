----------------------------- MODULE IndexerApi -----------------------------
(***************************************************************************)
(* The indexer's query API: a client reads the claims page by page, by     *)
(* /recent or by the GraphQL query, while the ingester inserts, updates    *)
(* and rolls back rows.                                                    *)
(***************************************************************************)
EXTENDS Integers, FiniteSets

CONSTANTS
    RowIds,      \* claims.id: 1..n
    RowLedgers,  \* claims.ledger_sequence
    PageSize,    \* the reader's limit
    NoRow

ASSUME ApiAssumption ==
    PageSize \in Nat \ {0} /\ RowIds \subseteq Nat \ {0} /\ RowLedgers \subseteq Nat

VARIABLES
    table,     \* id -> [ledger, revoked], or NoRow
    nextId,
    reader,    \* the client's progress
    untouched  \* history: ids listed when the read began and not written since

apiVars == <<table, nextId, reader, untouched>>

Rows == {i \in RowIds : table[i] # NoRow}

NoReader == [at |-> "idle", recent |-> TRUE, cursor |-> <<0, 0>>, seen |-> {}, again |-> {}]

ApiInit ==
    /\ table = [i \in RowIds |-> NoRow]
    /\ nextId = 1
    /\ reader = NoReader
    /\ untouched = {}

\* Writes of the ingester

InsertRow(ledger) ==
    /\ nextId \in RowIds
    /\ table' = [table EXCEPT ![nextId] = [ledger |-> ledger, revoked |-> FALSE]]
    /\ nextId' = nextId + 1
    /\ UNCHANGED <<reader, untouched>>

WriteRow(id, row) ==
    /\ id \in Rows
    /\ table' = [table EXCEPT ![id] = row]
    /\ untouched' = untouched \ {id}
    /\ UNCHANGED <<nextId, reader>>

\* upsertClaim moves the row to its new ledger, revokeClaim leaves it there
UpsertRow(id, ledger) == WriteRow(id, [ledger |-> ledger, revoked |-> FALSE])
RevokeRow(id) == WriteRow(id, [table[id] EXCEPT !.revoked = TRUE])
DeleteRow(id) == WriteRow(id, NoRow)

\* Reads of a client

Listed(recent) == {i \in Rows : recent => ~table[i].revoked}

Before(a, b) == a[1] > b[1] \/ (a[1] = b[1] /\ a[2] > b[2])
Place(id) == <<table[id].ledger, id>>

StartRead(recent) ==
    /\ reader.at # "reading"
    /\ reader' = [NoReader EXCEPT !.at = "reading", !.recent = recent]
    /\ untouched' = Listed(recent)
    /\ UNCHANGED <<table, nextId>>

\* (Faulty: the cursor resumes below the ledger of the last row)
RowsAfterLedger(recent, cursor) ==
    {i \in Listed(recent) : cursor = <<0, 0>> \/ cursor[1] > table[i].ledger}

RowsAfter(recent, cursor) ==
    {i \in Listed(recent) : cursor = <<0, 0>> \/ Before(cursor, Place(i))}

\* ORDER BY ledger_sequence DESC, id DESC LIMIT: the first of what is left
FirstPage(ids) ==
    {i \in ids : Cardinality({j \in ids : Before(Place(j), Place(i))}) < PageSize}

LastRow(page) == CHOOSE i \in page : \A j \in page : ~Before(Place(i), Place(j))

ReadPage ==
    /\ reader.at = "reading"
    /\ LET rest == RowsAfter(reader.recent, reader.cursor)
           page == FirstPage(rest)
       IN reader' = [reader EXCEPT
            !.at = IF Cardinality(rest) > PageSize THEN "reading" ELSE "done",
            !.cursor = IF page = {} THEN @ ELSE Place(LastRow(page)),
            !.seen = @ \cup page,
            !.again = @ \cup (reader.seen \cap page)]
    /\ UNCHANGED <<table, nextId, untouched>>

ApiNext ==
    \/ \E l \in RowLedgers : InsertRow(l) \/ \E i \in RowIds : UpsertRow(i, l)
    \/ \E i \in Rows : RevokeRow(i) \/ DeleteRow(i)
    \/ \E recent \in BOOLEAN : StartRead(recent)
    \/ ReadPage

ApiSpec == ApiInit /\ [][ApiNext]_apiVars
---------------------------------------------------------------------------
\* A client that reads to the last page has seen exactly once each row listed
\* when it began and not written since, whatever happened to the others.
PagesCoverUntouched ==
    reader.at = "done" => untouched \subseteq reader.seen \ reader.again
===========================================================================
