----------------------------- MODULE Backfill -----------------------------
(***************************************************************************)
(* The operator's backfill command beside the live indexer: a process of   *)
(* its own that pages through a range of ledgers and writes into the same  *)
(* claims table.  It keeps a checkpoint file, replaced atomically after    *)
(* each page; a run that dies is resumed from it.                          *)
(***************************************************************************)
EXTENDS Ingester

CONSTANTS BatchSize   \* --batch-size

ASSUME BackfillAssumption == BatchSize \in Nat \ {0}

VARIABLES
    checkpoint,  \* the file: NoFile or the last checkpoint written
    job,         \* the running process: NoJob or its copy of the checkpoint
    page         \* the events of the current page still to write

backfillVars == <<checkpoint, job, page>>
allVars == <<indexerVars, backfillVars>>

NoFile == [done |-> TRUE, from |-> 0, to |-> 0, at |-> 0]
Job(file, runs) == [running |-> runs, from |-> file.from, to |-> file.to, at |-> file.at]
NoJob == Job(NoFile, FALSE)

\* `at` is the paging token: how many events of the chain the run is past
NoPage == [fetched |-> FALSE, left |-> <<>>, short |-> FALSE]

BackfillInit ==
    /\ checkpoint = NoFile
    /\ job = NoJob
    /\ page = NoPage

CompositionInit == IndexerInit /\ BackfillInit

\* A finished or absent checkpoint lets a new range start; an unfinished one
\* makes the command throw
StartBackfill(from, to) ==
    /\ job = NoJob
    /\ checkpoint.done
    /\ from <= to /\ to <= head - FinalityLag
    /\ LET fresh == [done |-> FALSE, from |-> from, to |-> to,
                     at |-> Until(chain, from - 1)]
       IN  checkpoint' = fresh /\ job' = Job(fresh, TRUE)
    /\ page' = NoPage
    /\ UNCHANGED indexerVars

ResumeBackfill ==
    /\ job = NoJob
    /\ ~checkpoint.done
    /\ job' = Job(checkpoint, TRUE)
    /\ page' = NoPage
    /\ UNCHANGED <<indexerVars, checkpoint>>

\* The next BatchSize events after the token, whatever their ledger
FetchBatch ==
    /\ job.running /\ ~page.fetched
    /\ LET events == SubSeq(chain, job.at + 1, Smaller(job.at + BatchSize, Len(chain)))
       IN  page' = [fetched |-> TRUE, left |-> events, short |-> Len(events) < BatchSize]
    /\ UNCHANGED <<indexerVars, checkpoint, job>>

\* One event written (no webhook is enqueued); the token moves in memory only
BackfillEvent ==
    /\ job.running /\ page.fetched /\ page.left # <<>>
    /\ Head(page.left).ledger <= job.to
    /\ claims' = ApplyEvent(claims, Head(page.left))
    /\ job' = [job EXCEPT !.at = @ + 1]
    /\ page' = [page EXCEPT !.left = Tail(@)]
    /\ UNCHANGED <<cursor, tickVars, errors, faults, chainVars, outboxVars, checkpoint>>

\* (Faulty: a full page is taken for the end of the range)
ReachedEndEarly == TRUE

\* The page is written or leaves the range: the checkpoint is replaced
ReachedEnd == page.short \/ page.left # <<>>

SaveCheckpoint ==
    /\ job.running /\ page.fetched
    /\ page.left # <<>> => Head(page.left).ledger > job.to
    /\ checkpoint' = [done |-> ReachedEnd, from |-> job.from, to |-> job.to, at |-> job.at]
    /\ job' = IF ReachedEnd THEN NoJob ELSE job
    /\ page' = NoPage
    /\ UNCHANGED indexerVars

\* A request that fails for good, or the process dying: the page is forgotten
BackfillDies ==
    /\ job.running
    /\ Fault
    /\ job' = NoJob
    /\ page' = NoPage
    /\ UNCHANGED <<claims, cursor, tickVars, errors, chainVars, outboxVars, checkpoint>>

\* Where an operator begins: anywhere, or where the last range ended
OperatorRanges == IF setup.overlap THEN 1..head ELSE {checkpoint.to + 1}

BackfillNext ==
    \/ \E from \in OperatorRanges, to \in 1..head : StartBackfill(from, to)
    \/ ResumeBackfill
    \/ FetchBatch
    \/ BackfillEvent
    \/ SaveCheckpoint
    \/ BackfillDies

CompositionNext ==
    \/ setup.live /\ IndexerNext /\ UNCHANGED backfillVars
    \/ ~setup.live /\ LedgerCloses /\ UNCHANGED <<ingesterVars, outboxVars, backfillVars>>
    \/ setup.backfill /\ BackfillNext

CompositionSpec ==
    /\ CompositionInit /\ [][CompositionNext]_allVars
    /\ WF_allVars(setup.live /\ Tick /\ UNCHANGED backfillVars)
    /\ WF_allVars(setup.live /\ Outside(UNCHANGED faults /\ Deliver) /\ UNCHANGED backfillVars)
    /\ WF_allVars(/\ setup.live
                  /\ Outside(UNCHANGED faults /\ \E d \in deliveries : BackoffElapses(Id(d)))
                  /\ UNCHANGED backfillVars)
---------------------------------------------------------------------------
\* Through deaths in the middle of a page and resumption: the events after the
\* checkpoint's token are all that the table still misses of the ranges asked
\* for, so a checkpoint marked done means that they are in the table.  (While
\* the live service is off and ranges follow one another.)
BackfillResumable ==
    (~setup.live /\ ~setup.overlap) =>
        LET range == UpTo(chain, checkpoint.to) IN
        /\ checkpoint.done => checkpoint.at >= Len(range)
        /\ Replay(claims, range, checkpoint.at) = Replay({}, range, 0)

\* Overlapping a range the live loop already covered is safe: what the backfill
\* leaves when it is done is what the chain says.
OverlapIsSafe ==
    (checkpoint # NoFile /\ checkpoint.done) => NothingLostBehindCursor
===========================================================================
