----------------------------- MODULE Ingester -----------------------------
(***************************************************************************)
(* The indexer service: the polling loop of ingester.ts over the claims    *)
(* table, the ledger cursor and the webhook outbox.  A tick is one         *)
(* sequence of awaits; between any two of them the chain may grow or fork, *)
(* an operator may change subscriptions, and the process may die, which    *)
(* loses everything but the database.                                      *)
(***************************************************************************)
EXTENDS WebhookOutbox

-----------------------------------------------------------------------------
RawEvent ==
    [topic: {"submitted", "verified", "revoked", "self_rev"}, key: Keys, expiry: Nat,
     missing: SUBSET {"holder", "issuer"}, foreign: BOOLEAN]

\* The network as the indexer reads it through Horizon (external): a chain of
\* ledgers that grows, whose unsettled end may be replaced, and replicas that
\* answer with a chain a few ledgers old.  A paging token is ledger * 100_000, so
\* "after the token of ledger n" means "in a ledger above n".
CONSTANTS
    Setups,    \* the instances a run explores: bounds and configuration
    MaxReorg,  \* no ledger that has this many above it is replaced
    MaxStale   \* how many ledgers a replica may be behind

ASSUME ChainAssumption ==
    /\ MaxReorg \in Nat /\ MaxStale \in Nat
    /\ \A s \in Setups : /\ s.ledgers \in Nat   \* bound: ledgers closed
                         /\ s.forks \in Nat     \* bound: replacements of the chain's end
                         /\ s.faults \in Nat    \* bound: faults together
                         /\ s.hooks \in BOOLEAN \* WEBHOOK_SIGNING_SECRET is set
                         /\ s.live \in BOOLEAN  \* the service runs
                         /\ s.backfill \in BOOLEAN  \* the operator backfills
                         /\ s.overlap \in BOOLEAN   \* ranges that may overlap
                         \* the sequences of events a ledger may carry
                         /\ s.contents \subseteq Seq(RawEvent)

VARIABLES
    setup,    \* the instance, picked once
    chain,    \* the events of the ledgers closed so far, in their order
    head,     \* number of the last ledger closed
    settled,  \* last ledger that no fork can replace any more
    forks     \* replacements so far

chainVars == <<setup, chain, head, settled, forks>>

Larger(a, b) == IF a >= b THEN a ELSE b
Smaller(a, b) == IF a <= b THEN a ELSE b

ChainInit ==
    /\ setup \in Setups
    /\ chain = <<>>
    /\ head = 0
    /\ settled = 0
    /\ forks = 0

\* An event with the ledger and the transaction it is found in
Event(raw, at, tx) ==
    [topic |-> raw.topic, key |-> raw.key, expiry |-> raw.expiry, missing |-> raw.missing,
     foreign |-> raw.foreign, ledger |-> at, tx |-> tx]

LedgerCloses ==
    /\ head < setup.ledgers
    /\ head' = head + 1
    /\ \E body \in setup.contents :
          chain' = chain \o
              [i \in 1..Len(body) |-> Event(body[i], head + 1, <<forks, head + 1, i>>)]
    /\ settled' = Larger(settled, head + 1 - MaxReorg)
    /\ UNCHANGED <<setup, forks>>

\* How many of the events are in the ledgers up to n, and these events
Until(events, n) ==
    CHOOSE m \in 0..Len(events) : \A i \in DOMAIN events : i <= m <=> events[i].ledger <= n

UpTo(events, n) == SubSeq(events, 1, Until(events, n))

\* The ledgers above p are gone; others will be closed in their place
Fork ==
    /\ forks < setup.forks
    /\ \E p \in settled..(head - 1) :
          /\ head' = p
          /\ chain' = UpTo(chain, p)
    /\ forks' = forks + 1
    /\ UNCHANGED <<setup, settled>>

\* Heads that some replica may report
ReplicaHeads == Larger(0, head - MaxStale)..head

-----------------------------------------------------------------------------
\* The service.
CONSTANTS
    FinalityLag,  \* config.finalityLag
    PageLimit,    \* events Horizon returns per request (200)
    CrashDuringRollback  \* may the process die inside reconcile?

ASSUME IngesterAssumption ==
    /\ FinalityLag \in Nat /\ PageLimit \in Nat \ {0}
    /\ CrashDuringRollback \in BOOLEAN

VARIABLES
    cursor,    \* ledger_cursor.last_ledger
    phase,     \* where the tick is
    ceiling,   \* the finality ceiling of this tick, or the point of a rollback
    batch,     \* events of this tick still to write
    top,       \* highest ledger among the events of this tick
    errors,    \* health.consecutiveErrors
    faults     \* faults so far

tickVars == <<phase, ceiling, batch, top>>
ingesterVars == <<claims, cursor, tickVars, errors, faults>>
indexerVars == <<ingesterVars, chainVars, outboxVars>>

IngesterInit ==
    /\ claims = {}
    /\ cursor = 0
    /\ phase = "idle"
    /\ ceiling = 0
    /\ batch = <<>>
    /\ top = 0
    /\ errors = 0
    /\ faults = 0

IndexerInit == ChainInit /\ OutboxInit /\ IngesterInit

Fault ==
    /\ faults < setup.faults
    /\ faults' = faults + 1

ProcessWebhookQueue(next) ==
    IF setup.hooks THEN phase' = next /\ queue' = "expire"
    ELSE /\ phase' = IF next = "before" THEN "poll" ELSE "idle"
         /\ UNCHANGED queue

TickStarts ==
    /\ phase = "idle"
    /\ ProcessWebhookQueue("before")
    /\ UNCHANGED <<ceiling, batch, top, claims, cursor, errors, faults, chainVars,
                   subs, deliveries, sending, answered, received, clock>>

QueueProcessed ==
    /\ phase \in {"before", "after"}
    /\ queue = "off"
    /\ phase' = IF phase = "before" THEN "poll" ELSE "idle"
    /\ UNCHANGED <<ceiling, batch, top, claims, cursor, errors, faults,
                   chainVars, outboxVars>>

\* getLedgerHead, answered by a replica whose head is h.  The comparison with
\* the cursor comes before the one with the finality ceiling.
SeesReorg(h) == cursor > h

PollHead(h) ==
    /\ phase = "poll"
    /\ IF h < head THEN Fault ELSE UNCHANGED faults
    /\ IF SeesReorg(h)
         THEN phase' = "rollback" /\ ceiling' = h
       ELSE IF h - FinalityLag <= cursor
         THEN phase' = "idle" /\ UNCHANGED ceiling
       ELSE phase' = "fetch" /\ ceiling' = h - FinalityLag
    /\ UNCHANGED <<batch, top, claims, cursor, errors, chainVars, outboxVars>>

\* The catch block around getLedgerHead: health is not touched
PollFails ==
    /\ phase = "poll"
    /\ Fault
    /\ phase' = "idle"
    /\ UNCHANGED <<ceiling, batch, top, claims, cursor, errors, chainVars, outboxVars>>

\* reconcile(head): DELETE, then the cursor, then a new tick
RollBackClaims ==
    /\ phase = "rollback"
    /\ claims' = DeleteAfter(claims, ceiling)
    /\ phase' = "reset"
    /\ UNCHANGED <<ceiling, batch, top, cursor, errors, faults, chainVars, outboxVars>>

RollBackCursor ==
    /\ phase = "reset"
    /\ cursor' = ceiling
    /\ phase' = "idle"
    /\ UNCHANGED <<ceiling, batch, top, claims, errors, faults, chainVars, outboxVars>>

\* (Faulty: the page starts at the ledger before the cursor's)
PageAgain(from) ==
    LET past == Until(chain, from - 1)
    IN  SubSeq(chain, past + 1, Smaller(past + PageLimit, Len(chain)))

\* One page, first PageLimit events after the cursor's token, then filtered
Page(from) ==
    LET past == Until(chain, from)
    IN  SubSeq(chain, past + 1, Smaller(past + PageLimit, Len(chain)))

Final(events) == UpTo(events, ceiling)

\* (Faulty: the cursor moves when the page arrives, before it is written)
FetchMovesCursor ==
    /\ phase = "fetch"
    /\ LET events == Final(Page(cursor)) IN
       /\ batch' = events
       /\ top' = IF events = <<>> THEN cursor ELSE events[Len(events)].ledger
       /\ cursor' = IF events = <<>> THEN cursor ELSE events[Len(events)].ledger
       /\ phase' = IF events = <<>> THEN "idle" ELSE "apply"
    /\ UNCHANGED <<errors, ceiling, claims, faults, chainVars, outboxVars>>

FetchEvents ==
    /\ phase = "fetch"
    /\ LET events == Final(Page(cursor)) IN
       /\ batch' = events
       /\ top' = IF events = <<>> THEN cursor ELSE events[Len(events)].ledger
       /\ phase' = IF events = <<>> THEN "idle" ELSE "apply"
       /\ errors' = IF events = <<>> THEN 0 ELSE errors
    /\ UNCHANGED <<ceiling, claims, cursor, faults, chainVars, outboxVars>>

FetchFails ==
    /\ phase = "fetch"
    /\ Fault
    /\ errors' = errors + 1
    /\ phase' = "idle"
    /\ UNCHANGED <<ceiling, batch, top, claims, cursor, chainVars, outboxVars>>

\* upsertClaim, or revokeClaim (then enqueueWebhookEvent, a step of its own)
WriteEvent ==
    /\ phase = "apply" /\ batch # <<>>
    /\ LET e == Head(batch) IN
       /\ claims' = ApplyEvent(claims, e)
       /\ IF Kind(e) = "revoked" /\ setup.hooks
          THEN phase' = "enqueue" /\ UNCHANGED batch
          ELSE batch' = Tail(batch) /\ UNCHANGED phase
    /\ UNCHANGED <<ceiling, top, cursor, errors, faults, chainVars, outboxVars>>

EnqueueRevocation ==
    /\ phase = "enqueue"
    /\ deliveries' = Enqueued(RevocationEvent(Head(batch)))
    /\ batch' = Tail(batch)
    /\ phase' = "apply"
    /\ UNCHANGED <<ceiling, top, claims, cursor, errors, faults, chainVars,
                   subs, queue, sending, answered, received, clock>>

\* setLastLedger once every row is written, then the webhook queue again
Advanced == Larger(cursor, top)

SaveCursor ==
    /\ phase = "apply" /\ batch = <<>>
    /\ cursor' = Advanced
    /\ errors' = 0
    /\ ProcessWebhookQueue("after")
    /\ UNCHANGED <<ceiling, batch, top, claims, faults, chainVars,
                   subs, deliveries, sending, answered, received, clock>>

\* The process dies and is started again
Crash ==
    /\ Fault
    /\ phase # "idle"
    /\ phase = "reset" => CrashDuringRollback
    /\ phase' = "idle"
    /\ batch' = <<>> /\ ceiling' = 0 /\ top' = 0
    /\ errors' = 0
    /\ queue' = "off" /\ sending' = {} /\ answered' = {}
    /\ UNCHANGED <<claims, cursor, chainVars, subs, deliveries, received, clock>>

Tick ==
    \/ TickStarts
    \/ QueueProcessed
    \/ PollHead(head)
    \/ RollBackClaims
    \/ RollBackCursor
    \/ FetchEvents
    \/ WriteEvent
    \/ EnqueueRevocation
    \/ SaveCursor

\* What the operators of subscriptions see as processed already
ProcessedUpTo == IF phase = "idle" THEN cursor ELSE Larger(cursor, ceiling)

Environment ==
    \/ (LedgerCloses \/ Fork) /\ UNCHANGED <<ingesterVars, outboxVars>>
    \/ /\ \/ \E k \in Keys, id \in Subscriptions : Subscribe(k, id, ProcessedUpTo)
          \/ \E s \in subs : Unsubscribe(s)
       /\ setup.hooks
       /\ UNCHANGED <<ingesterVars, chainVars>>

Outside(A) ==
    /\ A
    /\ UNCHANGED <<cursor, tickVars, errors, chainVars>>

Faults ==
    \/ \E h \in ReplicaHeads \ {head} : PollHead(h)
    \/ PollFails
    \/ FetchFails
    \/ Crash
    \/ Outside(Fault /\ \E id \in answered : RecordLost(id))

Refusal == Outside(UNCHANGED faults /\ \E id \in sending : RecordFailure(id))

IndexerNext ==
    \/ Tick
    \/ Outside(UNCHANGED faults /\ Deliver)
    \/ Outside(UNCHANGED faults /\ \E d \in deliveries : BackoffElapses(Id(d)))
    \/ Outside(UNCHANGED faults /\ ClockAdvances)
    \/ Refusal
    \/ Environment
    \/ Faults

\* The event loop runs the tick and its deliveries to their ends; requests are
\* answered or time out; time passes.  Nothing is assumed of the network, of
\* operators or of faults, except that faults are finitely many (`setup`).
IndexerSpec ==
    /\ IndexerInit /\ [][IndexerNext]_indexerVars
    /\ WF_indexerVars(Tick)
    /\ WF_indexerVars(Outside(UNCHANGED faults /\ Deliver))
    /\ WF_indexerVars(Outside(UNCHANGED faults /\ \E d \in deliveries : BackoffElapses(Id(d))))
---------------------------------------------------------------------------
IndexerTypeOK ==
    /\ claims \subseteq Row
    /\ cursor \in Nat /\ ceiling \in Nat /\ top \in Nat /\ errors \in Nat
    /\ phase \in {"idle", "before", "poll", "rollback", "reset", "fetch", "apply",
                  "enqueue", "after"}
    /\ queue \in {"off", "expire", "dispatch", "sending"}
    /\ queue # "off" => phase \in {"before", "after"}
    /\ sending \cup answered \subseteq {Id(d) : d \in deliveries}
    /\ \A d \in deliveries : d.attempts \in 0..MaxAttempts

\* Whatever is in the table, writing the events above the cursor gives what all
\* the events of the chain give: a restart replays from the saved cursor and
\* converges, and no event is left behind the cursor.  (Inside reconcile the
\* rows are gone and the cursor is not back yet.)
NothingLostBehindCursor ==
    phase # "reset" =>
        Replay(claims, chain, Until(chain, cursor)) = Replay({}, chain, 0)

\* A row states an event of a ledger that no reorganisation can replace.
RowsAreFinal ==
    \A r \in claims : /\ r.ledger <= settled
                      /\ \E i \in DOMAIN chain : /\ Kind(chain[i]) = "verified"
                                                 /\ chain[i].key = r.key
                                                 /\ chain[i].ledger = r.ledger

\* A revocation behind the cursor has a delivery row for every subscription made
\* before its ledger was processed: processEvents writes both before the cursor.
RevocationsEnqueued ==
    setup.hooks =>
      \A i \in DOMAIN chain : \A s \in subs :
        (/\ Kind(chain[i]) = "revoked" /\ chain[i].ledger <= cursor
         /\ chain[i].key = s.key /\ s.since < chain[i].ledger) =>
            <<s.id, RevocationEvent(chain[i])>> \in {Id(d) : d \in deliveries}

\* What is marked delivered was received, however the attempts, the crashes and
\* the lost updates interleave; and a row is never sent twice at the same time.
DeliveredWasReceived ==
    \A d \in deliveries : d.delivered => Id(d) \in received

\* Once faults have stopped and the chain has grown to its full height (past
\* whatever a fork took away), the table becomes, and stays, the projection of
\* the final ledgers, through crashes, failed requests, stale replicas, forks.
TableConverges ==
    <>[](setup.live /\ head = setup.ledgers =>
            claims = Replay({}, UpTo(chain, head - FinalityLag), 0))

\* Every delivery row is delivered in the end, or its attempts are used up.
DeliveriesSettle ==
    \A id \in Subscriptions :
        []<>(\A d \in deliveries :
                d.sub = id => d.delivered \/ d.attempts = MaxAttempts)
===========================================================================
