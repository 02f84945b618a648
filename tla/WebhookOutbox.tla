-------------------------- MODULE WebhookOutbox ---------------------------
(***************************************************************************)
(* The indexer's tables.  `claims` has at most one row per key, a key      *)
(* being a wallet with a credential type; what contract events do to it is *)
(* a pure operator on a set of rows, one per statement of db-shared.ts.    *)
(*                                                                         *)
(* Webhook subscriptions and their delivery rows: enqueued once per        *)
(* subscription and event, sent in a batch of concurrent requests, retried *)
(* after a backoff, given up after MaxAttempts.  Sending and recording     *)
(* the answer are two steps, and the process may die between them.         *)
(*                                                                         *)
(* Backoff times are abstracted to the flag `due`, cleared by a failure    *)
(* and set again by BackoffElapses.                                        *)
(***************************************************************************)
EXTENDS Integers, Sequences, FiniteSets

CONSTANTS
    Keys,           \* wallet and credential type
    Subscriptions,  \* subscription ids
    MaxAttempts,    \* MAX_WEBHOOK_DELIVERY_ATTEMPTS
    DeliveryBatch,  \* DELIVERY_BATCH_SIZE
    MaxClock        \* bound: the wall clock, which only expiry reads

ASSUME OutboxAssumption ==
    /\ MaxAttempts \in Nat \ {0} /\ DeliveryBatch \in Nat \ {0} /\ MaxClock \in Nat

VARIABLES
    claims,      \* the table of claims, as the live loop and backfill leave it
    subs,        \* the rows of webhook_subscriptions
    deliveries,  \* the rows of webhook_deliveries
    queue,       \* what processWebhookQueue is doing
    sending,     \* <<sub, event>> of requests under way
    answered,    \* <<sub, event>> of requests answered with 2xx, not recorded yet
    received,    \* history: what the endpoints have received
    clock

outboxVars == <<subs, deliveries, queue, sending, answered, received, clock>>

-----------------------------------------------------------------------------
Row == [key: Keys, ledger: Nat, expiry: Nat, revoked: BOOLEAN]

\* INSERT ... ON CONFLICT (wallet, credential_type) DO UPDATE: every column
Upsert(t, e) ==
    {r \in t : r.key # e.key} \cup
    {[key |-> e.key, ledger |-> e.ledger, expiry |-> e.expiry, revoked |-> FALSE]}

\* The row keeps its ledger_sequence: a revocation leaves no trace of when
MarkRevoked(t, key) ==
    {IF r.key = key THEN [r EXCEPT !.revoked = TRUE] ELSE r : r \in t}

DeleteAfter(t, last) == {r \in t : r.ledger <= last}

Expired(r, time) == ~r.revoked /\ r.expiry > 0 /\ r.expiry <= time

\* A raw event is what the contract and its predecessors emit: a topic, the key
\* and the expiry in the value, and which addresses could not be decoded.  A
\* submission without a holder falls back to the source account; a revocation
\* without its addresses is not recognised, nor is another contract's event.
Kind(e) ==
    CASE e.foreign -> "unknown"
      [] e.topic \in {"submitted", "verified"} -> "verified"
      [] e.topic = "revoked" /\ e.missing \cap {"holder", "issuer"} = {} -> "revoked"
      [] e.topic = "self_rev" /\ "holder" \notin e.missing -> "revoked"
      [] OTHER -> "unknown"

RevokedBy(e) == IF e.topic = "revoked" THEN "issuer_revoked" ELSE "holder_revoked"

\* What one event does to the table, in the live loop and in backfill
ApplyEvent(t, e) ==
    CASE Kind(e) = "verified" -> Upsert(t, e)
      [] Kind(e) = "revoked"  -> MarkRevoked(t, e.key)
      [] OTHER                -> t

\* What the events after the n-th say of key k
AttestedAfter(events, n, k) ==
    \E i \in DOMAIN events : i > n /\ Kind(events[i]) = "verified" /\ events[i].key = k
RevokedAfter(events, n, k) ==
    \E i \in DOMAIN events : i > n /\ Kind(events[i]) = "revoked" /\ events[i].key = k

\* What applying the events after the n-th, one by one, makes of a table: a key
\* has the row of its last attestation, revoked if a revocation follows.
Replay(t, events, n) ==
    {[r EXCEPT !.revoked = @ \/ RevokedAfter(events, n, r.key)] :
        r \in {r \in t : ~AttestedAfter(events, n, r.key)}} \cup
    {[key |-> events[i].key, ledger |-> events[i].ledger, expiry |-> events[i].expiry,
      revoked |-> RevokedAfter(events, i, events[i].key)] :
        i \in {i \in DOMAIN events : /\ i > n /\ Kind(events[i]) = "verified"
                                     /\ ~AttestedAfter(events, i, events[i].key)}}

-----------------------------------------------------------------------------
Id(d) == <<d.sub, d.event>>

OutboxInit ==
    /\ subs = {}
    /\ deliveries = {}
    /\ queue = "off"
    /\ sending = {}
    /\ answered = {}
    /\ received = {}
    /\ clock = 0

\* INSERT ... SELECT the matching subscriptions ... ON CONFLICT DO NOTHING
Enqueued(event) ==
    deliveries \cup
    {[sub |-> s.id, event |-> event, attempts |-> 0, due |-> TRUE, delivered |-> FALSE] :
        s \in {s \in subs : /\ s.key = event.key
                            /\ <<s.id, event>> \notin {Id(d) : d \in deliveries}}}

ExpiryEvent(r) ==
    [reason |-> "expired", key |-> r.key, tx |-> <<r.expiry, r.ledger>>]

RevocationEvent(e) == [reason |-> RevokedBy(e), key |-> e.key, tx |-> e.tx]

\* `since` is history: the ledgers already processed when the row was made
Subscribe(key, id, since) ==
    /\ id \notin {s.id : s \in subs}
    /\ subs' = subs \cup {[id |-> id, key |-> key, since |-> since]}
    /\ UNCHANGED <<deliveries, queue, sending, answered, received, clock>>

\* The subscription's deliveries are left in the table, and still sent
Unsubscribe(s) ==
    /\ s \in subs
    /\ subs' = subs \ {s}
    /\ UNCHANGED <<deliveries, queue, sending, answered, received, clock>>

EnqueueExpired ==
    /\ queue = "expire"
    /\ LET events == {ExpiryEvent(r) : r \in {r \in claims : Expired(r, clock)}} IN
       deliveries' = deliveries \cup UNION {Enqueued(e) : e \in events}
    /\ queue' = "dispatch"
    /\ UNCHANGED <<subs, sending, answered, received, clock, claims>>

\* (Faulty: a delivery that failed is not selected again)
PendingOnce == {d \in deliveries : ~d.delivered /\ d.due /\ d.attempts = 0}

Pending == {d \in deliveries : ~d.delivered /\ d.due /\ d.attempts < MaxAttempts}

\* The oldest rows first, in the table's order; which they are does not matter here
SelectPending ==
    /\ queue = "dispatch"
    /\ \E some \in SUBSET Pending :
          /\ Cardinality(some) <= DeliveryBatch
          /\ some = Pending \/ Cardinality(some) = DeliveryBatch
          /\ sending' = {Id(d) : d \in some}
    /\ queue' = "sending"
    /\ UNCHANGED <<subs, deliveries, answered, received, clock, claims>>

EndpointAnswers(id) ==
    /\ id \in sending
    /\ sending' = sending \ {id}
    /\ answered' = answered \cup {id}
    /\ received' = received \cup {id}
    /\ UNCHANGED <<subs, deliveries, queue, clock, claims>>

Attempted(id, ok) ==
    {IF Id(d) = id
     THEN [d EXCEPT !.attempts = @ + 1, !.due = ok, !.delivered = ok]
     ELSE d : d \in deliveries}

RecordDelivered(id) ==
    /\ id \in answered
    /\ answered' = answered \ {id}
    /\ deliveries' = Attempted(id, TRUE)
    /\ UNCHANGED <<subs, queue, sending, received, clock, claims>>

\* An error answer, a timeout, a target that is not public ...
RecordFailure(id) ==
    /\ id \in sending
    /\ sending' = sending \ {id}
    /\ deliveries' = Attempted(id, FALSE)
    /\ UNCHANGED <<subs, queue, answered, received, clock, claims>>

\* ... or the UPDATE after a 2xx fails: the catch block counts a failed attempt
RecordLost(id) ==
    /\ id \in answered
    /\ answered' = answered \ {id}
    /\ deliveries' = Attempted(id, FALSE)
    /\ UNCHANGED <<subs, queue, sending, received, clock, claims>>

\* Promise.all over the batch
QueueDone ==
    /\ queue = "sending"
    /\ sending = {} /\ answered = {}
    /\ queue' = "off"
    /\ UNCHANGED <<subs, deliveries, sending, answered, received, clock, claims>>

BackoffElapses(id) ==
    /\ \E d \in deliveries : Id(d) = id /\ ~d.due
    /\ deliveries' = {IF Id(d) = id THEN [d EXCEPT !.due = TRUE] ELSE d : d \in deliveries}
    /\ UNCHANGED <<subs, queue, sending, answered, received, clock, claims>>

ClockAdvances ==
    /\ clock < MaxClock
    /\ clock' = clock + 1
    /\ UNCHANGED <<subs, deliveries, queue, sending, answered, received, claims>>

Deliver ==
    \/ EnqueueExpired
    \/ SelectPending
    \/ \E id \in sending : EndpointAnswers(id)
    \/ \E id \in answered : RecordDelivered(id)
    \/ QueueDone
===========================================================================
