-------------------------- MODULE MCIndexerEvents --------------------------
EXTENDS Backfill, TLC, SequencesExt

CONSTANT k1

Raw(topic, x) ==
    [topic |-> topic, key |-> k1, expiry |-> x, missing |-> {}, foreign |-> FALSE]

Submitted(x) == Raw("submitted", x)
Revoked == Raw("revoked", 0)

Ledgers ==
    {<<>>, <<Submitted(0)>>, <<Revoked>>, <<Submitted(0), Raw("self_rev", 0)>>}

\* Legacy submissions; events that the parser does not recognise, with a good one
OddLedgers ==
    {<<Raw("verified", 1)>>,
     <<Revoked, [Revoked EXCEPT !.missing = {"issuer"}], [Submitted(1) EXCEPT !.foreign = TRUE]>>}

Live == [live |-> TRUE, backfill |-> FALSE, overlap |-> FALSE]

\* A restarted service before stale replicas; a forking chain; the webhooks; a
\* backfill with the service off
mcSetups ==
    {Live @@ [ledgers |-> 3, forks |-> 0, faults |-> 2, hooks |-> FALSE, contents |-> Ledgers],
     Live @@ [ledgers |-> 3, forks |-> 1, faults |-> 1, hooks |-> FALSE, contents |-> Ledgers],
     Live @@ [ledgers |-> 3, forks |-> 0, faults |-> 1, hooks |-> TRUE,
              contents |-> OddLedgers],
     [live |-> FALSE, backfill |-> TRUE, overlap |-> FALSE, ledgers |-> 4, forks |-> 0, faults |-> 2,
      hooks |-> FALSE, contents |-> Ledgers]}

\* Backfill beside the live service
mcBothSetups ==
    {[live |-> TRUE, backfill |-> TRUE, overlap |-> TRUE, ledgers |-> 3, forks |-> 0, faults |-> 0,
      hooks |-> FALSE, contents |-> Ledgers]}

\* The reference of Replay: the events one by one, over tables of two keys
TwoKeys == {k1, "another"}
Events == UNION {[1..n -> [topic: {"submitted", "revoked"}, key: TwoKeys]] : n \in 0..3}
Placed(events) ==
    [i \in DOMAIN events |-> Event([Raw(events[i].topic, i) EXCEPT !.key = events[i].key], i, <<i>>)]
RowOf(k) == [key: {k}, ledger: {0}, expiry: {0}, revoked: BOOLEAN]
Tables == {t \in SUBSET UNION {RowOf(k) : k \in TwoKeys} :
              \A r \in t, s \in t : r.key = s.key => r = s}

ASSUME ReplayIsFold ==
    \A events \in {Placed(e) : e \in Events}, t \in Tables : \A n \in 0..Len(events) :
        Replay(t, events, n) = FoldLeft(ApplyEvent, t, SubSeq(events, n + 1, Len(events)))
=============================================================================
