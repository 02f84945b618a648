----------------------------- MODULE ClaimReads -----------------------------
(***************************************************************************)
(* Claim reads of the TypeScript SDK in one process: hasClaim and its      *)
(* sources, the claim cache with its invalidation, the indexer rows that   *)
(* reads share, and the readers built on them: watchClaim, createClaimGate *)
(* and the React hook useStellarCred.                                      *)
(***************************************************************************)
EXTENDS Integers, Sequences, SequencesExt, FiniteSets

CONSTANTS
    Wallets,
    Readers,        \* subset of {"app", "gate", "hook", "watch"}: the kinds of reader
    Sources,        \* subset of {"chain", "indexer", "indexer-verified"}
    Ttl,            \* claimCacheTtlMs
    RowsTtl,        \* indexerCacheMs
    MaxEntries,     \* claimCacheMaxEntries
    MaxReads, MaxChanges, MaxClock      \* bounds

ASSUME SourcesAssumption ==
    /\ Sources \subseteq {"chain", "indexer", "indexer-verified"}
    /\ Ttl \in Nat /\ MaxEntries \in Nat

VARIABLES
    clock,
    claim,      \* ProofRegistry: the claim of each wallet
    rows,       \* indexer: its copy
    changes,
    cache,      \* _claimCache: its entries, the oldest first
    generation,
    fetches,    \* requests of rows at the indexer
    rowsOf,     \* _indexerCache: the request whose rows a wallet's reads share, or 0
    reads,      \* reads that have gone to a source
    reader,     \* the kind of reader this process has
    gate,       \* createClaimGate of one wallet
    hook,       \* useStellarCred
    watch       \* watchClaim with a callback

sourceVars == <<clock, claim, rows, changes>>
cacheVars == <<cache, generation, fetches, rowsOf>>
readers == <<reader, gate, hook, watch>>
readVars == <<sourceVars, cacheVars, reads, readers>>

NoClaim == [live |-> FALSE, until |-> 0]
Nobody == "none"

ReadInit ==
    /\ clock = 1 /\ claim = [w \in Wallets |-> NoClaim] /\ rows = claim /\ changes = 0
    /\ cache = <<>> /\ generation = 0 /\ fetches = <<>> /\ rowsOf = [w \in Wallets |-> 0]
    /\ reads = <<>> /\ reader \in Readers
    /\ gate = [of |-> Nobody, fetch |-> 0, shown |-> 0, loading |-> FALSE, gone |-> FALSE]
    /\ hook = [of |-> Nobody, shown |-> Nobody, loading |-> FALSE]
    /\ watch = [of |-> Nobody, on |-> FALSE, polling |-> FALSE, told |-> FALSE]

---------------------------------------------------------------------------
\* The sources

ReadTick == clock < MaxClock /\ clock' = clock + 1 /\ UNCHANGED <<claim, rows, changes, cacheVars, reads, readers>>

\* A proof is verified, or revoked
ClaimChanges(w) ==
    /\ changes < MaxChanges /\ changes' = changes + 1
    /\ \E c \in {NoClaim, [live |-> TRUE, until |-> clock + 1]} : claim' = [claim EXCEPT ![w] = c]
    /\ UNCHANGED <<clock, rows, cacheVars, reads, readers>>

IndexerFollows(w) ==
    /\ rows[w] # claim[w] /\ rows' = [rows EXCEPT ![w] = claim[w]]
    /\ UNCHANGED <<clock, claim, changes, cacheVars, reads, readers>>

\* is_verified, check_claim and evaluateClaimRow
Holds(c) == c.live /\ c.until > clock

---------------------------------------------------------------------------
\* ClaimCache

Entries(k) == {i \in DOMAIN cache : cache[i].key = k /\ cache[i].expiresAt > clock}

\* The entries of es but those at the places gone, in their order
Without(es, gone) ==
    LET kept == DOMAIN es \ gone
        Rank(i) == Cardinality({j \in kept : j <= i})
    IN [n \in 1..Cardinality(kept) |-> es[CHOOSE i \in kept : Rank(i) = n]]

\* (Faulty: the last answer is stored, whenever it was asked for)
StoresAlways(r, expiresAt) == expiresAt > clock /\ MaxEntries > 0

\* The guards of ClaimCache.set
Stores(r, expiresAt) == r.generation = generation /\ expiresAt > clock /\ MaxEntries > 0

\* An answer lives until the time to live, and without a threshold no longer
\* than the credential
ExpiresAt(r, v) ==
    IF ~r.key.threshold /\ v.holds /\ v.until > 0 /\ v.until < clock + Ttl THEN v.until ELSE clock + Ttl

\* ClaimCache.set: the expired make room first, then the oldest
Store(r, v) ==
    LET others == Without(cache, {i \in DOMAIN cache : cache[i].key = r.key})
        entry == [key |-> r.key, value |-> v, expiresAt |-> ExpiresAt(r, v),
                  old |-> r.old \/ (r.key.source = "indexer" /\ fetches[r.fetch].old)]
        all == Append(others, entry)
        kept == IF Len(all) > MaxEntries
                THEN Without(all, {i \in DOMAIN all : all[i].expiresAt <= clock}) ELSE all
    IN cache' = SubSeq(kept, (IF Len(kept) > MaxEntries THEN Len(kept) - MaxEntries ELSE 0) + 1, Len(kept))

\* invalidateClaimCache, of a wallet
Invalidate(w) ==
    /\ generation' = generation + 1
    /\ cache' = Without(cache, {i \in DOMAIN cache : cache[i].key.wallet = w})
    /\ rowsOf' = [rowsOf EXCEPT ![w] = 0]
    /\ reads' = [i \in DOMAIN reads |-> [reads[i] EXCEPT !.old = @ \/ reads[i].key.wallet = w]]
    /\ fetches' = [i \in DOMAIN fetches |-> [fetches[i] EXCEPT !.old = @ \/ fetches[i].of = w]]
    /\ generation < MaxChanges
    /\ UNCHANGED <<sourceVars, readers>>

\* configure, and resetConfig
Configure ==
    /\ generation' = generation + 1 /\ cache' = <<>> /\ rowsOf' = [w \in Wallets |-> 0]
    /\ reads' = [i \in DOMAIN reads |-> [reads[i] EXCEPT !.old = TRUE]]
    /\ fetches' = [i \in DOMAIN fetches |-> [fetches[i] EXCEPT !.old = TRUE]]
    /\ generation < MaxChanges
    /\ UNCHANGED <<sourceVars, readers>>

---------------------------------------------------------------------------
\* What is done with an answer; null is what a read that failed returns

AnswerOf(c) == [holds |-> Holds(c), until |-> c.until]
Null == [holds |-> FALSE, until |-> -1]

\* createClaimGate shows the answer of its last fetch
Takes(r) == ~gate.gone /\ r.id = gate.fetch

\* The hook shows whatever comes while it is mounted
Deliver(r, v) ==
    /\ UNCHANGED reader
    /\ gate' = IF r.by = "gate" /\ Takes(r) THEN [gate EXCEPT !.shown = r.id, !.loading = FALSE]
               ELSE gate
    /\ hook' = IF r.by = "hook" THEN [hook EXCEPT !.shown = r.key.wallet, !.loading = FALSE] ELSE hook
    /\ watch' = IF r.by # "watch" THEN watch
                ELSE [watch EXCEPT !.polling = FALSE, !.told = IF watch.on THEN v.holds ELSE @]

---------------------------------------------------------------------------
\* Reads

Read(by, k, id) ==
    [by |-> by, key |-> k, id |-> id, generation |-> generation, old |-> FALSE,
     at |-> "chain", fetch |-> 0, value |-> Null]

\* readIndexerRows: the rows a request has, or will have, if it is recent
Shared(w) == rowsOf[w] # 0 /\ clock - fetches[rowsOf[w]].sent < RowsTtl

GoToSource(r) ==
    LET w == r.key.wallet IN
    IF r.key.source = "chain" THEN reads' = Append(reads, r) /\ UNCHANGED <<fetches, rowsOf>>
    ELSE IF Shared(w)
    THEN reads' = Append(reads, [r EXCEPT !.at = "rows", !.fetch = rowsOf[w]]) /\ UNCHANGED <<fetches, rowsOf>>
    ELSE /\ Len(fetches) < MaxReads
         /\ fetches' = Append(fetches, [of |-> w, sent |-> clock, state |-> "sent", rows |-> NoClaim,
                                        old |-> FALSE])
         /\ rowsOf' = IF RowsTtl > 0 THEN [rowsOf EXCEPT ![w] = Len(fetches) + 1] ELSE rowsOf
         /\ reads' = Append(reads, [r EXCEPT !.at = "rows", !.fetch = Len(fetches) + 1])

\* cachedRead, of which a hit answers at once
StartRead(by, k, fresh, id) ==
    LET r == Read(by, k, id) IN
    IF ~fresh /\ Entries(k) # {}
    THEN UNCHANGED <<cacheVars, reads, sourceVars>>
    ELSE Len(reads) < MaxReads /\ GoToSource(r) /\ UNCHANGED <<cache, generation, sourceVars>>

Hit(k, fresh) == ~fresh /\ Entries(k) # {}

RequestAnswers(i) ==
    /\ fetches[i].state = "sent"
    /\ \/ fetches' = [fetches EXCEPT ![i].state = "done", ![i].rows = rows[fetches[i].of]] /\ UNCHANGED rowsOf
       \/ /\ fetches' = [fetches EXCEPT ![i].state = "failed"]
          /\ rowsOf' = [rowsOf EXCEPT ![fetches[i].of] = 0]
    /\ UNCHANGED <<sourceVars, cache, generation, reads, readers>>

\* An answer is stored, unless it is null, and delivered
Settle(i, v) ==
    LET r == reads[i] IN
    /\ reads' = RemoveAt(reads, i)
    /\ IF v # Null /\ Stores(r, ExpiresAt(r, v)) THEN Store(r, v) ELSE UNCHANGED cache
    /\ Deliver(r, v)

\* The rows are there: the answer, or the chain is asked as well
RowsRead(i) ==
    LET r == reads[i]
        f == fetches[r.fetch]
    IN
    /\ r.at = "rows" /\ f.state # "sent"
    /\ IF r.key.source = "indexer-verified"
       THEN reads' = [reads EXCEPT ![i].at = "chain"] /\ UNCHANGED <<cache, readers>>
       ELSE Settle(i, IF f.state = "done" THEN AnswerOf(f.rows) ELSE Null)
    /\ UNCHANGED <<sourceVars, generation, fetches, rowsOf>>

RegistryAnswers(i) ==
    /\ reads[i].at = "chain"
    /\ reads' = [reads EXCEPT ![i].at = "arriving", ![i].value = AnswerOf(claim[reads[i].key.wallet])]
    /\ UNCHANGED <<sourceVars, cacheVars, readers>>

\* withRequestTimeout and withRetry: it arrives, or the read has failed
ChainRead(i) ==
    /\ \/ reads[i].at = "arriving" /\ Settle(i, reads[i].value)
       \/ reads[i].at \in {"chain", "arriving"} /\ Settle(i, Null)
    /\ UNCHANGED <<sourceVars, generation, fetches, rowsOf>>

---------------------------------------------------------------------------
\* Readers

Key(w, threshold, source) == [wallet |-> w, threshold |-> threshold, source |-> source]

\* hasClaim, getClaim, hasClaims and verifyPreset of the application
AppReads(w) ==
    /\ reader = "app"
    /\ \E threshold \in BOOLEAN, source \in Sources, fresh \in BOOLEAN :
          StartRead("app", Key(w, threshold, source), fresh, 0)
    /\ UNCHANGED readers

\* fetchClaims of the gate, first and on refetch
GateFetches(w, fresh) ==
    LET k == Key(w, FALSE, "chain") IN
    /\ reader = "gate" /\ ~gate.gone /\ gate.of \in {Nobody, w} /\ fresh = (gate.of = w) /\ gate.fetch < MaxReads
    /\ gate' = [gate EXCEPT !.of = w, !.fetch = @ + 1, !.loading = ~Hit(k, fresh),
                            !.shown = IF Hit(k, fresh) THEN gate.fetch + 1 ELSE @]
    /\ StartRead("gate", k, fresh, gate.fetch + 1)
    /\ UNCHANGED <<reader, hook, watch>>

GateDestroyed ==
    /\ gate.fetch > 0 /\ ~gate.gone
    /\ gate' = [gate EXCEPT !.gone = TRUE, !.fetch = @ + 1]
    /\ UNCHANGED <<sourceVars, cacheVars, reads, reader, hook, watch>>

\* The wallet of the hook changes, or it refetches
HookFetches(w, fresh) ==
    LET k == Key(w, FALSE, "chain") IN
    /\ reader = "hook" /\ fresh = (hook.of = w)
    /\ hook' = IF Hit(k, fresh) THEN [of |-> w, shown |-> w, loading |-> FALSE]
               ELSE [hook EXCEPT !.of = w, !.loading = TRUE]
    /\ StartRead("hook", k, fresh, 0)
    /\ UNCHANGED <<reader, gate, watch>>

HookDisconnects ==
    /\ hook.of # Nobody
    /\ hook' = [of |-> Nobody, shown |-> Nobody, loading |-> FALSE]
    /\ UNCHANGED <<sourceVars, cacheVars, reads, reader, gate, watch>>

\* The interval of watchClaim, which polls one read at a time
WatchPolls(w) ==
    /\ reader = "watch" /\ ~watch.polling
    /\ IF watch.of = Nobody THEN TRUE ELSE watch.of = w /\ watch.on
    /\ watch' = [watch EXCEPT !.of = w, !.on = TRUE, !.polling = TRUE]
    /\ StartRead("watch", Key(w, FALSE, "chain"), TRUE, 0)
    /\ UNCHANGED <<reader, gate, hook>>

WatchStops ==
    /\ watch.on /\ watch' = [watch EXCEPT !.on = FALSE]
    /\ UNCHANGED <<sourceVars, cacheVars, reads, reader, gate, hook>>

ReadNext ==
    \/ ReadTick \/ Configure \/ GateDestroyed \/ HookDisconnects \/ WatchStops
    \/ \E w \in Wallets : \/ ClaimChanges(w) \/ IndexerFollows(w) \/ Invalidate(w) \/ AppReads(w)
                          \/ WatchPolls(w)
                          \/ \E fresh \in BOOLEAN : GateFetches(w, fresh) \/ HookFetches(w, fresh)
    \/ \E i \in DOMAIN fetches : RequestAnswers(i)
    \/ \E i \in DOMAIN reads : RowsRead(i) \/ RegistryAnswers(i) \/ ChainRead(i)

ReadSpec == ReadInit /\ [][ReadNext]_readVars
---------------------------------------------------------------------------
\* "A read that was already in flight when this is called is not cached": after
\* invalidate and configure the cache serves nothing that was asked of the
\* chain, or of the indexer, before.
NothingOlderThanInvalidate == \A i \in DOMAIN cache : ~cache[i].old

\* Whatever order its fetches are answered in, a gate that is not loading shows
\* the answer of the last.
GateShowsLastFetch == gate.fetch > 0 /\ ~gate.gone /\ ~gate.loading => gate.shown = gate.fetch

\* README of the SDK: "A cached valid answer never outlives the credential's
\* on-chain expiry."
CachedDiesWithCredential ==
    \A i \in DOMAIN cache : cache[i].value.holds => cache[i].expiresAt <= cache[i].value.until

\* react.ts: what the hook shows, once it is not loading, is of its wallet.
HookShowsItsWallet == ~hook.loading => hook.shown = hook.of
=============================================================================
