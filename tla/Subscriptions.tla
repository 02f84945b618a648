--------------------------- MODULE Subscriptions ---------------------------
(***************************************************************************)
(* subscribeClaims of the TypeScript SDK: one subscription that polls the  *)
(* feed of the indexer for gained claims, sweeps its own for expiry, and   *)
(* reads every wallet again from time to time.  Time is abstracted to what *)
(* it brings about: rows expire, and a resync falls due.                   *)
(***************************************************************************)
EXTENDS Integers, FiniteSets

CONSTANTS
    Claims,         \* the claims watched: a wallet and a type
    PageSize,       \* RECENT_PAGE_SIZE
    MaxPages,       \* MAX_RECENT_PAGES_PER_TICK
    EmitInitial,    \* emitInitialState
    MaxStamps, MaxFeedFaults       \* bounds

VARIABLES
    row,        \* indexer: the row of each claim
    others,     \* indexer: the places in the feed of rows nobody watches
    stamps,     \* rows written so far; a row's place in the feed is its number
    expired,    \* the rows (by their number) whose expiry has passed
    due,        \* resyncMs has passed since the last resync
    feedFaults,
    at,         \* the tick: at no await, at the feed, or at the snapshots
    dead,       \* of the tick: the rows expired by its "now"
    page, below, maxSeen,   \* of the tick: pages read, where the next begins, the newest seen
    unread, snapshot,       \* of the resync: claims not read yet, and rows read
    active, cursor, seeded, stopped,
    told        \* history: what the application was told last of each claim

indexVars == <<row, others, stamps, expired>>
tickVars == <<at, dead, page, below, maxSeen, unread, snapshot>>
subscribeVars == <<indexVars, due, feedFaults, tickVars, active, cursor, seeded, stopped, told>>

\* stamp 0: there is no row
NoRow == [stamp |-> 0, revoked |-> FALSE]

SubscribeInit ==
    /\ row = [c \in Claims |-> NoRow] /\ others = {} /\ stamps = 0 /\ expired = {}
    /\ due = TRUE /\ feedFaults = 0
    /\ at = "idle" /\ dead = {} /\ page = 0 /\ below = 0 /\ maxSeen = 0
    /\ unread = {} /\ snapshot = row
    /\ active = row /\ cursor = 0 /\ seeded = FALSE /\ stopped = FALSE
    /\ told = [c \in Claims |-> "nothing"]

---------------------------------------------------------------------------
\* The indexer, and time

Verified(c) ==
    /\ stamps < MaxStamps /\ stamps' = stamps + 1
    /\ row' = [row EXCEPT ![c] = [stamp |-> stamps + 1, revoked |-> FALSE]]
    /\ UNCHANGED <<others, expired, due, feedFaults, tickVars, active, cursor, seeded, stopped, told>>

OtherVerified ==
    /\ stamps < MaxStamps /\ stamps' = stamps + 1 /\ others' = others \cup {stamps + 1}
    /\ UNCHANGED <<row, expired, due, feedFaults, tickVars, active, cursor, seeded, stopped, told>>

RowRevoked(c) ==
    /\ row[c].stamp > 0 /\ ~row[c].revoked /\ row' = [row EXCEPT ![c].revoked = TRUE]
    /\ UNCHANGED <<others, stamps, expired, due, feedFaults, tickVars, active, cursor, seeded, stopped, told>>

RowExpires(c) ==
    /\ row[c].stamp > 0 /\ row[c].stamp \notin expired /\ expired' = expired \cup {row[c].stamp}
    /\ UNCHANGED <<row, others, stamps, due, feedFaults, tickVars, active, cursor, seeded, stopped, told>>

ResyncFallsDue ==
    /\ ~due /\ due' = TRUE
    /\ UNCHANGED <<indexVars, feedFaults, tickVars, active, cursor, seeded, stopped, told>>

\* isLiveRow, by the time the tick began
LiveRow(r) == r.stamp > 0 /\ ~r.revoked /\ r.stamp \notin dead

---------------------------------------------------------------------------
\* The tick

Tells(gained, lost) ==
    told' = [c \in Claims |-> IF c \in gained THEN "gained" ELSE IF c \in lost THEN "lost" ELSE told[c]]

TickBegins ==
    /\ at = "idle" /\ ~stopped
    /\ at' = "feed" /\ dead' = expired
    /\ page' = 0 /\ below' = stamps + 1 /\ maxSeen' = cursor
    /\ UNCHANGED <<indexVars, due, feedFaults, unread, snapshot, active, cursor, seeded, stopped, told>>

\* GET /recent: revoked rows are not in the feed
Feed == others \cup {row[c].stamp : c \in {d \in Claims : row[d].stamp > 0 /\ ~row[d].revoked}}
PageOf(from) == {s \in Feed : s < from /\ Cardinality({t \in Feed : s < t /\ t < from}) < PageSize}
Newest(S) == CHOOSE s \in S : \A t \in S : t <= s
Oldest(S) == CHOOSE s \in S : \A t \in S : s <= t

\* (Faulty: resyncs until it has seeded the baseline once)
ResyncDueOnce == ~seeded

ResyncDue == ~seeded \/ due

\* sweepExpiries, and whether a resync follows
Sweep(held) ==
    LET over == {c \in Claims : held[c].stamp \in dead} IN
    /\ active' = [c \in Claims |-> IF c \in over THEN NoRow ELSE held[c]]
    /\ page' = 0 /\ below' = 0 /\ maxSeen' = 0
    /\ IF ResyncDue THEN at' = "resync" /\ unread' = Claims /\ UNCHANGED dead
       ELSE at' = "idle" /\ dead' = {} /\ UNCHANGED unread

Swept(held) == {c \in Claims : held[c].stamp \in dead}

\* pollFeed without a baseline: only where the feed begins
FeedHead ==
    /\ at = "feed" /\ cursor = 0 /\ ~seeded
    /\ cursor' = IF Feed = {} THEN 0 ELSE Newest(Feed)
    /\ Sweep(active) /\ Tells({}, Swept(active))
    /\ UNCHANGED <<indexVars, due, feedFaults, snapshot, seeded, stopped>>

\* A page of the feed, down to the rows known
FeedPage ==
    LET rows == PageOf(IF page = 0 THEN stamps + 1 ELSE below)
        new == {s \in rows : s > cursor}
        found == {c \in Claims : row[c].stamp \in new /\ LiveRow(row[c])}
        held == [c \in Claims |-> IF c \in found THEN row[c] ELSE active[c]]
        gained == {c \in found : active[c] = NoRow}
        seen == IF page = 0 /\ new # {} THEN Newest(new) ELSE maxSeen
        more == \E s \in Feed : \A t \in rows : s < t
    IN
    /\ at = "feed" /\ (cursor > 0 \/ seeded)
    /\ IF new = rows /\ rows # {} /\ more /\ page + 1 < MaxPages
       THEN /\ page' = page + 1 /\ below' = Oldest(rows) /\ maxSeen' = seen /\ active' = held
            /\ Tells(gained, {})
            /\ UNCHANGED <<at, dead, unread, cursor>>
       ELSE /\ cursor' = seen /\ Sweep(held) /\ Tells(gained \ Swept(held), Swept(held))
    /\ UNCHANGED <<indexVars, due, feedFaults, snapshot, seeded, stopped>>

\* The cursor stays: the next tick reads these rows again
FeedFails ==
    /\ at = "feed" /\ feedFaults < MaxFeedFaults /\ feedFaults' = feedFaults + 1
    /\ Sweep(active) /\ Tells({}, Swept(active))
    /\ UNCHANGED <<indexVars, due, snapshot, cursor, seeded, stopped>>

\* GET /claims of a wallet
ReadSnapshot(c) ==
    /\ at = "resync" /\ c \in unread /\ unread' = unread \ {c}
    /\ snapshot' = [snapshot EXCEPT ![c] = row[c]]
    /\ UNCHANGED <<indexVars, due, feedFaults, at, dead, page, below, maxSeen, active, cursor,
                   seeded, stopped, told>>

ResyncFails ==
    /\ at = "resync" /\ unread # {} /\ feedFaults < MaxFeedFaults /\ feedFaults' = feedFaults + 1
    /\ at' = "idle" /\ unread' = {} /\ dead' = {} /\ snapshot' = [c \in Claims |-> NoRow]
    /\ UNCHANGED <<indexVars, due, page, below, maxSeen, active, cursor, seeded,
                   stopped, told>>

\* (Faulty: the snapshots are taken for losses only, the feed for gains)
GainedByNone(live) == {}

\* The live rows of the snapshots that were not active
GainedBy(live) == {c \in live : active[c] = NoRow}

ResyncApplies ==
    LET live == {c \in Claims : LiveRow(snapshot[c])}
        kept == {c \in live : active[c] # NoRow} \cup GainedBy(live)
        lost == {c \in Claims : active[c] # NoRow /\ c \notin live}
    IN
    /\ at = "resync" /\ unread = {} /\ at' = "idle"
    /\ active' = [c \in Claims |-> IF c \in kept THEN snapshot[c] ELSE NoRow]
    /\ Tells(IF seeded \/ EmitInitial THEN GainedBy(live) ELSE {}, lost)
    /\ seeded' = TRUE /\ due' = FALSE /\ dead' = {} /\ snapshot' = [c \in Claims |-> NoRow]
    /\ UNCHANGED <<indexVars, feedFaults, page, below, maxSeen, unread, cursor, stopped>>

\* The subscription ends; a tick that has begun goes on
Unsubscribe ==
    /\ ~stopped /\ stopped' = TRUE
    /\ UNCHANGED <<indexVars, due, feedFaults, tickVars, active, cursor, seeded, told>>

SubscribeNext ==
    \/ OtherVerified \/ ResyncFallsDue \/ TickBegins \/ FeedHead \/ FeedPage \/ FeedFails
    \/ ResyncFails \/ ResyncApplies \/ Unsubscribe
    \/ \E c \in Claims : Verified(c) \/ RowRevoked(c) \/ RowExpires(c) \/ ReadSnapshot(c)

TickStep == TickBegins \/ FeedHead \/ FeedPage \/ ResyncApplies \/ (\E c \in Claims : ReadSnapshot(c))

SubscribeSpec == SubscribeInit /\ [][SubscribeNext]_subscribeVars /\ WF_subscribeVars(TickStep) /\ WF_subscribeVars(ResyncFallsDue)
---------------------------------------------------------------------------
LiveNow(c) == row[c].stamp > 0 /\ ~row[c].revoked /\ row[c].stamp \notin expired

\* A claim the subscription holds for active and that has been revoked or has
\* expired is reported as lost, unless it is verified again.
LossesAreReported ==
    \A c \in Claims : (active[c] # NoRow /\ ~LiveNow(c)) ~> (stopped \/ active[c] = NoRow \/ LiveNow(c))

\* A claim that becomes live is found, however many rows of others stand before
\* it in the feed, and whatever requests have failed meanwhile.
GainsAreFound ==
    \A c \in Claims : (LiveNow(c) /\ active[c] = NoRow) ~> (stopped \/ active[c] # NoRow \/ ~LiveNow(c))

\* Whatever the feed misses, a subscription ends up holding what is live.
SubscribersCatchUp == LossesAreReported /\ GainsAreFound

\* README of the SDK, of the function that is returned: "stop feeding events".
StopIsSilent == [][stopped => told' = told]_subscribeVars
=============================================================================
