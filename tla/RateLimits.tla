----------------------------- MODULE RateLimits -----------------------------
(***************************************************************************)
(* The request limiters: fixed windows counted in the process, in Upstash  *)
(* over REST, or in Redis with the process as its fallback.  A route may   *)
(* sit behind two keys (wallet, then address).  One client owns both keys  *)
(* and waits as long as a 429 tells it to.  Windows are the time left.     *)
(***************************************************************************)
EXTENDS Integers, FiniteSetsExt

CONSTANTS
    Limiters,         \* the stores the process may be configured with
    RequestLimit,     \* requests per window, of either key
    PrimaryWindow, SecondaryWindow,
    MaxStoreFaults    \* bound: commands of the remote store that fail

ASSUME RateAssumption ==
    /\ Limiters \subseteq {"memory", "upstash", "redis"}
    /\ {RequestLimit, PrimaryWindow, SecondaryWindow} \subseteq Nat \ {0}

VARIABLES
    limiter,
    bucket,     \* the in-process counter of each key
    remote,     \* the remote counter of each key; ttl None: it never expires
    asking,     \* the client's request: the check it is in, and what it knows
    wait,       \* time the client still waits, as told by a 429
    storeFaults

rateVars == <<limiter, bucket, remote, asking, wait, storeFaults>>

RateKeys == {"primary", "secondary"}
WindowOf(key) == IF key = "primary" THEN PrimaryWindow ELSE SecondaryWindow

NoBucket == [count |-> 0, left |-> 0]
Forever == -1

AskingAt(key, step) == [key |-> key, step |-> step]
NotAsking == AskingAt("none", "idle")
RequestServed == AskingAt("none", "served")

RateInit ==
    /\ limiter \in Limiters
    /\ bucket = [k \in RateKeys |-> NoBucket]
    /\ remote = [k \in RateKeys |-> NoBucket]
    /\ asking = NotAsking /\ wait = 0 /\ storeFaults = 0

\* Counters matter up to one above the limit
Counted(entry) == [entry EXCEPT !.count = Min({@ + 1, RequestLimit + 1})]

Request ==
    /\ asking \in {NotAsking, RequestServed} /\ wait = 0
    /\ asking' = AskingAt("primary", "check")
    /\ UNCHANGED <<limiter, bucket, remote, wait, storeFaults>>

\* A throttled check ends the request; an admitted one goes on to the next key
Judge(key, count, told) ==
    IF count > RequestLimit
    THEN asking' = NotAsking /\ wait' = told
    ELSE /\ asking' = IF key = "primary" THEN AskingAt("secondary", "check") ELSE RequestServed
         /\ UNCHANGED wait

\* increment, checkLimit: the window opens with its first request
InProcessCheck(key) ==
    LET b == IF bucket[key].left = 0 THEN [count |-> 1, left |-> WindowOf(key)]
             ELSE Counted(bucket[key])
    IN bucket' = [bucket EXCEPT ![key] = b] /\ Judge(key, b.count, b.left)

CheckInProcess ==
    /\ limiter = "memory" /\ asking.step = "check"
    /\ InProcessCheck(asking.key)
    /\ UNCHANGED <<limiter, remote, storeFaults>>

\* (Faulty: Upstash, too, arms the key only when it is new)
ArmsNew(entry) == entry.count = 1

\* Must this request give the key its time to live?
Arms(entry) == IF limiter = "upstash" THEN entry.left = Forever ELSE entry.count = 1

\* INCR creates a key without a time to live
RemoteIncr ==
    /\ limiter # "memory" /\ asking.step = "check"
    /\ LET key == asking.key
           r == Counted(IF remote[key].count = 0 THEN [count |-> 0, left |-> Forever]
                        ELSE remote[key])
       IN /\ remote' = [remote EXCEPT ![key] = r]
          /\ IF Arms(r) THEN asking' = AskingAt(key, "arm") /\ UNCHANGED wait
             ELSE Judge(key, r.count, IF r.left > 0 THEN r.left ELSE WindowOf(key))
    /\ UNCHANGED <<limiter, bucket, storeFaults>>

RemoteExpire ==
    /\ asking.step = "arm"
    /\ LET key == asking.key IN
       /\ remote' = [remote EXCEPT ![key].left = WindowOf(key)]
       /\ Judge(key, remote[key].count, WindowOf(key))
    /\ UNCHANGED <<limiter, bucket, storeFaults>>

StoreFault == storeFaults < MaxStoreFaults /\ storeFaults' = storeFaults + 1

\* Upstash goes on as if PEXPIRE had been done; Redis falls back to the process
RemoteExpireFails ==
    /\ asking.step = "arm" /\ StoreFault
    /\ IF limiter = "upstash"
       THEN Judge(asking.key, remote[asking.key].count, WindowOf(asking.key)) /\ UNCHANGED bucket
       ELSE InProcessCheck(asking.key)
    /\ UNCHANGED <<limiter, remote>>

\* A failed INCR: the route answers 500 with Upstash, falls back with Redis
RemoteIncrFails ==
    /\ limiter # "memory" /\ asking.step = "check" /\ StoreFault
    /\ IF limiter = "upstash" THEN asking' = NotAsking /\ UNCHANGED <<wait, bucket>>
       ELSE InProcessCheck(asking.key)
    /\ UNCHANGED <<limiter, remote>>

\* The process restarts: its requests and buckets are gone, the remote keys stay
LimiterRestarts ==
    /\ asking # NotAsking /\ StoreFault
    /\ bucket' = [k \in RateKeys |-> NoBucket] /\ asking' = NotAsking
    /\ UNCHANGED <<limiter, remote, wait>>

\* evictIfNeeded: at the cap, a bucket goes whatever its window
Evict ==
    /\ \E k \in RateKeys : bucket[k] # NoBucket /\ bucket' = [bucket EXCEPT ![k] = NoBucket]
    /\ StoreFault
    /\ UNCHANGED <<limiter, remote, asking, wait>>

BucketOlder(entry) == IF entry.left = Forever THEN entry
                ELSE IF entry.left <= 1 THEN NoBucket
                ELSE [entry EXCEPT !.left = @ - 1]

WindowTick ==
    /\ wait > 0 \/ \E k \in RateKeys : bucket[k].left > 0 \/ remote[k].left > 0
    /\ bucket' = [k \in RateKeys |-> BucketOlder(bucket[k])]
    /\ remote' = [k \in RateKeys |-> BucketOlder(remote[k])]
    /\ wait' = Max({wait - 1, 0})
    /\ UNCHANGED <<limiter, asking, storeFaults>>

Checking == CheckInProcess \/ RemoteIncr \/ RemoteExpire

RateNext ==
    \/ Request \/ Checking \/ WindowTick
    \/ RemoteExpireFails \/ RemoteIncrFails \/ LimiterRestarts \/ Evict

\* Handlers run, time passes, and the client comes back when it was told to
RateFairness ==
    WF_rateVars(Checking) /\ WF_rateVars(WindowTick) /\ WF_rateVars(Request)

RateSpec == RateInit /\ [][RateNext]_rateVars /\ RateFairness
---------------------------------------------------------------------------
\* A client that was throttled and keeps to Retry-After is served in the end, by
\* both of its limits, whatever writes of the store were lost on the way.
RetriesAreServed == wait > 0 ~> asking = RequestServed
=============================================================================
