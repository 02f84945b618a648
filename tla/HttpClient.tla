----------------------------- MODULE HttpClient -----------------------------
(***************************************************************************)
(* The indexer's HTTP client: bounded retries with growing delays around   *)
(* one request, and a circuit breaker around the whole call.  Its user is  *)
(* the integrity checker's chain clock, whose passes never overlap: there  *)
(* is one call at a time.  Time is the time left to wait.                  *)
(***************************************************************************)
EXTENDS Integers, FiniteSetsExt

CONSTANTS
    FailureThreshold,  \* HTTP_BREAKER_FAILURE_THRESHOLD
    ResetTimeout,      \* HTTP_BREAKER_RESET_MS
    HttpAttempts,      \* HTTP_RETRY_MAX_ATTEMPTS
    BaseDelay, MaxDelay

ASSUME HttpAssumption ==
    /\ {FailureThreshold, ResetTimeout, HttpAttempts, BaseDelay} \subseteq Nat \ {0}
    /\ MaxDelay \in Nat /\ BaseDelay <= MaxDelay

VARIABLES
    failures,   \* consecutive failed calls, counted to one above the threshold
    reopening,  \* resetTimeoutMs - (now - openedAt), while positive
    probe,      \* probeInFlight
    call,       \* the call in flight: its attempt, and the delay it sleeps
    upstream    \* is Horizon answering?

httpVars == <<failures, reopening, probe, call, upstream>>

NoCall == [attempt |-> 0, sleeps |-> 0]

HttpInit ==
    /\ failures = 0 /\ reopening = 0 /\ probe = FALSE
    /\ call = NoCall
    /\ upstream \in BOOLEAN

IsOpen == failures >= FailureThreshold

BreakerState == IF ~IsOpen THEN "closed" ELSE IF probe THEN "half-open" ELSE "open"

\* fetch: refused while the breaker is open, but for one probe after the timeout
Admit ==
    /\ call = NoCall
    /\ IsOpen => reopening = 0 /\ ~probe
    /\ probe' = (probe \/ IsOpen)
    /\ call' = [attempt |-> 1, sleeps |-> 0]
    /\ UNCHANGED <<failures, reopening, upstream>>

\* (Faulty: a failed probe stays recorded as in flight)
RecordFailureKeepsProbe ==
    /\ failures' = Min({failures + 1, FailureThreshold + 1})
    /\ reopening' = IF failures' >= FailureThreshold THEN ResetTimeout ELSE reopening
    /\ UNCHANGED probe

RecordFailure ==
    /\ failures' = Min({failures + 1, FailureThreshold + 1})
    /\ reopening' = IF failures' >= FailureThreshold THEN ResetTimeout ELSE reopening
    /\ probe' = FALSE

RecordSuccess == failures' = 0 /\ probe' = FALSE /\ UNCHANGED reopening

\* Any answer but a timeout, a 408, a 429 or a 5xx ends the call
Answered ==
    /\ call.attempt > 0 /\ call.sleeps = 0 /\ upstream
    /\ RecordSuccess
    /\ call' = NoCall
    /\ UNCHANGED upstream

Exponential(attempt) == Min({BaseDelay * 2^(attempt - 1), MaxDelay})

\* With jitter, and no less than the Retry-After of a 429, up to MaxDelay
Delays(attempt) == Exponential(attempt)..MaxDelay

AttemptFails ==
    /\ call.attempt > 0 /\ call.sleeps = 0 /\ ~upstream
    /\ IF call.attempt >= HttpAttempts
       THEN RecordFailure /\ call' = NoCall
       ELSE /\ \E d \in Delays(call.attempt) :
                  call' = [attempt |-> call.attempt + 1, sleeps |-> d]
            /\ UNCHANGED <<failures, reopening, probe>>
    /\ UNCHANGED upstream

TimePasses ==
    /\ reopening > 0 \/ call.sleeps > 0
    /\ reopening' = Max({reopening - 1, 0})
    /\ call' = [call EXCEPT !.sleeps = Max({@ - 1, 0})]
    /\ UNCHANGED <<failures, probe, upstream>>

UpstreamChanges == upstream' = ~upstream /\ UNCHANGED <<failures, reopening, probe, call>>

Calling == Admit \/ Answered \/ AttemptFails \/ TimePasses

HttpNext == Calling \/ UpstreamChanges

\* Passes are scheduled again and again, timers fire, requests end or time out
HttpFairness == WF_httpVars(Calling)

HttpSpec == HttpInit /\ [][HttpNext]_httpVars /\ HttpFairness
---------------------------------------------------------------------------
\* Once Horizon answers for good the breaker closes and stays closed, however
\* the outages, the probes and the timeout before that overlapped.
BreakerRecovers == <>[]upstream => <>[](BreakerState = "closed")
===========================================================================
