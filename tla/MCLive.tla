------------------------------- MODULE MCLive -------------------------------
(***************************************************************************)
(* The parts that promise an end: the HTTP client, idempotent requests,    *)
(* rate limits, proving in the browser, and the subscription of the SDK.   *)
(* They share no state; the first state chooses the part that runs and     *)
(* the others stay as they are.  The fairness of a part is asked of it     *)
(* only where it runs: elsewhere its steps are never enabled.              *)
(***************************************************************************)
EXTENDS HttpClient, Idempotency, RateLimits, ProofFlow, Subscriptions

CONSTANT Parts

VARIABLE part

vars == <<part, httpVars, idemVars, rateVars, proverVars, subscribeVars>>

Init ==
    /\ part \in Parts
    /\ HttpInit /\ IdemInit /\ RateInit /\ ProverInit /\ SubscribeInit
    /\ part # "http" => upstream
    /\ part # "idempotency" => ~outlasts
    /\ part # "limits" => limiter = "memory"

Next ==
    \/ part = "http"          /\ HttpNext
       /\ UNCHANGED <<part, idemVars, rateVars, proverVars, subscribeVars>>
    \/ part = "idempotency"   /\ IdemNext
       /\ UNCHANGED <<part, httpVars, rateVars, proverVars, subscribeVars>>
    \/ part = "limits"        /\ RateNext
       /\ UNCHANGED <<part, httpVars, idemVars, proverVars, subscribeVars>>
    \/ part = "proofs"        /\ ProverNext
       /\ UNCHANGED <<part, httpVars, idemVars, rateVars, subscribeVars>>
    \/ part = "subscriptions" /\ SubscribeNext
       /\ UNCHANGED <<part, httpVars, idemVars, rateVars, proverVars>>

Fairness ==
    /\ WF_httpVars(part = "http" /\ Calling)
    /\ \A r \in IdemRequests : WF_idemVars(part = "idempotency" /\ Served(r))
    /\ WF_rateVars(part = "limits" /\ Checking)
    /\ WF_rateVars(part = "limits" /\ WindowTick)
    /\ WF_rateVars(part = "limits" /\ Request)
    /\ WF_proverVars(part = "proofs" /\ ProofRuns)
    /\ WF_subscribeVars(part = "subscriptions" /\ TickStep)
    /\ WF_subscribeVars(part = "subscriptions" /\ ResyncFallsDue)

FairSpec == Init /\ [][Next]_vars /\ Fairness
=============================================================================
