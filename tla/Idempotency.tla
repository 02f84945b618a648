---------------------------- MODULE Idempotency ----------------------------
(***************************************************************************)
(* The issuance routes' idempotency cache on one server: completed         *)
(* records, the slots of requests in flight that later requests with the   *)
(* same key join, and the shared store, in this process or behind HTTP.    *)
(* Ages stand for Date.now() minus the time of creation.                   *)
(***************************************************************************)
EXTENDS Integers, FiniteSets

CONSTANTS
    IdemKeys,     \* values of the Idempotency-Key header
    IdemRequests, \* requests clients send
    IdemTtl,      \* IDEMPOTENCY_TTL_SECONDS
    RemoteStore   \* is an Upstash store configured, or the in-process map?

ASSUME IdemAssumption == IdemTtl \in Nat /\ RemoteStore \in BOOLEAN

VARIABLES
    completed,  \* store: key -> age of the record, or Never
    shared,     \* getSharedStore(): likewise
    inFlight,   \* key -> age of the slot, or Never
    req,        \* request -> where it is
    outlasts    \* may requests run longer than the TTL?

idemVars == <<completed, shared, inFlight, req, outlasts>>

Never == -1
Live(age) == age # Never /\ age <= IdemTtl

IdemInit ==
    /\ completed = [k \in IdemKeys |-> Never]
    /\ shared = [k \in IdemKeys |-> Never]
    /\ inFlight = [k \in IdemKeys |-> Never]
    /\ req \in [IdemRequests -> {[at |-> "new", key |-> k] : k \in IdemKeys}]
    /\ outlasts \in BOOLEAN

At(r, where) == req[r].at = where
Moved(r, where) == [req EXCEPT ![r].at = where]

\* Requests that joined a slot: the record is replayed to them, or they try anew
Woken(q, keys, where) ==
    [r \in IdemRequests |-> IF q[r].at = "joined" /\ q[r].key \in keys
                            THEN [q[r] EXCEPT !.at = where] ELSE q[r]]

Stale == {k \in IdemKeys : inFlight[k] > IdemTtl}

\* (Faulty: only the completed records are looked up)
BeginAlways(r) ==
    /\ inFlight' = [inFlight EXCEPT ![req[r].key] = 0]
    /\ req' = Moved(r, "running")
    /\ UNCHANGED <<completed, shared>>

\* idempotencyInFlightBegin: stale slots are pruned, then the request joins the
\* slot of its key or takes it and runs
BeginOrJoin(r) ==
    LET key   == req[r].key
        slots == [k \in IdemKeys |-> IF k \in Stale THEN Never ELSE inFlight[k]]
        woken == Woken(req, Stale, "new")
    IN  /\ inFlight' = IF slots[key] = Never THEN [slots EXCEPT ![key] = 0] ELSE slots
        /\ req' = [woken EXCEPT ![r].at = IF slots[key] = Never THEN "running" ELSE "joined"]
        /\ UNCHANGED <<completed, shared>>

\* idempotencyGetAsync: the local record; else the shared one, which a remote
\* store is asked for while other requests go on
Lookup(r) ==
    /\ At(r, "new")
    /\ LET key == req[r].key IN
       IF Live(completed[key])
       THEN req' = Moved(r, "answered") /\ UNCHANGED <<completed, shared, inFlight>>
       ELSE IF RemoteStore
       THEN /\ completed' = [completed EXCEPT ![key] = Never]
            /\ req' = Moved(r, IF Live(shared[key]) THEN "found" ELSE "missed")
            /\ UNCHANGED <<shared, inFlight>>
       ELSE BeginOrJoin(r)

\* The remote store's answer arrives, or an error that counts as a miss
LookupReturns(r) ==
    \/ /\ At(r, "found")
       /\ completed' = [completed EXCEPT ![req[r].key] = shared[req[r].key]]
       /\ req' = Moved(r, "answered")
       /\ UNCHANGED <<shared, inFlight>>
    \/ At(r, "missed") /\ BeginOrJoin(r)

\* (Faulty: the slot is freed and nobody who waits for it is told)
FailSilently(r) ==
    /\ At(r, "running")
    /\ inFlight' = [inFlight EXCEPT ![req[r].key] = Never]
    /\ req' = Moved(r, "answered")
    /\ UNCHANGED <<completed, shared>>

\* Any response but a 200 or a Persona redirect: idempotencyInFlightFail frees
\* whichever slot the key has
Fail(r) ==
    /\ At(r, "running")
    /\ inFlight' = [inFlight EXCEPT ![req[r].key] = Never]
    /\ req' = Woken(Moved(r, "answered"), {req[r].key}, "new")
    /\ UNCHANGED <<completed, shared>>

\* The operation is done: persistLocal, then the shared store
Complete(r) ==
    /\ At(r, "running")
    /\ completed' = [completed EXCEPT ![req[r].key] = 0]
    /\ req' = Moved(r, "saving")
    /\ UNCHANGED <<shared, inFlight>>

\* The shared store keeps the record, or fails and is ignored; then
\* idempotencyInFlightSettle
Settle(r) ==
    /\ At(r, "saving")
    /\ shared' \in {shared, [shared EXCEPT ![req[r].key] = completed[req[r].key]]}
    /\ inFlight' = [inFlight EXCEPT ![req[r].key] = Never]
    /\ req' = Woken(Moved(r, "answered"), {req[r].key}, "answered")
    /\ UNCHANGED completed

Older(ages) ==
    [k \in IdemKeys |-> IF ages[k] \in 0..IdemTtl THEN ages[k] + 1 ELSE ages[k]]

IdemTick ==
    /\ outlasts \/ \A k \in IdemKeys : inFlight[k] < IdemTtl
    /\ completed' = Older(completed) /\ shared' = Older(shared) /\ inFlight' = Older(inFlight)
    /\ <<completed, shared, inFlight>>' # <<completed, shared, inFlight>>
    /\ UNCHANGED <<req, outlasts>>

Served(r) ==
    /\ Lookup(r) \/ LookupReturns(r) \/ Fail(r) \/ Complete(r) \/ Settle(r)
    /\ UNCHANGED outlasts

IdemNext == IdemTick \/ \E r \in IdemRequests : Served(r)

\* Nothing a request awaits lasts for ever
IdemFairness == \A r \in IdemRequests : WF_idemVars(Served(r))

IdemSpec == IdemInit /\ [][IdemNext]_idemVars /\ IdemFairness
---------------------------------------------------------------------------
\* "A shared store prevents re-execution after a completed request": while a
\* request runs, no other with its key runs and none has completed within the
\* TTL, where no request outlasts the TTL itself.
NoReexecution ==
    ~outlasts => \A r \in IdemRequests : At(r, "running") =>
        /\ ~Live(completed[req[r].key])
        /\ \A s \in IdemRequests \ {r} : At(s, "running") => req[s].key # req[r].key

\* Every request is answered, those that joined the slot of another too,
\* whether that one completes, fails, or outlives its slot.
RequestsAnswered == \A r \in IdemRequests : ~At(r, "new") ~> At(r, "answered")
===========================================================================
