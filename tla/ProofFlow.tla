------------------------------ MODULE ProofFlow ------------------------------
(***************************************************************************)
(* Proving one credential in the browser: the view that drives it, the     *)
(* client of the prover worker, the worker (or the page itself when there  *)
(* is none), and the cache of proving backends each of them keeps.  One    *)
(* circuit: the case in which proofs share a backend.                      *)
(***************************************************************************)
EXTENDS Integers, Sequences, SequencesExt

CONSTANTS
    MaxViews,      \* bound: times the view is opened
    MaxProofs,     \* bound: proofs asked for
    MaxBackends    \* bound: backends built

VARIABLES
    view,       \* the mounted view: its number, stage, proof, and the call it awaits
    viewsOpened,
    checking,   \* views whose retryNetworkCheck has not answered
    proofJobs,  \* jobs of proveOffMainThread
    inbox,      \* messages to the worker, in order
    outbox,     \* events of the worker, in order
    worker,     \* "none", "running", or "unavailable" for good
    backends,   \* state of each backend built
    cached,     \* cached[place]: the backend in that place's cache, 0: none
    lateCheck   \* history: a network check answered after its view had gone on

proverVars == <<view, viewsOpened, checking, proofJobs, inbox, outbox, worker, backends,
                cached, lateCheck>>

NoView == [id |-> 0, stage |-> "none", proof |-> FALSE, fee |-> FALSE, phase |-> "none"]

ProverInit ==
    /\ view = NoView /\ viewsOpened = 0 /\ checking = {}
    /\ proofJobs = <<>> /\ inbox = <<>> /\ outbox = <<>>
    /\ worker = "none" /\ backends = <<>> /\ cached = [p \in {"worker", "page"} |-> 0]
    /\ lateCheck = FALSE

ProofJob(place) ==
    [view |-> view.id, place |-> place, at |-> IF place = "worker" THEN "sent" ELSE "witness",
     backend |-> 0, stop |-> FALSE, answer |-> "none", killed |-> FALSE]

Unanswered(j) == proofJobs[j].answer = "none"
ViewShows(s) == view' = [view EXCEPT !.stage = s]
ViewFails(p) == view' = [view EXCEPT !.stage = "error", !.phase = p]

---------------------------------------------------------------------------
\* Backends

\* destroyBackend: out of the cache first, then gone as soon as it is built
Destroyed(b) == [backends EXCEPT ![b] = IF @ = "loading" THEN "doomed" ELSE "destroyed"]

\* (Faulty: evicted once it is gone; until then others may take it)
EvictLate(place) ==
    IF cached[place] = 0 THEN UNCHANGED <<cached, backends>>
    ELSE backends' = Destroyed(cached[place]) /\ UNCHANGED cached

DestroyBackend(place) ==
    IF cached[place] = 0 THEN UNCHANGED <<cached, backends>>
    ELSE /\ cached' = [cached EXCEPT ![place] = 0]
         /\ backends' = Destroyed(cached[place])

\* getBackend: the cached one, built or being built, or a new one
GetBackend(place) ==
    IF cached[place] # 0 THEN UNCHANGED <<cached, backends>>
    ELSE /\ Len(backends) < MaxBackends
         /\ backends' = Append(backends, "loading")
         /\ cached' = [cached EXCEPT ![place] = Len(backends')]

\* buildBackend ends; a failed one leaves the cache
BackendBuilt(b) ==
    /\ backends[b] \in {"loading", "doomed"}
    /\ \/ /\ backends' = [backends EXCEPT ![b] = IF @ = "doomed" THEN "destroyed" ELSE "ready"]
          /\ UNCHANGED cached
       \/ /\ backends' = [backends EXCEPT ![b] = "failed"]
          /\ cached' = [p \in DOMAIN cached |-> IF cached[p] = b THEN 0 ELSE cached[p]]
    /\ UNCHANGED <<view, viewsOpened, checking, proofJobs, inbox, outbox, worker, lateCheck>>

---------------------------------------------------------------------------
\* The view is told how a job went: nothing, if it was left meanwhile
Tell(j, answer) ==
    IF view.id # proofJobs[j].view \/ view.id = 0 \/ answer = "abort" THEN UNCHANGED view
    ELSE IF answer = "result" THEN view' = [view EXCEPT !.stage = "generated", !.proof = TRUE]
    ELSE ViewFails(IF answer = "timeout" THEN "timeout" ELSE "proving")

\* The worker's answers are events; the page's are the call's own
Answer(j, answer) ==
    IF proofJobs[j].place = "worker"
    THEN outbox' = Append(outbox, [event |-> answer, job |-> j]) /\ UNCHANGED view
    ELSE Tell(j, IF Unanswered(j) THEN answer ELSE "abort") /\ UNCHANGED outbox

JobEnds(j, answer, killed) ==
    /\ proofJobs' = [proofJobs EXCEPT ![j].at = "over", ![j].killed = killed,
                        ![j].answer = IF @ = "none" /\ proofJobs[j].place = "page" THEN answer ELSE @]
    /\ Answer(j, answer)

\* computeWitness: a stopped job's request is aborted, and any may fail
WitnessStep(j) ==
    /\ proofJobs[j].at = "witness"
    /\ \/ /\ JobEnds(j, "error", FALSE)
          /\ UNCHANGED <<cached, backends>>
       \/ /\ ~proofJobs[j].stop
          /\ GetBackend(proofJobs[j].place)
          /\ proofJobs' = [proofJobs EXCEPT ![j].at = "circuit",
                              ![j].backend = cached'[proofJobs[j].place]]
          /\ UNCHANGED <<view, outbox>>
    /\ UNCHANGED <<viewsOpened, checking, inbox, worker, lateCheck>>

\* A job stopped while its backend was being built goes on all the same
CircuitStep(j) ==
    LET b == backends[proofJobs[j].backend] IN
    /\ proofJobs[j].at = "circuit" /\ b \notin {"loading", "doomed"}
    /\ IF b = "failed" THEN JobEnds(j, "error", FALSE)
       ELSE proofJobs' = [proofJobs EXCEPT ![j].at = "proof"] /\ UNCHANGED <<view, outbox>>
    /\ UNCHANGED <<viewsOpened, checking, inbox, worker, backends, cached, lateCheck>>

\* generateProof rejects when its backend is destroyed under it
ProofStep(j) ==
    /\ proofJobs[j].at = "proof"
    /\ IF backends[proofJobs[j].backend] = "destroyed" THEN JobEnds(j, "error", TRUE)
       ELSE JobEnds(j, "result", FALSE)
    /\ UNCHANGED <<viewsOpened, checking, inbox, worker, backends, cached, lateCheck>>

\* The signal of a job reaches the code that works on it
Stop(j, place) ==
    IF proofJobs[j].at = "proof" THEN DestroyBackend(place) ELSE UNCHANGED <<cached, backends>>

---------------------------------------------------------------------------
\* The worker

\* handleCommand: prove, or cancel
WorkerReceives ==
    /\ worker = "running" /\ inbox # <<>>
    /\ inbox' = Tail(inbox)
    /\ LET j == Head(inbox).job IN
       IF Head(inbox).command = "prove"
       THEN /\ proofJobs' = [proofJobs EXCEPT ![j].at = "witness"]
            /\ UNCHANGED <<cached, backends>>
       ELSE /\ proofJobs' = [proofJobs EXCEPT ![j].stop = TRUE]
            /\ Stop(j, "worker")
    /\ UNCHANGED <<view, viewsOpened, checking, outbox, worker, lateCheck>>

\* onWorkerMessage: the first answer of a job settles it
PageReceives ==
    /\ outbox # <<>> /\ outbox' = Tail(outbox)
    /\ LET j == Head(outbox).job IN
       IF Unanswered(j)
       THEN /\ proofJobs' = [proofJobs EXCEPT ![j].answer = Head(outbox).event]
            /\ Tell(j, Head(outbox).event)
       ELSE UNCHANGED <<proofJobs, view>>
    /\ UNCHANGED <<viewsOpened, checking, inbox, worker, backends, cached, lateCheck>>

\* What the worker had built dies with it
RetireWorker ==
    /\ worker' = "unavailable" /\ inbox' = <<>> /\ outbox' = <<>>
    /\ cached' = [cached EXCEPT !["worker"] = 0]
    /\ UNCHANGED backends

\* (Faulty: its jobs are forgotten)
CrashForgets ==
    /\ worker = "running"
    /\ RetireWorker
    /\ proofJobs' = [j \in DOMAIN proofJobs |->
           IF proofJobs[j].place = "worker" THEN [proofJobs[j] EXCEPT !.at = "over"] ELSE proofJobs[j]]
    /\ UNCHANGED <<view, viewsOpened, checking, lateCheck>>

\* onWorkerError: the unanswered jobs begin anew in the page
WorkerCrashes ==
    /\ worker = "running"
    /\ RetireWorker
    /\ proofJobs' = [j \in DOMAIN proofJobs |->
           IF proofJobs[j].place # "worker" THEN proofJobs[j]
           ELSE IF Unanswered(j) THEN [proofJobs[j] EXCEPT !.place = "page", !.at = "witness"]
           ELSE [proofJobs[j] EXCEPT !.at = "over"]]
    /\ UNCHANGED <<view, viewsOpened, checking, lateCheck>>

---------------------------------------------------------------------------
\* The page's side of a job

\* runProving, proveOffMainThread: a job for the worker, started if need be
RunProving(v) ==
    /\ Len(proofJobs) < MaxProofs
    /\ LET place == IF worker = "unavailable" THEN "page" ELSE "worker"
           job == [ProofJob(place) EXCEPT !.view = v]
       IN /\ proofJobs' = Append(proofJobs, job)
          /\ IF place = "page" THEN UNCHANGED <<inbox, worker>>
             ELSE /\ inbox' = Append(inbox, [command |-> "prove", job |-> Len(proofJobs')])
                  /\ worker' = "running"
    /\ IF v = view.id /\ v # 0 THEN view' = [view EXCEPT !.stage = "witness", !.phase = "none"]
       ELSE UNCHANGED view

\* Jobs are aborted: answered at once, and the worker told
Aborted(js) ==
    [j \in DOMAIN proofJobs |->
        IF j \in js THEN [proofJobs[j] EXCEPT !.answer = "abort",
                             !.stop = @ \/ proofJobs[j].place = "page"]
        ELSE proofJobs[j]]

Cancels(js) == [n \in 1..Len(SetToSeq(js)) |-> [command |-> "cancel", job |-> SetToSeq(js)[n]]]
InWorker(js) == {j \in js : proofJobs[j].place = "worker"}
StoppedInPage(js) ==
    IF \E j \in js : proofJobs[j].place = "page" /\ proofJobs[j].at = "proof"
    THEN DestroyBackend("page") ELSE UNCHANGED <<cached, backends>>

\* withTimeout: of one job, told to its view as a timeout
TimesOut(j) ==
    /\ Unanswered(j)
    /\ proofJobs' = Aborted({j})
    /\ inbox' = inbox \o Cancels(InWorker({j}))
    /\ StoppedInPage({j})
    /\ Tell(j, "timeout")
    /\ UNCHANGED <<viewsOpened, checking, outbox, worker, lateCheck>>

---------------------------------------------------------------------------
\* The view

OpenView ==
    /\ view.id = 0 /\ viewsOpened < MaxViews
    /\ viewsOpened' = viewsOpened + 1
    /\ view' = [NoView EXCEPT !.id = viewsOpened', !.stage = "networkCheck"]
    /\ UNCHANGED <<checking, proofJobs, inbox, outbox, worker, backends, cached, lateCheck>>

\* probeRpcHealth of the effect: healthy, or the proof is deferred
ProbeAnswers ==
    /\ view.stage = "networkCheck"
    /\ \/ RunProving(view.id)
       \/ view' = [view EXCEPT !.stage = "blocked", !.phase = "network"]
          /\ UNCHANGED <<proofJobs, inbox, worker>>
    /\ UNCHANGED <<viewsOpened, checking, outbox, backends, cached, lateCheck>>

ProceedAnyway ==
    /\ view.stage = "blocked"
    /\ RunProving(view.id)
    /\ UNCHANGED <<viewsOpened, checking, outbox, backends, cached, lateCheck>>

RetryNetworkCheck ==
    /\ view.stage = "blocked"
    /\ checking' = checking \cup {view.id}
    /\ UNCHANGED <<view, viewsOpened, proofJobs, inbox, outbox, worker, backends, cached, lateCheck>>

\* Healthy: it proves, whatever became of the view; a view that was left has no
\* controller to abort this with
RetryAnswers(v) ==
    /\ v \in checking /\ checking' = checking \ {v}
    /\ \/ UNCHANGED <<view, proofJobs, inbox, worker, lateCheck>>
       \/ /\ RunProving(IF v = view.id THEN v ELSE 0)
          /\ lateCheck' = (lateCheck \/ v # view.id \/ view.stage # "blocked")
    /\ UNCHANGED <<viewsOpened, outbox, backends, cached>>

\* Cancel and Back: the effect's clean-up aborts what the view's controller
\* controls
LeaveView ==
    LET mine == {j \in DOMAIN proofJobs : proofJobs[j].view = view.id /\ Unanswered(j)} IN
    /\ view.id # 0 /\ view' = NoView
    /\ proofJobs' = Aborted(mine)
    /\ inbox' = inbox \o Cancels(InWorker(mine))
    /\ StoppedInPage(mine)
    /\ UNCHANGED <<viewsOpened, checking, outbox, worker, lateCheck>>

\* The page is left: the view's own clean-up, then releaseProver, of the worker and of
\* the backends that the page has built when there is none
LeavePage ==
    LET mine == {j \in DOMAIN proofJobs : view.id # 0 /\ proofJobs[j].view = view.id}
        left == Aborted({j \in DOMAIN proofJobs :
                            Unanswered(j) /\ (proofJobs[j].place = "worker" \/ j \in mine)})
    IN
    /\ view' = NoView
    /\ proofJobs' = [j \in DOMAIN left |->
                        IF left[j].place = "worker" THEN [left[j] EXCEPT !.at = "over"] ELSE left[j]]
    /\ worker' = IF worker = "unavailable" THEN worker ELSE "none"
    /\ inbox' = <<>> /\ outbox' = <<>>
    /\ cached' = [place \in DOMAIN cached |-> 0]
    /\ backends' = IF cached["page"] = 0 THEN backends ELSE Destroyed(cached["page"])
    /\ UNCHANGED <<viewsOpened, checking, lateCheck>>

\* onPreflight, doSignAndSubmit, and their retries after an error
Submit ==
    /\ \/ view.stage = "generated" /\ ViewShows("preflight")
       \/ view.stage = "readyToSign" /\ ViewShows("submitting")
       \/ view.stage = "error" /\ view.proof /\ view.phase \in {"preflight", "submitting"}
          /\ ViewShows(IF view.fee \/ view.phase = "preflight" THEN "submitting" ELSE "preflight")
    /\ UNCHANGED <<viewsOpened, checking, proofJobs, inbox, outbox, worker, backends, cached, lateCheck>>

ChainAnswers ==
    /\ \/ view.stage = "preflight"
          /\ (view' = [view EXCEPT !.stage = "readyToSign", !.fee = TRUE] \/ ViewFails("preflight"))
       \/ view.stage = "submitting" /\ (ViewShows("confirmed") \/ ViewFails("submitting"))
    /\ UNCHANGED <<viewsOpened, checking, proofJobs, inbox, outbox, worker, backends, cached, lateCheck>>

ProofRuns ==
    \/ WorkerReceives \/ PageReceives
    \/ \E j \in DOMAIN proofJobs : WitnessStep(j) \/ CircuitStep(j) \/ ProofStep(j)
    \/ \E b \in DOMAIN backends : BackendBuilt(b)

ProverNext ==
    \/ ProofRuns
    \/ WorkerCrashes \/ \E j \in DOMAIN proofJobs : TimesOut(j)
    \/ OpenView \/ ProbeAnswers \/ ProceedAnyway \/ RetryNetworkCheck
    \/ \E v \in checking : RetryAnswers(v)
    \/ LeaveView \/ LeavePage \/ Submit \/ ChainAnswers

\* Messages arrive, and what the engine computes or fetches ends
ProverFairness == WF_proverVars(ProofRuns)

ProverSpec == ProverInit /\ [][ProverNext]_proverVars /\ ProverFairness
---------------------------------------------------------------------------
\* Whoever asks for a proof is answered, without the help of the timeout: the
\* worker may crash, be released or be cancelled at any point of it.
ProofsAreAnswered ==
    \A j \in 1..MaxProofs :
        (j \in DOMAIN proofJobs) ~> (j \in DOMAIN proofJobs /\ ~Unanswered(j))

\* "Reuses the cached backend": a proof that nobody cancelled never has its
\* backend destroyed under it, although cancelled proofs of the same circuit
\* destroy theirs and the next one follows at once.  (Two proofs run at once
\* only when a network check answers late.)
CancelSparesOthers ==
    ~lateCheck => \A j \in DOMAIN proofJobs :
        proofJobs[j].killed => proofJobs[j].stop \/ proofJobs[j].answer = "abort"
=============================================================================
