---------------------------- MODULE ExportService ----------------------------
(***************************************************************************)
(* The export service of src/lib/export: a queue of jobs, runners that     *)
(* drain it, the synthetic probe, the counters they leave behind, the      *)
(* traces, and the alerts evaluated from the counters.                     *)
(***************************************************************************)
EXTENDS Integers, Sequences, SequencesExt, FiniteSets

CONSTANTS
    ServiceJobs,       \* job ids
    Probe,             \* the id of the probe's job
    Runners,           \* concurrent calls of processQueue
    BacklogThreshold, MinJobsForRate, MaxTraces

ASSUME ServiceAssumption ==
    {BacklogThreshold, MinJobsForRate, MaxTraces} \subseteq Nat \ {0}

VARIABLES
    jobStatus,   \* job -> "new", "queued", "processing", "completed", "failed"
    failsAt,     \* job -> the stage its work fails at, or "none"
    jobQueue,
    working,     \* runner or "probe" -> the job it works on, or "idle"
    counters,    \* jobsTotal by status, errors of the storage, slow jobs, workers
    artifacts,   \* jobs with a stored artifact
    spans,       \* the newest traces of executions: [job, status]
    alerts,      \* the rules that are FIRING
    told,        \* the last notification sent for each rule
    evaluated    \* history: counters and queue unchanged since evaluate()?

serviceVars == <<jobStatus, failsAt, jobQueue, working, counters, artifacts, spans,
                 alerts, told, evaluated>>

Rules == {"JOB_FAILURE_SPIKE", "QUEUE_BACKLOG_GROWTH", "SLOW_JOB_SLA_BREACH", "STORAGE_FAILURE_RATE"}
Stages == {"none", "fetch", "process", "storage"}
Callers == Runners \cup {"probe"}

ServiceInit ==
    /\ jobStatus = [j \in ServiceJobs |-> "new"]
    /\ failsAt = [j \in ServiceJobs |-> "none"]
    /\ jobQueue = <<>>
    /\ working = [c \in Callers |-> "idle"]
    /\ counters = [completed |-> 0, failed |-> 0, storage |-> 0, slow |-> 0, workers |-> 0]
    /\ artifacts = {} /\ spans = <<>> /\ alerts = {}
    /\ told = [r \in Rules |-> "OK"]
    /\ evaluated = TRUE

\* createJob: traced, queued, and the backlog gauge set
SubmitJob(j) ==
    /\ jobStatus[j] = "new" /\ j # Probe
    /\ \E s \in Stages : failsAt' = [failsAt EXCEPT ![j] = s]
    /\ jobStatus' = [jobStatus EXCEPT ![j] = "queued"]
    /\ jobQueue' = Append(jobQueue, j)
    /\ evaluated' = FALSE
    /\ UNCHANGED <<working, counters, artifacts, spans, alerts, told>>

\* enforceCapacity: the oldest trace goes
Traced(s) == IF Len(s) > MaxTraces THEN Tail(s) ELSE s

BeginJob(c, j) ==
    /\ working' = [working EXCEPT ![c] = j]
    /\ jobStatus' = [jobStatus EXCEPT ![j] = "processing"]
    /\ counters' = [counters EXCEPT !.workers = @ + 1]
    /\ spans' = Traced(Append(spans, [job |-> j, status |-> "unset"]))
    /\ evaluated' = FALSE
    /\ UNCHANGED <<failsAt, artifacts, alerts, told>>

\* processAll: the next job of the queue
DequeueJob(c) ==
    /\ c \in Runners /\ working[c] = "idle" /\ jobQueue # <<>>
    /\ jobQueue' = Tail(jobQueue)
    /\ BeginJob(c, Head(jobQueue))

\* The probe's job is queued like any other and worked on at once: it stays in
\* the queue, for a runner to work on again
RunProbe ==
    /\ working["probe"] = "idle" /\ jobStatus[Probe] = "new"
    /\ jobQueue' = Append(jobQueue, Probe)
    /\ BeginJob("probe", Probe)

EndSpan(j, status) ==
    [n \in DOMAIN spans |-> IF spans[n].job = j /\ spans[n].status = "unset"
                            THEN [job |-> j, status |-> status] ELSE spans[n]]

\* The end of processJob: its finally gives the worker back in either case
Finish(c, slow) ==
    LET j == working[c]
        ok == failsAt[j] = "none"
    IN  /\ j # "idle"
        /\ slow => ok
        /\ working' = [working EXCEPT ![c] = "idle"]
        /\ jobStatus' = [jobStatus EXCEPT ![j] = IF ok THEN "completed" ELSE "failed"]
        /\ artifacts' = IF ok THEN artifacts \cup {j} ELSE artifacts
        /\ counters' = [completed |-> counters.completed + IF ok THEN 1 ELSE 0,
                        failed    |-> counters.failed + IF ok THEN 0 ELSE 1,
                        storage   |-> counters.storage + IF failsAt[j] = "storage" THEN 1 ELSE 0,
                        slow      |-> counters.slow + IF slow THEN 1 ELSE 0,
                        workers   |-> counters.workers - 1]
        /\ spans' = EndSpan(j, IF ok THEN "ok" ELSE "error")
        /\ evaluated' = FALSE
        /\ UNCHANGED <<failsAt, jobQueue, alerts, told>>

\* (Faulty: below the minimum number of jobs no failure counts)
SpikesByRateOnly ==
    LET total == counters.completed + counters.failed IN
    total >= MinJobsForRate /\ counters.failed * 100 >= 15 * total

\* The rate counts once there are enough jobs; before, failures without a success
Spikes ==
    LET total == counters.completed + counters.failed IN
    IF total >= MinJobsForRate THEN counters.failed * 100 >= 15 * total
    ELSE counters.failed > 0 /\ counters.completed = 0

FiringRules ==
    {r \in Rules :
        \/ r = "JOB_FAILURE_SPIKE"    /\ Spikes
        \/ r = "QUEUE_BACKLOG_GROWTH" /\ Len(jobQueue) >= BacklogThreshold
        \/ r = "SLOW_JOB_SLA_BREACH"  /\ counters.slow > 0
        \/ r = "STORAGE_FAILURE_RATE" /\ counters.storage > 0}

\* evaluate: a notification when a rule starts or stops firing, and only then
Evaluate ==
    /\ alerts' = FiringRules
    /\ told' = [r \in Rules |-> IF r \in alerts /\ r \notin FiringRules THEN "OK"
                                ELSE IF r \in FiringRules THEN "FIRING" ELSE told[r]]
    /\ evaluated' = TRUE
    /\ UNCHANGED <<jobStatus, failsAt, jobQueue, working, counters, artifacts, spans>>

ServiceNext ==
    \/ \E j \in ServiceJobs : SubmitJob(j)
    \/ \E c \in Callers : DequeueJob(c) \/ \E slow \in BOOLEAN : Finish(c, slow)
    \/ RunProbe
    \/ Evaluate

ServiceSpec == ServiceInit /\ [][ServiceNext]_serviceVars
---------------------------------------------------------------------------
\* A service that has only ever failed is reported as failing, from its first
\* job on and whichever runners the failures came from; and what listeners were
\* told last of a rule is what the rule says.
FailuresAreAlerted ==
    evaluated =>
        /\ (\E j \in ServiceJobs : jobStatus[j] = "failed") /\ artifacts = {}
              => told["JOB_FAILURE_SPIKE"] = "FIRING"
        /\ \A r \in Rules : told[r] = "FIRING" <=> r \in alerts
===========================================================================
