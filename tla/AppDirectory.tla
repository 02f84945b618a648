---------------------------- MODULE AppDirectory ----------------------------
(***************************************************************************)
(* Applications that ask to be listed: the page and the route that take a  *)
(* submission, the indexer that keeps it when it answers, the memory of    *)
(* each server process and the shared store that keep it when not, reviews *)
(* by id, and the gallery.  The shared store is a remote one when the      *)
(* deployment has configured it, else each process has its own in memory.  *)
(*                                                                         *)
(* A request to the indexer is given up after five seconds; it may have    *)
(* been carried out all the same.                                          *)
(***************************************************************************)
EXTENDS Integers, Sequences, SequencesExt, FiniteSets

CONSTANTS
    SubmittedApps,  \* what is submitted, each by a page of its own
    Servers,        \* processes of the web application
    MaxRows,        \* bound: rows of app_submissions
    MaxMillis,      \* bound: instants, which are the ids of the fallback
    MaxDirReviews,  \* bound: reviews
    MaxDirUpsets,   \* bound: outages, restarts, failed writes
    NoEntryYet

Reviews == {"approved", "rejected", "pending"}
Kept == [app: SubmittedApps, status: Reviews]

ASSUME DirectoryAssumption ==
    /\ MaxRows \in Nat /\ MaxMillis \in Nat \ {0} /\ MaxDirReviews \in Nat /\ MaxDirUpsets \in Nat
    /\ NoEntryYet \notin Kept /\ "remote" \notin Servers

VARIABLES
    appRows,     \* the indexer's table: a sequence, the id is the place
    guarded,     \* the indexer asks for an API key to review, and none is sent
    indexerUp,
    appMemory,   \* memorySubmissions of each process, by id
    configured,  \* the deployment names a remote shared store
    appStore,    \* the remote store and those in the processes, by id
    millis,
    appPage,     \* each submitter's page
    calls,       \* requests under way in the processes, by number
    lives,       \* how often each process has been started again
    received,    \* history: submissions answered with an id, by which process
    approvedIds, \* history: ids a review has approved
    collided,    \* history: two submissions took one instant for their id
    unsaved,     \* history: a write to the shared store failed
    dirReviews, dirUpsets

directoryVars == <<appRows, guarded, indexerUp, appMemory, configured, appStore, lives, millis, appPage,
                   calls, received, approvedIds, collided, unsaved, dirReviews, dirUpsets>>
keptVars == <<appRows, appMemory, appStore>>
deployment == <<configured, lives>>
historyVars == <<received, approvedIds, collided, unsaved, dirReviews>>

Instants == 1..MaxMillis
SharedStores == Servers \cup {"remote"}
Row(n) == [in |-> "indexer", id |-> n]
Local(t) == [in |-> "local", id |-> t]
NothingKept == [t \in Instants |-> NoEntryYet]
Submission(app, status) == [app |-> app, status |-> status]

DirectoryInit ==
    /\ appRows = <<>> /\ guarded \in BOOLEAN /\ indexerUp \in BOOLEAN
    /\ appMemory = [s \in Servers |-> NothingKept] /\ appStore = [s \in SharedStores |-> NothingKept] /\ millis = 1
    /\ configured \in BOOLEAN /\ lives = [s \in Servers |-> 0]
    /\ appPage = [a \in SubmittedApps |-> "form"] /\ calls = <<>>
    /\ received = {} /\ approvedIds = {} /\ collided = FALSE /\ unsaved = FALSE
    /\ dirReviews = 0 /\ dirUpsets = 0

Upset == dirUpsets < MaxDirUpsets /\ dirUpsets' = dirUpsets + 1

---------------------------------------------------------------------------
\* Submitting.  What may be wrong with a form: "shape" the page finds, a
\* "length" only the route does (the address of the contact).
PageRefuses(faults) == "shape" \in faults
RouteRefuses(faults) == faults \cap {"shape", "length"} # {}

\* A request begins under a number that is free, or ends
Started(call) ==
    LET free == CHOOSE n \in 1 .. Cardinality(DOMAIN calls) + 1 : n \notin DOMAIN calls
    IN  calls' = [i \in DOMAIN calls \cup {free} |-> IF i = free THEN call ELSE calls[i]]
Done(i) == calls' = Restrict(calls, DOMAIN calls \ {i})

\* handleSubmit, and the route up to its request to the indexer
SendForm(a, s, faults) ==
    /\ appPage[a] \in {"form", "error"} /\ ~PageRefuses(faults)
    /\ IF RouteRefuses(faults)
       THEN appPage' = [appPage EXCEPT ![a] = "error"] /\ UNCHANGED calls
       ELSE /\ appPage' = [appPage EXCEPT ![a] = "submitting"]
            /\ Started([on |-> s, op |-> "submit", app |-> a, id |-> Row(0),
                        status |-> "pending", at |-> "asking"])
    /\ UNCHANGED <<guarded, indexerUp, keptVars, deployment, millis, historyVars, dirUpsets>>

CallIs(i, op, at) == calls[i].op = op /\ calls[i].at = at

\* POST /apps/submit of the indexer
InsertApp(i) ==
    /\ CallIs(i, "submit", "asking") /\ indexerUp /\ Len(appRows) < MaxRows
    /\ appRows' = Append(appRows, Submission(calls[i].app, "pending"))
    /\ calls' = [calls EXCEPT ![i].at = "answered", ![i].id = Row(Len(appRows'))]
    /\ UNCHANGED <<guarded, indexerUp, appMemory, appStore, deployment, millis, appPage, historyVars, dirUpsets>>

Received(s, app, id) ==
    /\ received' = received \cup {[app |-> app, id |-> id, by |-> s, life |-> lives[s]]}
    /\ appPage' = [appPage EXCEPT ![app] = "success"]

IndexerTookIt(i) ==
    /\ CallIs(i, "submit", "answered") /\ Received(calls[i].on, calls[i].app, calls[i].id) /\ Done(i)
    /\ UNCHANGED <<guarded, indexerUp, keptVars, deployment, millis, approvedIds, collided, unsaved,
                   dirReviews, dirUpsets>>

\* getSharedStore: the remote one, or the MemoryStore of the process
StoreOf(s) == IF configured THEN "remote" ELSE s

\* set(...).catch(() => null): a failure of the remote store is passed over
StoreWrites(s, t, submission) ==
    \/ appStore' = [appStore EXCEPT ![StoreOf(s)][t] = submission] /\ UNCHANGED <<unsaved, dirUpsets>>
    \/ configured /\ Upset /\ unsaved' = TRUE /\ UNCHANGED appStore

\* (Faulty: the submission stays in the memory of the process)
MemoryOnly(s, t, submission) == UNCHANGED <<appStore, unsaved, dirUpsets>>

\* The fallback of submitApp: an outage, an error, five seconds
KeepSubmission(s, t, submission) == StoreWrites(s, t, submission)

\* memorySubmissions of the process before the shared store
OwnOrShared(s, id) ==
    IF id.in = "indexer" THEN NoEntryYet
    ELSE IF appMemory[s][id.id] # NoEntryYet THEN appMemory[s][id.id] ELSE appStore[StoreOf(s)][id.id]

IndexerFailed(i, op) == CallIs(i, op, "asking") \/ CallIs(i, op, "answered")

SubmitLocally(i) ==
    LET s == calls[i].on  a == calls[i].app IN
    /\ IndexerFailed(i, "submit") /\ (~indexerUp \/ CallIs(i, "submit", "answered"))
    /\ appMemory' = [appMemory EXCEPT ![s][millis] = Submission(a, "pending")]
    /\ collided' = (collided \/ OwnOrShared(s, Local(millis)) # NoEntryYet)
    /\ KeepSubmission(s, millis, Submission(a, "pending"))
    /\ Received(s, a, Local(millis)) /\ Done(i)
    /\ UNCHANGED <<appRows, deployment, guarded, indexerUp, millis, approvedIds, dirReviews>>

---------------------------------------------------------------------------
\* Reviewing: by the id that was answered
BeginReview(s, id, status) ==
    /\ dirReviews < MaxDirReviews /\ dirReviews' = dirReviews + 1
    /\ Started([on |-> s, op |-> "review", app |-> NoEntryYet, id |-> id,
                status |-> status, at |-> "asking"])
    /\ UNCHANGED <<guarded, indexerUp, keptVars, deployment, millis, appPage, received, approvedIds, collided,
                   unsaved, dirUpsets>>

Approves(i) == approvedIds' = IF calls[i].status = "approved" THEN approvedIds \cup {calls[i].id} ELSE approvedIds

\* PATCH /apps/:id/status of the indexer
UpdateStatus(i) ==
    /\ CallIs(i, "review", "asking") /\ indexerUp /\ ~guarded /\ calls[i].id.in = "indexer"
    /\ appRows' = [appRows EXCEPT ![calls[i].id.id].status = calls[i].status]
    /\ calls' = [calls EXCEPT ![i].at = "answered"] /\ Approves(i)
    /\ UNCHANGED <<guarded, indexerUp, appMemory, appStore, deployment, millis, appPage, received, collided,
                   unsaved, dirReviews, dirUpsets>>

IndexerReviewed(i) ==
    /\ CallIs(i, "review", "answered") /\ Done(i)
    /\ UNCHANGED <<guarded, indexerUp, keptVars, deployment, millis, appPage, historyVars, dirUpsets>>

\* A read of the remote store that fails is an answer of nothing
KnownTo(s, id) ==
    {OwnOrShared(s, id)} \cup
        IF configured /\ id.in = "local" /\ appMemory[s][id.id] = NoEntryYet THEN {NoEntryYet} ELSE {}

\* The fallback of reviewApp
ReviewLocally(i) ==
    LET s == calls[i].on  id == calls[i].id IN
    /\ IndexerFailed(i, "review")
    /\ ~indexerUp \/ guarded \/ id.in = "local" \/ CallIs(i, "review", "answered")
    /\ \E known \in KnownTo(s, id) :
          IF known = NoEntryYet
          THEN UNCHANGED <<appMemory, appStore, approvedIds, unsaved, dirUpsets>>
          ELSE LET now == Submission(known.app, calls[i].status) IN
               /\ appMemory' = [appMemory EXCEPT ![s][id.id] = now]
               /\ StoreWrites(s, id.id, now) /\ Approves(i)
    /\ Done(i)
    /\ UNCHANGED <<appRows, guarded, indexerUp, deployment, millis, appPage, received, collided, dirReviews>>

---------------------------------------------------------------------------
\* listApprovedApps: the indexer's, if it answers, and the process's own
ListedRows == {Row(n) : n \in {n \in DOMAIN appRows : appRows[n].status = "approved"}}
ListedLocal(s) ==
    {Local(t) : t \in {t \in Instants : appMemory[s][t] # NoEntryYet /\ appMemory[s][t].status = "approved"}}
Gallery(s) == (IF indexerUp THEN ListedRows ELSE {}) \cup ListedLocal(s)

\* getAppSubmission
FoundBy(s, id) ==
    IF id.in = "indexer"
    THEN IF indexerUp /\ id.id \in DOMAIN appRows THEN appRows[id.id] ELSE NoEntryYet
    ELSE OwnOrShared(s, id)

---------------------------------------------------------------------------
\* The surroundings
Millisecond ==
    /\ millis < MaxMillis /\ millis' = millis + 1
    /\ UNCHANGED <<appRows, guarded, indexerUp, appMemory, appStore, deployment, appPage, calls, historyVars, dirUpsets>>

IndexerChanges ==
    /\ Upset /\ indexerUp' = ~indexerUp
    /\ UNCHANGED <<guarded, keptVars, deployment, millis, appPage, calls, historyVars>>

\* The requests of the process end, and what it kept in memory; their pages show an error
DirectoryRestarts(s) ==
    LET gone == {i \in DOMAIN calls : calls[i].on = s} IN
    /\ Upset /\ lives' = [lives EXCEPT ![s] = @ + 1]
    /\ appMemory' = [appMemory EXCEPT ![s] = NothingKept]
    /\ appStore' = [appStore EXCEPT ![s] = NothingKept]
    /\ calls' = Restrict(calls, DOMAIN calls \ gone)
    /\ appPage' = [a \in SubmittedApps |->
                      IF \E i \in gone : calls[i].op = "submit" /\ calls[i].app = a THEN "error" ELSE appPage[a]]
    /\ UNCHANGED <<appRows, guarded, indexerUp, configured, millis, historyVars>>

DirectoryNext ==
    \/ \E a \in SubmittedApps, s \in Servers, f \in {{}, {"length"}} : SendForm(a, s, f)
    \/ \E i \in DOMAIN calls :
          InsertApp(i) \/ IndexerTookIt(i) \/ SubmitLocally(i)
          \/ UpdateStatus(i) \/ IndexerReviewed(i) \/ ReviewLocally(i)
    \/ \E s \in Servers, r \in received, status \in Reviews :
          BeginReview(s, r.id, status)
    \/ Millisecond \/ IndexerChanges
    \/ \E s \in Servers : DirectoryRestarts(s)

DirectorySpec == DirectoryInit /\ [][DirectoryNext]_directoryVars
---------------------------------------------------------------------------
\* "Our team will review the submission": whatever an outage, a lost answer, a
\* restart or a review elsewhere does, a submission that was received is kept under
\* its id.  What the indexer took is in its table; what it did not take, a review
\* from any process finds when a remote store is configured, and when none is, one
\* from the process that received it, until that process is started again.
ReceivedIsKept ==
    \A r \in received :
        IF r.id.in = "indexer" THEN appRows[r.id.id].app = r.app
        ELSE \A s \in Servers :
                ~collided /\ ~unsaved /\ (configured \/ (s = r.by /\ r.life = lives[s])) =>
                    OwnOrShared(s, r.id) # NoEntryYet /\ OwnOrShared(s, r.id).app = r.app

\* Not checked, for it needs the remote store: any process finds what was received.
\* In the memory of the process that took it (shared-store.ts:295-304), a submission is
\* lost when the process ends.
ReceivedIsShared ==
    ~collided /\ ~unsaved => \A r \in received : r.id.in = "local" =>
        \A s \in Servers : OwnOrShared(s, r.id) # NoEntryYet

\* "Submissions are reviewed before being published."
ListedWasApproved == \A s \in Servers : Gallery(s) \subseteq approvedIds

\* Not checked: "Approved app should now appear in listApprovedApps"
\* (apps-submission.test.ts:150); only the process that reviewed it lists it.
ApprovedIsListed ==
    \A t \in Instants : LET kept == appStore["remote"][t] IN kept # NoEntryYet /\ kept.status = "approved" =>
        \A s \in Servers : Local(t) \in Gallery(s)

\* Not checked: a rejection takes an application off the gallery; another
\* process goes on listing what it approved itself (apps-store.ts:253-257).
RejectedIsDelisted ==
    \A t \in Instants : LET kept == appStore["remote"][t] IN kept # NoEntryYet /\ kept.status = "rejected" =>
        \A s \in Servers : Local(t) \notin Gallery(s)

\* Not checked: one form is one submission; an insertion the indexer answered
\* too late is stored locally as well (apps-store.ts:137-163).
KeptOnce == \A a \in SubmittedApps : Cardinality({r \in received : r.app = a}
    \cup {Row(n) : n \in {n \in DOMAIN appRows : appRows[n].app = a}}) <= 1
=============================================================================
