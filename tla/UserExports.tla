----------------------------- MODULE UserExports -----------------------------
(***************************************************************************)
(* The exports a user asks for in the export dialog: jobs kept in the      *)
(* shared store with the memory of the process as its fallback, worked off *)
(* in the background, downloaded by a link that expires, and watched by a  *)
(* dialog that polls.  Commands of the store fail, the process restarts,   *)
(* and answers to the dialog arrive in any order.                          *)
(***************************************************************************)
EXTENDS Integers, FiniteSets

CONSTANTS
    UserJobs,
    LinkLife,         \* bound: the five minutes of a link, in ticks
    MaxUserFaults,    \* bound: commands of the store that fail
    MaxUserRestarts,  \* bound
    MaxAnswers        \* bound: lists on their way to the dialog

ASSUME UserExportAssumption == LinkLife \in Nat \ {0} /\ MaxAnswers \in Nat

VARIABLES
    status,     \* status[place][job], where place is the store or the memory
    listed,     \* listed[place]: the jobs of export:user:<address>
    artifact,   \* artifact[place]: jobs whose content is kept there
    left,       \* left[job]: life of its link, once it has one
    stage,      \* stage[job]: how far createExportJob and processExportJob are
    seenList,   \* the list a creation has read and not written yet
    dialog,     \* isOpen, activeTab, jobs
    answers,    \* lists on their way
    userFaults, userRestarts

userVars == <<status, listed, artifact, left, stage, seenList, dialog, answers,
              userFaults, userRestarts>>

Places == {"store", "memory"}
NoJobs == [j \in UserJobs |-> "none"]

UserInit ==
    /\ status = [p \in Places |-> NoJobs]
    /\ listed = [p \in Places |-> {}] /\ artifact = [p \in Places |-> {}]
    /\ left = [j \in UserJobs |-> 0]
    /\ stage = [j \in UserJobs |-> "none"] /\ seenList = [j \in UserJobs |-> {}]
    /\ dialog = [open |-> FALSE, tab |-> "request", jobs |-> NoJobs]
    /\ answers = {} /\ userFaults = 0 /\ userRestarts = 0

\* A command of the store that may fail: lost says whether this one does
Command(lost) ==
    /\ lost => userFaults < MaxUserFaults
    /\ userFaults' = userFaults + IF lost THEN 1 ELSE 0

Reaches(j, s) == stage' = [stage EXCEPT ![j] = s]

\* getExportJob: the store first, the memory when it has nothing or fails
JobOf(j, lost) ==
    IF ~lost /\ status["store"][j] # "none" THEN status["store"][j] ELSE status["memory"][j]

\* The fallback of createExportJob when the store fails
CreateInMemory(j) ==
    /\ status' = [status EXCEPT !["memory"][j] = "pending"]
    /\ listed' = [listed EXCEPT !["memory"] = @ \cup {j}]
    /\ Reaches(j, "created")

CreateExportJob(j) ==
    /\ \E lost \in BOOLEAN :
          /\ Command(lost)
          /\ IF lost THEN CreateInMemory(j)
             ELSE /\ status' = [status EXCEPT !["store"][j] = "pending"]
                  /\ Reaches(j, "list") /\ UNCHANGED listed
    /\ UNCHANGED <<artifact, left, seenList, dialog, answers, userRestarts>>

\* The form of the first tab; its scopes and formats make no difference here
FormOffers(j) == dialog.open /\ dialog.tab = "request" /\ stage[j] = "none"

RequestExport(j) == FormOffers(j) /\ CreateExportJob(j)

\* The user's list is read, and written back with the new job in it
ReadJobList(j) ==
    /\ stage[j] = "list"
    /\ \E lost \in BOOLEAN :
          /\ Command(lost)
          /\ IF lost THEN CreateInMemory(j) /\ UNCHANGED seenList
             ELSE /\ seenList' = [seenList EXCEPT ![j] = listed["store"]]
                  /\ Reaches(j, "listRead") /\ UNCHANGED <<status, listed>>
    /\ UNCHANGED <<artifact, left, dialog, answers, userRestarts>>

WriteJobList(j) ==
    /\ stage[j] = "listRead"
    /\ \E lost \in BOOLEAN :
          /\ Command(lost)
          /\ IF lost THEN CreateInMemory(j)
             ELSE /\ listed' = [listed EXCEPT !["store"] = seenList[j] \cup {j}]
                  /\ Reaches(j, "created") /\ UNCHANGED status
    /\ UNCHANGED <<artifact, left, seenList, dialog, answers, userRestarts>>

\* updateExportJob: the store if it can, the memory always
UpdateExportJob(j, s) ==
    \E lost \in BOOLEAN :
        /\ Command(lost)
        /\ status' = [p \in Places |-> IF p = "store" /\ lost THEN status[p]
                                       ELSE [status[p] EXCEPT ![j] = s]]

\* processExportJob: a job that cannot be read is left as it is
PickUp(j) ==
    /\ stage[j] = "created"
    /\ IF JobOf(j, FALSE) = "none" THEN Reaches(j, "over") /\ UNCHANGED <<status, userFaults>>
       ELSE Reaches(j, "working") /\ UpdateExportJob(j, "processing")
    /\ UNCHANGED <<listed, artifact, left, seenList, dialog, answers, userRestarts>>

\* (Faulty: the content is kept in the store alone)
SaveInStore(j) ==
    /\ stage[j] = "working"
    /\ left' = [left EXCEPT ![j] = LinkLife]
    /\ \E lost \in BOOLEAN :
          /\ Command(lost)
          /\ artifact' = [artifact EXCEPT !["store"] = IF lost THEN @ ELSE @ \cup {j}]
    /\ Reaches(j, "saved")
    /\ UNCHANGED <<status, listed, seenList, dialog, answers, userRestarts>>

\* generateSecureDownloadUrl, saveExportArtifact
SaveExportArtifact(j) ==
    /\ stage[j] = "working"
    /\ left' = [left EXCEPT ![j] = LinkLife]
    /\ \E lost \in BOOLEAN :
          /\ Command(lost)
          /\ artifact' = [p \in Places |-> IF p = "store" /\ lost THEN artifact[p]
                                           ELSE artifact[p] \cup {j}]
    /\ Reaches(j, "saved")
    /\ UNCHANGED <<status, listed, seenList, dialog, answers, userRestarts>>

MarkReady(j) ==
    /\ stage[j] = "saved"
    /\ UpdateExportJob(j, "ready")
    /\ Reaches(j, "over")
    /\ UNCHANGED <<listed, artifact, left, seenList, dialog, answers, userRestarts>>

\* A link and the content behind it expire together
LinkAges ==
    /\ \E j \in UserJobs : left[j] > 0
    /\ left' = [j \in UserJobs |-> IF left[j] > 0 THEN left[j] - 1 ELSE 0]
    /\ artifact' = [p \in Places |-> {j \in artifact[p] : left'[j] > 0}]
    /\ UNCHANGED <<status, listed, stage, seenList, dialog, answers, userFaults, userRestarts>>

\* The memory is gone, and with it the work in progress
UserServerRestarts ==
    /\ userRestarts < MaxUserRestarts
    /\ userRestarts' = userRestarts + 1
    /\ status' = [status EXCEPT !["memory"] = NoJobs]
    /\ listed' = [listed EXCEPT !["memory"] = {}]
    /\ artifact' = [artifact EXCEPT !["memory"] = {}]
    /\ stage' = [j \in UserJobs |-> IF stage[j] = "none" THEN "none" ELSE "over"]
    /\ UNCHANGED <<left, seenList, dialog, answers, userFaults>>

---------------------------------------------------------------------------
\* listUserExportJobs: the list in memory when the store's is empty or lost
ListUserExportJobs(lost) ==
    LET ids == IF lost \/ listed["store"] = {} THEN listed["memory"] ELSE listed["store"]
    IN [j \in UserJobs |-> IF j \in ids THEN JobOf(j, lost) ELSE "none"]

\* On opening, after a request, on Refresh, and every two seconds while a job
\* it shows is active
FetchJobs ==
    /\ dialog.open /\ Cardinality(answers) < MaxAnswers
    /\ \E lost \in BOOLEAN : Command(lost) /\ answers' = answers \cup {ListUserExportJobs(lost)}
    /\ UNCHANGED <<status, listed, artifact, left, stage, seenList, dialog, userRestarts>>

\* (An equal list may still be on its way)
JobsArrive ==
    /\ \E a \in answers :
          /\ dialog' = [dialog EXCEPT !.jobs = a]
          /\ answers' \in {answers, answers \ {a}}
    /\ UNCHANGED <<status, listed, artifact, left, stage, seenList, userFaults, userRestarts>>

\* Open, close, and the two tabs; what was fetched is kept while closed
TurnDialog ==
    /\ \E o \in BOOLEAN, t \in {"request", "monitor"} :
          dialog' = [dialog EXCEPT !.open = o, !.tab = t]
    /\ UNCHANGED <<status, listed, artifact, left, stage, seenList, answers, userFaults, userRestarts>>

\* The row of a job has a Download link: ready, and not counted down to zero
OffersLink(j) ==
    dialog.open /\ dialog.tab = "monitor" /\ dialog.jobs[j] = "ready" /\ left[j] > 0

\* GET /api/export/download: 404 without the record or the content
Downloads(j) == JobOf(j, FALSE) # "none" /\ j \in artifact["store"] \cup artifact["memory"]

UserNext ==
    \/ \E j \in UserJobs :
          \/ RequestExport(j) \/ ReadJobList(j) \/ WriteJobList(j)
          \/ PickUp(j) \/ SaveExportArtifact(j) \/ MarkReady(j)
    \/ LinkAges \/ UserServerRestarts
    \/ FetchJobs \/ JobsArrive \/ TurnDialog

UserSpec == UserInit /\ [][UserNext]_userVars
---------------------------------------------------------------------------
\* A link the dialog offers downloads its export, however late the list it was
\* taken from, with a store that loses writes or a process that restarts (after
\* both, what only the memory held is gone).
LinksOfferedDownload ==
    \A j \in UserJobs :
        OffersLink(j) /\ (userRestarts = 0 \/ userFaults = 0) => Downloads(j)
===========================================================================
