---------------------------- MODULE AdminExports ----------------------------
(***************************************************************************)
(* Chunked downloads of one export record by several admins, over several  *)
(* processes that share a store.  The first call builds a job under a slot *)
(* of a global counter; the later ones resume from a signed cursor.  A     *)
(* process may die between any two of its writes.                          *)
(***************************************************************************)
EXTENDS Integers, Sequences, FiniteSets, SequencesExt

CONSTANTS
    Admins,        \* each with one request in flight at most
    MaxJobs,       \* bound: jobs ever created
    Chunks,        \* bound: most chunks of a job
    SlotCap,       \* EXPORT_MAX_CONCURRENT_JOBS
    MaxDeaths,     \* bound: requests that die half-way
    MaxRetries     \* bound: downloads an admin starts

ASSUME ExportAssumption == {MaxJobs, Chunks, SlotCap} \subseteq Nat \ {0}

VARIABLES
    revoked,    \* the record's revokedAt, in the store
    jobs,       \* job id -> [total, stored]: chunks it has, chunks stored so far
    byRecord,   \* export:job:byrecord, 0: none
    active,     \* export:concurrency:active
    queue,      \* export:queue
    ask,        \* admin -> the request in flight
    got,        \* admin -> chunks received: <<job, index>>
    cursor,     \* admin -> the nextCursor it holds, or NoCursor
    restarted,  \* admin -> downloads begun
    deaths

exportVars == <<revoked, jobs, byRecord, active, queue, ask, got, cursor, restarted, deaths>>

NoCursor == <<0, 0>>
NoAsk == [at |-> "none", job |-> 0, seen |-> 0]
Step(a, where) == [ask EXCEPT ![a].at = where]

ExportsInit ==
    /\ revoked = FALSE /\ jobs = <<>> /\ byRecord = 0 /\ active = 0 /\ queue = <<>>
    /\ ask = [a \in Admins |-> NoAsk]
    /\ got = [a \in Admins |-> <<>>] /\ cursor = [a \in Admins |-> NoCursor]
    /\ restarted = [a \in Admins |-> 0] /\ deaths = 0

clientVars == <<got, cursor, restarted>>

\* A call without a cursor, refused when the record is revoked
StartDownload(a) ==
    /\ ask[a] = NoAsk /\ cursor[a] = NoCursor /\ ~revoked /\ restarted[a] < MaxRetries
    /\ restarted' = [restarted EXCEPT ![a] = @ + 1]
    /\ got' = [got EXCEPT ![a] = <<>>]
    /\ ask' = Step(a, "find")
    /\ UNCHANGED <<revoked, jobs, byRecord, active, queue, cursor, deaths>>

\* getJobForRecord, getExportJob
FindJob(a) ==
    /\ ask[a].at = "find"
    /\ ask' = IF byRecord # 0 THEN [ask EXCEPT ![a] = [at |-> "serve", job |-> byRecord, seen |-> 0]]
              ELSE Step(a, "acquire")
    /\ UNCHANGED <<revoked, jobs, byRecord, active, queue, clientVars, deaths>>

\* checkExportThrottle: 429
Throttled(a) ==
    /\ ask[a].at = "acquire"
    /\ ask' = [ask EXCEPT ![a] = NoAsk]
    /\ UNCHANGED <<revoked, jobs, byRecord, active, queue, clientVars, deaths>>

\* Increment first, then compare with the cap
AcquireSlot(a) ==
    /\ ask[a].at = "acquire"
    /\ active' = active + 1
    /\ ask' = Step(a, IF active' > SlotCap THEN "undo" ELSE "create")
    /\ UNCHANGED <<revoked, jobs, byRecord, queue, clientVars, deaths>>

\* The roll-back and the release: a read, and a write of what was read less one
ReadSlots(a) ==
    /\ ask[a].at \in {"undo", "release"}
    /\ ask' = [ask EXCEPT ![a].at = IF @ = "undo" THEN "undone" ELSE "released", ![a].seen = active]
    /\ UNCHANGED <<revoked, jobs, byRecord, active, queue, clientVars, deaths>>

WriteSlots(a) ==
    /\ ask[a].at \in {"undone", "released"}
    /\ active' = IF ask[a].seen > 0 THEN ask[a].seen - 1
                 ELSE IF ask[a].at = "undone" THEN 0 ELSE active
    /\ ask' = [ask EXCEPT ![a] = NoAsk]
    /\ UNCHANGED <<revoked, jobs, byRecord, queue, clientVars, deaths>>

\* createExportJob: the job, its chunks one by one, and the record's link last
NewJob(a) ==
    /\ ask[a].at = "create" /\ Len(jobs) < MaxJobs
    /\ \E n \in 1..Chunks : jobs' = Append(jobs, [total |-> n, stored |-> 0])
    /\ ask' = [ask EXCEPT ![a].at = "store", ![a].job = Len(jobs')]
    /\ UNCHANGED <<revoked, byRecord, active, queue, clientVars, deaths>>

StoreChunk(a) ==
    /\ ask[a].at = "store" /\ jobs[ask[a].job].stored < jobs[ask[a].job].total
    /\ jobs' = [jobs EXCEPT ![ask[a].job].stored = @ + 1]
    /\ UNCHANGED <<revoked, byRecord, active, queue, ask, clientVars, deaths>>

\* (Faulty: the link is written as soon as there is a first chunk)
LinkFirst(a) ==
    /\ ask[a].at = "store" /\ byRecord # ask[a].job
    /\ jobs[ask[a].job].stored > 0
    /\ byRecord' = ask[a].job
    /\ UNCHANGED <<revoked, jobs, active, queue, ask, clientVars, deaths>>

\* ... and the queue entry
LinkJob(a) ==
    /\ ask[a].at = "store" /\ jobs[ask[a].job].stored = jobs[ask[a].job].total
    /\ byRecord' = ask[a].job
    /\ queue' = Append(queue, ask[a].job)
    /\ ask' = Step(a, "serveNew")
    /\ UNCHANGED <<revoked, jobs, active, clientVars, deaths>>

\* A call with a cursor: bound to its job, whatever the record links to now
Resume(a) ==
    /\ ask[a] = NoAsk /\ cursor[a] # NoCursor /\ ~revoked
    /\ ask' = [ask EXCEPT ![a] = [at |-> "serve", job |-> cursor[a][1], seen |-> cursor[a][2]]]
    /\ UNCHANGED <<revoked, jobs, byRecord, active, queue, clientVars, deaths>>

\* serveChunkBody: a chunk that is not stored is 404 and ends the download
ServeChunk(a) ==
    /\ ask[a].at \in {"serve", "serveNew"}
    /\ LET j == ask[a].job
           i == ask[a].seen
       IN IF i < jobs[j].stored
          THEN /\ got' = [got EXCEPT ![a] = Append(@, <<j, i>>)]
               /\ cursor' = [cursor EXCEPT ![a] =
                                IF i + 1 >= jobs[j].total THEN NoCursor ELSE <<j, i + 1>>]
          ELSE cursor' = [cursor EXCEPT ![a] = NoCursor] /\ UNCHANGED got
    /\ ask' = IF ask[a].at = "serveNew" THEN [ask EXCEPT ![a].at = "dequeue"]
              ELSE [ask EXCEPT ![a] = NoAsk]
    /\ UNCHANGED <<revoked, jobs, byRecord, active, queue, restarted, deaths>>

\* The finally block drops the job the record links to by then from the queue
Dequeue(a) ==
    /\ ask[a].at = "dequeue"
    /\ queue' = SelectSeq(queue, LAMBDA j : j # byRecord)
    /\ ask' = Step(a, "release")
    /\ UNCHANGED <<revoked, jobs, byRecord, active, clientVars, deaths>>

\* The admin's queue view cancels any entry
CancelQueued ==
    /\ \E j \in ToSet(queue) : queue' = SelectSeq(queue, LAMBDA k : k # j)
    /\ UNCHANGED <<revoked, jobs, byRecord, active, ask, clientVars, deaths>>

RevokeExport ==
    /\ ~revoked /\ revoked' = TRUE
    /\ UNCHANGED <<jobs, byRecord, active, queue, ask, clientVars, deaths>>

\* The process of a request dies: what it has written stays, its slot too
ProcessDies(a) ==
    /\ ask[a] # NoAsk /\ deaths < MaxDeaths
    /\ deaths' = deaths + 1
    /\ ask' = [ask EXCEPT ![a] = NoAsk]
    /\ UNCHANGED <<revoked, jobs, byRecord, active, queue, clientVars>>

ExportsNext ==
    \/ \E a \in Admins :
          \/ StartDownload(a) \/ FindJob(a) \/ Throttled(a) \/ AcquireSlot(a)
          \/ ReadSlots(a) \/ WriteSlots(a) \/ NewJob(a) \/ StoreChunk(a) \/ LinkJob(a)
          \/ Resume(a) \/ ServeChunk(a) \/ Dequeue(a) \/ ProcessDies(a)
    \/ CancelQueued
    \/ RevokeExport

ExportsSpec == ExportsInit /\ [][ExportsNext]_exportVars
---------------------------------------------------------------------------
\* A download is the chunks of one job, in order and without a gap, and the
\* cursor an admin holds is answered by a stored chunk, although jobs are built
\* side by side, linked over each other, and abandoned by dying processes.
DownloadsAreWhole ==
    \A a \in Admins :
        /\ \A n \in DOMAIN got[a] : got[a][n] = <<got[a][1][1], n - 1>>
        /\ cursor[a] # NoCursor =>
              /\ cursor[a] = <<got[a][1][1], Len(got[a])>>
              /\ cursor[a][2] < jobs[cursor[a][1]].stored

\* "The counter will self-correct as slots are released": with nobody building,
\* no slot is counted as taken.
SlotsReturn == (\A a \in Admins : ask[a] = NoAsk) /\ deaths = 0 => active = 0
===========================================================================
