----------------------------- MODULE AuditTrail -----------------------------
(***************************************************************************)
(* The audit log of issuances and of operators' acts: the chain in the     *)
(* memory of one server, the file every request rewrites, the queue of     *)
(* outbound events, and the issuance queue operators work on.              *)
(***************************************************************************)
EXTENDS Integers, Sequences, SequencesExt, FiniteSets

CONSTANTS
    Requests,       \* requests that append one entry
    Callbacks,      \* issuance events of providers, by their id
    MaxQueue,       \* OUTBOUND_SINK_QUEUE_SIZE
    MaxFaults, MaxReissues, MaxReports      \* bounds

VARIABLES
    boot,       \* bootstrapPromise: "none", "done" or "failed"
    chain,
    file,       \* its whole lines, and whether a broken one follows
    at,         \* of a request: at which await it is
    content,    \* of a request: the text it writes
    sinkQueue, sinkActive, draining,    \* OutboundSink: items, deliveries and the drain
    issuances, resolved, retries, \* issuance queue
    auditFaults, reports,
    orderly,    \* history: no server has stopped with an entry unsaved, or
                \* begun without reading a file that was there
    logged,     \* history: the entries appended, in order
    saved       \* history: the greatest length the file has had

sinkVars == <<sinkQueue, sinkActive, draining, reports>>
opsVars == <<issuances, resolved, retries>>
auditVars == <<boot, chain, file, at, content, sinkVars, opsVars, auditFaults, orderly, logged, saved>>

File(lines, broken) == [lines |-> lines, broken |-> broken]

AuditInit ==
    /\ boot = "none" /\ chain = <<>> /\ file = File(<<>>, FALSE)
    /\ at = [r \in Requests |-> "idle"] /\ content = [r \in Requests |-> <<>>]
    /\ sinkQueue = 0 /\ sinkActive = 0 /\ draining = "none" /\ reports = 0
    /\ issuances = [e \in Callbacks |-> "none"] /\ resolved = {} /\ retries = [e \in Callbacks |-> 0]
    /\ auditFaults = 0 /\ orderly = TRUE /\ logged = <<>> /\ saved = 0

---------------------------------------------------------------------------
\* OutboundSink: deliveries are made one by one

\* enqueue: dropped when the queue is full; the first item is sent at once
Enqueue ==
    IF sinkQueue + sinkActive >= MaxQueue THEN UNCHANGED <<sinkQueue, sinkActive, draining>>
    ELSE IF draining = "none" THEN sinkActive' = 1 /\ draining' = "running" /\ UNCHANGED sinkQueue
    ELSE sinkQueue' = sinkQueue + 1 /\ UNCHANGED <<sinkActive, draining>>

ReportError ==
    /\ reports < MaxReports /\ reports' = reports + 1
    /\ Enqueue
    /\ UNCHANGED <<boot, chain, file, at, content, opsVars, auditFaults, orderly, logged, saved>>

\* A delivery is made or has failed: the drain goes on, or its loop ends
DeliveryEnds ==
    /\ sinkActive = 1
    /\ IF sinkQueue > 0 THEN sinkQueue' = sinkQueue - 1 /\ UNCHANGED <<sinkActive, draining>>
       ELSE sinkActive' = 0 /\ draining' = "ended" /\ UNCHANGED sinkQueue
    /\ UNCHANGED <<boot, chain, file, at, content, reports, opsVars, auditFaults, orderly, logged, saved>>

\* finally of startDrain
AfterDrain ==
    IF sinkQueue > 0 THEN sinkQueue' = sinkQueue - 1 /\ sinkActive' = 1 /\ draining' = "running"
    ELSE draining' = "none" /\ UNCHANGED <<sinkQueue, sinkActive>>

DrainEnds ==
    /\ draining = "ended" /\ AfterDrain
    /\ UNCHANGED <<boot, chain, file, at, content, reports, opsVars, auditFaults, orderly, logged, saved>>

---------------------------------------------------------------------------
\* The chain and its file

\* What a bootstrap reads: nothing when the file is broken
ReadFile == IF file.broken THEN <<>> ELSE file.lines

\* (Faulty: every request reads the file)
ChainReadAgain == ReadFile

\* auditLogBootstrap reads the file once
BootChain == IF boot = "done" THEN chain ELSE ReadFile

Begin(r) == at[r] = "idle" /\ at' = [at EXCEPT ![r] = "boot"]

\* A credential is signed
IssueSigned(r) ==
    /\ Begin(r)
    /\ UNCHANGED <<boot, chain, file, content, sinkVars, opsVars, auditFaults, orderly, logged, saved>>

\* appendAuditEntry
Entry(base, r) == [of |-> r, index |-> Len(base)]

\* auditLogAppend, once the bootstrap is over; readable is whether it could
\* open the file
AppendEntry(r, readable) ==
    LET base == IF readable THEN BootChain ELSE <<>>
        entry == Entry(base, r)
    IN
    /\ at[r] = "boot" /\ boot # "failed"
    /\ ~readable => boot = "none" /\ auditFaults < MaxFaults
    /\ auditFaults' = IF readable THEN auditFaults ELSE auditFaults + 1
    /\ orderly' = (orderly /\ (readable \/ file.lines = <<>>))
    /\ boot' = "done" /\ chain' = Append(base, entry) /\ logged' = Append(logged, entry)
    /\ at' = [at EXCEPT ![r] = "mkdir"]
    /\ Enqueue
    /\ UNCHANGED <<file, content, reports, opsVars, saved>>

\* validateStartup has failed: no request of this server is logged any more
BootFails ==
    /\ boot = "none" /\ auditFaults < MaxFaults /\ auditFaults' = auditFaults + 1
    /\ \E r \in Requests : at[r] = "boot"
    /\ boot' = "failed"
    /\ UNCHANGED <<chain, file, at, content, sinkVars, opsVars, orderly, logged, saved>>

EndsUnlogged(r) ==
    /\ at[r] = "boot" /\ boot = "failed" /\ at' = [at EXCEPT ![r] = "ended"]
    /\ UNCHANGED <<boot, chain, file, content, sinkVars, opsVars, auditFaults, orderly, logged, saved>>

\* auditLogPersist: the text is made after mkdir
Serialise(r) ==
    /\ at[r] = "mkdir" /\ at' = [at EXCEPT ![r] = "open"]
    /\ content' = [content EXCEPT ![r] = chain]
    /\ UNCHANGED <<boot, chain, file, sinkVars, opsVars, auditFaults, orderly, logged, saved>>

\* writeFile truncates the file when it opens it
OpenFile(r) ==
    /\ at[r] = "open" /\ at' = [at EXCEPT ![r] = "write"]
    /\ file' = File(<<>>, FALSE)
    /\ UNCHANGED <<boot, chain, content, sinkVars, opsVars, auditFaults, orderly, logged, saved>>

\* The text goes over what another request has written since
WriteFile(r) ==
    /\ at[r] = "write" /\ at' = [at EXCEPT ![r] = "ended"]
    /\ file' = IF Len(content[r]) > Len(file.lines) THEN File(content[r], FALSE) ELSE file
    /\ saved' = IF Len(content[r]) > saved THEN Len(content[r]) ELSE saved
    /\ content' = [content EXCEPT ![r] = <<>>]
    /\ UNCHANGED <<boot, chain, sinkVars, opsVars, auditFaults, orderly, logged>>

\* A part of the text only; the failure is logged and the request succeeds
WriteFails(r) ==
    /\ at[r] \in {"mkdir", "open", "write"} /\ at' = [at EXCEPT ![r] = "ended"]
    /\ auditFaults < MaxFaults /\ auditFaults' = auditFaults + 1
    /\ IF at[r] = "write" /\ Len(content[r]) > Len(file.lines)
       THEN \E n \in Len(file.lines)..Len(content[r]) - 1, broken \in BOOLEAN :
               file' = File(SubSeq(content[r], 1, n), broken)
       ELSE UNCHANGED file
    /\ content' = [content EXCEPT ![r] = <<>>]
    /\ UNCHANGED <<boot, chain, sinkVars, opsVars, orderly, logged, saved>>

ServerStops ==
    /\ auditFaults < MaxFaults /\ auditFaults' = auditFaults + 1
    /\ boot' = "none" /\ chain' = <<>>
    /\ at' = [r \in Requests |-> IF at[r] = "idle" THEN "idle" ELSE "ended"]
    /\ content' = [r \in Requests |-> <<>>]
    /\ sinkQueue' = 0 /\ sinkActive' = 0 /\ draining' = "none"
    /\ issuances' = [e \in Callbacks |-> "none"] /\ resolved' = {}
    /\ retries' = [e \in Callbacks |-> 0]
    /\ orderly' = (orderly /\ file = File(logged, FALSE))
    /\ UNCHANGED <<file, reports, logged, saved>>

---------------------------------------------------------------------------
\* The issuance queue, of which every act is logged

\* parseAndNormalizeCallback
Statuses == {"completed", "failed", "pending"}

\* POST /api/webhooks/issuance: the last callback of an event is the record
Callback(e) ==
    /\ \E status \in Statuses : issuances' = [issuances EXCEPT ![e] = status]
    /\ UNCHANGED <<boot, chain, file, at, content, sinkVars, resolved, retries, auditFaults,
                   orderly, logged, saved>>

\* retryIssuance marks the record only
Retry(e, r) ==
    /\ issuances[e] # "none" /\ e \notin resolved /\ retries[e] < MaxReissues
    /\ retries' = [retries EXCEPT ![e] = @ + 1] /\ issuances' = [issuances EXCEPT ![e] = "pending"]
    /\ Begin(r)
    /\ UNCHANGED <<boot, chain, file, content, sinkVars, resolved, auditFaults, orderly, logged, saved>>

Resolve(e, r) ==
    /\ issuances[e] # "none" /\ e \notin resolved
    /\ resolved' = resolved \cup {e}
    /\ Begin(r)
    /\ UNCHANGED <<boot, chain, file, content, sinkVars, issuances, retries, auditFaults, orderly,
                   logged, saved>>

AuditNext ==
    \/ ReportError \/ DeliveryEnds \/ DrainEnds \/ BootFails \/ ServerStops
    \/ \E r \in Requests : \/ IssueSigned(r) \/ EndsUnlogged(r) \/ Serialise(r)
                           \/ OpenFile(r) \/ WriteFile(r) \/ WriteFails(r)
                           \/ \E readable \in BOOLEAN : AppendEntry(r, readable)
                           \/ \E e \in Callbacks : Retry(e, r) \/ Resolve(e, r)
    \/ \E e \in Callbacks : Callback(e)

AuditSpec == AuditInit /\ [][AuditNext]_auditVars
---------------------------------------------------------------------------
\* Whatever requests rewrite the file at the same time, and fail to, it holds
\* the entries in the order they were appended, from the first, unless a
\* server has stopped before they were saved: an auditor reads one chain.
FileIsHistory == orderly => IsPrefix(file.lines, logged)

\* docs/audit-log.md, of the file: "it continues across restarts instead of
\* restarting at index 0": a chain in use holds every entry ever saved.
RestartContinues == boot = "done" => Len(chain) >= saved

\* An outbound event enqueued while a drain ends is not left behind: whenever
\* one waits, a drain is there to send it.
NothingIsStranded == sinkQueue > 0 => draining # "none"
=============================================================================
