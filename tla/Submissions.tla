----------------------------- MODULE Submissions -----------------------------
(***************************************************************************)
(* Submitting proofs from the holder page: selecting the credentials of a  *)
(* batch, the view that proves and submits it, the submission of a single  *)
(* proof, and the transactions both send.  The proving of a single proof   *)
(* is the module ProofFlow.                                                *)
(***************************************************************************)
EXTENDS Integers, Sequences, SequencesExt, FiniteSets

CONSTANTS
    Creds, TypeOf,      \* the credentials, and the type of each
    MaxBatch,           \* MAX_BATCH_SIZE
    SingleBound, BatchBound,    \* setTimeout of a transaction: 60 s, 90 s
    PollFor,            \* how long its result is polled for: 65 s
    RpcLag,             \* how late the RPC endpoint knows a ledger
    MaxTxs, MaxGenerators, MaxTime      \* bounds

ASSUME TimesAssumption ==
    /\ SingleBound \in Nat /\ BatchBound \in Nat /\ PollFor \in Nat /\ RpcLag \in Nat
    /\ SingleBound < PollFor /\ SingleBound + RpcLag <= PollFor

VARIABLES
    proved,     \* the credentials the wallet shows as proved
    picked,     \* the credentials selected for a batch
    batch,      \* the batch view: its credentials, stage, and the proofs made
    generators, \* runs of runGeneration of the batch view
    asking,     \* retryNetworkCheck of the batch view has not answered
    txs,        \* submissions, and what became of each
    sequence,   \* the account's sequence number
    now,
    unreadable  \* history: a result could not be parsed and was taken for a success

subVars == <<proved, picked, batch, generators, asking, txs, sequence, now, unreadable>>

NoBatch == [open |-> FALSE, creds |-> {}, stage |-> "none", made |-> FALSE]

SubInit ==
    /\ proved = {} /\ picked = {} /\ batch = NoBatch /\ generators = 0
    /\ asking = FALSE
    /\ txs = <<>> /\ sequence = 0 /\ now = 0 /\ unreadable = FALSE

Underway(i) ==
    \/ txs[i].at \in {"sign", "sent"}
    \/ txs[i].at = "landed" /\ txs[i].answer = "none"

SubTick ==
    /\ now < MaxTime /\ now' = now + 1
    /\ \E i \in DOMAIN txs : Underway(i)      \* else time makes no difference
    /\ UNCHANGED <<proved, picked, batch, generators, asking, txs, sequence, unreadable>>

---------------------------------------------------------------------------
\* useBatchSelection

Unproved == Creds \ proved
Selected == picked \cap Unproved
TypesOf(cs) == {TypeOf[c] : c \in cs}
CanBatch == Cardinality(TypesOf(Unproved)) >= 2

BlockedReason(c) ==
    /\ c \notin picked
    /\ TypeOf[c] \in TypesOf(Selected) \/ Cardinality(Selected) >= MaxBatch

Toggle(c) ==
    /\ ~batch.open /\ CanBatch /\ c \in Unproved
    /\ c \in picked \/ ~BlockedReason(c)
    /\ picked' = IF c \in picked THEN picked \ {c} ELSE Selected \cup {c}
    /\ UNCHANGED <<proved, batch, generators, asking, txs, sequence, now, unreadable>>

\* One of each type, the first ones; nothing else is selected
SelectEligible ==
    /\ ~batch.open /\ CanBatch /\ Selected = {}
    /\ \E cs \in SUBSET Unproved :
          /\ Cardinality(cs) = Cardinality(TypesOf(cs))
          /\ Cardinality(cs) = MaxBatch \/ TypesOf(cs) = TypesOf(Unproved)
          /\ Cardinality(cs) <= MaxBatch
          /\ picked' = cs
    /\ UNCHANGED <<proved, batch, generators, asking, txs, sequence, now, unreadable>>

ClearSelection ==
    /\ ~batch.open /\ Selected # {} /\ picked' = {}
    /\ UNCHANGED <<proved, batch, generators, asking, txs, sequence, now, unreadable>>

---------------------------------------------------------------------------
\* useBatchProofFlow

OpenBatch ==
    /\ ~batch.open /\ CanBatch /\ Cardinality(Selected) >= 2
    /\ batch' = [NoBatch EXCEPT !.open = TRUE, !.creds = Selected, !.stage = "checking"]
    /\ UNCHANGED <<proved, picked, generators, asking, txs, sequence, now, unreadable>>

\* runGeneration
Generating ==
    /\ generators < MaxGenerators /\ generators' = generators + 1
    /\ batch' = [batch EXCEPT !.stage = "generating"]

BatchProbeAnswers ==
    /\ batch.stage = "checking"
    /\ \/ Generating
       \/ batch' = [batch EXCEPT !.stage = "blocked"] /\ UNCHANGED generators
    /\ UNCHANGED <<proved, picked, asking, txs, sequence, now, unreadable>>

BatchProceeds ==
    /\ batch.stage = "blocked" /\ Generating
    /\ UNCHANGED <<proved, picked, asking, txs, sequence, now, unreadable>>

BatchAsksAgain ==
    /\ batch.stage = "blocked" /\ ~asking /\ asking' = TRUE
    /\ UNCHANGED <<proved, picked, batch, generators, txs, sequence, now, unreadable>>

\* It generates whatever stage the view has come to meanwhile
BatchAskAnswers ==
    /\ asking /\ asking' = FALSE
    /\ Generating \/ UNCHANGED <<batch, generators>>
    /\ UNCHANGED <<proved, picked, txs, sequence, now, unreadable>>

\* A run has made all the proofs, or fails at one of them
GenerationEnds ==
    /\ generators > 0 /\ generators' = generators - 1
    /\ \/ batch' = [batch EXCEPT !.made = TRUE]
       \/ batch' = [batch EXCEPT !.stage = "error", !.made = FALSE]
    /\ UNCHANGED <<proved, picked, asking, txs, sequence, now, unreadable>>

AllReady == batch.stage = "generating" /\ batch.made

\* The effect on allReady: submits as soon as the wallet is on the right
\* network, which it may not be for a while
Submitted(creds, single) ==
    [creds |-> creds, single |-> single, at |-> IF single THEN "build" ELSE "preflight",
     number |-> 0, until |-> 0, polled |-> 0, landed |-> 0,
     ok |-> FALSE, answer |-> "none", shown |-> ~single]

SubmitBatch ==
    /\ AllReady /\ Len(txs) < MaxTxs
    /\ batch' = [batch EXCEPT !.stage = "submitting"]
    /\ txs' = Append(txs, Submitted(batch.creds, FALSE))
    /\ UNCHANGED <<proved, picked, generators, asking, sequence, now, unreadable>>

\* onBack, Cancel: the controller aborts the generators, not the submission
LeaveBatch ==
    /\ batch.open /\ batch' = NoBatch /\ generators' = 0 /\ asking' = FALSE
    /\ txs' = [i \in DOMAIN txs |-> [txs[i] EXCEPT !.shown = txs[i].single]]
    /\ UNCHANGED <<proved, picked, sequence, now, unreadable>>

\* doSignAndSubmit of a single proof: a new one, or again after an error
SubmitSingle(c) ==
    /\ ~batch.open /\ Len(txs) < MaxTxs
    /\ \A i \in DOMAIN txs : txs[i].single => txs[i].answer # "none"
    /\ txs' = Append(txs, Submitted({c}, TRUE))
    /\ UNCHANGED <<proved, picked, batch, generators, asking, sequence, now, unreadable>>

---------------------------------------------------------------------------
\* A submission

TxAt(i, at) == txs' = [txs EXCEPT ![i].at = at]

\* The flow that submitted is told, if its view is still there
Told(i, stage) ==
    IF txs[i].shown THEN batch' = [batch EXCEPT !.stage = stage]
    ELSE UNCHANGED batch

\* Once answered, and once it has landed, its times are of no more use
Answered(i, why) ==
    [txs EXCEPT ![i].answer = why, ![i].polled = 0, ![i].landed = 0]

Fails(i, why) ==
    /\ txs' = Answered(i, why)
    /\ Told(i, "error")
    /\ UNCHANGED <<proved, unreadable>>

\* Confirmed: markProved, markAllProved
Confirms(i, why) ==
    /\ txs' = Answered(i, why)
    /\ proved' = proved \cup txs[i].creds
    /\ Told(i, "confirmed")

\* A batch whose preflight throws is left as it is: nothing catches it
PreflightAnswers(i) ==
    /\ txs[i].at = "preflight" /\ txs[i].answer = "none"
    /\ \/ TxAt(i, "build") /\ UNCHANGED <<proved, batch, unreadable>>
       \/ Fails(i, "error")
       \/ TxAt(i, "stuck") /\ UNCHANGED <<proved, batch, unreadable>>
    /\ UNCHANGED <<picked, generators, asking, sequence, now>>

BoundOf(i) == IF txs[i].single THEN SingleBound ELSE BatchBound

\* getAccount, build, prepareTransaction
BuildTx(i) ==
    /\ txs[i].at = "build" /\ txs[i].answer = "none"
    /\ \/ /\ txs' = [txs EXCEPT ![i].at = "sign", ![i].number = sequence + 1,
                                ![i].until = now + BoundOf(i)]
          /\ UNCHANGED <<proved, batch, unreadable>>
       \/ Fails(i, "error")
    /\ UNCHANGED <<picked, generators, asking, sequence, now>>

\* The holder signs, after a while, or declines; sendTransaction
SendTx(i) ==
    /\ txs[i].at = "sign" /\ txs[i].answer = "none"
    /\ \/ /\ txs[i].number = sequence + 1 /\ now <= txs[i].until
          /\ txs' = [txs EXCEPT ![i].at = "sent", ![i].polled = now]
          /\ UNCHANGED <<proved, batch, unreadable>>
       \/ Fails(i, "error")
    /\ UNCHANGED <<picked, generators, asking, sequence, now>>

\* A ledger takes it in, and the contract accepts it or not
Land(i) ==
    /\ txs[i].at = "sent" /\ txs[i].number = sequence + 1 /\ now <= txs[i].until
    /\ \E ok \in BOOLEAN :
          txs' = [txs EXCEPT ![i].at = "landed", ![i].ok = ok, ![i].number = 0, ![i].until = 0,
                             ![i].landed = IF txs[i].answer = "none" THEN now ELSE 0]
    /\ sequence' = sequence + 1
    /\ UNCHANGED <<proved, picked, batch, generators, asking, now, unreadable>>

Found(i) == txs[i].at = "landed"
MustBeFound(i) == Found(i) /\ now - txs[i].landed >= RpcLag

\* (Faulty: what is not a failure is a success)
PollSkipsStatus(i) ==
    /\ txs[i].at \in {"sent", "landed"} /\ txs[i].answer = "none"
    /\ \/ Found(i) /\ ~txs[i].ok /\ Fails(i, "error")
       \/ Found(i) /\ txs[i].ok /\ Confirms(i, "success") /\ UNCHANGED unreadable
       \/ ~MustBeFound(i) /\ now - txs[i].polled >= PollFor
          /\ Confirms(i, "success") /\ UNCHANGED unreadable
    /\ UNCHANGED <<picked, generators, asking, sequence, now>>

\* getTransaction, until it is found or PollFor has passed; an answer that
\* cannot be parsed is taken for a success, any other error is final
PollTx(i) ==
    /\ txs[i].at \in {"sent", "landed"} /\ txs[i].answer = "none"
    /\ \/ Found(i) /\ txs[i].ok /\ Confirms(i, "success") /\ UNCHANGED unreadable
       \/ Found(i) /\ ~txs[i].ok /\ Fails(i, "error")
       \/ Found(i) /\ Confirms(i, "success") /\ unreadable' = TRUE
       \/ ~MustBeFound(i) /\ now - txs[i].polled >= PollFor /\ Fails(i, "notFound")
       \/ Fails(i, "error")
    /\ UNCHANGED <<picked, generators, asking, sequence, now>>

SubNext ==
    \/ SubTick \/ SelectEligible \/ ClearSelection
    \/ \E c \in Creds : Toggle(c) \/ SubmitSingle(c)
    \/ OpenBatch \/ BatchProbeAnswers \/ BatchProceeds \/ BatchAsksAgain \/ BatchAskAnswers
    \/ GenerationEnds \/ SubmitBatch \/ LeaveBatch
    \/ \E i \in DOMAIN txs :
          PreflightAnswers(i) \/ BuildTx(i) \/ SendTx(i) \/ Land(i) \/ PollTx(i)

SubSpec == SubInit /\ [][SubNext]_subVars
---------------------------------------------------------------------------
\* "Returns the confirmed transaction hash": a credential the wallet shows as
\* proved has its proof on chain, by a transaction that succeeded, whichever
\* submissions of it were given up, refused, signed late or overtaken by
\* another with their sequence number; unless a result could not be parsed.
MarksAreOnChain ==
    ~unreadable => \A c \in proved :
        \E i \in DOMAIN txs : c \in txs[i].creds /\ txs[i].at = "landed" /\ txs[i].ok

\* A single submission reported as not found never lands afterwards: its time
\* bound has passed before the polling ends.  A batch, valid for 90 s and
\* polled for 65 s, has no such guarantee.
GivingUpIsFinal ==
    \A i \in DOMAIN txs : txs[i].single /\ txs[i].answer = "notFound" => txs[i].at # "landed"
=============================================================================
