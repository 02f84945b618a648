----------------------------- MODULE WebProofs -----------------------------
(***************************************************************************)
(* Theorems about parts of the web application that TLC checks on small    *)
(* instances: a request that is retried under its key, a holder who proves *)
(* to a gated server, an identity check that ends in a credential, a link  *)
(* to an issuance form, the file of the audit log, the directory of        *)
(* applications, the desk of an issuer, and what links ask and presets     *)
(* show.  Each has an inductive invariant of its own.                      *)
(***************************************************************************)
EXTENDS GatedServer, Issuance, Idempotency, AuditTrail, AppDirectory, IssuerDesk, VerifyLinks,
        FiniteSetTheorems, TLAPS

-----------------------------------------------------------------------------
(* Idempotency                                                             *)

Executing(r) == req[r].at \in {"running", "saving"}

\* Where requests are, without a remote store to wait for.
ReqType ==
    [IdemRequests ->
        [at: {"new", "joined", "running", "saving", "answered"}, key: IdemKeys]]

IdemTypeOK ==
    /\ completed \in [IdemKeys -> Nat \cup {Never}]
    /\ inFlight \in [IdemKeys -> Nat \cup {Never}]
    /\ req \in ReqType

\* The slot of a key is taken for as long as a request with that key executes, so
\* that only one does; and none starts where a completed record is live.
OneExecutes ==
    /\ \A k \in IdemKeys : inFlight[k] <= IdemTtl
    /\ \A r \in IdemRequests : Executing(r) => inFlight[req[r].key] # Never
    /\ \A r, s \in IdemRequests :
           Executing(r) /\ Executing(s) /\ req[r].key = req[s].key => r = s
    /\ \A r \in IdemRequests : At(r, "running") => ~Live(completed[req[r].key])

IdemInv == IdemTypeOK /\ (~outlasts => OneExecutes)

\* Requests that are woken are told where to go; the others stay where they are.
LEMMA WokenType ==
  ASSUME NEW q \in ReqType, NEW keys, NEW where \in {"new", "answered"}
  PROVE  /\ Woken(q, keys, where) \in ReqType
         /\ \A r \in IdemRequests :
                /\ Woken(q, keys, where)[r].key = q[r].key
                /\ Woken(q, keys, where)[r].at \in {"running", "saving"} =>
                       Woken(q, keys, where)[r] = q[r]
                /\ q[r].at # "joined" => Woken(q, keys, where)[r] = q[r]
BY DEF Woken, ReqType

\* Moving a request does what it says.
LEMMA MovedType ==
  ASSUME req \in ReqType, NEW r \in IdemRequests,
         NEW where \in {"new", "joined", "running", "saving", "answered"}
  PROVE  /\ Moved(r, where) \in ReqType
         /\ Moved(r, where)[r].at = where /\ Moved(r, where)[r].key = req[r].key
         /\ \A s \in IdemRequests : s # r => Moved(r, where)[s] = req[s]
         /\ \A s \in IdemRequests : Moved(r, where)[s].key = req[s].key
BY DEF Moved, ReqType

\* Requests that stop executing, or never did, disturb nobody.
LEMMA NobodyStarts ==
  ASSUME IdemInv, outlasts' = outlasts, completed' = completed, inFlight' = inFlight,
         req' \in ReqType,
         \A s \in IdemRequests : Executing(s)' => req'[s] = req[s]
  PROVE  IdemInv'
BY DEF ReqType, IdemInv, IdemTypeOK, OneExecutes, Executing, At, Live

LEMMA IdemBegin ==
  ASSUME IdemInv, ~outlasts, outlasts' = outlasts,
         NEW r \in IdemRequests, ~Live(completed[req[r].key]), ~Executing(r),
         completed' = completed, inFlight[req[r].key] = Never,
         inFlight' = [inFlight EXCEPT ![req[r].key] = 0],
         req' = Moved(r, "running")
  PROVE  IdemInv'
<1> DEFINE key == req[r].key
<1>1. OneExecutes /\ IdemTypeOK /\ IdemTtl \in Nat
  BY IdemAssumption DEF IdemInv, IdemAssumption
<1>2. /\ req' \in ReqType
      /\ req'[r].at = "running" /\ req'[r].key = key
      /\ \A s \in IdemRequests : s # r => req'[s] = req[s]
      /\ \A s \in IdemRequests : req'[s].key = req[s].key
  BY <1>1, MovedType DEF IdemTypeOK
<1>3. key \in IdemKeys /\ \A s \in IdemRequests : req[s].key \in IdemKeys
  BY <1>1 DEF IdemTypeOK, ReqType
<1>4. /\ inFlight'[key] = 0
      /\ \A k \in IdemKeys : k # key => inFlight'[k] = inFlight[k]
      /\ inFlight' \in [IdemKeys -> Nat \cup {Never}]
  BY <1>1, <1>3 DEF IdemTypeOK
<1>5. ASSUME NEW s \in IdemRequests, Executing(s)
      PROVE  req[s].key # key
  BY <1>1, <1>5 DEF OneExecutes
<1> HIDE DEF key
<1>6. \A k \in IdemKeys : inFlight'[k] <= IdemTtl
  BY <1>1, <1>4 DEF OneExecutes
<1>7. \A s \in IdemRequests : Executing(s)' => inFlight'[req'[s].key] # Never
  BY <1>1, <1>2, <1>3, <1>4 DEF OneExecutes, Executing, Never
<1>8. \A s, q \in IdemRequests :
         Executing(s)' /\ Executing(q)' /\ req'[s].key = req'[q].key => s = q
  BY <1>1, <1>2, <1>5 DEF OneExecutes, Executing
<1>9. \A s \in IdemRequests : At(s, "running")' => ~Live(completed'[req'[s].key])
  BY <1>1, <1>2 DEF OneExecutes, At, Live, key
<1>10. IdemTypeOK'
  BY <1>1, <1>2, <1>4 DEF IdemTypeOK
<1> QED BY <1>6, <1>7, <1>8, <1>9, <1>10 DEF IdemInv, OneExecutes

LEMMA IdemLookup ==
  ASSUME IdemInv, ~RemoteStore, ~outlasts, outlasts' = outlasts,
         NEW r \in IdemRequests, Lookup(r)
  PROVE  IdemInv'
<1> DEFINE key == req[r].key
<1>1. OneExecutes /\ IdemTypeOK /\ IdemTtl \in Nat /\ req \in ReqType
  BY IdemAssumption DEF IdemInv, IdemTypeOK, IdemAssumption
<1>2. Stale = {}
  BY <1>1 DEF OneExecutes, Stale, IdemTypeOK, Never
<1>3. ~Executing(r)
  BY DEF Lookup, At, Executing
<1>4. ASSUME NEW where \in {"answered", "joined"}, req' = Moved(r, where),
             UNCHANGED <<completed, inFlight>>
      PROVE  IdemInv'
  <2>1. /\ req' \in ReqType /\ req'[r].at = where
        /\ \A s \in IdemRequests : s # r => req'[s] = req[s]
    BY <1>1, <1>4, MovedType
  <2> QED BY <1>4, <2>1, NobodyStarts DEF Executing
<1>5. CASE Live(completed[key])
  BY <1>4, <1>5 DEF Lookup
<1>6. CASE ~Live(completed[key])
  <2> DEFINE slots == [k \in IdemKeys |-> IF k \in Stale THEN Never ELSE inFlight[k]]
             woken == Woken(req, Stale, "new")
  <2>1. slots = inFlight /\ woken = req
    BY <1>1, <1>2 DEF Woken, IdemTypeOK, ReqType
  <2>2. /\ inFlight' = IF slots[key] = Never THEN [slots EXCEPT ![key] = 0] ELSE slots
        /\ req' = [woken EXCEPT ![r].at =
                        IF slots[key] = Never THEN "running" ELSE "joined"]
        /\ completed' = completed
    BY <1>6 DEF Lookup, BeginOrJoin
  <2> HIDE DEF slots, woken
  <2>3. CASE inFlight[key] = Never
    <3>1. /\ inFlight' = [inFlight EXCEPT ![key] = 0]
          /\ req' = Moved(r, "running")
      BY <2>1, <2>2, <2>3 DEF Moved
    <3> QED BY <1>3, <1>6, <2>2, <2>3, <3>1, IdemBegin
  <2>4. CASE inFlight[key] # Never
    <3>1. inFlight' = inFlight /\ req' = Moved(r, "joined")
      BY <2>1, <2>2, <2>4 DEF Moved
    <3> QED BY <1>4, <2>2, <3>1
  <2> QED BY <2>3, <2>4
<1> QED BY <1>5, <1>6

\* A request that ends gives back the slot of its key, and tells those that wait.
LEMMA IdemEnds ==
  ASSUME IdemInv, ~outlasts, outlasts' = outlasts, completed' = completed,
         NEW r \in IdemRequests, Executing(r), NEW where \in {"new", "answered"},
         inFlight' = [inFlight EXCEPT ![req[r].key] = Never],
         req' = Woken(Moved(r, "answered"), {req[r].key}, where)
  PROVE  IdemInv'
<1> DEFINE key == req[r].key
           moved == Moved(r, "answered")
<1>1. OneExecutes /\ IdemTypeOK /\ IdemTtl \in Nat /\ req \in ReqType
  BY IdemAssumption DEF IdemInv, IdemTypeOK, IdemAssumption
<1>2. /\ moved \in ReqType /\ moved[r].at = "answered"
      /\ \A s \in IdemRequests : s # r => moved[s] = req[s]
      /\ \A s \in IdemRequests : moved[s].key = req[s].key
  BY <1>1, MovedType
<1> HIDE DEF moved
<1>3. /\ req' \in ReqType
      /\ \A s \in IdemRequests :
             /\ req'[s].key = moved[s].key
             /\ req'[s].at \in {"running", "saving"} => req'[s] = moved[s]
  BY <1>2, WokenType DEF moved
<1>4. \A s \in IdemRequests :
          /\ req'[s].key = req[s].key
          /\ Executing(s)' => s # r /\ req'[s] = req[s] /\ Executing(s)
  BY <1>2, <1>3 DEF Executing
<1>5. key \in IdemKeys /\ \A s \in IdemRequests : req[s].key \in IdemKeys
  BY <1>1 DEF ReqType
<1>6. /\ inFlight'[key] = Never
      /\ \A k \in IdemKeys : k # key => inFlight'[k] = inFlight[k]
      /\ inFlight' \in [IdemKeys -> Nat \cup {Never}]
  BY <1>1, <1>5 DEF IdemTypeOK
<1>7. ASSUME NEW s \in IdemRequests, Executing(s)'
      PROVE  req[s].key # key
  BY <1>1, <1>4, <1>7 DEF OneExecutes
<1> HIDE DEF key
<1>8. \A k \in IdemKeys : inFlight'[k] <= IdemTtl
  BY <1>1, <1>6 DEF OneExecutes, Never
<1>9. \A s \in IdemRequests : Executing(s)' => inFlight'[req'[s].key] # Never
  <2> SUFFICES ASSUME NEW s \in IdemRequests, Executing(s)' PROVE inFlight'[req'[s].key] # Never
    OBVIOUS
  <2>1. req'[s].key = req[s].key /\ Executing(s) /\ req[s].key \in IdemKeys /\ req[s].key # key
    BY <1>4, <1>5, <1>7
  <2>2. inFlight'[req[s].key] = inFlight[req[s].key]
    BY <1>6, <2>1
  <2> QED BY <1>1, <2>1, <2>2 DEF OneExecutes
<1>10. \A s, q \in IdemRequests :
          Executing(s)' /\ Executing(q)' /\ req'[s].key = req'[q].key => s = q
  BY <1>1, <1>4 DEF OneExecutes
<1>11. \A s \in IdemRequests : At(s, "running")' => ~Live(completed'[req'[s].key])
  <2>1. ASSUME NEW s \in IdemRequests, At(s, "running")'
        PROVE  At(s, "running") /\ req'[s].key = req[s].key
    BY <1>4, <2>1 DEF At, Executing
  <2> QED BY <1>1, <2>1 DEF OneExecutes, Live
<1>12. IdemTypeOK'
  BY <1>1, <1>3, <1>6 DEF IdemTypeOK
<1> QED BY <1>8, <1>9, <1>10, <1>11, <1>12 DEF IdemInv, OneExecutes

LEMMA IdemComplete ==
  ASSUME IdemInv, ~outlasts, outlasts' = outlasts,
         NEW r \in IdemRequests, Complete(r)
  PROVE  IdemInv'
<1>1. OneExecutes /\ IdemTypeOK /\ req \in ReqType
  BY DEF IdemInv, IdemTypeOK
<1>2. /\ req' \in ReqType
      /\ req'[r].at = "saving"
      /\ \A s \in IdemRequests : s # r => req'[s] = req[s]
      /\ \A s \in IdemRequests : req'[s].key = req[s].key
  BY <1>1, MovedType DEF Complete
<1>3. \A s \in IdemRequests : Executing(s)' => Executing(s)
  BY <1>2 DEF Executing, Complete, At
<1>4. ASSUME NEW s \in IdemRequests, At(s, "running")'
      PROVE  s # r /\ At(s, "running") /\ req[s].key # req[r].key
  <2>1. s # r /\ At(s, "running")
    BY <1>2, <1>4 DEF At
  <2> QED BY <1>1, <2>1 DEF OneExecutes, Executing, Complete, At
<1>5. /\ completed' \in [IdemKeys -> Nat \cup {Never}]
      /\ \A k \in IdemKeys : k # req[r].key => completed'[k] = completed[k]
      /\ inFlight' = inFlight
  BY <1>1 DEF Complete, IdemTypeOK
<1>6. \A s \in IdemRequests : req[s].key \in IdemKeys
  BY <1>1 DEF ReqType
<1>7. \A s \in IdemRequests : At(s, "running")' => ~Live(completed'[req'[s].key])
  BY <1>1, <1>2, <1>4, <1>5, <1>6 DEF OneExecutes, Live
<1>8. OneExecutes'
  BY <1>1, <1>2, <1>3, <1>5, <1>7 DEF OneExecutes
<1> QED BY <1>1, <1>2, <1>5, <1>8 DEF IdemInv, IdemTypeOK

LEMMA IdemAges ==
  ASSUME IdemInv, IdemTick
  PROVE  IdemInv'
<1>1. IdemTypeOK /\ IdemTtl \in Nat /\ req' = req /\ outlasts' = outlasts
  BY IdemAssumption DEF IdemInv, IdemAssumption, IdemTick
<1>2. ASSUME NEW ages \in [IdemKeys -> Nat \cup {Never}]
      PROVE  /\ Older(ages) \in [IdemKeys -> Nat \cup {Never}]
             /\ \A k \in IdemKeys :
                    /\ Older(ages)[k] = Never <=> ages[k] = Never
                    /\ ~Live(ages[k]) => ~Live(Older(ages)[k])
                    /\ ages[k] < IdemTtl => Older(ages)[k] <= IdemTtl
  BY <1>1 DEF Older, Never, Live
<1>3. IdemTypeOK'
  BY <1>1, <1>2 DEF IdemTypeOK, IdemTick
<1>4. ASSUME ~outlasts
      PROVE  OneExecutes'
  <2>1. OneExecutes /\ \A k \in IdemKeys : inFlight[k] < IdemTtl
    BY <1>4 DEF IdemInv, IdemTick
  <2>2. \A s \in IdemRequests : req[s].key \in IdemKeys
    BY <1>1 DEF IdemTypeOK, ReqType
  <2>3. /\ \A k \in IdemKeys : inFlight'[k] <= IdemTtl
        /\ \A k \in IdemKeys : inFlight'[k] = Never <=> inFlight[k] = Never
        /\ \A k \in IdemKeys : ~Live(completed[k]) => ~Live(completed'[k])
    BY <1>1, <1>2, <2>1 DEF IdemTick, IdemTypeOK
  <2> QED BY <1>1, <2>1, <2>2, <2>3 DEF OneExecutes, Executing, At
<1> QED BY <1>1, <1>3, <1>4 DEF IdemInv

\* An operation with an Idempotency-Key runs once at a time, and not again within
\* the TTL of its completion (route.ts of api/issue, idempotency.ts), on a server
\* that keeps its records in its own process.  With a remote store a request that
\* missed there runs although another has completed meanwhile.
THEOREM NothingRunsTwice ==
  ASSUME ~RemoteStore
  PROVE  IdemSpec => []NoReexecution
<1> DEFINE Inv == (~outlasts => IdemInv)
<1>1. IdemInit => Inv
  <2> SUFFICES ASSUME IdemInit PROVE IdemInv
    OBVIOUS
  <2>1. req \in ReqType /\ \A r \in IdemRequests : req[r].at = "new"
    BY DEF IdemInit, ReqType
  <2> QED BY <2>1, IdemAssumption
          DEF IdemInit, IdemInv, IdemTypeOK, OneExecutes, Executing, At, Never,
              IdemAssumption
<1>2. Inv /\ [IdemNext]_idemVars => Inv'
  <2> SUFFICES ASSUME Inv, [IdemNext]_idemVars, ~outlasts'
               PROVE  IdemInv'
    OBVIOUS
  <2>1. outlasts' = outlasts
    BY DEF IdemNext, IdemTick, Served, idemVars
  <2>2. ~outlasts /\ IdemInv
    BY <2>1
  <2>3. ASSUME NEW r \in IdemRequests, Served(r)
        PROVE  IdemInv'
    <3>1. ~At(r, "found") /\ ~At(r, "missed")
      BY <2>2 DEF IdemInv, IdemTypeOK, ReqType, At
    <3>2. CASE Lookup(r)
      BY <2>1, <2>2, <3>2, IdemLookup
    <3>3. CASE LookupReturns(r)
      BY <3>1, <3>3 DEF LookupReturns
    <3>4. CASE Fail(r)
      BY <2>1, <2>2, <3>4, IdemEnds DEF Fail, Executing, At
    <3>5. CASE Complete(r)
      BY <2>1, <2>2, <3>5, IdemComplete
    <3>6. CASE Settle(r)
      BY <2>1, <2>2, <3>6, IdemEnds DEF Settle, Executing, At
    <3> QED BY <2>3, <3>2, <3>3, <3>4, <3>5, <3>6 DEF Served
  <2>4. CASE IdemTick
    BY <2>2, <2>4, IdemAges
  <2>5. CASE UNCHANGED idemVars
    BY <2>2, <2>5 DEF idemVars, IdemInv, IdemTypeOK, OneExecutes, Executing, At, Live
  <2> QED BY <2>3, <2>4, <2>5 DEF IdemNext
<1>3. Inv => NoReexecution
  BY DEF IdemInv, OneExecutes, NoReexecution, Executing, At
<1> QED BY <1>1, <1>2, <1>3, PTL DEF IdemSpec

-----------------------------------------------------------------------------
(* Gated server                                                            *)

PostStages == {"hasClaim", "getClaims", "checkClaimStatus", "done"}
ClaimRecord == [revoked: BOOLEAN, expiry: Int, lacks: {"nothing", "issuer", "threshold"}]
ChallengeRecord == [expiresAt: Int, run: Nat]
Replies == {"none", "granted", "lost", "challenge_replayed", "challenge_expired", "invalid_signature",
            "on_chain_error", "not_verified", "revoked", "expired", "wrong_issuer", "unmet_threshold"}
PostRecord == [nonce: Nat, wallet: Visitors, signed: BOOLEAN, asks: SUBSET {"issuer", "threshold"},
               run: Nat, taken: Nat, at: PostStages, reply: Replies]

GateTypeOK ==
    /\ serverTime \in Nat /\ restarts \in Nat
    /\ onChain \in [Visitors -> ClaimRecord]
    /\ challenges \in Seq(ChallengeRecord)
    /\ posts \in Seq(PostRecord)
    /\ nonces \subseteq DOMAIN challenges

\* A post whose signature was accepted, and that has not been refused since
Passed(post) == post.at # "done" \/ post.reply = "granted"

\* What was true of a post when its nonce was taken, and stays so
WellTaken(post) ==
    /\ post.nonce \in DOMAIN challenges \ nonces /\ post.signed
    /\ post.run = challenges[post.nonce].run
    /\ post.taken <= challenges[post.nonce].expiresAt

\* The nonce of a post that passed is gone, so that no other post passes with it; the
\* nonces that are left were issued by this run of the process
NoncesSpent ==
    /\ \A n \in nonces : challenges[n].run = restarts
    /\ \A p \in DOMAIN posts : posts[p].reply = "granted" => posts[p].at = "done"
    /\ \A p \in DOMAIN posts : Passed(posts[p]) => WellTaken(posts[p])
    /\ \A p, q \in DOMAIN posts :
          Passed(posts[p]) /\ Passed(posts[q]) /\ posts[p].nonce = posts[q].nonce => p = q

\* What hasClaim found valid has held since the post came
ClaimsHeld ==
    \A p \in DOMAIN posts :
        /\ posts[p].at # "done" /\ Valid(onChain[posts[p].wallet], posts[p].asks) => p \in held
        /\ posts[p].at = "getClaims" \/ posts[p].reply = "granted" => p \in held

GateInv == GateTypeOK /\ NoncesSpent /\ ClaimsHeld

\* Post p becomes post, and nothing else of the posts moves
PostMoves(p, post) ==
    /\ posts' \in Seq(PostRecord) /\ DOMAIN posts' = DOMAIN posts
    /\ posts'[p] = post
    /\ \A q \in DOMAIN posts : q # p => posts'[q] = posts[q]

\* Post p goes to a stage with a reply
PostGoesOn(p, post, stage, reply) ==
    /\ post.nonce = posts[p].nonce /\ post.wallet = posts[p].wallet /\ post.signed = posts[p].signed
    /\ post.asks = posts[p].asks /\ post.run = posts[p].run /\ post.taken = posts[p].taken
    /\ post.at = stage /\ post.reply = reply

LEMMA PostEdits ==
  ASSUME NEW ps \in Seq(PostRecord), NEW p \in DOMAIN ps, NEW post \in PostRecord
  PROVE  LET ps2 == [ps EXCEPT ![p] = post] IN
         /\ ps2 \in Seq(PostRecord) /\ DOMAIN ps2 = DOMAIN ps
         /\ ps2[p] = post /\ \A q \in DOMAIN ps : q # p => ps2[q] = ps[q]
<1> DEFINE ps2 == [ps EXCEPT ![p] = post]
<1>1. /\ DOMAIN ps2 = DOMAIN ps /\ ps2[p] = post
      /\ \A q \in DOMAIN ps : q # p => ps2[q] = ps[q]
  OBVIOUS
<1>2. ps2 \in Seq(PostRecord)
  <2> HIDE DEF PostRecord
  <2> QED OBVIOUS
<1> QED BY <1>1, <1>2

LEMMA PostIsMoved ==
  ASSUME posts \in Seq(PostRecord), NEW p \in DOMAIN posts,
         NEW stage \in PostStages, NEW reply \in Replies,
         posts' = [posts EXCEPT ![p] = [posts[p] EXCEPT !.at = stage, !.reply = reply]]
  PROVE  \E post \in PostRecord : PostMoves(p, post) /\ PostGoesOn(p, post, stage, reply)
<1> DEFINE post == [posts[p] EXCEPT !.at = stage, !.reply = reply]
<1>1. posts[p] \in PostRecord
  OBVIOUS
<1>2. post \in PostRecord /\ PostGoesOn(p, post, stage, reply)
  BY <1>1 DEF PostRecord, PostGoesOn
<1>3. posts' = [posts EXCEPT ![p] = post]
  OBVIOUS
<1> HIDE DEF post
<1>4. PostMoves(p, post)
  BY <1>2, <1>3, PostEdits DEF PostMoves
<1> QED BY <1>2, <1>4

LEMMA RefusedTyped ==
  ASSUME NEW w \in Visitors, NEW reason \in Replies
  PROVE  /\ PostRefused(w, reason) \in PostRecord
         /\ PostRefused(w, reason).at = "done" /\ PostRefused(w, reason).reply = reason
BY DEF PostRefused, PostRecord, PostStages

LEMMA RefuseMoves ==
  ASSUME posts \in Seq(PostRecord), NEW p \in DOMAIN posts, NEW reason \in Replies, Refuse(p, reason)
  PROVE  \E post \in PostRecord : PostMoves(p, post) /\ post.at = "done" /\ post.reply = reason
<1> DEFINE post == PostRefused(posts[p].wallet, reason)
<1>1. posts[p] \in PostRecord
  OBVIOUS
<1>2. posts[p].wallet \in Visitors
  BY <1>1 DEF PostRecord
<1>3. post \in PostRecord /\ post.at = "done" /\ post.reply = reason
  BY <1>2, RefusedTyped
<1>4. posts' = [posts EXCEPT ![p] = post]
  BY DEF Refuse
<1> HIDE DEF post
<1>5. PostMoves(p, post)
  BY <1>3, <1>4, PostEdits DEF PostMoves
<1> QED BY <1>3, <1>5

LEMMA AwaitMoves ==
  ASSUME posts \in Seq(PostRecord), NEW p \in DOMAIN posts, NEW read \in PostStages, Await(p, read)
  PROVE  \E post \in PostRecord : PostMoves(p, post) /\ PostGoesOn(p, post, read, posts[p].reply)
<1>1. posts[p] \in PostRecord
  OBVIOUS
<1>2. posts[p].reply \in Replies
  BY <1>1 DEF PostRecord
<1>3. [posts[p] EXCEPT !.at = read, !.reply = posts[p].reply] = [posts[p] EXCEPT !.at = read]
  BY <1>1 DEF PostRecord
<1>4. posts' = [posts EXCEPT ![p] = [posts[p] EXCEPT !.at = read, !.reply = posts[p].reply]]
  BY <1>3 DEF Await
<1> QED BY <1>2, <1>4, PostIsMoved

\* A post goes on from where it was or is refused; nothing else moves
LEMMA GateMoves ==
  ASSUME GateInv, NEW p \in DOMAIN posts, NEW post \in PostRecord, PostMoves(p, post),
         \/ post.at = "done" /\ post.reply # "granted"
         \/ /\ posts[p].at # "done"
            /\ PostGoesOn(p, post, post.at, post.reply)
            /\ post.reply = "granted" => post.at = "done"
            /\ post.at = "getClaims" \/ post.reply = "granted" => p \in held,
         UNCHANGED <<serverTime, onChain, challenges, nonces, held, restarts>>
  PROVE  GateInv'
<1>1. /\ posts' \in Seq(PostRecord) /\ DOMAIN posts' = DOMAIN posts
      /\ posts'[p] = post
      /\ \A q \in DOMAIN posts : q # p => posts'[q] = posts[q]
  BY DEF PostMoves
<1>2. GateTypeOK'
  BY <1>1 DEF GateInv, GateTypeOK
<1>3. Passed(post) => Passed(posts[p]) /\ PostGoesOn(p, post, post.at, post.reply)
  BY DEF Passed
<1>4. \A q \in DOMAIN posts : Passed(posts'[q]) => Passed(posts[q]) /\ posts'[q].nonce = posts[q].nonce
  BY <1>1, <1>3 DEF PostGoesOn
<1>5. NoncesSpent'
  <2>1. \A q \in DOMAIN posts' : posts'[q].reply = "granted" => posts'[q].at = "done"
    BY <1>1 DEF GateInv, NoncesSpent
  <2>2. \A q \in DOMAIN posts' : Passed(posts'[q]) => WellTaken(posts[q])'
    <3>1. Passed(post) => WellTaken(post)
      BY <1>3 DEF GateInv, NoncesSpent, WellTaken, PostGoesOn
    <3>2. \A q \in DOMAIN posts' : Passed(posts'[q]) => WellTaken(posts'[q])
      BY <1>1, <3>1 DEF GateInv, NoncesSpent
    <3>3. \A rec : WellTaken(rec) => WellTaken(rec)'
      BY DEF WellTaken
    <3> QED BY <3>2, <3>3 DEF WellTaken
  <2>3. \A r, q \in DOMAIN posts' :
           Passed(posts'[r]) /\ Passed(posts'[q]) /\ posts'[r].nonce = posts'[q].nonce => r = q
    BY <1>1, <1>4 DEF GateInv, NoncesSpent
  <2>4. \A n \in nonces' : challenges'[n].run = restarts'
    BY DEF GateInv, NoncesSpent
  <2> QED BY <2>1, <2>2, <2>3, <2>4 DEF NoncesSpent, Passed
<1>6. ClaimsHeld'
  <2>1. ASSUME NEW q \in DOMAIN posts', q # p
        PROVE  /\ posts'[q].at # "done" /\ Valid(onChain[posts[q].wallet], posts[q].asks)' => q \in held
               /\ posts'[q].at = "getClaims" \/ posts'[q].reply = "granted" => q \in held
    BY <1>1, <2>1 DEF GateInv, ClaimsHeld, Valid
  <2>2. /\ post.at # "done" /\ Valid(onChain[post.wallet], post.asks)' => p \in held
        /\ post.at = "getClaims" \/ post.reply = "granted" => p \in held
    BY DEF GateInv, ClaimsHeld, Valid, PostGoesOn
  <2>3. /\ posts'[p].at # "done" /\ Valid(onChain[posts[p].wallet], posts[p].asks)' => p \in held
        /\ posts'[p].at = "getClaims" \/ posts'[p].reply = "granted" => p \in held
    BY <1>1, <2>2 DEF Valid
  <2> QED BY <2>1, <2>3 DEF ClaimsHeld, Valid
<1> QED BY <1>2, <1>5, <1>6 DEF GateInv

\* The inductive invariant of the gated server: consume lets one post pass per nonce,
\* which this run of the process had issued, and a post past hasClaim has seen a claim
\* that was written.
THEOREM GateInvariant == ServerSpec => []GateInv
<1>1. ServerInit => GateInv
  <2> SUFFICES ASSUME ServerInit PROVE GateInv
    OBVIOUS
  <2>1. onChain \in [Visitors -> ClaimRecord]
    <3>1. NoRecord \in ClaimRecord /\ Lasting \in ClaimRecord
      BY TtlAssumption DEF ClaimRecord, NoRecord, Lasting
    <3> HIDE DEF ClaimRecord
    <3> QED BY <3>1 DEF ServerInit
  <2> QED BY <2>1 DEF ServerInit, GateInv, GateTypeOK, NoncesSpent, ClaimsHeld
<1>2. GateInv /\ [ServerNext]_gateVars => GateInv'
  <2> SUFFICES ASSUME GateInv, [ServerNext]_gateVars PROVE GateInv'
    OBVIOUS
  <2>0. GateTypeOK /\ NoncesSpent /\ ClaimsHeld /\ posts \in Seq(PostRecord)
    BY DEF GateInv, GateTypeOK
  <2>t. \A p \in DOMAIN posts :
           posts[p].wallet \in Visitors /\ posts[p].asks \in SUBSET {"issuer", "threshold"}
                                        /\ posts[p].reply \in Replies
    <3>1. \A p \in DOMAIN posts : posts[p] \in PostRecord
      BY <2>0
    <3> QED BY <3>1 DEF PostRecord
  <2>1. CASE ServerTick
    <3>1. GateTypeOK' /\ NoncesSpent'
      BY <2>0, <2>1 DEF ServerTick, GateTypeOK, NoncesSpent, Passed, WellTaken
    <3>2. ASSUME NEW p \in DOMAIN posts, Valid(onChain[posts[p].wallet], posts[p].asks)'
          PROVE  Valid(onChain[posts[p].wallet], posts[p].asks)
      <4>1. onChain[posts[p].wallet].expiry \in Int
        BY <2>0, <2>t DEF GateTypeOK, ClaimRecord
      <4> QED BY <2>0, <2>1, <3>2, <4>1 DEF ServerTick, Valid, GateTypeOK
    <3>3. ClaimsHeld'
      BY <2>0, <2>1, <3>2 DEF ServerTick, ClaimsHeld
    <3> QED BY <3>1, <3>3 DEF GateInv
  <2>2. CASE Restart
    <3>0. nonces' = {} /\ restarts' = restarts + 1 /\ UNCHANGED <<serverTime, onChain, challenges, held>>
      BY <2>2 DEF Restart
    <3> DEFINE Lost(post) == IF post.at = "done" THEN post ELSE PostRefused(post.wallet, "lost")
    <3>1. DOMAIN posts' = DOMAIN posts /\ \A p \in DOMAIN posts : posts'[p] = Lost(posts[p])
      BY <2>2 DEF Restart
    <3>2. \A p \in DOMAIN posts : /\ posts'[p] \in PostRecord
                                  /\ posts'[p].at = "done"
                                  /\ (posts'[p].reply = "granted" => posts'[p] = posts[p])
      <4>1. \A post \in PostRecord : /\ Lost(post) \in PostRecord
                                     /\ Lost(post).at = "done"
                                     /\ (Lost(post).reply = "granted" => Lost(post) = post)
        <5>1. \A post \in PostRecord : post.wallet \in Visitors
          BY DEF PostRecord
        <5>2. "lost" \in Replies
          BY DEF Replies
        <5> HIDE DEF PostRecord
        <5> QED BY <5>1, <5>2, RefusedTyped
      <4>2. \A p \in DOMAIN posts : posts[p] \in PostRecord
        BY <2>0 DEF GateTypeOK
      <4> HIDE DEF Lost
      <4> QED BY <3>1, <4>1, <4>2
    <3> HIDE DEF Lost
    <3>3. posts' \in Seq(PostRecord)
      <4>1. posts' = [q \in 1..Len(posts) |-> posts'[q]]
        <5>1. DOMAIN posts = 1..Len(posts)
          BY <2>0 DEF GateTypeOK
        <5> QED BY <5>1, <2>2 DEF Restart
      <4>2. Len(posts) \in Nat /\ DOMAIN posts = 1..Len(posts)
        BY <2>0 DEF GateTypeOK
      <4> HIDE DEF PostRecord
      <4> QED BY <4>1, <4>2, <3>2
    <3>4. GateTypeOK'
      BY <2>0, <3>0, <3>1, <3>2, <3>3 DEF GateTypeOK
    <3>5. \A p \in DOMAIN posts : Passed(posts'[p]) => posts'[p] = posts[p]
      BY <3>2 DEF Passed
    <3>6. NoncesSpent'
      <4>1. \A p \in DOMAIN posts' : Passed(posts'[p]) => WellTaken(posts[p])'
        BY <2>0, <3>0, <3>1, <3>5 DEF NoncesSpent, WellTaken
      <4>2. \A p, q \in DOMAIN posts' :
               Passed(posts'[p]) /\ Passed(posts'[q]) /\ posts'[p].nonce = posts'[q].nonce => p = q
        BY <2>0, <3>1, <3>5 DEF NoncesSpent
      <4> QED BY <3>0, <3>1, <3>2, <4>1, <4>2 DEF NoncesSpent, Passed
    <3>7. ClaimsHeld'
      BY <2>0, <3>0, <3>1, <3>2 DEF ClaimsHeld
    <3> QED BY <3>4, <3>6, <3>7 DEF GateInv
  <2>3. ASSUME NEW w \in Visitors, RecordChanges(w) PROVE GateInv'
    <3>0. UNCHANGED <<serverTime, challenges, nonces, posts, restarts>>
      BY <2>3 DEF RecordChanges
    <3>1. onChain' \in [Visitors -> ClaimRecord]
      <4>1. onChain \in [Visitors -> ClaimRecord] /\ serverTime \in Nat
        BY <2>0 DEF GateTypeOK
      <4>0. ({"nothing"} \union UNION Options) \subseteq {"nothing", "issuer", "threshold"}
        BY OptionsAssumption
      <4>2. CASE \E lacks \in {"nothing"} \union UNION Options, expiry \in serverTime + 1 .. MaxServerTime :
                    onChain' = [onChain EXCEPT ![w] = [revoked |-> FALSE, expiry |-> expiry, lacks |-> lacks]]
        <5>1. PICK lacks \in {"nothing", "issuer", "threshold"}, expiry \in serverTime + 1 .. MaxServerTime :
                    onChain' = [onChain EXCEPT ![w] = [revoked |-> FALSE, expiry |-> expiry, lacks |-> lacks]]
          BY <4>0, <4>2
        <5> QED BY <4>1, <5>1, TtlAssumption DEF ClaimRecord
      <4>3. CASE onChain' = [onChain EXCEPT ![w].revoked = TRUE]
        BY <4>1, <4>3 DEF ClaimRecord
      <4> QED BY <2>3, <4>2, <4>3 DEF RecordChanges
    <3>2. held' = held \union {p \in DOMAIN posts :
                      posts[p].at # "done" /\ Valid(onChain'[posts[p].wallet], posts[p].asks)}
      BY <2>3 DEF RecordChanges
    <3>3. GateTypeOK'
      BY <2>0, <3>0, <3>1 DEF GateTypeOK
    <3>4. NoncesSpent'
      BY <2>0, <3>0 DEF NoncesSpent, Passed, WellTaken
    <3>5. ClaimsHeld'
      BY <2>0, <3>0, <3>2 DEF ClaimsHeld, Valid
    <3> QED BY <3>3, <3>4, <3>5 DEF GateInv
  <2>4. CASE IssueChallenge
    <3>0. UNCHANGED <<serverTime, onChain, posts, held, restarts>>
      BY <2>4 DEF IssueChallenge
    <3> DEFINE n == Len(challenges) + 1
               made == [expiresAt |-> serverTime + ChallengeTtl, run |-> restarts]
    <3>1. /\ challenges \in Seq(ChallengeRecord)
          /\ made \in ChallengeRecord
      BY <2>0, TtlAssumption DEF GateTypeOK, ChallengeRecord
    <3>2. challenges' = Append(challenges, made)
      BY <2>4 DEF IssueChallenge
    <3>3. /\ challenges' \in Seq(ChallengeRecord)
          /\ DOMAIN challenges' = DOMAIN challenges \union {n} /\ n \notin DOMAIN challenges
          /\ challenges'[n].run = restarts
          /\ \A c \in DOMAIN challenges : challenges'[c] = challenges[c]
      <4> HIDE DEF made
      <4>1. /\ challenges' \in Seq(ChallengeRecord)
            /\ DOMAIN challenges' = DOMAIN challenges \union {n} /\ n \notin DOMAIN challenges
            /\ challenges'[n] = made
            /\ \A c \in DOMAIN challenges : challenges'[c] = challenges[c]
        BY <3>1, <3>2
      <4> QED BY <4>1 DEF made
    <3>4. nonces' \subseteq nonces \union {n}
      BY <2>4, <3>3 DEF IssueChallenge, Unexpired
    <3> HIDE DEF n, made
    <3>5. GateTypeOK'
      BY <2>0, <3>0, <3>3, <3>4 DEF GateTypeOK
    <3>6. NoncesSpent'
      <4>1. \A c \in nonces' : challenges'[c].run = restarts'
        BY <2>0, <3>0, <3>3, <3>4 DEF NoncesSpent, GateTypeOK
      <4>2. \A p \in DOMAIN posts : WellTaken(posts[p]) => WellTaken(posts[p])'
        BY <3>0, <3>3, <3>4 DEF WellTaken
      <4> QED BY <2>0, <3>0, <4>1, <4>2 DEF NoncesSpent, Passed
    <3>7. ClaimsHeld'
      BY <2>0, <3>0 DEF ClaimsHeld, Valid
    <3> QED BY <3>5, <3>6, <3>7 DEF GateInv
  <2>5. ASSUME NEW r \in VerifyRequests, Post(r) PROVE GateInv'
    <3>0. /\ UNCHANGED <<serverTime, onChain, challenges, restarts>>
          /\ nonces' = Unexpired \ {r.nonce} /\ nonces' \subseteq nonces
      BY <2>5 DEF Post, Consumed, Unexpired
    <3>1. /\ r.nonce \in DOMAIN challenges /\ r.wallet \in Visitors /\ r.signed \in BOOLEAN
          /\ r.asks \in SUBSET {"issuer", "threshold"}
      BY OptionsAssumption DEF VerifyRequests
    <3> DEFINE l == Len(posts) + 1
               taken == [nonce |-> r.nonce, wallet |-> r.wallet, signed |-> r.signed,
                         asks |-> r.asks, run |-> restarts, taken |-> serverTime,
                         at |-> "hasClaim", reply |-> "none"]
               refused == PostRefused(r.wallet, Objection(r))
    <3>2. taken \in PostRecord
      <4>1. r.nonce \in Nat /\ restarts \in Nat /\ serverTime \in Nat
        BY <2>0, <3>1 DEF GateTypeOK
      <4>2. "hasClaim" \in PostStages /\ "none" \in Replies
        BY DEF PostStages, Replies
      <4> QED BY <3>1, <4>1, <4>2 DEF PostRecord
    <3>3. /\ refused \in PostRecord /\ refused.at = "done" /\ refused.reply = Objection(r)
          /\ Objection(r) # "granted"
      <4>1. Objection(r) \in Replies /\ Objection(r) # "granted"
        BY DEF Objection, Replies
      <4> QED BY <3>1, <4>1, RefusedTyped
    <3>4. ASSUME NEW post \in PostRecord, posts' = Append(posts, post)
          PROVE  /\ posts' \in Seq(PostRecord) /\ DOMAIN posts' = DOMAIN posts \union {l} /\ Len(posts') = l
                 /\ l \notin DOMAIN posts
                 /\ posts'[l] = post /\ \A p \in DOMAIN posts : posts'[p] = posts[p]
      <4> HIDE DEF PostRecord
      <4> QED BY <2>0, <3>4
    <3>5. \A post : WellTaken(post) => WellTaken(post)'
      BY <3>0 DEF WellTaken
    <3>6. \A n \in nonces' : challenges'[n].run = restarts'
      BY <2>0, <3>0 DEF NoncesSpent
    <3>7. CASE Objection(r) # "none"
      <4>1. posts' = Append(posts, refused) /\ held' = held
        BY <2>5, <3>7 DEF Post
      <4> HIDE DEF refused, taken
      <4>2. /\ posts' \in Seq(PostRecord) /\ DOMAIN posts' = DOMAIN posts \union {l} /\ l \notin DOMAIN posts
            /\ posts'[l] = refused /\ \A p \in DOMAIN posts : posts'[p] = posts[p]
        BY <3>3, <3>4, <4>1
      <4> HIDE DEF l
      <4>3. GateTypeOK'
        BY <2>0, <3>0, <4>2 DEF GateTypeOK
      <4>4. ~Passed(posts'[l])
        BY <3>3, <4>2 DEF Passed
      <4>5. NoncesSpent'
        <5>1. \A p \in DOMAIN posts' : Passed(posts'[p]) => WellTaken(posts[p])'
          BY <2>0, <3>5, <4>2, <4>4 DEF NoncesSpent
        <5>2. \A p, q \in DOMAIN posts' :
                 Passed(posts'[p]) /\ Passed(posts'[q]) /\ posts'[p].nonce = posts'[q].nonce => p = q
          BY <2>0, <4>2, <4>4 DEF NoncesSpent
        <5>3. \A p \in DOMAIN posts' : posts'[p].reply = "granted" => posts'[p].at = "done"
          BY <2>0, <3>3, <4>2 DEF NoncesSpent
        <5> QED BY <3>6, <5>1, <5>2, <5>3 DEF NoncesSpent, Passed
      <4>6. ClaimsHeld'
        BY <2>0, <3>0, <3>3, <4>1, <4>2 DEF ClaimsHeld, Valid
      <4> QED BY <4>3, <4>5, <4>6 DEF GateInv
    <3>8. CASE Objection(r) = "none"
      <4>1. /\ posts' = Append(posts, taken)
            /\ held' = IF Valid(onChain[r.wallet], r.asks) THEN held \union {Len(posts')} ELSE held
        BY <2>5, <3>8 DEF Post
      <4>2. r.nonce \in Unexpired /\ r.signed
        BY <3>8 DEF Objection
      <4>3. PICK kept \in PostRecord : kept = taken
        BY <3>2
      <4>10. /\ kept.nonce = r.nonce /\ kept.wallet = r.wallet /\ kept.signed = r.signed
             /\ kept.asks = r.asks /\ kept.run = restarts /\ kept.taken = serverTime
             /\ kept.at = "hasClaim" /\ kept.reply = "none"
        BY <4>3
      <4> HIDE DEF refused, taken
      <4>4. /\ posts' \in Seq(PostRecord) /\ DOMAIN posts' = DOMAIN posts \union {l} /\ l \notin DOMAIN posts
            /\ Len(posts') = l
            /\ posts'[l] = kept /\ \A p \in DOMAIN posts : posts'[p] = posts[p]
        BY <3>2, <3>4, <4>1, <4>3
      <4> HIDE DEF l
      <4>5. GateTypeOK'
        BY <2>0, <3>0, <4>4 DEF GateTypeOK
      <4>6. WellTaken(kept)'
        BY <2>0, <3>0, <3>1, <4>2, <4>10 DEF WellTaken, Unexpired, NoncesSpent
      <4>7. \A p \in DOMAIN posts : Passed(posts[p]) => posts[p].nonce # r.nonce
        BY <2>0, <4>2 DEF NoncesSpent, WellTaken, Unexpired
      <4>8. NoncesSpent'
        <5>1. \A p \in DOMAIN posts' : Passed(posts'[p]) => WellTaken(posts[p])'
          BY <2>0, <3>5, <4>4, <4>6 DEF NoncesSpent
        <5>2. \A p, q \in DOMAIN posts' :
                 Passed(posts'[p]) /\ Passed(posts'[q]) /\ posts'[p].nonce = posts'[q].nonce => p = q
          BY <2>0, <4>10, <4>4, <4>7 DEF NoncesSpent
        <5>3. \A p \in DOMAIN posts' : posts'[p].reply = "granted" => posts'[p].at = "done"
          BY <2>0, <4>10, <4>4 DEF NoncesSpent
        <5> QED BY <3>6, <5>1, <5>2, <5>3 DEF NoncesSpent, Passed
      <4>9. ClaimsHeld'
        <5>1. Valid(onChain[r.wallet], r.asks)' => l \in held'
          BY <3>0, <4>1, <4>4 DEF Valid
        <5>2. held \subseteq held'
          BY <4>1
        <5> QED BY <2>0, <3>0, <4>10, <4>4, <5>1, <5>2 DEF ClaimsHeld, Valid
      <4> QED BY <4>5, <4>8, <4>9 DEF GateInv
    <3> QED BY <3>7, <3>8
  <2>6. ASSUME NEW p \in DOMAIN posts, ClaimAnswered(p) PROVE GateInv'
    <3>0. UNCHANGED <<serverTime, onChain, challenges, nonces, held, restarts>> /\ posts[p].at = "hasClaim"
      BY <2>6 DEF ClaimAnswered
    <3>1. posts[p].reply # "granted"
      BY <2>0, <3>0 DEF NoncesSpent
    <3>2. CASE Refuse(p, "on_chain_error")
      <4>1. "on_chain_error" \in Replies
        BY DEF Replies
      <4> QED BY <2>0, <3>0, <3>2, <4>1, RefuseMoves, GateMoves
    <3>3. CASE Await(p, "getClaims") /\ Valid(onChain[posts[p].wallet], posts[p].asks)
      <4>1. p \in held
        BY <2>0, <3>0, <3>3 DEF ClaimsHeld
      <4>2. "getClaims" \in PostStages
        BY DEF PostStages
      <4>3. PICK post \in PostRecord : PostMoves(p, post) /\ PostGoesOn(p, post, "getClaims", posts[p].reply)
        BY <2>0, <3>3, <4>2, AwaitMoves
      <4> QED BY <3>0, <3>1, <4>1, <4>3, GateMoves DEF PostGoesOn
    <3>4. CASE Await(p, "checkClaimStatus")
      <4>1. "checkClaimStatus" \in PostStages
        BY DEF PostStages
      <4>2. PICK post \in PostRecord : PostMoves(p, post) /\ PostGoesOn(p, post, "checkClaimStatus", posts[p].reply)
        BY <2>0, <3>4, <4>1, AwaitMoves
      <4> QED BY <3>0, <3>1, <4>2, GateMoves DEF PostGoesOn
    <3> QED BY <2>6, <3>2, <3>3, <3>4 DEF ClaimAnswered, Reads
  <2>7. ASSUME NEW p \in DOMAIN posts, StatusAnswered(p) PROVE GateInv'
    <3>0. UNCHANGED <<serverTime, onChain, challenges, nonces, held, restarts>>
      BY <2>7 DEF StatusAnswered
    <3>1. PICK reason \in Replies \ {"granted"} : Refuse(p, reason)
      <4>1. \A rec, asks : StatusOf(rec, asks) \in
               {"not_verified", "revoked", "expired", "wrong_issuer", "unmet_threshold", "verified"}
        BY DEF StatusOf
      <4> QED BY <2>7, <4>1 DEF StatusAnswered, Reads, Replies
    <3>2. PICK post \in PostRecord : PostMoves(p, post) /\ post.at = "done" /\ post.reply = reason
      BY <2>0, <3>1, RefuseMoves
    <3> QED BY <3>0, <3>1, <3>2, GateMoves
  <2>8. ASSUME NEW p \in DOMAIN posts, Grant(p) PROVE GateInv'
    <3>0. UNCHANGED <<serverTime, onChain, challenges, nonces, held, restarts>> /\ posts[p].at = "getClaims"
          /\ posts' = [posts EXCEPT ![p].at = "done", ![p].reply = "granted"]
      BY <2>8 DEF Grant
    <3>1. p \in held
      BY <2>0, <3>0 DEF ClaimsHeld
    <3>2. PICK post \in PostRecord : PostMoves(p, post) /\ PostGoesOn(p, post, "done", "granted")
      <4>1. posts[p] \in PostRecord
        BY <2>0
      <4>2. posts' = [posts EXCEPT ![p] = [posts[p] EXCEPT !.at = "done", !.reply = "granted"]]
        BY <3>0, <4>1 DEF PostRecord
      <4>3. "done" \in PostStages /\ "granted" \in Replies
        BY DEF PostStages, Replies
      <4> QED BY <2>0, <4>2, <4>3, PostIsMoved
    <3> QED BY <3>0, <3>1, <3>2, GateMoves DEF PostGoesOn
  <2>9. ASSUME NEW t \in tokens, OpenTreasury(t) PROVE GateInv'
    BY <2>0, <2>9 DEF OpenTreasury, GateInv, GateTypeOK, NoncesSpent, ClaimsHeld, Passed, WellTaken, Valid
  <2>10. CASE UNCHANGED gateVars
    BY <2>0, <2>10 DEF gateVars, GateInv, GateTypeOK, NoncesSpent, ClaimsHeld, Passed, WellTaken, Valid
  <2> QED BY <2>1, <2>2, <2>3, <2>4, <2>5, <2>6, <2>7, <2>8, <2>9, <2>10 DEF ServerNext
<1> QED BY <1>1, <1>2, PTL DEF ServerSpec

\* Whatever posts overlap, come twice or late: a session is granted to a wallet that
\* signed what it sent and whose claim held while its post was under way, for a nonce of
\* this run of the process that had not expired; no nonce opens a second (verifyWalletClaim)
THEOREM SessionsAreAlwaysEarned == ServerSpec => []SessionsAreEarned
<1>1. GateInv => SessionsAreEarned
  <2> SUFFICES ASSUME GateInv, NEW p \in DOMAIN posts, posts[p].reply = "granted"
               PROVE  LET n == posts[p].nonce IN
                      /\ posts[p].signed /\ p \in held
                      /\ challenges[n].run = posts[p].run
                      /\ posts[p].taken \in 0 .. challenges[n].expiresAt
                      /\ \A q \in DOMAIN posts : posts[q].reply = "granted" /\ posts[q].nonce = n => q = p
    BY DEF SessionsAreEarned
  <2>1. WellTaken(posts[p]) /\ p \in held
    BY DEF GateInv, NoncesSpent, ClaimsHeld, Passed
  <2>2. \A q \in DOMAIN posts : posts[q].reply = "granted" /\ posts[q].nonce = posts[p].nonce => q = p
    BY DEF GateInv, NoncesSpent, Passed
  <2>3. posts[p].taken \in 0 .. challenges[posts[p].nonce].expiresAt
    <3>1. posts[p] \in PostRecord
      BY DEF GateInv, GateTypeOK
    <3>2. posts[p].taken \in Nat
      BY <3>1 DEF PostRecord
    <3>3. challenges[posts[p].nonce] \in ChallengeRecord
      BY <2>1 DEF GateInv, GateTypeOK, WellTaken
    <3>4. challenges[posts[p].nonce].expiresAt \in Int
      BY <3>3 DEF ChallengeRecord
    <3> QED BY <2>1, <3>2, <3>4 DEF WellTaken
  <2> QED BY <2>1, <2>2, <2>3 DEF WellTaken
<1> QED BY <1>1, GateInvariant, PTL

-----------------------------------------------------------------------------
(* Issuance                                                                *)

EventRecord == [of: Inquiries, name: {"completed", "approved", "declined"},
                status: {"completed", "approved", "declined"}]

\* A handler holds its inquiry: it is the only one, and nothing has been issued
HandlersHold ==
    /\ events \in Seq(EventRecord)
    /\ handlers \subseteq DOMAIN events
    /\ byWebhook \in [Inquiries -> Nat]
    /\ \A e \in handlers : events[e].of \in processing /\ results[events[e].of] # "completed"
    /\ \A e, f \in handlers : events[e].of = events[f].of => e = f
    /\ \A q \in Inquiries : byWebhook[q] # 0 => byWebhook[q] = 1 /\ results[q] = "completed"

\* results is a function on the inquiries
WebhookInv ==
    /\ DOMAIN results = Inquiries
    /\ ~forgotten => HandlersHold

\* The inductive invariant of the identity webhook: a handler that passed the check of
\* the stored status is alone with its inquiry until it has written "completed".
THEOREM WebhookInvariant == IssueSpec => []WebhookInv
<1>1. IssueInit => WebhookInv
  BY DEF IssueInit, WebhookInv, HandlersHold
<1>2. WebhookInv /\ [IssueNext]_issueVars => WebhookInv'
  <2> SUFFICES ASSUME WebhookInv, [IssueNext]_issueVars PROVE WebhookInv'
    OBVIOUS
  <2>1. CASE UNCHANGED <<events, processing, results, handlers, byWebhook, forgotten>>
    BY <2>1 DEF WebhookInv, HandlersHold
  <2>2. CASE IssueTick \/ LeaveVerify \/ WalletChanges \/ Request \/ IssueAnswers \/ Redirect
             \/ (\E viaLink \in BOOLEAN : OpenForm(viaLink))
             \/ StartResume \/ Poll \/ Fallback \/ StrayAnswers \/ (\E q \in Inquiries : OpenReturn(q))
    BY <2>1, <2>2 DEF IssueTick, LeaveVerify, WalletChanges, Request, IssueAnswers, IssuesAtOnce,
         RefusesRequest, SendsToPersona, Redirect, OpenForm, StartResume, Poll, Fallback,
         StrayAnswers, OpenReturn, tabVars, serverVars, personaVars
  <2>3. CASE ServerRestarts
    BY <2>3 DEF ServerRestarts, WebhookInv
  <2>4. ASSUME NEW q \in Inquiries, InquiryMoves(q) PROVE WebhookInv'
    <3>1. UNCHANGED <<processing, results, handlers, byWebhook, forgotten>>
      BY <2>4 DEF InquiryMoves, serverVars
    <3>2. PICK e \in EventRecord : events' = Append(events, e)
      BY <2>4 DEF InquiryMoves, EventRecord
    <3>3. ASSUME ~forgotten PROVE HandlersHold'
      <4>1. HandlersHold
        BY <3>3 DEF WebhookInv
      <4>2. /\ events' \in Seq(EventRecord) /\ DOMAIN events \subseteq DOMAIN events'
            /\ \A d \in DOMAIN events : events'[d] = events[d]
        BY <3>2, <4>1 DEF HandlersHold
      <4> QED BY <3>1, <4>1, <4>2 DEF HandlersHold
    <3> QED BY <3>1, <3>3 DEF WebhookInv
  <2>5. ASSUME NEW q \in Inquiries, Evict(q) PROVE WebhookInv'
    BY <2>5 DEF Evict, WebhookInv
  <2>6. ASSUME NEW e \in DOMAIN events, Receive(e) PROVE WebhookInv'
    <3> DEFINE q == events[e].of
    <3>1. UNCHANGED <<events, byWebhook, forgotten>> /\ q \notin processing /\ results[q] # "completed"
          /\ processing' = processing \cup {q}
      BY <2>6 DEF Receive, MayBegin, personaVars
    <3>2. CASE results' = [results EXCEPT ![q] = "failed"] /\ UNCHANGED handlers
      <4>1. DOMAIN results' = Inquiries
        BY <3>2 DEF WebhookInv
      <4>2. ASSUME ~forgotten PROVE HandlersHold'
        BY <3>1, <3>2, <4>2 DEF WebhookInv, HandlersHold
      <4> QED BY <3>1, <4>1, <4>2 DEF WebhookInv
    <3>3. CASE handlers' = handlers \cup {e} /\ UNCHANGED results
      BY <3>1, <3>3 DEF WebhookInv, HandlersHold
    <3> QED BY <2>6, <3>2, <3>3 DEF Receive
  <2>7. ASSUME NEW e \in DOMAIN events, HandlerEnds(e) PROVE WebhookInv'
    <3> DEFINE q == events[e].of
    <3>1. /\ UNCHANGED <<events, forgotten>> /\ e \in handlers /\ handlers' = handlers \ {e}
          /\ processing' = processing \ {q} /\ DOMAIN results' = DOMAIN results
          /\ \A p \in DOMAIN results : p # q => results'[p] = results[p]
      BY <2>7 DEF HandlerEnds, personaVars
    <3>2. ASSUME ~forgotten PROVE HandlersHold'
      <4>1. HandlersHold /\ DOMAIN results = Inquiries
        BY <3>2 DEF WebhookInv
      <4>2. q \in Inquiries /\ byWebhook[q] = 0
        <5>1. events[e] \in EventRecord
          BY <4>1 DEF HandlersHold
        <5> QED BY <5>1, <3>1, <4>1 DEF HandlersHold, EventRecord
      <4>3. \A f \in handlers' : events[f].of # q
        BY <3>1, <4>1 DEF HandlersHold
      <4>4. /\ byWebhook' \in [Inquiries -> Nat]
            /\ \A p \in Inquiries : p # q => byWebhook'[p] = byWebhook[p]
            /\ byWebhook'[q] # 0 => byWebhook'[q] = 1 /\ results'[q] = "completed"
        BY <2>7, <4>1, <4>2 DEF HandlerEnds, HandlersHold
      <4>5. \A f \in handlers' : events[f].of \in processing' /\ results'[events[f].of] # "completed"
        <5>1. \A f \in handlers' : events[f] \in EventRecord
          BY <3>1, <4>1 DEF HandlersHold
        <5>2. \A f \in handlers' : events[f].of \in Inquiries
          BY <5>1 DEF EventRecord
        <5> QED BY <3>1, <4>1, <4>3, <5>2 DEF HandlersHold
      <4>6. \A p \in Inquiries : byWebhook'[p] # 0 => byWebhook'[p] = 1 /\ results'[p] = "completed"
        BY <3>1, <4>1, <4>4 DEF HandlersHold
      <4> QED BY <3>1, <4>1, <4>4, <4>5, <4>6 DEF HandlersHold
    <3> QED BY <3>1, <3>2 DEF WebhookInv
  <2>8. CASE UNCHANGED issueVars
    BY <2>1, <2>8 DEF issueVars, serverVars, personaVars
  <2> QED BY <2>2, <2>3, <2>4, <2>5, <2>6, <2>7, <2>8 DEF IssueNext
<1> QED BY <1>1, <1>2, PTL DEF IssueSpec

\* As long as the server forgets nothing its webhook issues for an inquiry once,
\* whatever events of it arrive, and however often (persona-webhook.ts)
THEOREM WebhookAlwaysIssuesOnce == IssueSpec => []WebhookIssuesOnce
<1>1. WebhookInv => WebhookIssuesOnce
  BY DEF WebhookInv, HandlersHold, WebhookIssuesOnce
<1> QED BY <1>1, WebhookInvariant, PTL

\* The entry of a link that was used stays as it was made, and no form of it is open
LinkInv ==
    /\ time \in Nat /\ expires \in Nat /\ used \in BOOLEAN
    /\ consumed \in Nat \cup {NotConsumed}
    /\ redirecting \subseteq BOOLEAN
    /\ DOMAIN page = {"at", "link", "of", "polls", "carries"}
    /\ page.link \in BOOLEAN /\ (asked = "page" => page.at # "closed")
    /\ used => /\ consumed = expires
               /\ page.link => page.at \notin {"form", "asked"} /\ asked # "page"

\* What a step of the page does to its link, to its form and to the request of the form
FormUntouched ==
    /\ page'.link = page.link
    /\ page'.at \in {"form", "asked"} \/ asked' = "page" => page.at \in {"form", "asked"} \/ asked = "page"

LEMMA FormKept ==
  ASSUME LinkInv, FormUntouched \/ (page'.link = FALSE),
         DOMAIN page' = DOMAIN page, asked' = "page" => page'.at # "closed",
         UNCHANGED <<time, expires, used, consumed>>, redirecting' \subseteq BOOLEAN
  PROVE  LinkInv'
BY DEF LinkInv, FormUntouched

\* The inductive invariant of a verification link: the consumed entry is there, and
\* refuses the link, for as long as the link's own expiry does not.
THEOREM LinkInvariant == IssueSpec => []LinkInv
<1>1. IssueInit => LinkInv
  <2>1. /\ DOMAIN Closed = {"at", "link", "of", "polls", "carries"}
        /\ Closed.link = FALSE /\ Closed.at = "closed"
    BY DEF Closed
  <2> SUFFICES ASSUME IssueInit PROVE LinkInv
    OBVIOUS
  <2>3. page = Closed /\ asked = "none" /\ used = FALSE /\ redirecting = {} /\ consumed = NotConsumed
    BY DEF IssueInit
  <2>4. time \in Nat /\ expires \in Nat
    BY LinkAssumption DEF IssueInit
  <2>5. page.link \in BOOLEAN /\ used \in BOOLEAN /\ redirecting \subseteq BOOLEAN
    BY <2>1, <2>3
  <2> QED BY <2>1, <2>3, <2>4, <2>5 DEF LinkInv
<1>2. LinkInv /\ [IssueNext]_issueVars => LinkInv'
  <2> SUFFICES ASSUME LinkInv, [IssueNext]_issueVars PROVE LinkInv'
    OBVIOUS
  <2>0. DOMAIN page = {"at", "link", "of", "polls", "carries"} /\ page.link \in BOOLEAN /\ redirecting \subseteq BOOLEAN
    BY DEF LinkInv
  <2>1. CASE IssueTick
    BY <2>1 DEF IssueTick, LinkInv
  <2>2. CASE LeaveVerify
    <3>1. DOMAIN page' = DOMAIN page /\ page'.link = FALSE /\ asked' # "page" /\ redirecting' \subseteq BOOLEAN /\ UNCHANGED <<time, expires, used, consumed>>
      BY <2>0, <2>2 DEF LeaveVerify, Closed
    <3> QED BY <3>1, FormKept
  <2>3. CASE WalletChanges
    <3>0. DOMAIN page' = DOMAIN page
      BY <2>3 DEF WalletChanges
    <3>1. page' = page \/ (page.at \in {"resuming", "fallback"} /\ page' = [page EXCEPT !.at = "returned", !.polls = 0, !.carries = FALSE])
      BY <2>3 DEF WalletChanges
    <3>2. redirecting' \subseteq BOOLEAN /\ UNCHANGED <<asked, time, expires, used, consumed>>
      BY <2>0, <2>3 DEF WalletChanges
    <3>3. FormUntouched /\ (asked' = "page" => page'.at # "closed")
      BY <2>0, <3>1, <3>2 DEF FormUntouched, LinkInv
    <3> QED BY <3>0, <3>2, <3>3, FormKept
  <2>4. CASE Request
    <3>1. page.at = "form" /\ page' = [page EXCEPT !.at = "asked"] /\ redirecting' \subseteq BOOLEAN
          /\ UNCHANGED <<time, expires, used, consumed>>
      BY <2>0, <2>4 DEF Request
    <3>2. FormUntouched /\ page'.at = "asked" /\ DOMAIN page' = DOMAIN page
      BY <2>0, <3>1 DEF FormUntouched, LinkInv
    <3> QED BY <3>1, <3>2, FormKept
  <2>5. CASE IssueAnswers
    <3>1. asked' = "none" /\ UNCHANGED <<time, expires, used, consumed>>
      BY <2>5 DEF IssueAnswers
    <3>2. DOMAIN page' = DOMAIN page /\ page'.link = page.link /\ (page'.at = page.at \/ (asked = "page" /\ page'.at \in {"done", "form", "persona"}))
          /\ redirecting' \subseteq BOOLEAN
      BY <2>0, <2>5 DEF IssueAnswers, IssuesAtOnce, RefusesRequest, SendsToPersona, Succeeds, Ended
    <3> QED BY <3>1, <3>2, FormKept DEF FormUntouched
  <2>6. CASE Redirect
    <3>1. page' = Closed /\ asked' # "page" /\ UNCHANGED <<time, expires>> /\ redirecting' \subseteq BOOLEAN
      BY <2>0, <2>6 DEF Redirect
    <3>2. used' \in BOOLEAN /\ consumed' \in Nat \cup {NotConsumed} /\ (used' => consumed' = expires)
      BY <2>0, <2>6 DEF Redirect, LinkInv
    <3> QED BY <3>1, <3>2 DEF LinkInv, Closed
  <2>7. ASSUME NEW viaLink \in BOOLEAN, OpenForm(viaLink) PROVE LinkInv'
    <3>1. UNCHANGED <<time, expires, used, asked, redirecting>>
      BY <2>7 DEF OpenForm
    <3>2. /\ DOMAIN page' = {"at", "link", "of", "polls", "carries"} /\ page'.at \in {"form", "refused"}
          /\ page'.link = viaLink /\ (viaLink /\ (Expired \/ Pruned # NotConsumed) => page'.at = "refused")
      BY <2>7 DEF OpenForm, Closed
    <3>3. consumed' \in Nat \cup {NotConsumed}
      BY <2>7 DEF OpenForm, Pruned, LinkInv
    <3>4. ASSUME used PROVE consumed' = expires /\ (Expired \/ Pruned # NotConsumed)
      BY <2>7, <3>4 DEF OpenForm, Pruned, Expired, LinkInv, NotConsumed
    <3>5. used => ~(asked = "page" /\ page.link)
      BY DEF LinkInv
    <3>6. page.at = "closed"
      BY <2>7 DEF OpenForm
    <3> QED BY <3>1, <3>2, <3>3, <3>4, <3>5, <3>6 DEF LinkInv
  <2>8. CASE StartResume
    <3>1. page' = [page EXCEPT !.at = "resuming", !.carries = details] /\ redirecting' \subseteq BOOLEAN
          /\ UNCHANGED <<asked, time, expires, used, consumed>>
      BY <2>0, <2>8 DEF StartResume
    <3>2. FormUntouched /\ DOMAIN page' = DOMAIN page /\ (asked' = "page" => page'.at # "closed")
      BY <2>0, <3>1 DEF FormUntouched, LinkInv
    <3> QED BY <3>1, <3>2, FormKept
  <2>9. CASE Poll
    <3>1. UNCHANGED <<asked, time, expires, used, consumed>>
      BY <2>9 DEF Poll
    <3>2. /\ DOMAIN page' = DOMAIN page /\ page'.link = page.link /\ page'.at \in {"done", "failed", "resuming", "fallback"}
          /\ redirecting' \subseteq BOOLEAN
      BY <2>0, <2>9 DEF Poll, Succeeds, ResumeFails, Ended
    <3>3. FormUntouched /\ (asked' = "page" => page'.at # "closed")
      BY <3>1, <3>2 DEF FormUntouched
    <3> QED BY <3>1, <3>2, <3>3, FormKept
  <2>10. CASE Fallback
    <3>1. UNCHANGED <<asked, time, expires, used, consumed>>
      BY <2>10 DEF Fallback
    <3>2. /\ DOMAIN page' = DOMAIN page /\ page'.link = page.link /\ page'.at \in {"done", "failed"} /\ redirecting' \subseteq BOOLEAN
      BY <2>0, <2>10 DEF Fallback, Succeeds, ResumeFails, Ended
    <3>3. FormUntouched /\ (asked' = "page" => page'.at # "closed")
      BY <3>1, <3>2 DEF FormUntouched
    <3> QED BY <3>1, <3>2, <3>3, FormKept
  <2>11. CASE StrayAnswers
    <3>1. UNCHANGED <<asked, time, expires, used, consumed>>
      BY <2>11 DEF StrayAnswers
    <3>0. DOMAIN page' = DOMAIN page
      BY <2>11 DEF StrayAnswers, Ended
    <3>2. /\ page' = page \/ (page'.link = page.link /\ page'.at = "done")
          /\ redirecting' \subseteq BOOLEAN
      BY <2>0, <2>11 DEF StrayAnswers, Ended
    <3>3. FormUntouched /\ (asked' = "page" => page'.at # "closed")
      BY <3>1, <3>2 DEF FormUntouched, LinkInv
    <3> QED BY <3>0, <3>1, <3>2, <3>3, FormKept
  <2>12. ASSUME NEW q \in Inquiries, OpenReturn(q) PROVE LinkInv'
    <3>1. DOMAIN page' = DOMAIN page /\ page'.link = FALSE /\ page'.at = "returned" /\ redirecting' \subseteq BOOLEAN
          /\ UNCHANGED <<time, expires, used, consumed>>
      BY <2>0, <2>12 DEF OpenReturn, Closed
    <3> QED BY <3>1, FormKept
  <2>13. CASE UNCHANGED tabVars
    BY <2>13 DEF tabVars, LinkInv
  <2>14. CASE ServerRestarts \/ (\E q \in Inquiries : InquiryMoves(q) \/ Evict(q))
              \/ (\E e \in DOMAIN events : Receive(e) \/ HandlerEnds(e)) \/ UNCHANGED issueVars
    BY <2>13, <2>14 DEF ServerRestarts, InquiryMoves, Evict, Receive, HandlerEnds, issueVars
  <2> QED BY <2>1, <2>2, <2>3, <2>4, <2>5, <2>6, <2>7, <2>8, <2>9, <2>10, <2>11, <2>12, <2>14 DEF IssueNext
<1> QED BY <1>1, <1>2, PTL DEF IssueSpec

\* Once the link is consumed the tab never offers to issue from it again
\* (pruneConsumed and isConsumed of verify-nonce.ts)
THEOREM UsedLinkAlwaysClosed == IssueSpec => []UsedLinkStaysClosed
<1>1. LinkInv => UsedLinkStaysClosed
  BY DEF LinkInv, UsedLinkStaysClosed
<1> QED BY <1>1, LinkInvariant, PTL

-----------------------------------------------------------------------------
(* Audit log                                                               *)

LogEntry == [of: Requests, index: Nat]
Texts == Seq(LogEntry)

\* As long as it is orderly, what is in memory, and what any request writes, is the
\* log from its first entry; until a server has read the file, the file is the log
AuditInv ==
    /\ chain \in Texts /\ logged \in Texts /\ file.lines \in Texts
    /\ DOMAIN file = {"lines", "broken"}
    /\ orderly \in BOOLEAN
    /\ at \in [Requests -> {"idle", "boot", "mkdir", "open", "write", "ended"}]
    /\ content \in [Requests -> Texts]
    /\ boot \in {"none", "done", "failed"}
    /\ orderly =>
        /\ IF boot = "done" THEN chain = logged
           ELSE /\ file = File(logged, FALSE)
                /\ \A r \in Requests : at[r] \notin {"mkdir", "open", "write"}
        /\ IsPrefix(file.lines, logged)
        /\ \A r \in Requests : IsPrefix(content[r], logged)

\* Prefixes of texts
LEMMA PrefixIs ==
  ASSUME NEW s \in Texts, NEW t \in Texts
  PROVE  IsPrefix(s, t) <=> Len(s) <= Len(t) /\ \A i \in 1..Len(s) : s[i] = t[i]
BY DEF IsPrefix, Texts

LEMMA EmptyText == <<>> \in Texts /\ \A t \in Texts : IsPrefix(<<>>, t) /\ IsPrefix(t, t)
<1>1. <<>> \in Texts
  BY DEF Texts
<1>2. Len(<<>>) = 0 /\ \A t \in Texts : Len(t) \in Nat
  BY DEF Texts
<1> QED BY <1>1, <1>2, PrefixIs

LEMMA AppendedPrefix ==
  ASSUME NEW s \in Texts, NEW t \in Texts, NEW e \in LogEntry, IsPrefix(s, t)
  PROVE  Append(t, e) \in Texts /\ IsPrefix(s, Append(t, e))
<1>1. /\ Append(t, e) \in Texts /\ Len(Append(t, e)) = Len(t) + 1 /\ Len(t) \in Nat /\ Len(s) \in Nat
      /\ \A i \in 1..Len(t) : Append(t, e)[i] = t[i]
  BY DEF Texts
<1>2. Len(s) <= Len(t) /\ \A i \in 1..Len(s) : s[i] = t[i]
  BY PrefixIs
<1>3. Len(s) <= Len(Append(t, e)) /\ \A i \in 1..Len(s) : s[i] = Append(t, e)[i]
  BY <1>1, <1>2
<1> QED BY <1>1, <1>3, PrefixIs

LEMMA CutPrefix ==
  ASSUME NEW s \in Texts, NEW t \in Texts, NEW n \in 0..Len(s), IsPrefix(s, t)
  PROVE  SubSeq(s, 1, n) \in Texts /\ IsPrefix(SubSeq(s, 1, n), t)
<1>1. /\ SubSeq(s, 1, n) \in Texts /\ Len(SubSeq(s, 1, n)) = n /\ Len(t) \in Nat /\ Len(s) \in Nat
      /\ \A i \in 1..n : SubSeq(s, 1, n)[i] = s[i]
  BY DEF Texts
<1>2. Len(s) <= Len(t) /\ \A i \in 1..Len(s) : s[i] = t[i]
  BY PrefixIs
<1>3. n <= Len(t) /\ \A i \in 1..n : SubSeq(s, 1, n)[i] = t[i]
  BY <1>1, <1>2
<1> QED BY <1>1, <1>3, PrefixIs

\* The inductive invariant of the audit log: what is in memory, and what each request
\* is about to write to the file, is the log from its first entry (appendAudit).
THEOREM AuditInvariant == AuditSpec => []AuditInv
<1>1. AuditInit => AuditInv
  <2> SUFFICES ASSUME AuditInit PROVE AuditInv
    OBVIOUS
  <2>1. file.lines = <<>> /\ DOMAIN file = {"lines", "broken"}
    BY DEF AuditInit, File
  <2>2. content \in [Requests -> Texts] /\ \A r \in Requests : content[r] = <<>>
    BY EmptyText DEF AuditInit
  <2> QED BY <2>1, <2>2, EmptyText DEF AuditInit, AuditInv
<1>2. AuditInv /\ [AuditNext]_auditVars => AuditInv'
  <2> SUFFICES ASSUME AuditInv, [AuditNext]_auditVars PROVE AuditInv'
    OBVIOUS
  <2>1. CASE UNCHANGED <<boot, chain, file, at, content, orderly, logged>>
    BY <2>1 DEF AuditInv
  <2>2. CASE ReportError \/ DeliveryEnds \/ DrainEnds \/ (\E e \in Callbacks : Callback(e)) \/ UNCHANGED auditVars
    BY <2>1, <2>2 DEF ReportError, DeliveryEnds, DrainEnds, Callback, auditVars
  <2>3. CASE BootFails
    BY <2>3 DEF BootFails, AuditInv
  <2>4. CASE ServerStops
    <3>1. /\ boot' = "none" /\ chain' = <<>> /\ content' = [r \in Requests |-> <<>>]
          /\ at' = [r \in Requests |-> IF at[r] = "idle" THEN "idle" ELSE "ended"]
          /\ orderly' = (orderly /\ file = File(logged, FALSE)) /\ UNCHANGED <<file, logged>>
      BY <2>4 DEF ServerStops
    <3>2. orderly' \in BOOLEAN /\ (orderly' => orderly /\ file = File(logged, FALSE))
      BY <3>1 DEF AuditInv
    <3>3. at' \in [Requests -> {"idle", "boot", "mkdir", "open", "write", "ended"}]
          /\ \A r \in Requests : at'[r] \notin {"mkdir", "open", "write"}
      BY <3>1
    <3>4. content' \in [Requests -> Texts] /\ \A r \in Requests : content'[r] = <<>>
      BY <3>1, EmptyText
    <3> QED BY <3>1, <3>2, <3>3, <3>4, EmptyText DEF AuditInv
  <2>5. ASSUME NEW r \in Requests, Begin(r),
               UNCHANGED <<boot, chain, file, content, orderly, logged>>
        PROVE  AuditInv'
    BY <2>5 DEF Begin, AuditInv
  <2>6. ASSUME NEW r \in Requests, IssueSigned(r) \/ (\E e \in Callbacks : Retry(e, r) \/ Resolve(e, r))
        PROVE  AuditInv'
    BY <2>5, <2>6 DEF IssueSigned, Retry, Resolve
  <2>7. ASSUME NEW r \in Requests, EndsUnlogged(r) PROVE AuditInv'
    BY <2>7 DEF EndsUnlogged, AuditInv
  <2>8. ASSUME NEW r \in Requests, Serialise(r) PROVE AuditInv'
    <3>1. /\ at[r] = "mkdir" /\ at' = [at EXCEPT ![r] = "open"] /\ content' = [content EXCEPT ![r] = chain]
          /\ UNCHANGED <<boot, chain, file, orderly, logged>>
      BY <2>8 DEF Serialise
    <3>2. orderly => boot = "done" /\ chain = logged /\ IsPrefix(chain, logged)
      BY <3>1, EmptyText DEF AuditInv
    <3> QED BY <3>1, <3>2 DEF AuditInv
  <2>9. ASSUME NEW r \in Requests, OpenFile(r) PROVE AuditInv'
    <3>1. /\ at[r] = "open" /\ at' = [at EXCEPT ![r] = "write"] /\ file' = File(<<>>, FALSE)
          /\ UNCHANGED <<boot, chain, content, orderly, logged>>
      BY <2>9 DEF OpenFile
    <3>2. orderly => boot = "done"
      BY <3>1 DEF AuditInv
    <3>3. file'.lines = <<>> /\ DOMAIN file' = {"lines", "broken"}
      BY <3>1 DEF File
    <3> QED BY <3>1, <3>2, <3>3, EmptyText DEF AuditInv
  <2>10. ASSUME NEW r \in Requests, WriteFile(r) PROVE AuditInv'
    <3>1. /\ at[r] = "write" /\ at' = [at EXCEPT ![r] = "ended"] /\ content' = [content EXCEPT ![r] = <<>>]
          /\ file' = File(content[r], FALSE) \/ file' = file
          /\ UNCHANGED <<boot, chain, orderly, logged>>
      BY <2>10 DEF WriteFile
    <3>2. orderly => boot = "done"
      BY <3>1 DEF AuditInv
    <3>3. (file'.lines = content[r] \/ file'.lines = file.lines) /\ DOMAIN file' = {"lines", "broken"}
      BY <3>1 DEF AuditInv, File
    <3> QED BY <3>1, <3>2, <3>3, EmptyText DEF AuditInv
  <2>11. ASSUME NEW r \in Requests, WriteFails(r) PROVE AuditInv'
    <3>1. /\ at[r] \in {"mkdir", "open", "write"} /\ at' = [at EXCEPT ![r] = "ended"]
          /\ content' = [content EXCEPT ![r] = <<>>] /\ UNCHANGED <<boot, chain, orderly, logged>>
      BY <2>11 DEF WriteFails
    <3>2. orderly => boot = "done"
      BY <3>1 DEF AuditInv
    <3>3. /\ DOMAIN file' = {"lines", "broken"}
          /\ \/ file'.lines = file.lines
             \/ \E n \in 0 .. Len(content[r]) : file'.lines = SubSeq(content[r], 1, n)
      <4>1. Len(file.lines) \in Nat /\ Len(content[r]) \in Nat
        BY DEF AuditInv, Texts
      <4>2. CASE file' = file
        BY <4>2 DEF AuditInv
      <4>3. CASE \E n \in Len(file.lines)..Len(content[r]) - 1, broken \in BOOLEAN :
                    file' = File(SubSeq(content[r], 1, n), broken)
        BY <4>1, <4>3 DEF File
      <4> QED BY <2>11, <4>2, <4>3 DEF WriteFails
    <3>4. content[r] \in Texts /\ logged \in Texts /\ file.lines \in Texts
      BY DEF AuditInv
    <3>5. file'.lines \in Texts /\ (orderly => IsPrefix(file'.lines, logged))
      <4>1. \A n \in 0 .. Len(content[r]) :
               SubSeq(content[r], 1, n) \in Texts /\ (orderly => IsPrefix(SubSeq(content[r], 1, n), logged))
        <5>1. orderly => IsPrefix(content[r], logged)
          BY DEF AuditInv
        <5>2. \A n \in 0 .. Len(content[r]) : SubSeq(content[r], 1, n) \in Texts
          BY <3>4, EmptyText, CutPrefix
        <5> QED BY <3>4, <5>1, <5>2, CutPrefix
      <4> QED BY <3>3, <4>1 DEF AuditInv
    <3> QED BY <3>1, <3>2, <3>3, <3>5, EmptyText DEF AuditInv
  <2>12. ASSUME NEW r \in Requests, NEW readable \in BOOLEAN, AppendEntry(r, readable) PROVE AuditInv'
    <3> DEFINE base == IF readable THEN BootChain ELSE <<>>
               entry == Entry(base, r)
    <3>1. /\ at[r] = "boot" /\ boot # "failed" /\ (~readable => boot = "none")
          /\ orderly' = (orderly /\ (readable \/ file.lines = <<>>))
          /\ boot' = "done" /\ chain' = Append(base, entry) /\ logged' = Append(logged, entry)
          /\ at' = [at EXCEPT ![r] = "mkdir"] /\ UNCHANGED <<file, content>>
      BY <2>12 DEF AppendEntry
    <3>2. base \in Texts
      BY EmptyText DEF BootChain, ReadFile, AuditInv
    <3>3. orderly' => orderly /\ base = logged
      BY <3>1 DEF BootChain, ReadFile, AuditInv, File
    <3>4. entry \in LogEntry
      BY <3>2 DEF Entry, LogEntry, Texts
    <3> HIDE DEF base, entry
    <3>5. chain' \in Texts /\ logged' \in Texts /\ (orderly' => chain' = logged')
      BY <3>1, <3>2, <3>3, <3>4 DEF AuditInv, Texts
    <3>6. orderly' => IsPrefix(file.lines, logged') /\ \A q \in Requests : IsPrefix(content[q], logged')
      BY <3>1, <3>3, <3>4, AppendedPrefix DEF AuditInv
    <3>7. orderly' \in BOOLEAN /\ at' \in [Requests -> {"idle", "boot", "mkdir", "open", "write", "ended"}]
      BY <3>1 DEF AuditInv
    <3> QED BY <3>1, <3>5, <3>6, <3>7 DEF AuditInv
  <2> QED BY <2>2, <2>3, <2>4, <2>6, <2>7, <2>8, <2>9, <2>10, <2>11, <2>12 DEF AuditNext
<1> QED BY <1>1, <1>2, PTL DEF AuditSpec

\* Whoever rewrites the file, and fails to, it holds the log from its first entry,
\* unless a server has stopped before its entries were saved (audit-log.ts)
THEOREM FileIsAlwaysHistory == AuditSpec => []FileIsHistory
<1>1. AuditInv => FileIsHistory
  BY DEF AuditInv, FileIsHistory
<1> QED BY <1>1, AuditInvariant, PTL

-----------------------------------------------------------------------------
(* Application directory                                                   *)

AppId == [in: {"indexer"}, id: Nat] \cup [in: {"local"}, id: Instants]
DirCall == [on: Servers, op: {"submit", "review"}, app: SubmittedApps \cup {NoEntryYet},
            id: AppId, status: Reviews, at: {"asking", "answered"}]

Receipt == [app: SubmittedApps, id: AppId, by: Servers, life: Nat]

DirTypeOK ==
    /\ appRows \in Seq(Kept)
    /\ appMemory \in [Servers -> [Instants -> Kept \cup {NoEntryYet}]]
    /\ appStore \in [SharedStores -> [Instants -> Kept \cup {NoEntryYet}]]
    /\ configured \in BOOLEAN /\ lives \in [Servers -> Nat]
    /\ millis \in Instants
    /\ IsFiniteSet(DOMAIN calls) /\ calls = [i \in DOMAIN calls |-> calls[i]]
    /\ \A i \in DOMAIN calls : calls[i] \in DirCall
    /\ received \subseteq Receipt
    /\ collided \in BOOLEAN /\ unsaved \in BOOLEAN

\* A row the indexer answered with, or a page was told of, is that of its application
RowOf(id, app) == id.in = "indexer" => id.id \in DOMAIN appRows /\ appRows[id.id].app = app

\* The store that a process writes to has a copy of this application at the instant t
DirStored(s, t, app) ==
    LET kept == appStore[StoreOf(s)][t] IN kept # NoEntryYet /\ kept.app = app

\* The process that received it is still the same, or its store is not in the process
StillThere(r) == configured \/ r.life = lives[r.by]

\* Until two submissions share an instant or a write fails, the store of a process has
\* what the process has in memory, and what it received without the indexer
CopiesAgree ==
    /\ \A s \in Servers, t \in Instants : appMemory[s][t] # NoEntryYet => DirStored(s, t, appMemory[s][t].app)
    /\ \A r \in received : r.id.in = "local" /\ StillThere(r) => DirStored(r.by, r.id.id, r.app)

DirInv ==
    /\ DirTypeOK
    /\ \A i \in DOMAIN calls : CallIs(i, "submit", "answered") => RowOf(calls[i].id, calls[i].app)
    /\ \A i \in DOMAIN calls : calls[i].op = "submit" => calls[i].app \in SubmittedApps /\ calls[i].id.in = "indexer"
    /\ \A r \in received : RowOf(r.id, r.app) /\ r.life <= lives[r.by]
    /\ ~collided /\ ~unsaved => CopiesAgree

LEMMA StartedAdds ==
  ASSUME IsFiniteSet(DOMAIN calls), NEW call, Started(call)
  PROVE  \E free : /\ free \notin DOMAIN calls /\ DOMAIN calls' = DOMAIN calls \cup {free}
                   /\ calls' = [i \in DOMAIN calls' |-> calls'[i]]
                   /\ IsFiniteSet(DOMAIN calls') /\ calls'[free] = call
                   /\ \A i \in DOMAIN calls : calls'[i] = calls[i]
<1> DEFINE n == Cardinality(DOMAIN calls)
           free == CHOOSE m \in 1 .. n + 1 : m \notin DOMAIN calls
<1>1. n \in Nat
  BY FS_CardinalityType
<1>2. \E m \in 1 .. n + 1 : m \notin DOMAIN calls
  <2> SUFFICES ASSUME 1 .. n + 1 \subseteq DOMAIN calls PROVE FALSE
    OBVIOUS
  <2>1. Cardinality(1 .. n + 1) <= n
    BY FS_Subset
  <2>2. Cardinality(1 .. n + 1) = n + 1
    <3> HIDE DEF n
    <3>1. n + 1 \in Int /\ 1 \in Int /\ ~(1 > n + 1)
      BY <1>1
    <3>2. Cardinality(1 .. n + 1) = (n + 1) - 1 + 1
      BY <3>1, FS_Interval
    <3> QED BY <1>1, <3>2
  <2> QED BY <1>1, <2>1, <2>2
<1>3. free \notin DOMAIN calls
  BY <1>2
<1>4. calls' = [i \in DOMAIN calls \cup {free} |-> IF i = free THEN call ELSE calls[i]]
  BY DEF Started
<1> HIDE DEF free
<1>5. IsFiniteSet(DOMAIN calls \cup {free})
  BY FS_AddElement
<1> QED BY <1>3, <1>4, <1>5

LEMMA RestrictedCalls ==
  ASSUME DirTypeOK, NEW gone, calls' = Restrict(calls, DOMAIN calls \ gone)
  PROVE  /\ IsFiniteSet(DOMAIN calls') /\ calls' = [i \in DOMAIN calls' |-> calls'[i]]
         /\ DOMAIN calls' = DOMAIN calls \ gone /\ \A i \in DOMAIN calls' : calls'[i] = calls[i]
<1>1. IsFiniteSet(DOMAIN calls \ gone)
  BY FS_Difference DEF DirTypeOK
<1> QED BY <1>1 DEF Restrict

\* What a step of the processes' requests may do to them, without touching what is kept
LEMMA CallsFew ==
  ASSUME DirInv, DOMAIN calls' \subseteq DOMAIN calls, \A i \in DOMAIN calls' : calls'[i] = calls[i],
         IsFiniteSet(DOMAIN calls'), calls' = [i \in DOMAIN calls' |-> calls'[i]], 
         millis' = millis,
         UNCHANGED <<appRows, appMemory, appStore, configured, lives, received, collided, unsaved>>
  PROVE  DirInv'
BY DEF DirInv, DirTypeOK, RowOf, CopiesAgree, StillThere, StoreOf, DirStored, CallIs

LEMMA CallStarts ==
  ASSUME DirInv, NEW call \in DirCall, Started(call),
         call.at = "asking", call.op = "submit" => call.app \in SubmittedApps /\ call.id.in = "indexer",
         UNCHANGED <<appRows, appMemory, appStore, configured, lives, millis, received, collided, unsaved>>
  PROVE  DirInv'
<1>1. PICK free : /\ free \notin DOMAIN calls /\ DOMAIN calls' = DOMAIN calls \cup {free}
                  /\ calls' = [i \in DOMAIN calls' |-> calls'[i]]
                  /\ IsFiniteSet(DOMAIN calls') /\ calls'[free] = call
                  /\ \A i \in DOMAIN calls : calls'[i] = calls[i]
  BY StartedAdds DEF DirInv, DirTypeOK
<1> QED BY <1>1 DEF DirInv, DirTypeOK, RowOf, CopiesAgree, StillThere, StoreOf, DirStored, CallIs

LEMMA KeptIs ==
  ASSUME NEW app \in SubmittedApps, NEW status \in Reviews
  PROVE  /\ Submission(app, status) \in Kept /\ Submission(app, status) # NoEntryYet
         /\ Submission(app, status).app = app
BY DirectoryAssumption DEF Submission, Kept

\* A call has its server, its application and an id
LEMMA CallTyped ==
  ASSUME DirInv, NEW i \in DOMAIN calls
  PROVE  /\ calls[i].on \in Servers /\ calls[i].id \in AppId /\ calls[i].status \in Reviews
         /\ calls[i].at \in {"asking", "answered"} /\ calls[i].op \in {"submit", "review"}
         /\ calls[i].op = "submit" => calls[i].app \in SubmittedApps
BY DEF DirInv, DirTypeOK, DirCall

\* A copy is replaced by one of the same application, in memory and in the store
CopyIn(s, t, copy) ==
    /\ appMemory' \in [Servers -> [Instants -> Kept \cup {NoEntryYet}]]
    /\ appStore' \in [SharedStores -> [Instants -> Kept \cup {NoEntryYet}]]
    /\ unsaved' \in BOOLEAN /\ (unsaved => unsaved')
    /\ ~unsaved' => /\ appStore'[StoreOf(s)][t] = copy
                    /\ \A x \in SharedStores, u \in Instants :
                          x # StoreOf(s) \/ u # t => appStore'[x][u] = appStore[x][u]
    /\ appMemory'[s][t] = copy
    /\ \A q \in Servers, u \in Instants : q # s \/ u # t => appMemory'[q][u] = appMemory[q][u]

LEMMA CopiesReplaced ==
  ASSUME DirInv, NEW s \in Servers, NEW t \in Instants, NEW copy \in Kept,
         appMemory' = [appMemory EXCEPT ![s][t] = copy], StoreWrites(s, t, copy)
  PROVE  CopyIn(s, t, copy)
<1>1. /\ appMemory \in [Servers -> [Instants -> Kept \cup {NoEntryYet}]]
      /\ appStore \in [SharedStores -> [Instants -> Kept \cup {NoEntryYet}]]
      /\ unsaved \in BOOLEAN
  BY DEF DirInv, DirTypeOK
<1>2. /\ appMemory' \in [Servers -> [Instants -> Kept \cup {NoEntryYet}]]
      /\ appMemory'[s][t] = copy
      /\ \A q \in Servers, u \in Instants : q # s \/ u # t => appMemory'[q][u] = appMemory[q][u]
  <2> HIDE DEF Kept
  <2> QED BY <1>1
<1>3. PICK x \in SharedStores : x = StoreOf(s)
  BY DEF StoreOf, SharedStores
<1>4. CASE appStore' = [appStore EXCEPT ![x][t] = copy] /\ UNCHANGED unsaved
  <2>1. /\ appStore' \in [SharedStores -> [Instants -> Kept \cup {NoEntryYet}]]
        /\ appStore'[x][t] = copy
        /\ \A y \in SharedStores, u \in Instants : y # x \/ u # t => appStore'[y][u] = appStore[y][u]
    <3> HIDE DEF Kept
    <3> QED BY <1>1, <1>4
  <2> QED BY <1>1, <1>2, <1>3, <1>4, <2>1 DEF CopyIn
<1>5. CASE unsaved' = TRUE /\ UNCHANGED appStore
  BY <1>1, <1>2, <1>5 DEF CopyIn
<1> QED BY <1>3, <1>4, <1>5 DEF StoreWrites

\* The inductive invariant of the directory: rows are only added and reviewed, and the
\* store of a process, remote or its own, has what the process holds (submitApp, reviewApp).
THEOREM DirInvariant == DirectorySpec => []DirInv
<1>1. DirectoryInit => DirInv
  <2> SUFFICES ASSUME DirectoryInit PROVE DirInv
    OBVIOUS
  <2>1. calls = <<>> /\ DOMAIN calls = {} /\ calls = [i \in DOMAIN calls |-> calls[i]] /\ IsFiniteSet(DOMAIN calls)
    BY FS_EmptySet DEF DirectoryInit
  <2>2. 1 \in Instants
    BY DirectoryAssumption DEF Instants
  <2>3. /\ appMemory \in [Servers -> [Instants -> Kept \cup {NoEntryYet}]]
        /\ appStore \in [SharedStores -> [Instants -> Kept \cup {NoEntryYet}]]
        /\ configured \in BOOLEAN /\ lives \in [Servers -> Nat]
        /\ \A s \in Servers, t \in Instants : appMemory[s][t] = NoEntryYet
    BY DEF DirectoryInit, NothingKept
  <2>4. appRows = <<>> /\ received = {} /\ collided = FALSE /\ unsaved = FALSE /\ millis = 1
    BY DEF DirectoryInit
  <2>5. DirTypeOK
    <3>1. appRows \in Seq(Kept)
      BY <2>4
    <3>2. \A i \in DOMAIN calls : calls[i] \in DirCall
      BY <2>1
    <3> QED BY <2>1, <2>2, <2>3, <2>4, <3>1, <3>2 DEF DirTypeOK
  <2>6. \A i : i \notin DOMAIN calls
    BY <2>1
  <2> QED BY <2>3, <2>4, <2>5, <2>6 DEF DirInv, CopiesAgree
<1>2. DirInv /\ [DirectoryNext]_directoryVars => DirInv'
  <2> SUFFICES ASSUME DirInv, [DirectoryNext]_directoryVars PROVE DirInv'
    OBVIOUS
  <2>1. ASSUME NEW a \in SubmittedApps, NEW s \in Servers, NEW f \in {{}, {"length"}}, SendForm(a, s, f)
        PROVE  DirInv'
    <3>1. UNCHANGED <<appRows, appMemory, appStore, configured, lives, millis, received, collided, unsaved>>
      BY <2>1 DEF SendForm, deployment, keptVars, historyVars
    <3>2. CASE UNCHANGED calls
      BY <3>1, <3>2 DEF DirInv, DirTypeOK, RowOf, CopiesAgree, StillThere, StoreOf, DirStored, CallIs
    <3> DEFINE call == [on |-> s, op |-> "submit", app |-> a, id |-> Row(0), status |-> "pending", at |-> "asking"]
    <3>3. CASE Started(call)
      <4>1. call \in DirCall /\ call.at = "asking" /\ call.app = a /\ call.id.in = "indexer"
        BY DEF DirCall, AppId, Row, Reviews
      <4> HIDE DEF call
      <4> QED BY <3>1, <3>3, <4>1, CallStarts
    <3> QED BY <2>1, <3>2, <3>3 DEF SendForm
  <2>2. ASSUME NEW i \in DOMAIN calls, InsertApp(i) PROVE DirInv'
    <3> DEFINE app == calls[i].app
               l == Len(appRows) + 1
    <3>1. /\ CallIs(i, "submit", "asking") /\ appRows' = Append(appRows, Submission(app, "pending"))
          /\ calls' = [calls EXCEPT ![i].at = "answered", ![i].id = Row(Len(appRows'))]
          /\ UNCHANGED <<appMemory, appStore, configured, lives, millis, received, collided, unsaved>>
      BY <2>2 DEF InsertApp, deployment, historyVars
    <3>2. Submission(app, "pending") \in Kept /\ Submission(app, "pending").app = app
      BY <3>1, CallTyped, KeptIs DEF CallIs, Reviews
    <3>3. /\ appRows' \in Seq(Kept) /\ DOMAIN appRows' = DOMAIN appRows \cup {l} /\ l \in Nat
          /\ appRows'[l].app = app /\ Len(appRows') = l
          /\ \A n \in DOMAIN appRows : appRows'[n] = appRows[n]
      <4>1. appRows \in Seq(Kept)
        BY DEF DirInv, DirTypeOK
      <4> QED BY <3>1, <3>2, <4>1
    <3> HIDE DEF l
    <3>4. /\ DOMAIN calls' = DOMAIN calls /\ calls' = [j \in DOMAIN calls' |-> calls'[j]]
          /\ \A j \in DOMAIN calls : j # i => calls'[j] = calls[j]
          /\ calls'[i] = [calls[i] EXCEPT !.at = "answered", !.id = Row(l)]
      BY <3>1, <3>3 DEF DirInv, DirTypeOK
    <3>5. /\ calls'[i] \in DirCall /\ calls'[i].op = "submit" /\ calls'[i].app = app
          /\ calls'[i].id = Row(l)
      <4>1. calls[i] \in DirCall /\ calls[i].op = "submit"
        BY <3>1 DEF DirInv, DirTypeOK, CallIs
      <4>2. Row(l) \in AppId
        BY <3>3 DEF Row, AppId
      <4> QED BY <3>4, <4>1, <4>2 DEF DirCall
    <3>6. Row(l).in = "indexer" /\ Row(l).id = l
      BY DEF Row
    <3>7. DirTypeOK'
      BY <3>1, <3>3, <3>4, <3>5 DEF DirInv, DirTypeOK
    <3>8. \A j \in DOMAIN calls' : CallIs(j, "submit", "answered")' => RowOf(calls[j].id, calls[j].app)'
      <4> SUFFICES ASSUME NEW j \in DOMAIN calls', calls'[j].op = "submit", calls'[j].at = "answered",
                          calls'[j].id.in = "indexer"
                   PROVE  calls'[j].id.id \in DOMAIN appRows' /\ appRows'[calls'[j].id.id].app = calls'[j].app
        BY DEF RowOf, CallIs
      <4>1. CASE j = i
        BY <3>3, <3>5, <3>6, <4>1
      <4>2. CASE j # i
        <5>1. j \in DOMAIN calls /\ calls'[j] = calls[j]
          BY <3>4, <4>2
        <5>2. calls[j].id.id \in DOMAIN appRows /\ appRows[calls[j].id.id].app = calls[j].app
          BY <5>1 DEF DirInv, RowOf, CallIs
        <5> QED BY <3>3, <5>1, <5>2
      <4> QED BY <4>1, <4>2
    <3>9. \A j \in DOMAIN calls' : calls'[j].op = "submit" => calls'[j].app \in SubmittedApps /\ calls'[j].id.in = "indexer"
      BY <3>1, <3>4, <3>5, <3>6 DEF DirInv, CallIs
    <3>10. \A r \in received' : RowOf(r.id, r.app)'
      BY <3>1, <3>3 DEF DirInv, RowOf
    <3> QED BY <3>1, <3>7, <3>8, <3>9, <3>10 DEF DirInv, CopiesAgree, StillThere, StoreOf, DirStored
  <2>3. ASSUME NEW i \in DOMAIN calls, IndexerTookIt(i) PROVE DirInv'
    <3> DEFINE new == [app |-> calls[i].app, id |-> calls[i].id, by |-> calls[i].on, life |-> lives[calls[i].on]]
    <3>1. /\ CallIs(i, "submit", "answered") /\ received' = received \cup {new}
          /\ Done(i) /\ UNCHANGED <<appRows, appMemory, appStore, configured, lives, millis, collided, unsaved>>
      BY <2>3 DEF IndexerTookIt, deployment, Received, keptVars
    <3>2. /\ IsFiniteSet(DOMAIN calls') /\ calls' = [j \in DOMAIN calls' |-> calls'[j]]
          /\ DOMAIN calls' \subseteq DOMAIN calls /\ \A j \in DOMAIN calls' : calls'[j] = calls[j]
      BY <3>1, RestrictedCalls DEF Done, DirInv
    <3>3. /\ new \in Receipt /\ RowOf(new.id, new.app) /\ new.id.in = "indexer" /\ new.life <= lives[new.by]
      <4>1. lives[calls[i].on] \in Nat
        BY CallTyped DEF DirInv, DirTypeOK
      <4> QED BY <3>1, <4>1, CallTyped DEF DirInv, CallIs, Receipt
    <3>4. PICK receipt \in Receipt : receipt = new
      BY <3>3
    <3> HIDE DEF new
    <3>5. received' = received \cup {receipt} /\ RowOf(receipt.id, receipt.app) /\ receipt.id.in = "indexer"
          /\ receipt.life <= lives[receipt.by]
      BY <3>1, <3>3, <3>4
    <3> QED BY <3>1, <3>2, <3>5 DEF DirInv, DirTypeOK, RowOf, CopiesAgree, StillThere, StoreOf, DirStored, CallIs
  <2>4. ASSUME NEW i \in DOMAIN calls, SubmitLocally(i) PROVE DirInv'
    <3>0. PICK s \in Servers, a \in SubmittedApps, t \in Instants :
             s = calls[i].on /\ a = calls[i].app /\ t = millis
      BY <2>4, CallTyped DEF SubmitLocally, IndexerFailed, CallIs, DirInv, DirTypeOK
    <3> DEFINE copy == Submission(a, "pending")
               new == [app |-> a, id |-> Local(t), by |-> s, life |-> lives[s]]
    <3>1. /\ appMemory' = [appMemory EXCEPT ![s][t] = copy] /\ StoreWrites(s, t, copy)
          /\ collided' = (collided \/ OwnOrShared(s, Local(t)) # NoEntryYet)
          /\ received' = received \cup {new} /\ Done(i)
          /\ UNCHANGED <<appRows, configured, lives, millis>>
      BY <2>4, <3>0 DEF SubmitLocally, KeepSubmission, Received, deployment
    <3>3. copy \in Kept /\ copy # NoEntryYet /\ copy.app = a
      BY KeptIs DEF Reviews
    <3>4. /\ IsFiniteSet(DOMAIN calls') /\ calls' = [j \in DOMAIN calls' |-> calls'[j]]
          /\ DOMAIN calls' \subseteq DOMAIN calls /\ \A j \in DOMAIN calls' : calls'[j] = calls[j]
      BY <3>1, RestrictedCalls DEF Done, DirInv
    <3>5. /\ new \in Receipt /\ new.app = a /\ new.by = s /\ new.life <= lives[s]
          /\ new.id.in = "local" /\ new.id.id = t
      <4>1. lives[s] \in Nat
        BY DEF DirInv, DirTypeOK
      <4> QED BY <4>1 DEF Local, AppId, Receipt
    <3>r. PICK receipt \in Receipt : receipt = new
      BY <3>5
    <3> HIDE DEF copy, new
    <3>s. /\ received' = received \cup {receipt} /\ receipt.app = a /\ receipt.by = s
          /\ receipt.life <= lives[s] /\ receipt.id.in = "local" /\ receipt.id.id = t
      BY <3>1, <3>5, <3>r
    <3>6. CopyIn(s, t, copy)
      BY <3>1, <3>3, CopiesReplaced
    <3>7. DirTypeOK'
      BY <3>1, <3>s, <3>4, <3>6 DEF DirInv, DirTypeOK, CopyIn
    <3>8. /\ \A j \in DOMAIN calls' : CallIs(j, "submit", "answered")' => RowOf(calls[j].id, calls[j].app)'
          /\ \A j \in DOMAIN calls' : calls'[j].op = "submit" => calls'[j].app \in SubmittedApps /\ calls'[j].id.in = "indexer"
          /\ \A r \in received' : RowOf(r.id, r.app)' /\ r.life <= lives'[r.by]
      BY <3>1, <3>4, <3>s DEF DirInv, RowOf, CallIs
    <3>9. ASSUME ~collided', ~unsaved' PROVE CopiesAgree'
      <4>1. ~collided /\ ~unsaved /\ appMemory[s][t] = NoEntryYet /\ appStore[StoreOf(s)][t] = NoEntryYet
        <5>1. Local(t).in = "local" /\ Local(t).id = t
          BY DEF Local
        <5>2. ~collided /\ ~unsaved /\ OwnOrShared(s, Local(t)) = NoEntryYet
          BY <3>1, <3>6, <3>9 DEF CopyIn
        <5> QED BY <5>1, <5>2 DEF OwnOrShared
      <4>2. CopiesAgree
        BY <4>1 DEF DirInv
      <4>3. \A q \in Servers : StoreOf(q)' = StoreOf(q) /\ StoreOf(q) \in SharedStores
        BY <3>1 DEF StoreOf, SharedStores
      <4>4. \A q \in Servers, u \in Instants : \A b :
               DirStored(q, u, b) => DirStored(q, u, b)' /\ (StoreOf(q) # StoreOf(s) \/ u # t)
        BY <3>6, <3>9, <4>1, <4>3 DEF DirStored, CopyIn
      <4>5. DirStored(s, t, a)'
        BY <3>3, <3>6, <3>9, <4>3 DEF DirStored, CopyIn
      <4>6. \A q \in Servers, u \in Instants : appMemory'[q][u] # NoEntryYet => DirStored(q, u, appMemory[q][u].app)'
        BY <3>3, <3>6, <4>2, <4>4, <4>5 DEF CopiesAgree, CopyIn
      <4>7. \A r \in received : r.by \in Servers /\ (r.id.in = "local" => r.id.id \in Instants)
        BY DEF DirInv, DirTypeOK, AppId, Receipt
      <4>8. \A r \in received' : r.id.in = "local" /\ StillThere(r)' => DirStored(r.by, r.id.id, r.app)'
        <5>1. \A r : StillThere(r)' <=> StillThere(r)
          BY <3>1 DEF StillThere
        <5> QED BY <3>s, <4>2, <4>4, <4>5, <4>7, <5>1 DEF CopiesAgree
      <4> QED BY <4>6, <4>8 DEF CopiesAgree
    <3> QED BY <3>7, <3>8, <3>9 DEF DirInv
  <2>5. ASSUME NEW i \in DOMAIN calls, UpdateStatus(i) PROVE DirInv'
    <3> DEFINE n == calls[i].id.id
    <3>1. /\ CallIs(i, "review", "asking") /\ appRows' = [appRows EXCEPT ![n].status = calls[i].status]
          /\ calls' = [calls EXCEPT ![i].at = "answered"]
          /\ UNCHANGED <<appMemory, appStore, configured, lives, millis, received, collided, unsaved>>
      BY <2>5 DEF UpdateStatus, deployment
    <3>2. /\ DOMAIN calls' = DOMAIN calls /\ calls' = [j \in DOMAIN calls' |-> calls'[j]]
          /\ \A j \in DOMAIN calls : j # i => calls'[j] = calls[j]
          /\ calls'[i] = [calls[i] EXCEPT !.at = "answered"]
      BY <3>1 DEF DirInv, DirTypeOK
    <3>3. calls'[i] \in DirCall /\ calls'[i].op = "review"
      <4>1. calls[i] \in DirCall /\ calls[i].op = "review"
        BY <3>1 DEF DirInv, DirTypeOK, CallIs
      <4> QED BY <3>2, <4>1 DEF DirCall
    <3>4. calls[i].status \in Reviews
      BY CallTyped
    <3>5. /\ appRows' \in Seq(Kept) /\ DOMAIN appRows' = DOMAIN appRows
          /\ \A m \in DOMAIN appRows : appRows'[m].app = appRows[m].app
      <4>1. appRows \in Seq(Kept) /\ \A m \in DOMAIN appRows : appRows[m] \in Kept
        BY DEF DirInv, DirTypeOK
      <4>2. /\ DOMAIN appRows' = DOMAIN appRows /\ \A m \in DOMAIN appRows : m # n => appRows'[m] = appRows[m]
            /\ n \in DOMAIN appRows => appRows'[n] = [appRows[n] EXCEPT !.status = calls[i].status]
        BY <3>1, <4>1
      <4>3. \A k \in Kept : [k EXCEPT !.status = calls[i].status] \in Kept
                            /\ [k EXCEPT !.status = calls[i].status].app = k.app
        BY <3>4 DEF Kept
      <4>4. \A m \in DOMAIN appRows : appRows'[m] \in Kept /\ appRows'[m].app = appRows[m].app
        <5> TAKE m \in DOMAIN appRows
        <5>1. appRows[m] \in Kept
          BY <4>1
        <5>2. CASE m = n
          BY <4>2, <4>3, <5>1, <5>2
        <5>3. CASE m # n
          BY <4>2, <5>1, <5>3
        <5> QED BY <5>2, <5>3
      <4>5. appRows' \in [1..Len(appRows) -> Kept] /\ Len(appRows) \in Nat
        <5>1. DOMAIN appRows = 1..Len(appRows) /\ Len(appRows) \in Nat
          BY <4>1
        <5>2. appRows' = [m \in DOMAIN appRows |-> appRows'[m]]
          BY <3>1, <4>2
        <5> QED BY <4>4, <5>1, <5>2
      <4>6. appRows' \in Seq(Kept)
        BY <4>5
      <4> QED BY <4>2, <4>4, <4>6
    <3>7. DirTypeOK'
      BY <3>1, <3>2, <3>3, <3>5 DEF DirInv, DirTypeOK
    <3>8. \A j \in DOMAIN calls' : CallIs(j, "submit", "answered")' => RowOf(calls[j].id, calls[j].app)'
      <4> SUFFICES ASSUME NEW j \in DOMAIN calls', calls'[j].op = "submit", calls'[j].at = "answered",
                          calls'[j].id.in = "indexer"
                   PROVE  calls'[j].id.id \in DOMAIN appRows' /\ appRows'[calls'[j].id.id].app = calls'[j].app
        BY DEF RowOf, CallIs
      <4>1. CASE j = i
        BY <3>3, <4>1
      <4>2. CASE j # i
        <5>1. j \in DOMAIN calls /\ calls'[j] = calls[j]
          BY <3>2, <4>2
        <5>2. calls[j].id.id \in DOMAIN appRows /\ appRows[calls[j].id.id].app = calls[j].app
          BY <5>1 DEF DirInv, RowOf, CallIs
        <5> QED BY <3>5, <5>1, <5>2
      <4> QED BY <4>1, <4>2
    <3>9. \A j \in DOMAIN calls' : calls'[j].op = "submit" => calls'[j].app \in SubmittedApps /\ calls'[j].id.in = "indexer"
      BY <3>2, <3>3 DEF DirInv
    <3>10. \A r \in received' : RowOf(r.id, r.app)'
      BY <3>1, <3>5 DEF DirInv, RowOf
    <3> QED BY <3>1, <3>7, <3>8, <3>9, <3>10 DEF DirInv, CopiesAgree, StillThere, StoreOf, DirStored
  <2>6. ASSUME NEW i \in DOMAIN calls, IndexerReviewed(i) PROVE DirInv'
    <3>1. Done(i) /\ UNCHANGED <<appRows, appMemory, appStore, configured, lives, millis, received, collided, unsaved>>
      BY <2>6 DEF IndexerReviewed, deployment, keptVars, historyVars
    <3>2. /\ IsFiniteSet(DOMAIN calls') /\ calls' = [j \in DOMAIN calls' |-> calls'[j]]
          /\ DOMAIN calls' \subseteq DOMAIN calls /\ \A j \in DOMAIN calls' : calls'[j] = calls[j]
      BY <3>1, RestrictedCalls DEF Done, DirInv
    <3> QED BY <3>1, <3>2, CallsFew
  <2>7. ASSUME NEW i \in DOMAIN calls, ReviewLocally(i) PROVE DirInv'
    <3>1. Done(i) /\ UNCHANGED <<appRows, configured, lives, millis, received, collided>>
      BY <2>7 DEF ReviewLocally, deployment
    <3>2. /\ IsFiniteSet(DOMAIN calls') /\ calls' = [j \in DOMAIN calls' |-> calls'[j]]
          /\ DOMAIN calls' \subseteq DOMAIN calls /\ \A j \in DOMAIN calls' : calls'[j] = calls[j]
      BY <3>1, RestrictedCalls DEF Done, DirInv
    <3>3. CASE UNCHANGED <<appMemory, appStore, unsaved>>
      BY <3>1, <3>2, <3>3, CallsFew
    <3>4. CASE /\ OwnOrShared(calls[i].on, calls[i].id) # NoEntryYet
               /\ LET id == calls[i].id
                      revised == Submission(OwnOrShared(calls[i].on, id).app, calls[i].status) IN
                  /\ appMemory' = [appMemory EXCEPT ![calls[i].on][id.id] = revised]
                  /\ StoreWrites(calls[i].on, id.id, revised)
      <4>1. PICK s \in Servers, id \in AppId, status \in Reviews :
               s = calls[i].on /\ id = calls[i].id /\ status = calls[i].status
        BY CallTyped
      <4>2. id.in # "indexer" /\ id.id \in Instants
        <5>1. id.in # "indexer"
          BY <3>4, <4>1 DEF OwnOrShared
        <5> QED BY <5>1 DEF AppId
      <4>3. PICK t \in Instants : t = id.id
        BY <4>2
      <4>s. StoreOf(s) \in SharedStores
        BY DEF StoreOf, SharedStores
      <4>4. PICK known \in Kept : known = OwnOrShared(s, id)
        <5>1. /\ appMemory[s][id.id] \in Kept \cup {NoEntryYet}
              /\ appStore[StoreOf(s)][id.id] \in Kept \cup {NoEntryYet}
          <6> HIDE DEF Kept
          <6>1. /\ appMemory \in [Servers -> [Instants -> Kept \cup {NoEntryYet}]]
                /\ appStore \in [SharedStores -> [Instants -> Kept \cup {NoEntryYet}]]
            BY DEF DirInv, DirTypeOK
          <6> QED BY <4>2, <4>s, <6>1
        <5>2. OwnOrShared(s, id) \in Kept \cup {NoEntryYet}
          BY <4>2, <5>1 DEF OwnOrShared
        <5> QED BY <3>4, <4>1, <5>2
      <4>5. PICK a \in SubmittedApps : a = known.app
        BY <4>4 DEF Kept
      <4> DEFINE copy == Submission(a, status)
      <4>6. appMemory' = [appMemory EXCEPT ![s][t] = copy] /\ StoreWrites(s, t, copy)
        BY <3>4, <4>1, <4>3, <4>4, <4>5
      <4>7. copy \in Kept /\ copy # NoEntryYet /\ copy.app = a
        BY KeptIs
      <4> HIDE DEF copy
      <4>8. CopyIn(s, t, copy)
        BY <4>6, <4>7, CopiesReplaced
      <4>9. DirTypeOK'
        BY <3>1, <3>2, <4>8 DEF DirInv, DirTypeOK, CopyIn
      <4>10. /\ \A j \in DOMAIN calls' : CallIs(j, "submit", "answered")' => RowOf(calls[j].id, calls[j].app)'
             /\ \A j \in DOMAIN calls' : calls'[j].op = "submit" => calls'[j].app \in SubmittedApps /\ calls'[j].id.in = "indexer"
             /\ \A r \in received' : RowOf(r.id, r.app)' /\ r.life <= lives'[r.by]
        BY <3>1, <3>2 DEF DirInv, RowOf, CallIs
      <4>11. ASSUME ~collided', ~unsaved' PROVE CopiesAgree'
        <5>1. ~collided /\ ~unsaved
          BY <3>1, <4>8, <4>11 DEF CopyIn
        <5>2. CopiesAgree
          BY <5>1 DEF DirInv
        <5>3. \A q \in Servers : StoreOf(q)' = StoreOf(q) /\ StoreOf(q) \in SharedStores
          BY <3>1 DEF StoreOf, SharedStores
        <5>4. DirStored(s, t, a)
          <6>1. known # NoEntryYet
            BY <4>4, DirectoryAssumption
          <6>2. CASE appMemory[s][t] # NoEntryYet
            <7>1. known = appMemory[s][t]
              BY <4>2, <4>3, <4>4, <6>2 DEF OwnOrShared
            <7> QED BY <4>5, <5>2, <6>2, <7>1 DEF CopiesAgree
          <6>3. CASE appMemory[s][t] = NoEntryYet
            <7>1. known = appStore[StoreOf(s)][t]
              BY <4>2, <4>3, <4>4, <6>3 DEF OwnOrShared
            <7> QED BY <4>5, <6>1, <7>1 DEF DirStored
          <6> QED BY <6>2, <6>3
        <5>5. \A q \in Servers, u \in Instants : \A b : DirStored(q, u, b) => DirStored(q, u, b)'
          BY <4>7, <4>8, <4>11, <5>3, <5>4 DEF DirStored, CopyIn
        <5>6. \A q \in Servers, u \in Instants : appMemory'[q][u] # NoEntryYet => DirStored(q, u, appMemory[q][u].app)'
          BY <4>7, <4>8, <5>2, <5>4, <5>5 DEF CopiesAgree, CopyIn
        <5>7. \A r \in received : r.by \in Servers /\ (r.id.in = "local" => r.id.id \in Instants)
          BY DEF DirInv, DirTypeOK, AppId, Receipt
        <5>8. \A r \in received' : r.id.in = "local" /\ StillThere(r)' => DirStored(r.by, r.id.id, r.app)'
          <6>1. \A r : StillThere(r)' <=> StillThere(r)
            BY <3>1 DEF StillThere
          <6> QED BY <3>1, <5>2, <5>5, <5>7, <6>1 DEF CopiesAgree
        <5> QED BY <5>6, <5>8 DEF CopiesAgree
      <4> QED BY <4>9, <4>10, <4>11 DEF DirInv
    <3>5. PICK known \in KnownTo(calls[i].on, calls[i].id) :
             IF known = NoEntryYet
             THEN UNCHANGED <<appMemory, appStore, approvedIds, unsaved, dirUpsets>>
             ELSE LET revised == Submission(known.app, calls[i].status) IN
                  /\ appMemory' = [appMemory EXCEPT ![calls[i].on][calls[i].id.id] = revised]
                  /\ StoreWrites(calls[i].on, calls[i].id.id, revised) /\ Approves(i)
      BY <2>7 DEF ReviewLocally
    <3>6. known = NoEntryYet \/ known = OwnOrShared(calls[i].on, calls[i].id)
      BY <3>5 DEF KnownTo
    <3> QED BY <3>3, <3>4, <3>5, <3>6
  <2>8. ASSUME NEW s \in Servers, NEW r \in received, NEW status \in Reviews, BeginReview(s, r.id, status)
        PROVE  DirInv'
    <3> DEFINE call == [on |-> s, op |-> "review", app |-> NoEntryYet, id |-> r.id, status |-> status, at |-> "asking"]
    <3>1. Started(call) /\ UNCHANGED <<appRows, appMemory, appStore, configured, lives, millis, received, collided, unsaved>>
      BY <2>8 DEF BeginReview, deployment, keptVars
    <3>2. call \in DirCall /\ call.at = "asking" /\ call.op = "review"
      <4>1. r.id \in AppId
        BY DEF DirInv, DirTypeOK, Receipt
      <4> QED BY <4>1 DEF DirCall
    <3> HIDE DEF call
    <3> QED BY <3>1, <3>2, CallStarts
  <2>9. CASE Millisecond
    <3>1. millis' \in Instants /\ UNCHANGED <<appRows, appMemory, appStore, configured, lives, calls, received, collided, unsaved>>
      BY <2>9, DirectoryAssumption DEF Millisecond, deployment, historyVars, DirInv, DirTypeOK, Instants
    <3> QED BY <3>1 DEF DirInv, DirTypeOK, RowOf, CopiesAgree, StillThere, StoreOf, DirStored, CallIs
  <2>10. CASE IndexerChanges
    BY <2>10 DEF IndexerChanges, deployment, keptVars, historyVars, DirInv, DirTypeOK, RowOf, CopiesAgree, StillThere, StoreOf, DirStored, CallIs
  <2>11. ASSUME NEW s \in Servers, DirectoryRestarts(s) PROVE DirInv'
    <3> DEFINE gone == {i \in DOMAIN calls : calls[i].on = s}
    <3>1. /\ appMemory' = [appMemory EXCEPT ![s] = NothingKept] /\ calls' = Restrict(calls, DOMAIN calls \ gone)
          /\ appStore' = [appStore EXCEPT ![s] = NothingKept] /\ lives' = [lives EXCEPT ![s] = @ + 1]
          /\ UNCHANGED <<appRows, configured, millis, received, collided, unsaved>>
      BY <2>11 DEF DirectoryRestarts, historyVars
    <3> HIDE DEF gone
    <3>2. /\ IsFiniteSet(DOMAIN calls') /\ calls' = [j \in DOMAIN calls' |-> calls'[j]]
          /\ DOMAIN calls' \subseteq DOMAIN calls /\ \A j \in DOMAIN calls' : calls'[j] = calls[j]
      BY <3>1, RestrictedCalls DEF DirInv
    <3>n. /\ NothingKept \in [Instants -> Kept \cup {NoEntryYet}]
          /\ \A u \in Instants : NothingKept[u] = NoEntryYet
      BY DEF NothingKept
    <3> HIDE DEF NothingKept
    <3>3. /\ appMemory' \in [Servers -> [Instants -> Kept \cup {NoEntryYet}]]
          /\ \A p \in Servers : appMemory'[p] = IF p = s THEN NothingKept ELSE appMemory[p]
      <4>1. appMemory \in [Servers -> [Instants -> Kept \cup {NoEntryYet}]]
        BY DEF DirInv, DirTypeOK
      <4> QED BY <3>1, <3>n, <4>1
    <3>4. /\ appStore' \in [SharedStores -> [Instants -> Kept \cup {NoEntryYet}]]
          /\ \A x \in SharedStores : x # s => appStore'[x] = appStore[x]
      <4>1. appStore \in [SharedStores -> [Instants -> Kept \cup {NoEntryYet}]]
        BY DEF DirInv, DirTypeOK
      <4> QED BY <3>1, <3>n, <4>1
    <3>5. /\ lives \in [Servers -> Nat] /\ lives' \in [Servers -> Nat] /\ lives'[s] = lives[s] + 1
          /\ \A p \in Servers : p # s => lives'[p] = lives[p]
      <4>1. lives \in [Servers -> Nat]
        BY DEF DirInv, DirTypeOK
      <4> QED BY <3>1, <4>1
    <3>6. DirTypeOK'
      BY <3>1, <3>2, <3>3, <3>4, <3>5 DEF DirInv, DirTypeOK
    <3>t. \A r \in received : r.by \in Servers /\ r.life \in Nat
      BY DEF DirInv, DirTypeOK, Receipt
    <3>7. /\ \A j \in DOMAIN calls' : CallIs(j, "submit", "answered")' => RowOf(calls[j].id, calls[j].app)'
          /\ \A j \in DOMAIN calls' : calls'[j].op = "submit" => calls'[j].app \in SubmittedApps /\ calls'[j].id.in = "indexer"
          /\ \A r \in received' : RowOf(r.id, r.app)' /\ r.life <= lives'[r.by]
      <4>1. UNCHANGED <<appRows, received>>
        BY <3>1
      <4>2. \A r \in received : r.life <= lives'[r.by]
        <5> TAKE r \in received
        <5>1. r.by \in Servers /\ r.life \in Nat /\ r.life <= lives[r.by] /\ lives[r.by] \in Nat
          BY <3>t, <3>5 DEF DirInv
        <5>2. lives'[r.by] = lives[r.by] \/ lives'[r.by] = lives[r.by] + 1
          BY <3>5, <5>1
        <5> QED BY <5>1, <5>2
      <4> QED BY <3>2, <4>1, <4>2 DEF DirInv, RowOf, CallIs
    <3>8. ASSUME ~collided', ~unsaved' PROVE CopiesAgree'
      <4>1. CopiesAgree
        BY <3>1, <3>8 DEF DirInv
      <4>2. \A p \in Servers : configured \/ p # s =>
               StoreOf(p)' = StoreOf(p) /\ StoreOf(p) \in SharedStores /\ StoreOf(p) # s
        BY <3>1, DirectoryAssumption DEF StoreOf, SharedStores
      <4>3. \A p \in Servers : \A u, b : (configured \/ p # s) /\ DirStored(p, u, b) => DirStored(p, u, b)'
        BY <3>4, <4>2 DEF DirStored
      <4>4. \A p \in Servers, u \in Instants :
               appMemory'[p][u] # NoEntryYet => DirStored(p, u, appMemory[p][u].app)'
        <5>1. \A u \in Instants : appMemory'[s][u] = NoEntryYet
          BY <3>3, <3>n
        <5>2. \A p \in Servers : p # s => appMemory'[p] = appMemory[p]
          BY <3>3
        <5> QED BY <4>1, <4>3, <5>1, <5>2 DEF CopiesAgree
      <4>5. \A r \in received : StillThere(r)' => StillThere(r) /\ (configured \/ r.by # s)
        <5> SUFFICES ASSUME NEW r \in received, ~configured, r.life = lives'[r.by]
                     PROVE  r.life = lives[r.by] /\ r.by # s
          BY <3>1 DEF StillThere
        <5>1. r.by \in Servers /\ r.life \in Nat /\ r.life <= lives[r.by] /\ lives[r.by] \in Nat
          BY <3>t, <3>5 DEF DirInv
        <5>2. r.by # s
          BY <3>5, <5>1
        <5> QED BY <3>5, <5>1, <5>2
      <4>6. \A r \in received' : r.id.in = "local" /\ StillThere(r)' => DirStored(r.by, r.id.id, r.app)'
        BY <3>1, <3>t, <4>1, <4>3, <4>5 DEF CopiesAgree
      <4> QED BY <4>4, <4>6 DEF CopiesAgree
    <3> QED BY <3>6, <3>7, <3>8 DEF DirInv
  <2>12. CASE UNCHANGED directoryVars
    BY <2>12 DEF directoryVars, DirInv, DirTypeOK, RowOf, CopiesAgree, StillThere, StoreOf, DirStored, CallIs
  <2> QED BY <2>1, <2>2, <2>3, <2>4, <2>5, <2>6, <2>7, <2>8, <2>9, <2>10, <2>11, <2>12 DEF DirectoryNext
<1> QED BY <1>1, <1>2, PTL DEF DirectorySpec

\* Whatever outages, late answers, restarts and reviews elsewhere do, what the indexer
\* took is in its table, and what it did not take is there for a review: from any
\* process with a remote store, from the process that received it with its own, as long
\* as that process lives (submitApp, reviewApp)
THEOREM ReceivedIsAlwaysKept == DirectorySpec => []ReceivedIsKept
<1>1. DirInv => ReceivedIsKept
  <2> SUFFICES ASSUME DirInv, NEW r \in received
      PROVE  IF r.id.in = "indexer" THEN appRows[r.id.id].app = r.app
             ELSE \A s \in Servers :
                     ~collided /\ ~unsaved /\ (configured \/ (s = r.by /\ r.life = lives[s])) =>
                         OwnOrShared(s, r.id) # NoEntryYet /\ OwnOrShared(s, r.id).app = r.app
    BY DEF ReceivedIsKept
  <2>1. RowOf(r.id, r.app)
    BY DEF DirInv
  <2>2. CASE r.id.in # "indexer"
    <3>1. r.id.in = "local" /\ r.id.id \in Instants
      BY <2>2 DEF DirInv, DirTypeOK, AppId, Receipt
    <3>2. ASSUME NEW s \in Servers, ~collided, ~unsaved, configured \/ (s = r.by /\ r.life = lives[s])
          PROVE  OwnOrShared(s, r.id) # NoEntryYet /\ OwnOrShared(s, r.id).app = r.app
      <4>1. CopiesAgree
        BY <3>2 DEF DirInv
      <4>2. DirStored(r.by, r.id.id, r.app)
        BY <3>1, <3>2, <4>1 DEF CopiesAgree, StillThere
      <4>3. StoreOf(s) = StoreOf(r.by)
        BY <3>2 DEF StoreOf
      <4>4. appMemory[s][r.id.id] # NoEntryYet => DirStored(s, r.id.id, appMemory[s][r.id.id].app)
        BY <3>1, <4>1 DEF CopiesAgree
      <4> QED BY <2>2, <4>2, <4>3, <4>4 DEF OwnOrShared, DirStored
    <3> QED BY <2>2, <3>2
  <2> QED BY <2>1, <2>2 DEF RowOf
<1> QED BY <1>1, DirInvariant, PTL

-----------------------------------------------------------------------------
(* Issuer desk                                                             *)

Item == [issuer: Issuers \cup {None}, fault: {"none", "invalid", "unsignable"}]
SomeKey == PubKeys \cup {None}
OpenRequest ==
    [route: {"batch", "single"}, tenant: BOOLEAN, items: Seq(Item),
     at: {"received", "tenant", "default", "items", "registry"}, key: SomeKey,
     checked: [Issuers -> {"unknown", "matches", "differs"}],
     issued: Seq(Issuers \X SomeKey), seen: SUBSET (Issuers \X PubKeys)]
EndedRequest ==
    [at: {"done"}, reply: {"unauthorized", "failed", "error", "issued", "lost"},
     signed: BOOLEAN, registered: BOOLEAN]
SigningRequest == OpenRequest \cup EndedRequest

\* Of a request under way: there is an item left; it has seen the keys of the registry;
\* what it signed, and what the registry confirmed for the key it has, it has seen
Sound(r) ==
    IF r.at = "done" THEN r.registered
    ELSE /\ Len(r.issued) < Len(r.items)
         /\ KeysNow \subseteq r.seen /\ ToSet(r.issued) \subseteq r.seen
         /\ \A i \in Issuers : r.checked[i] = "matches" =>
               r.at \in {"items", "registry"} /\ <<i, r.key>> \in r.seen
         /\ r.at = "registry" => IssuerOf(r, r.items[Len(r.issued) + 1]) \in Issuers

RegistryKnown == issuer \in [Issuers -> IssuerRecord] /\ issuerList \in Seq(Issuers)
VaultTyped ==
    /\ secret \in [Paths -> SomeKey]
    /\ secretCache \in [Paths -> [key: SomeKey, until: Int]]

\* The page names registered issuers only
ListEntry == [id: Issuers, types: SUBSET CredTypes]
PageOK(p) ==
    /\ DOMAIN p = {"load", "issuers", "wallet", "form", "preview", "signed", "request"}
    /\ DOMAIN p.load = {"at", "left", "got"} /\ DOMAIN p.form = {"issuer", "holder", "type"}
    /\ p.load.left \in Seq(Issuers) /\ p.load.got \in Seq(ListEntry)
    /\ p.issuers \in Seq(ListEntry) /\ p.form.issuer \in Issuers \cup {None}

SigningsSound ==
    /\ signings \in Seq(SigningRequest)
    /\ \A n \in DOMAIN signings : Sound(signings[n])

DeskInv == RegistryKnown /\ VaultTyped /\ PageOK(desk) /\ SigningsSound /\ now \in Int

LEMMA KeysAreTyped ==
  ASSUME RegistryKnown
  PROVE  /\ KeysNow \subseteq Issuers \X PubKeys
         /\ \A i \in Issuers : <<i, issuer[i].pubkey>> \in KeysNow
<1>1. \A i \in Issuers : issuer[i] \in IssuerRecord /\ issuer[i] # None
  BY RegistryAssumption DEF RegistryKnown, RegistryAssumption
<1>2. \A i \in Issuers : issuer[i].pubkey \in PubKeys /\ Registered(i)
  BY <1>1 DEF IssuerRecord, Registered
<1> QED BY <1>2 DEF KeysNow

LEMMA RequestReplaced ==
  ASSUME SigningsSound, NEW n \in DOMAIN signings, NEW r \in SigningRequest, Sound(r),
         signings' = [signings EXCEPT ![n] = r], UNCHANGED issuer
  PROVE  SigningsSound'
<1>1. KeysNow' = KeysNow
  BY DEF KeysNow, Registered
<1>2. \A q : Sound(q)' <=> Sound(q)
  BY <1>1 DEF Sound, IssuerOf
<1>3. signings \in Seq(SigningRequest)
  BY DEF SigningsSound
<1>4. /\ signings' \in Seq(SigningRequest) /\ DOMAIN signings' = DOMAIN signings
      /\ \A m \in DOMAIN signings : signings'[m] = IF m = n THEN r ELSE signings[m]
  BY <1>3
<1>5. \A m \in DOMAIN signings' : Sound(signings[m])'
  BY <1>2, <1>4 DEF SigningsSound
<1> QED BY <1>4, <1>5 DEF SigningsSound

LEMMA RequestAdded ==
  ASSUME SigningsSound, NEW r \in SigningRequest, Sound(r),
         signings' = Append(signings, r), UNCHANGED issuer
  PROVE  SigningsSound'
<1>1. KeysNow' = KeysNow
  BY DEF KeysNow, Registered
<1>2. \A q : Sound(q)' <=> Sound(q)
  BY <1>1 DEF Sound, IssuerOf
<1>3. signings \in Seq(SigningRequest)
  BY DEF SigningsSound
<1>4. /\ signings' \in Seq(SigningRequest)
      /\ \A m \in DOMAIN signings' : signings'[m] = r \/ (m \in DOMAIN signings /\ signings'[m] = signings[m])
  <2>1. signings' \in Seq(SigningRequest) /\ Len(signings') = Len(signings) + 1 /\ Len(signings) \in Nat
    BY <1>3
  <2>2. DOMAIN signings' = 1 .. Len(signings) + 1 /\ DOMAIN signings = 1 .. Len(signings)
    BY <1>3, <2>1
  <2>3. \A m \in 1 .. Len(signings) + 1 : signings'[m] = IF m = Len(signings) + 1 THEN r ELSE signings[m]
    BY <1>3, <2>1
  <2> QED BY <2>1, <2>2, <2>3
<1>5. \A m \in DOMAIN signings' : Sound(signings[m])'
  BY <1>2, <1>4 DEF SigningsSound
<1> QED BY <1>4, <1>5 DEF SigningsSound

LEMMA SigningsKept ==
  ASSUME SigningsSound, UNCHANGED <<issuer, signings>>
  PROVE  SigningsSound'
<1>1. KeysNow' = KeysNow
  BY DEF KeysNow, Registered
<1>2. \A q : Sound(q)' <=> Sound(q)
  BY <1>1 DEF Sound, IssuerOf
<1> QED BY <1>2 DEF SigningsSound

\* A new request names issuers and has looked at the registry
LEMMA NewRequestSound ==
  ASSUME RegistryKnown, NEW route \in {"batch", "single"}, NEW byTenant \in BOOLEAN,
         NEW items \in Seq(Item), Len(items) > 0
  PROVE  NewRequest(route, byTenant, items) \in SigningRequest /\ Sound(NewRequest(route, byTenant, items))
<1> DEFINE r == NewRequest(route, byTenant, items)
<1>1. r \in OpenRequest
  BY KeysAreTyped DEF NewRequest, OpenRequest, SomeKey
<1>2. /\ r.issued = <<>> /\ r.items = items /\ r.seen = KeysNow /\ r.at = "received"
      /\ \A i \in Issuers : r.checked[i] = "unknown"
  BY DEF NewRequest
<1>3. ToSet(r.issued) = {} /\ Len(r.issued) = 0
  BY <1>2 DEF ToSet
<1> HIDE DEF r
<1> QED BY <1>1, <1>2, <1>3 DEF r, Sound, SigningRequest

\* A request that ends has seen what it signed
LEMMA EndedSound ==
  ASSUME NEW r, NEW sofar, ToSet(sofar) \subseteq r.seen,
         NEW reply \in {"unauthorized", "failed", "error", "issued", "lost"}
  PROVE  EndedSigning(r, sofar, reply) \in SigningRequest /\ Sound(EndedSigning(r, sofar, reply))
<1>1. (sofar # <<>>) \in BOOLEAN /\ (ToSet(sofar) \subseteq r.seen) = TRUE
  OBVIOUS
<1> DEFINE e == EndedSigning(r, sofar, reply)
<1>2. e = [at |-> "done", reply |-> reply, signed |-> sofar # <<>>, registered |-> TRUE]
  BY <1>1 DEF EndedSigning
<1>3. e \in EndedRequest
  BY <1>1, <1>2 DEF EndedRequest
<1>4. e.at = "done" /\ e.registered = TRUE
  BY <1>2
<1> HIDE DEF e
<1> QED BY <1>3, <1>4 DEF e, Sound, SigningRequest

LEMMA OpenTyped ==
  ASSUME SigningsSound, NEW n \in DOMAIN signings, signings[n].at # "done"
  PROVE  signings[n] \in OpenRequest /\ Sound(signings[n])
BY DEF SigningsSound, SigningRequest, EndedRequest

\* What the vault and its cache give is a key, or nothing
LEMMA SecretTyped ==
  ASSUME VaultTyped, now \in Int, NEW path \in Paths
  PROVE  /\ Secret(path).key \in SomeKey
         /\ Secret(path).cache \in [Paths -> [key: SomeKey, until: Int]]
<1> DEFINE C == [Paths -> [key: SomeKey, until: Int]]
           kept == [secretCache EXCEPT ![path] = [key |-> secret[path], until |-> now + CacheTtl]]
<1>1. secretCache \in C /\ secretCache[path].key \in SomeKey /\ secret[path] \in SomeKey /\ EnvKey \in SomeKey
      /\ None \in SomeKey /\ CacheTtl \in Int
  BY DeskAssumption DEF VaultTyped, SomeKey, DeskAssumption
<1>2. [key |-> secret[path], until |-> now + CacheTtl] \in [key: SomeKey, until: Int]
  BY <1>1
<1>3. kept \in C
  BY <1>1, <1>2
<1> HIDE DEF C, kept
<1>4. \/ Secret(path) = [key |-> EnvKey, cache |-> secretCache]
      \/ Secret(path) = [key |-> secretCache[path].key, cache |-> secretCache]
      \/ Secret(path) = [key |-> secret[path], cache |-> kept]
      \/ Secret(path) = [key |-> None, cache |-> secretCache]
  BY DEF Secret, EnvSecret, kept
<1> QED BY <1>1, <1>3, <1>4 DEF C

\* The key that signs is fixed while nothing has been compared with it
LEMMA WithKeySound ==
  ASSUME NEW r \in OpenRequest, Sound(r), r.at \in {"received", "tenant", "default"}, NEW key \in SomeKey
  PROVE  WithKey(r, key) \in SigningRequest /\ Sound(WithKey(r, key))
<1>1. WithKey(r, key) \in OpenRequest
  BY DEF WithKey, OpenRequest
<1> DEFINE w == WithKey(r, key)
<1>2. /\ w.at = "items" /\ w.issued = r.issued /\ w.items = r.items /\ w.seen = r.seen
      /\ w.checked = r.checked
  BY DEF WithKey, OpenRequest
<1>3. \A i \in Issuers : r.checked[i] # "matches"
  BY DEF Sound
<1> HIDE DEF w
<1> QED BY <1>1, <1>2, <1>3 DEF w, Sound, SigningRequest

LEMMA AuthenticateKeeps ==
  ASSUME DeskInv, NEW n \in DOMAIN signings, Authenticate(n)
  PROVE  DeskInv'
<1> DEFINE r == signings[n]
<1>1. r \in OpenRequest /\ Sound(r) /\ r.at = "received"
  BY OpenTyped DEF Authenticate, DeskInv
<1>2. EnvKey \in SomeKey /\ ToSet(<<>>) = {}
  BY DeskAssumption DEF DeskAssumption, SomeKey, ToSet
<1>3. PICK q \in SigningRequest : Sound(q) /\ signings' = [signings EXCEPT ![n] = q]
  <2>1. CASE \E reply \in {"unauthorized", "failed"} : Reply(n, <<>>, reply)
    BY <1>2, <2>1, EndedSound DEF Reply
  <2>2. CASE Set(n, [r EXCEPT !.at = "tenant"])
    <3> DEFINE w == [r EXCEPT !.at = "tenant"]
    <3>1. /\ w \in OpenRequest /\ w.at = "tenant" /\ w.issued = r.issued /\ w.items = r.items
          /\ w.seen = r.seen /\ w.checked = r.checked
      BY <1>1 DEF OpenRequest
    <3>2. signings' = [signings EXCEPT ![n] = w]
      BY <2>2 DEF Set
    <3> HIDE DEF w, r
    <3>3. Sound(w) /\ w \in SigningRequest
      BY <1>1, <3>1 DEF Sound, SigningRequest
    <3> QED BY <3>2, <3>3
  <2>3. CASE Set(n, WithKey(r, EnvKey))
    BY <1>1, <1>2, <2>3, WithKeySound DEF Set
  <2> QED BY <2>1, <2>2, <2>3 DEF Authenticate
<1>4. UNCHANGED <<vars, vaultVars, desk>>
  BY DEF Authenticate
<1>5. SigningsSound'
  BY <1>3, <1>4, RequestReplaced DEF DeskInv, vars, registryVars, keyVars
<1> QED BY <1>4, <1>5 DEF DeskInv, RegistryKnown, VaultTyped, PageOK, vars, registryVars, keyVars, listVars, vaultVars

LEMMA ReadSecretKeeps ==
  ASSUME DeskInv, NEW n \in DOMAIN signings, ReadSecret(n)
  PROVE  DeskInv'
<1> DEFINE r == signings[n]
           read == Secret(r.at)
<1>1. r.at \in {"tenant", "default"} /\ r \in OpenRequest /\ Sound(r)
  BY OpenTyped DEF ReadSecret, DeskInv, Paths
<1>2. read.key \in SomeKey /\ read.cache \in [Paths -> [key: SomeKey, until: Int]] /\ EnvKey \in SomeKey
  BY <1>1, SecretTyped, DeskAssumption DEF DeskInv, Paths, SomeKey, DeskAssumption
<1>3. PICK q \in SigningRequest : Sound(q) /\ signings' = [signings EXCEPT ![n] = q]
  <2>1. CASE \E key \in SomeKey : Set(n, WithKey(r, key))
    BY <1>1, <2>1, WithKeySound DEF Set
  <2>2. CASE Set(n, [r EXCEPT !.at = "default"])
    <3> DEFINE w == [r EXCEPT !.at = "default"]
    <3>1. /\ w \in OpenRequest /\ w.at = "default" /\ w.issued = r.issued /\ w.items = r.items
          /\ w.seen = r.seen /\ w.checked = r.checked
      BY <1>1 DEF OpenRequest
    <3>2. signings' = [signings EXCEPT ![n] = w]
      BY <2>2 DEF Set
    <3> HIDE DEF w, r
    <3>3. Sound(w) /\ w \in SigningRequest
      BY <1>1, <3>1 DEF Sound, SigningRequest
    <3> QED BY <3>2, <3>3
  <2>3. \/ Set(n, WithKey(r, read.key)) \/ Set(n, WithKey(r, EnvKey))
        \/ Set(n, [r EXCEPT !.at = "default"])
    BY DEF ReadSecret
  <2> QED BY <1>2, <2>1, <2>2, <2>3
<1>4. UNCHANGED <<vars, secret, vaultUp, tenant, desk>> /\ secretCache' = read.cache
  BY DEF ReadSecret
<1>5. SigningsSound'
  BY <1>3, <1>4, RequestReplaced DEF DeskInv, vars, registryVars, keyVars
<1> QED BY <1>2, <1>4, <1>5 DEF DeskInv, RegistryKnown, VaultTyped, PageOK, vars, registryVars, keyVars, listVars

\* The issuer of an item that is not refused is one of the registry's
LEMMA IssuerNamed ==
  ASSUME NEW r \in OpenRequest, NEW item \in Item, ~Refused(r, item)
  PROVE  IssuerOf(r, item) \in Issuers
BY DeskAssumption DEF Refused, IssuerOf, Item, DeskAssumption

LEMMA SignedSeen ==
  ASSUME NEW r \in OpenRequest, ToSet(r.issued) \subseteq r.seen, NEW i \in Issuers, <<i, r.key>> \in r.seen
  PROVE  /\ Signed(r, i) \in Seq(Issuers \X SomeKey) /\ Len(Signed(r, i)) = Len(r.issued) + 1
         /\ ToSet(Signed(r, i)) \subseteq r.seen
<1>1. r.issued \in Seq(Issuers \X SomeKey) /\ <<i, r.key>> \in Issuers \X SomeKey
  BY DEF OpenRequest
<1>2. /\ Signed(r, i) \in Seq(Issuers \X SomeKey) /\ Len(Signed(r, i)) = Len(r.issued) + 1 /\ Len(r.issued) \in Nat
      /\ Signed(r, i)[Len(r.issued) + 1] = <<i, r.key>>
      /\ \A m \in 1 .. Len(r.issued) : Signed(r, i)[m] = r.issued[m]
  BY <1>1 DEF Signed
<1>3. DOMAIN Signed(r, i) = 1 .. Len(r.issued) + 1 /\ DOMAIN r.issued = 1 .. Len(r.issued)
  BY <1>1, <1>2
<1>4. \A m \in DOMAIN Signed(r, i) : Signed(r, i)[m] \in r.seen
  <2> TAKE m \in DOMAIN Signed(r, i)
  <2>1. CASE m = Len(r.issued) + 1
    BY <1>2, <2>1
  <2>2. CASE m # Len(r.issued) + 1
    <3>1. m \in 1 .. Len(r.issued) /\ r.issued[m] \in ToSet(r.issued)
      BY <1>2, <1>3, <2>2 DEF ToSet
    <3> QED BY <1>2, <3>1
  <2> QED BY <2>1, <2>2
<1> QED BY <1>2, <1>4 DEF ToSet

LEMMA NextItemKeeps ==
  ASSUME DeskInv, NEW n \in DOMAIN signings, NextItem(n)
  PROVE  DeskInv'
<1> DEFINE r == signings[n]
           item == r.items[Len(r.issued) + 1]
           i == IssuerOf(r, item)
<1>1. r \in OpenRequest /\ Sound(r) /\ r.at = "items"
  BY OpenTyped DEF NextItem, DeskInv
<1>2. /\ Len(r.issued) < Len(r.items) /\ ToSet(r.issued) \subseteq r.seen
      /\ r.issued \in Seq(Issuers \X SomeKey) /\ r.items \in Seq(Item) /\ r.checked \in [Issuers -> {"unknown", "matches", "differs"}]
  BY <1>1 DEF Sound, OpenRequest
<1>3. item \in Item
  BY <1>2
<1> HIDE DEF item
<1>4. PICK q \in SigningRequest : Sound(q) /\ signings' = [signings EXCEPT ![n] = q]
  <2>1. CASE \E reply \in {"failed"} : Reply(n, r.issued, reply)
    BY <1>2, <2>1, EndedSound DEF Reply
  <2>2. CASE ~Refused(r, item) /\ r.checked[i] = "unknown" /\ Set(n, [r EXCEPT !.at = "registry"])
    <3> DEFINE w == [r EXCEPT !.at = "registry"]
    <3>1. /\ w \in OpenRequest /\ w.at = "registry" /\ w.issued = r.issued /\ w.items = r.items
          /\ w.seen = r.seen /\ w.checked = r.checked /\ w.key = r.key
          /\ w.tenant = r.tenant /\ w.route = r.route
      BY <1>1 DEF OpenRequest
    <3>2. signings' = [signings EXCEPT ![n] = w]
      BY <2>2 DEF Set
    <3>3. IssuerOf(w, w.items[Len(w.issued) + 1]) \in Issuers
      BY <1>1, <1>3, <2>2, <3>1, IssuerNamed DEF IssuerOf, item
    <3> HIDE DEF w, r
    <3>4. Sound(w) /\ w \in SigningRequest
      BY <1>1, <3>1, <3>3 DEF Sound, SigningRequest
    <3> QED BY <3>2, <3>4
  <2>3. CASE ~Refused(r, item) /\ r.checked[i] = "matches"
    <3>1. i \in Issuers /\ <<i, r.key>> \in r.seen
      BY <1>1, <1>3, <2>3, IssuerNamed DEF Sound
    <3>2. /\ Signed(r, i) \in Seq(Issuers \X SomeKey) /\ Len(Signed(r, i)) = Len(r.issued) + 1
          /\ ToSet(Signed(r, i)) \subseteq r.seen
      BY <1>1, <1>2, <3>1, SignedSeen
    <3>3. CASE \E reply \in {"issued"} : Reply(n, Signed(r, i), reply)
      BY <3>2, <3>3, EndedSound DEF Reply
    <3>4. CASE Len(r.issued) + 1 < Len(r.items) /\ Set(n, [r EXCEPT !.issued = Signed(r, i)])
      <4> DEFINE w == [r EXCEPT !.issued = Signed(r, i)]
      <4>1. /\ w \in OpenRequest /\ w.at = "items" /\ w.issued = Signed(r, i) /\ w.items = r.items
            /\ w.seen = r.seen /\ w.checked = r.checked /\ w.key = r.key
        BY <1>1, <3>2 DEF OpenRequest
      <4>2. signings' = [signings EXCEPT ![n] = w]
        BY <3>4 DEF Set
      <4> HIDE DEF w, r, i
      <4>3. Sound(w) /\ w \in SigningRequest
        BY <1>1, <3>2, <3>4, <4>1 DEF Sound, SigningRequest
      <4> QED BY <4>2, <4>3
    <3>5. CASE Reply(n, r.issued, "failed")
      BY <2>1, <3>5
    <3> QED BY <2>3, <3>3, <3>4, <3>5 DEF NextItem, item
  <2>4. CASE Refused(r, item)
    BY <2>1, <2>4 DEF NextItem, item
  <2>5. CASE ~Refused(r, item) /\ r.checked[i] = "differs"
    BY <2>1, <2>5 DEF NextItem, item
  <2>6. CASE ~Refused(r, item) /\ r.checked[i] = "unknown"
    <3>1. Set(n, [r EXCEPT !.at = "registry"])
      BY <2>6 DEF NextItem, item
    <3> QED BY <2>2, <2>6, <3>1
  <2>7. ~Refused(r, item) => r.checked[i] \in {"unknown", "matches", "differs"}
    BY <1>1, <1>2, <1>3, IssuerNamed
  <2> QED BY <2>3, <2>4, <2>5, <2>6, <2>7
<1>5. UNCHANGED <<vars, vaultVars, desk>>
  BY DEF NextItem
<1>6. SigningsSound'
  BY <1>4, <1>5, RequestReplaced DEF DeskInv, vars, registryVars, keyVars
<1> QED BY <1>5, <1>6 DEF DeskInv, RegistryKnown, VaultTyped, PageOK, vars, registryVars, keyVars, listVars, vaultVars

\* The answer of the registry is of its present key
LEMMA ComparedSound ==
  ASSUME NEW r \in OpenRequest, Sound(r), r.at = "registry", NEW i \in Issuers,
         NEW answer \in {"matches", "differs"}, answer = "matches" => <<i, r.key>> \in r.seen
  PROVE  Compared(r, i, answer) \in SigningRequest /\ Sound(Compared(r, i, answer))
<1> DEFINE w == Compared(r, i, answer)
<1>1. r.checked \in [Issuers -> {"unknown", "matches", "differs"}]
  BY DEF OpenRequest
<1>2. /\ w.at = "items" /\ w.issued = r.issued /\ w.items = r.items /\ w.seen = r.seen /\ w.key = r.key
      /\ w.checked = [r.checked EXCEPT ![i] = answer]
  BY DEF Compared, OpenRequest
<1>3. /\ w.checked \in [Issuers -> {"unknown", "matches", "differs"}]
      /\ \A j \in Issuers : w.checked[j] = IF j = i THEN answer ELSE r.checked[j]
  BY <1>1, <1>2
<1>4. w \in OpenRequest
  BY <1>1 DEF Compared, OpenRequest
<1> HIDE DEF w
<1> QED BY <1>2, <1>3, <1>4 DEF w, Sound, SigningRequest

LEMMA PubkeyAnswersKeeps ==
  ASSUME DeskInv, NEW n \in DOMAIN signings, PubkeyAnswers(n)
  PROVE  DeskInv'
<1> DEFINE r == signings[n]
           i == IssuerOf(r, r.items[Len(r.issued) + 1])
<1>1. r \in OpenRequest /\ Sound(r) /\ r.at = "registry"
  BY OpenTyped DEF PubkeyAnswers, DeskInv
<1>2. i \in Issuers /\ KeysNow \subseteq r.seen /\ ToSet(r.issued) \subseteq r.seen
  BY <1>1 DEF Sound
<1>3. Matches(r, i) => <<i, r.key>> \in r.seen
  BY <1>2, KeysAreTyped DEF Matches, DeskInv
<1>4. PICK q \in SigningRequest : Sound(q) /\ signings' = [signings EXCEPT ![n] = q]
  <2>1. CASE \E reply \in {"error"} : Reply(n, r.issued, reply)
    BY <1>2, <2>1, EndedSound DEF Reply
  <2>2. CASE \E answer \in {"matches", "differs"} :
                (answer = "matches" => <<i, r.key>> \in r.seen) /\ Set(n, Compared(r, i, answer))
    <3>1. PICK answer \in {"matches", "differs"} :
                (answer = "matches" => <<i, r.key>> \in r.seen) /\ Set(n, Compared(r, i, answer))
      BY <2>2
    <3> QED BY <1>1, <1>2, <3>1, ComparedSound DEF Set
  <2>3. \/ Set(n, Compared(r, i, IF Matches(r, i) THEN "matches" ELSE "differs"))
        \/ Set(n, Compared(r, i, "differs"))
        \/ Reply(n, r.issued, "error")
    BY DEF PubkeyAnswers
  <2> HIDE DEF r, i
  <2> QED BY <1>3, <2>1, <2>2, <2>3
<1>5. UNCHANGED <<vars, vaultVars, desk>>
  BY DEF PubkeyAnswers
<1>6. SigningsSound'
  BY <1>4, <1>5, RequestReplaced DEF DeskInv, vars, registryVars, keyVars
<1> QED BY <1>5, <1>6 DEF DeskInv, RegistryKnown, VaultTyped, PageOK, vars, registryVars, keyVars, listVars, vaultVars

LEMMA ReceiveKeeps ==
  ASSUME DeskInv, NEW byTenant \in BOOLEAN, NEW route \in {"batch", "single"}, NEW items \in Batches,
         ReceiveSigning(route, byTenant, items)
  PROVE  DeskInv'
<1>1. items \in Seq(Item) /\ Len(items) > 0
  <2>1. PICK size \in 1 .. MaxItems : items \in [1 .. size -> Items]
    BY DEF Batches
  <2>2. size \in Nat /\ size > 0 /\ Items \subseteq Item
    BY DeskAssumption DEF DeskAssumption, Items, Item
  <2>3. items \in Seq(Items) /\ Len(items) = size
    BY <2>1, <2>2
  <2> QED BY <2>1, <2>2, <2>3
<1>2. PICK r \in SigningRequest : Sound(r) /\ signings' = Append(signings, r)
  BY <1>1, NewRequestSound DEF ReceiveSigning, DeskInv
<1>3. UNCHANGED <<vars, vaultVars, desk>>
  BY DEF ReceiveSigning
<1>4. SigningsSound'
  BY <1>2, <1>3, RequestAdded DEF DeskInv, vars, registryVars, keyVars
<1> QED BY <1>3, <1>4 DEF DeskInv, RegistryKnown, VaultTyped, PageOK, vars, registryVars, keyVars, listVars, vaultVars

LEMMA RequestsKeep == DeskInv /\ RequestProceeds => DeskInv'
BY AuthenticateKeeps, ReadSecretKeeps, NextItemKeeps, PubkeyAnswersKeeps DEF RequestProceeds

\* The page: what follows the offered types is the type alone
LEMMA PageShown ==
  ASSUME NEW p, PageOK(p), Shows(p)
  PROVE  PageOK(desk)'
<1>1. Shows(p) => desk' = p \/ \E t : desk' = [p EXCEPT !.form.type = t]
  BY DEF Shows, Settled
<1>2. ASSUME NEW t, desk' = [p EXCEPT !.form.type = t]
      PROVE  PageOK(desk)'
  <2>1. /\ desk'.form = [p.form EXCEPT !.type = t] /\ DOMAIN desk' = DOMAIN p
        /\ desk'.load = p.load /\ desk'.issuers = p.issuers
    BY <1>2 DEF PageOK
  <2>2. DOMAIN desk'.form = DOMAIN p.form /\ desk'.form.issuer = p.form.issuer
    BY <2>1 DEF PageOK
  <2> QED BY <2>1, <2>2 DEF PageOK
<1> QED BY <1>1, <1>2 DEF PageOK

LEMMA PageChanges ==
  ASSUME DeskInv, NEW p, PageOK(p), ChangesPage(p)
  PROVE  DeskInv'
<1>1. PageOK(desk)' /\ UNCHANGED <<vars, vaultVars, signings>>
  BY PageShown DEF ChangesPage
<1>2. SigningsSound'
  BY <1>1, SigningsKept DEF DeskInv, vars, registryVars, keyVars
<1> QED BY <1>1, <1>2 DEF DeskInv, RegistryKnown, VaultTyped, vars, registryVars, keyVars, listVars, vaultVars

\* Whichever of them is preferred, it is one that was loaded
LEMMA PreferredIsListed ==
  ASSUME NEW got \in Seq(ListEntry), got # <<>>
  PROVE  Preferred([n \in DOMAIN got |-> got[n].id]) \in Issuers
<1> DEFINE ids == [n \in DOMAIN got |-> got[n].id]
<1>1. \A n \in DOMAIN got : got[n].id \in Issuers
  <2>1. \A n \in DOMAIN got : got[n] \in ListEntry
    OBVIOUS
  <2> QED BY <2>1 DEF ListEntry
<1>2. ToSet(ids) \subseteq Issuers
  BY <1>1 DEF ToSet
<1>3. 1 \in DOMAIN got /\ ids[1] \in Issuers
  BY <1>1
<1> HIDE DEF ids
<1>4. \/ desk.wallet \in ToSet(ids) /\ Preferred(ids) = desk.wallet
      \/ DefaultIssuer \in ToSet(ids) /\ Preferred(ids) = DefaultIssuer
      \/ Preferred(ids) = ids[1]
  BY DEF Preferred
<1> QED BY <1>2, <1>3, <1>4 DEF ids

LEMMA PageKeeps ==
  ASSUME DeskInv, PageStep
  PROVE  DeskInv'
<1>1. /\ PageOK(desk) /\ issuerList \in Seq(Issuers) /\ issuer \in [Issuers -> IssuerRecord]
  BY DEF DeskInv, RegistryKnown
<1> DEFINE WithLoad(load) == [desk EXCEPT !.load = load]
           WithForm(chosenForm) == [desk EXCEPT !.form = chosenForm]
           LoadOK(load) == /\ DOMAIN load = {"at", "left", "got"}
                           /\ load.left \in Seq(Issuers) /\ load.got \in Seq(ListEntry)
           FormOK(chosenForm) == DOMAIN chosenForm = {"issuer", "holder", "type"} /\ chosenForm.issuer \in Issuers \cup {None}
<1>2. LoadOK(NoLoad) /\ LoadOK(desk.load) /\ FormOK(desk.form) /\ LoadOK([NoLoad EXCEPT !.at = "ids"])
  BY <1>1 DEF PageOK, NoLoad
<1>3. ASSUME NEW load, LoadOK(load) PROVE PageOK(WithLoad(load))
  BY <1>1, <1>3 DEF PageOK
<1>4. ASSUME NEW chosenForm, FormOK(chosenForm) PROVE PageOK(WithForm(chosenForm))
  BY <1>1, <1>4 DEF PageOK
<1>5. CASE IdsAnswer
  <2>1. CASE \E ids \in {issuerList, <<>>} : ChangesPage([desk EXCEPT !.load.at = "records", !.load.left = ids])
    <3>1. PICK ids \in {issuerList, <<>>} : ChangesPage([desk EXCEPT !.load.at = "records", !.load.left = ids])
      BY <2>1
    <3> DEFINE load == [desk.load EXCEPT !.at = "records", !.left = ids]
    <3>2. LoadOK(load)
      <4>1. ids \in Seq(Issuers)
        <5>1. <<>> \in Seq(Issuers)
          OBVIOUS
        <5> QED BY <1>1, <5>1
      <4>2. /\ DOMAIN load = DOMAIN desk.load /\ load.left = ids /\ load.got = desk.load.got
        BY <1>2
      <4> HIDE DEF load
      <4> QED BY <1>2, <4>1, <4>2
    <3>3. WithLoad(load) = [desk EXCEPT !.load.at = "records", !.load.left = ids]
      BY <1>1 DEF PageOK
    <3> HIDE DEF load, LoadOK, WithLoad
    <3> QED BY <1>3, <3>1, <3>2, <3>3, PageChanges
  <2>2. CASE ChangesPage(WithLoad(NoLoad))
    BY <1>2, <1>3, <2>2, PageChanges
  <2> QED BY <1>5, <2>1, <2>2 DEF IdsAnswer
<1>6. CASE RecordAnswers
  <2> DEFINE i == Head(desk.load.left)
             entry == [id |-> i, types |-> issuer[i].credentialTypes]
  <2>1. i \in Issuers /\ Tail(desk.load.left) \in Seq(Issuers)
    BY <1>1, <1>6 DEF RecordAnswers, PageOK
  <2>2. entry \in ListEntry
    BY <1>1, <2>1 DEF ListEntry, IssuerRecord
  <2> HIDE DEF entry
  <2>3. CASE \E got \in Seq(ListEntry) : ChangesPage([desk EXCEPT !.load.left = Tail(@), !.load.got = got])
    <3>1. PICK got \in Seq(ListEntry) : ChangesPage([desk EXCEPT !.load.left = Tail(@), !.load.got = got])
      BY <2>3
    <3> DEFINE load == [desk.load EXCEPT !.left = Tail(@), !.got = got]
    <3>2. LoadOK(load)
      BY <1>1, <1>2, <2>1
    <3>3. WithLoad(load) = [desk EXCEPT !.load.left = Tail(@), !.load.got = got]
      BY <1>1 DEF PageOK
    <3> HIDE DEF load, LoadOK, WithLoad
    <3> QED BY <1>3, <3>1, <3>2, <3>3, PageChanges
  <2>4. CASE ChangesPage([desk EXCEPT !.load.left = Tail(@)])
    <3> DEFINE load == [desk.load EXCEPT !.left = Tail(@)]
    <3>2. LoadOK(load)
      BY <1>1, <1>2, <2>1
    <3>3. WithLoad(load) = [desk EXCEPT !.load.left = Tail(@)]
      BY <1>1 DEF PageOK
    <3> HIDE DEF load, LoadOK, WithLoad
    <3> QED BY <1>3, <2>4, <3>2, <3>3, PageChanges
  <2>5. CASE ChangesPage(WithLoad(NoLoad))
    BY <1>2, <1>3, <2>5, PageChanges
  <2>6. CASE ChangesPage([desk EXCEPT !.load.left = Tail(@),
                           !.load.got = IF issuer[i].revoked THEN @ ELSE Append(@, entry)])
    <3> DEFINE got == IF issuer[i].revoked THEN desk.load.got ELSE Append(desk.load.got, entry)
    <3>1. got \in Seq(ListEntry)
      BY <1>1, <2>2 DEF PageOK
    <3>2. [desk EXCEPT !.load.left = Tail(@), !.load.got = IF issuer[i].revoked THEN @ ELSE Append(@, entry)]
             = [desk EXCEPT !.load.left = Tail(@), !.load.got = got]
      BY <1>1 DEF PageOK
    <3> HIDE DEF got
    <3> QED BY <2>3, <2>6, <3>1, <3>2
  <2> QED BY <1>6, <2>4, <2>5, <2>6 DEF RecordAnswers, entry
<1>7. CASE ListAnswers
  <2> DEFINE got == desk.load.got
             chosen == IF got = <<>> THEN desk.form.issuer ELSE Preferred([n \in DOMAIN got |-> got[n].id])
             p == [desk EXCEPT !.load = NoLoad, !.issuers = got, !.form.issuer = chosen]
  <2>1. got \in Seq(ListEntry) /\ chosen \in Issuers \cup {None}
    BY <1>1, PreferredIsListed DEF PageOK
  <2> HIDE DEF chosen
  <2>2. PageOK(p)
    <3>1. /\ DOMAIN p = DOMAIN desk /\ p.load = NoLoad /\ p.issuers = got
          /\ p.form = [desk.form EXCEPT !.issuer = chosen]
      BY <1>1 DEF PageOK
    <3>2. DOMAIN p.form = DOMAIN desk.form /\ p.form.issuer = chosen
      BY <1>1, <3>1 DEF PageOK
    <3> HIDE DEF p
    <3> QED BY <1>1, <1>2, <2>1, <3>1, <3>2 DEF PageOK
  <2>3. ChangesPage(p)
    <3>1. p = [desk EXCEPT !.load = NoLoad, !.issuers = got,
                  !.form.issuer = IF got = <<>> THEN @ ELSE Preferred([n \in DOMAIN got |-> got[n].id])]
      BY <1>1 DEF PageOK, chosen
    <3> QED BY <1>7, <3>1 DEF ListAnswers
  <2> HIDE DEF p
  <2> QED BY <2>2, <2>3, PageChanges
<1>8. CASE FillsIn
  <2>1. ASSUME NEW n \in DOMAIN desk.issuers, ChangesPage([desk EXCEPT !.form.issuer = desk.issuers[n].id])
        PROVE  DeskInv'
    <3> DEFINE chosenForm == [desk.form EXCEPT !.issuer = desk.issuers[n].id]
    <3>1. desk.issuers[n].id \in Issuers
      <4>1. desk.issuers[n] \in ListEntry
        BY <1>1 DEF PageOK
      <4> QED BY <4>1 DEF ListEntry
    <3>2. FormOK(chosenForm)
      BY <1>2, <3>1
    <3>3. WithForm(chosenForm) = [desk EXCEPT !.form.issuer = desk.issuers[n].id]
      BY <1>1 DEF PageOK
    <3> HIDE DEF chosenForm, FormOK, WithForm
    <3> QED BY <1>4, <2>1, <3>2, <3>3, PageChanges
  <2>2. ASSUME NEW h, ChangesPage([desk EXCEPT !.form.holder = h])
        PROVE  DeskInv'
    <3> DEFINE chosenForm == [desk.form EXCEPT !.holder = h]
    <3>2. FormOK(chosenForm)
      BY <1>2
    <3>3. WithForm(chosenForm) = [desk EXCEPT !.form.holder = h]
      BY <1>1 DEF PageOK
    <3> HIDE DEF chosenForm, FormOK, WithForm
    <3> QED BY <1>4, <2>2, <3>2, <3>3, PageChanges
  <2>3. ASSUME NEW t, ChangesPage([desk EXCEPT !.form.type = t])
        PROVE  DeskInv'
    <3> DEFINE chosenForm == [desk.form EXCEPT !.type = t]
    <3>2. FormOK(chosenForm)
      BY <1>2
    <3>3. WithForm(chosenForm) = [desk EXCEPT !.form.type = t]
      BY <1>1 DEF PageOK
    <3> HIDE DEF chosenForm, FormOK, WithForm
    <3> QED BY <1>4, <2>3, <3>2, <3>3, PageChanges
  <2> QED BY <1>8, <2>1, <2>2, <2>3 DEF FillsIn
<1>9. \A q : PageOK([desk EXCEPT !.preview = q]) /\ \A n : PageOK([desk EXCEPT !.signed = q, !.request = n])
             /\ \A m : PageOK([desk EXCEPT !.request = m, !.preview = q, !.signed = q])
  BY <1>1 DEF PageOK
<1>10. CASE OnReview
  BY <1>9, <1>10, PageChanges DEF OnReview
<1>11. CASE OnBack
  BY <1>9, <1>11, PageChanges DEF OnBack
<1>12. CASE IssueAnswered
  BY <1>9, <1>12, PageChanges DEF IssueAnswered
<1>13. CASE OnConfirmIssue
  <2> DEFINE items == <<[issuer |-> desk.form.issuer, fault |-> "none"]>>
  <2>1. items \in Seq(Item) /\ Len(items) > 0
    BY <1>2 DEF Item
  <2> HIDE DEF items
  <2>2. PICK r \in SigningRequest : Sound(r) /\ signings' = Append(signings, r)
    <3>1. signings' = Append(signings, NewRequest("single", FALSE, items))
      BY <1>13 DEF OnConfirmIssue, items
    <3>2. FALSE \in BOOLEAN
      OBVIOUS
    <3>3. NewRequest("single", FALSE, items) \in SigningRequest /\ Sound(NewRequest("single", FALSE, items))
      BY <2>1, <3>2, NewRequestSound DEF DeskInv
    <3> QED BY <3>1, <3>3
  <2>3. UNCHANGED <<vars, vaultVars>> /\ Shows([desk EXCEPT !.signed = desk.form, !.request = Len(signings')])
    BY <1>13 DEF OnConfirmIssue
  <2>4. SigningsSound'
    BY <2>2, <2>3, RequestAdded DEF DeskInv, vars, registryVars, keyVars
  <2>5. PageOK(desk)'
    BY <1>9, <2>3, PageShown
  <2> QED BY <2>3, <2>4, <2>5 DEF DeskInv, RegistryKnown, VaultTyped, vars, registryVars, keyVars, listVars, vaultVars
<1>14. CASE IssuerWalletChanges
  <2>1. PICK w : Shows([desk EXCEPT !.wallet = w, !.load = [NoLoad EXCEPT !.at = "ids"]])
    BY <1>14 DEF IssuerWalletChanges
  <2> DEFINE load == [NoLoad EXCEPT !.at = "ids"]
  <2>2. PageOK([desk EXCEPT !.wallet = w, !.load = load])
    <3>1. LoadOK(load)
      BY <1>2
    <3> HIDE DEF load
    <3> QED BY <1>1, <3>1 DEF PageOK
  <2>3. PageOK(desk)' /\ UNCHANGED <<vars, vaultVars, signings>>
    BY <1>14, <2>1, <2>2, PageShown DEF IssuerWalletChanges
  <2>4. SigningsSound'
    BY <2>3, SigningsKept DEF DeskInv, vars, registryVars, keyVars
  <2> QED BY <2>3, <2>4 DEF DeskInv, RegistryKnown, VaultTyped, vars, registryVars, keyVars, listVars, vaultVars
<1> QED BY <1>5, <1>6, <1>7, <1>8, <1>10, <1>11, <1>12, <1>13, <1>14 DEF PageStep

\* The administrators change what the registry holds, and the requests under way see it
LEMMA RegistryKeeps ==
  ASSUME DeskInv, NEW issuers \in SUBSET Issuers, NEW typeSets \in SUBSET SUBSET CredTypes,
         RegistryChanges(issuers, typeSets)
  PROVE  DeskInv'
<1>1. PICK i \in issuers :
        \/ RevokeIssuer(Operator, i)
        \/ \E types \in typeSets : RegisterIssuer(Operator, i, issuer[i].pubkey, types)
        \/ \E k \in PubKeys : \/ RotateIssuerKey(Operator, i, k, now + MAX_KEY_RETENTION_SECS)
                              \/ RevokeIssuerKey(Operator, i, k)
  BY DEF RegistryChanges
<1>2. /\ issuer \in [Issuers -> IssuerRecord] /\ issuerList \in Seq(Issuers) /\ i \in Issuers
      /\ issuer[i] \in IssuerRecord
  BY DEF DeskInv, RegistryKnown
<1>3. RegistryKnown' /\ UNCHANGED now
  <2>1. CASE RevokeIssuer(Operator, i)
    <3>1. [issuer[i] EXCEPT !.revoked = TRUE] \in IssuerRecord
      BY <1>2 DEF IssuerRecord
    <3>2. issuer' = [issuer EXCEPT ![i] = [issuer[i] EXCEPT !.revoked = TRUE]] /\ UNCHANGED <<issuerList, now>>
      BY <2>1 DEF RevokeIssuer, listVars
    <3> QED BY <1>2, <3>1, <3>2 DEF RegistryKnown
  <2>2. ASSUME NEW types \in typeSets, RegisterIssuer(Operator, i, issuer[i].pubkey, types)
        PROVE  RegistryKnown' /\ UNCHANGED now
    <3>1. [pubkey |-> issuer[i].pubkey, credentialTypes |-> types, revoked |-> FALSE] \in IssuerRecord
      BY <1>2 DEF IssuerRecord
    <3>2. issuer' \in [Issuers -> IssuerRecord]
      BY <1>2, <2>2, <3>1 DEF RegisterIssuer
    <3>3. issuerList' = issuerList \/ issuerList' = Append(issuerList, i)
      BY <2>2 DEF RegisterIssuer
    <3>4. issuerList' \in Seq(Issuers)
      BY <1>2, <3>3
    <3> QED BY <2>2, <3>2, <3>4 DEF RegistryKnown, RegisterIssuer
  <2>3. ASSUME NEW k \in PubKeys, RotateIssuerKey(Operator, i, k, now + MAX_KEY_RETENTION_SECS)
        PROVE  RegistryKnown' /\ UNCHANGED now
    <3>1. [issuer[i] EXCEPT !.pubkey = k] \in IssuerRecord
      BY <1>2 DEF IssuerRecord
    <3>2. issuer' = [issuer EXCEPT ![i] = [issuer[i] EXCEPT !.pubkey = k]] /\ UNCHANGED <<issuerList, now>>
      BY <2>3 DEF RotateIssuerKey, listVars
    <3> QED BY <1>2, <3>1, <3>2 DEF RegistryKnown
  <2>4. ASSUME NEW k \in PubKeys, RevokeIssuerKey(Operator, i, k)
        PROVE  RegistryKnown' /\ UNCHANGED now
    BY <1>2, <2>4 DEF RevokeIssuerKey, RevokeCurrentKey, RevokeRetiredKey, listVars, RegistryKnown
  <2> QED BY <1>1, <2>1, <2>2, <2>3, <2>4
<1>4. KeysNow' \subseteq Issuers \X PubKeys
  <2>1. \A j \in Issuers : issuer'[j].pubkey \in PubKeys
    BY <1>3 DEF RegistryKnown, IssuerRecord
  <2> QED BY <2>1 DEF KeysNow
<1>5. SigningsSound'
  <2> DEFINE Later(r) == IF r.at = "done" THEN r ELSE [r EXCEPT !.seen = @ \cup KeysNow']
  <2>1. signings \in Seq(SigningRequest) /\ signings' = [n \in DOMAIN signings |-> Later(signings[n])]
    BY DEF RegistryChanges, Witnessed, DeskInv, SigningsSound
  <2>2. ASSUME NEW n \in DOMAIN signings
        PROVE  \E w \in SigningRequest : w = Later(signings[n]) /\ Sound(w)'
    <3>1. PICK r \in SigningRequest : r = signings[n] /\ Sound(r)
      BY DEF DeskInv, SigningsSound
    <3>2. CASE r.at = "done"
      <4>1. Sound(r)'
        BY <3>1, <3>2 DEF Sound
      <4> QED BY <3>1, <3>2, <4>1
    <3>3. CASE r.at # "done"
      <4>1. r \in OpenRequest
        BY <3>1, <3>3, OpenTyped DEF DeskInv
      <4>0. PICK w : w = [r EXCEPT !.seen = @ \cup KeysNow']
        OBVIOUS
      <4>2. /\ w \in OpenRequest /\ w.at = r.at /\ w.issued = r.issued /\ w.items = r.items
            /\ w.seen = r.seen \cup KeysNow' /\ w.checked = r.checked /\ w.key = r.key
            /\ w.tenant = r.tenant /\ w.route = r.route
        BY <1>4, <4>0, <4>1 DEF OpenRequest
      <4>3. Later(r) = w
        BY <3>3, <4>0
      <4>4. Sound(w)'
        BY <3>1, <3>3, <4>2 DEF Sound, IssuerOf
      <4>5. w \in SigningRequest
        BY <4>2 DEF SigningRequest
      <4> QED BY <3>1, <4>3, <4>4, <4>5
    <3> QED BY <3>2, <3>3
  <2>3. DOMAIN signings' = DOMAIN signings /\ \A n \in DOMAIN signings : signings'[n] = Later(signings[n])
    BY <2>1
  <2>4. signings' \in Seq(SigningRequest)
    <3>1. DOMAIN signings = 1 .. Len(signings) /\ Len(signings) \in Nat
      BY <2>1
    <3>2. signings' \in [1 .. Len(signings) -> SigningRequest]
      BY <2>1, <2>2, <3>1
    <3> QED BY <3>1, <3>2
  <2>5. \A n \in DOMAIN signings' : Sound(signings[n])'
    <3> TAKE n \in DOMAIN signings'
    <3>1. PICK w \in SigningRequest : w = Later(signings[n]) /\ Sound(w)'
      BY <2>2, <2>3
    <3>2. signings'[n] = w
      BY <2>3, <3>1
    <3> QED BY <3>1, <3>2
  <2> QED BY <2>4, <2>5 DEF SigningsSound
<1> QED BY <1>3, <1>5 DEF RegistryChanges, DeskInv, VaultTyped, PageOK, vaultVars

LEMMA OthersKeep ==
  ASSUME DeskInv, VaultChanges \/ TenantChanges \/ SignerRestarts \/ TimePasses
  PROVE  DeskInv'
<1>1. CASE VaultChanges
  <2>1. secret' \in [Paths -> SomeKey] /\ UNCHANGED <<vars, secretCache, signings, desk>>
    BY <1>1 DEF VaultChanges, DeskInv, VaultTyped, SomeKey
  <2>2. SigningsSound'
    BY <2>1, SigningsKept DEF DeskInv, vars, registryVars, keyVars
  <2> QED BY <2>1, <2>2 DEF DeskInv, RegistryKnown, VaultTyped, PageOK, vars, registryVars, keyVars, listVars
<1>2. CASE TenantChanges
  <2>1. UNCHANGED <<vars, secret, secretCache, signings, desk>>
    BY <1>2 DEF TenantChanges
  <2>2. SigningsSound'
    BY <2>1, SigningsKept DEF DeskInv, vars, registryVars, keyVars
  <2> QED BY <2>1, <2>2 DEF DeskInv, RegistryKnown, VaultTyped, PageOK, vars, registryVars, keyVars, listVars
<1>3. CASE SignerRestarts
  <2>1. UNCHANGED <<vars, secret, desk>> /\ secretCache' = [p \in Paths |-> Absent]
    BY <1>3 DEF SignerRestarts
  <2>2. Absent \in [key: SomeKey, until: Int]
    BY DEF Absent, SomeKey
  <2>3. secretCache' \in [Paths -> [key: SomeKey, until: Int]]
    BY <2>1, <2>2
  <2> DEFINE Now(r) == IF r.at = "done" THEN r ELSE EndedSigning(r, r.issued, "lost")
  <2>4. signings \in Seq(SigningRequest) /\ signings' = [n \in DOMAIN signings |-> Now(signings[n])]
    BY <1>3 DEF SignerRestarts, DeskInv, SigningsSound
  <2>5. ASSUME NEW n \in DOMAIN signings
        PROVE  Now(signings[n]) \in SigningRequest /\ Sound(Now(signings[n])) /\ Now(signings[n]).at = "done"
    <3>1. signings[n] \in SigningRequest /\ Sound(signings[n])
      BY DEF DeskInv, SigningsSound
    <3>2. CASE signings[n].at = "done"
      BY <3>1, <3>2
    <3>3. CASE signings[n].at # "done"
      <4>1. ToSet(signings[n].issued) \subseteq signings[n].seen
        BY <3>1, <3>3 DEF Sound
      <4>2. EndedSigning(signings[n], signings[n].issued, "lost").at = "done"
        BY DEF EndedSigning
      <4> QED BY <3>3, <4>1, <4>2, EndedSound
    <3> QED BY <3>2, <3>3
  <2> HIDE DEF Now
  <2>6. signings' \in Seq(SigningRequest)
    <3>1. DOMAIN signings = 1 .. Len(signings) /\ Len(signings) \in Nat
      BY <2>4
    <3>2. signings' \in [1 .. Len(signings) -> SigningRequest]
      BY <2>4, <2>5, <3>1
    <3> QED BY <3>1, <3>2
  <2>7. \A n \in DOMAIN signings' : Sound(signings[n])'
    <3> TAKE n \in DOMAIN signings'
    <3>1. signings'[n].at = "done" /\ Sound(signings'[n]) 
      BY <2>4, <2>5
    <3> QED BY <3>1 DEF Sound
  <2> QED BY <2>1, <2>3, <2>6, <2>7
      DEF DeskInv, RegistryKnown, VaultTyped, SigningsSound, PageOK, vars, registryVars, keyVars, listVars
<1>4. CASE TimePasses
  <2>1. now' \in Int /\ UNCHANGED <<issuer, issuerList, secret, secretCache, signings, desk>>
    BY <1>4 DEF TimePasses, Tick, registryVars, keyVars, listVars, deskVars, DeskInv
  <2>2. SigningsSound'
    BY <2>1, SigningsKept DEF DeskInv
  <2> QED BY <2>1, <2>2 DEF DeskInv, RegistryKnown, VaultTyped, PageOK
<1> QED BY <1>1, <1>2, <1>3, <1>4

\* The inductive invariant of the issuer desk: while a request is under way it has seen
\* every key the registry had, the ones it signed with, and the one it is to sign with
\* wherever its comparison (validate.ts) has found it (api/issue/batch/route.ts).
THEOREM DeskInvariant == DeskSpec => []DeskInv
<1>1. DeskInit => DeskInv
  <2> SUFFICES ASSUME DeskInit PROVE DeskInv
    OBVIOUS
  <2>1. issuerList \in Seq(Issuers)
    <3>1. ExistsBijection(1 .. Cardinality(Issuers), Issuers) /\ Cardinality(Issuers) \in Nat
      BY FS_NatBijection, FS_CardinalityType, FS_CountingElements, DeskAssumption DEF DeskAssumption
    <3>2. \E f \in [1 .. Cardinality(Issuers) -> Issuers] : IsInjective(f)
      BY <3>1 DEF ExistsBijection, Bijection, Injection, IsInjective
    <3>3. SetToSeq(Issuers) \in [1 .. Cardinality(Issuers) -> Issuers]
      BY <3>2 DEF SetToSeq
    <3> QED BY <3>1, <3>3 DEF DeskInit
  <2>2. \A i \in Issuers : issuer[i] \in IssuerRecord
    BY DeskAssumption DEF DeskInit, IssuerRecord, DeskAssumption
  <2>3. RegistryKnown
    BY <2>1, <2>2 DEF RegistryKnown, DeskInit
  <2>4. VaultTyped
    <3>1. secret \in [Paths -> SomeKey]
      BY DeskAssumption DEF DeskInit, SomeKey, DeskAssumption
    <3>2. Absent \in [key: SomeKey, until: Int]
      BY DEF Absent, SomeKey
    <3> QED BY <3>1, <3>2 DEF DeskInit, VaultTyped
  <2>5. PageOK(desk)
    <3> DEFINE load == [NoLoad EXCEPT !.at = "ids"]
               chosenForm == [NoForm EXCEPT !.type = CHOOSE t \in CredTypes : TRUE]
    <3>1. DOMAIN load = {"at", "left", "got"} /\ load.left = <<>> /\ load.got = <<>>
      BY DEF NoLoad
    <3>2. DOMAIN chosenForm = {"issuer", "holder", "type"} /\ chosenForm.issuer = None
      BY DEF NoForm
    <3>3. /\ DOMAIN desk = {"load", "issuers", "wallet", "form", "preview", "signed", "request"}
          /\ desk.load = load /\ desk.form = chosenForm /\ desk.issuers = <<>>
      BY DEF DeskInit
    <3> HIDE DEF load, chosenForm
    <3>4. <<>> \in Seq(Issuers) /\ <<>> \in Seq(ListEntry)
      OBVIOUS
    <3> QED BY <3>1, <3>2, <3>3, <3>4 DEF PageOK
  <2>6. SigningsSound /\ now \in Int
    <3>1. signings = <<>> /\ now = 0
      BY DEF DeskInit
    <3> QED BY <3>1 DEF SigningsSound
  <2> QED BY <2>3, <2>4, <2>5, <2>6 DEF DeskInv
<1>2. DeskInv /\ [IssuingNext \/ IssuerPageNext \/ StatusNext]_<<vars, deskVars>> => DeskInv'
  <2> SUFFICES ASSUME DeskInv, [IssuingNext \/ IssuerPageNext \/ StatusNext]_<<vars, deskVars>>
      PROVE  DeskInv'
    OBVIOUS
  <2>1. /\ {TenantIssuer} \in SUBSET Issuers /\ {} \in SUBSET SUBSET CredTypes
        /\ {{t} : t \in CredTypes} \in SUBSET SUBSET CredTypes /\ SUBSET CredTypes \in SUBSET SUBSET CredTypes
    BY DeskAssumption DEF DeskAssumption
  <2>2. CASE CheckStep \/ UNCHANGED <<vars, deskVars>>
    <3>1. UNCHANGED <<vars, vaultVars, signings, desk>>
      BY <2>2 DEF CheckStep, CheckIssuerStatus, IssuerAnswers, IssuerRecordAnswers, KeyAnswers, Rest, deskVars, vaultVars
    <3>2. SigningsSound'
      BY <3>1, SigningsKept DEF DeskInv, vars, registryVars, keyVars
    <3> QED BY <3>1, <3>2 DEF DeskInv, RegistryKnown, VaultTyped, PageOK, vars, registryVars, keyVars, listVars, vaultVars
  <2>3. CASE IssuingNext
    BY <2>1, <2>3, ReceiveKeeps, RequestsKeep, RegistryKeeps, OthersKeep DEF IssuingNext
  <2>4. CASE IssuerPageNext
    BY <2>1, <2>4, PageKeeps, RequestsKeep, RegistryKeeps DEF IssuerPageNext
  <2>5. CASE StatusNext
    BY <2>1, <2>2, <2>5, RegistryKeeps, OthersKeep DEF StatusNext
  <2> QED BY <2>2, <2>3, <2>4, <2>5
<1> QED BY <1>1, <1>2, PTL DEF DeskSpec

\* Whatever the key that signs falls back to, and whoever rotates meanwhile, what is
\* signed for an issuer is signed with a key the registry held for it since the request
\* came (issue/batch/route.ts, handlers/validate.ts).
THEOREM AlwaysSignedByRegistered == DeskSpec => []SignedByRegistered
<1>1. DeskInv => SignedByRegistered
  BY DEF DeskInv, SigningsSound, Sound, SignedByRegistered
<1> QED BY <1>1, DeskInvariant, PTL
-----------------------------------------------------------------------------
(* Links and presets                                                       *)

\* A request answers a link that names a claim: the type is the link's, a type
\* the form knows, and the parameters are the link's; the mode too as long as
\* the holder has changed nothing.
Answers(x) ==
    Locked(link) =>
        /\ x.type = link.claim /\ link.claim \in FormTypes
        /\ x.params.years = ParamsFromUrl(link).years
        /\ x.params.amount = ParamsFromUrl(link).amount
        /\ x.params.codes = link.restricted
        /\ link.claim = "jurisdiction" /\ form.flips = MaxFlips =>
              x.params.mode = IF link.mode = "" THEN "0" ELSE link.mode

\* The link is the one that was built, the form is open on its claim, and what
\* was sent for it, issued and returned to the page answers it.
RequestInv ==
    /\ formPage \in {"closed", "rejected", "open", "done"} /\ form.flips \in 0..MaxFlips
    /\ form = [type |-> form.type, issuer |-> form.issuer, mode |-> form.mode,
               busy |-> form.busy, flips |-> form.flips]
    /\ form.busy \in BOOLEAN
    /\ formPage # "closed" => \E n : link = BuildLink(wish, n)
    /\ link # Nothing => \E n : link = BuildLink(wish, n)
    /\ formPage \in {"open", "done"} /\ Locked(link) => form.type = link.claim
    /\ formPage \in {"open", "done"} /\ form.flips = MaxFlips =>
          form.mode = IF link.mode = "" THEN "0" ELSE link.mode
    /\ form.busy => formPage = "open" /\ Answers(sent)
    /\ issued # Nothing => formPage = "done" /\ Answers(issued)
    /\ witnessed # Nothing => formPage = "done"
    /\ LinkIsProved
-----------------------------------------------------------------------------
LEMMA InitRequestInv == LinkInit => RequestInv
<1> SUFFICES ASSUME LinkInit PROVE RequestInv
  OBVIOUS
<1>1. /\ form = [type |-> Nothing, issuer |-> Nothing, mode |-> "0", busy |-> FALSE, flips |-> MaxFlips]
      /\ formPage = "closed" /\ link = Nothing /\ issued = Nothing /\ witnessed = Nothing
  BY DEF LinkInit
<1>2. form.flips = MaxFlips /\ form.busy = FALSE /\ form.type = Nothing /\ form.issuer = Nothing /\ form.mode = "0"
  BY <1>1
<1>3. form.flips \in 0..MaxFlips
  BY <1>2, SharingAssumption DEF SharingAssumption
<1> QED BY <1>1, <1>2, <1>3 DEF RequestInv, LinkIsProved

\* The statement of a credential that answers a link is what the link asks.
LEMMA StatedAsWanted ==
  ASSUME NEW n, link = BuildLink(wish, n), NEW x, Answers(x), Locked(link)
  PROVE  /\ CircuitInputs(x).type = wish.claim
         /\ CircuitInputs(x).least = Wanted(wish)
         /\ wish.claim = "jurisdiction" =>
               /\ CircuitInputs(x).restricted = IF wish.codes = <<>> THEN DefaultRestricted
                                                ELSE CodesOf(wish.codes)
               /\ form.flips = MaxFlips =>
                     CircuitInputs(x).mode = IF wish.mode = "" THEN "0" ELSE wish.mode
<1>1. /\ link.claim = wish.claim /\ link.threshold_years = wish.years /\ link.threshold = wish.amount
      /\ link.min_threshold = wish.least /\ link.restricted = wish.codes /\ link.mode = wish.mode
  BY DEF BuildLink
<1>2. /\ x.type = wish.claim /\ wish.claim \in SdkTypes
      /\ x.params.years = ParamsFromUrl(link).years /\ x.params.amount = ParamsFromUrl(link).amount
      /\ x.params.codes = wish.codes
      /\ wish.claim = "jurisdiction" /\ form.flips = MaxFlips =>
            x.params.mode = IF wish.mode = "" THEN "0" ELSE wish.mode
  BY <1>1 DEF Answers, FormTypes
<1>3. /\ ParamsFromUrl(link).years = IF wish.years # "" THEN wish.years
                                     ELSE IF wish.claim = "age" THEN wish.least ELSE ""
      /\ ParamsFromUrl(link).amount =
            IF wish.amount # "" THEN wish.amount
            ELSE IF wish.claim \in {"funds", "income", "accreditation", "employment"} THEN wish.least ELSE ""
  BY <1>1 DEF ParamsFromUrl
<1>4. PICK given : given = IF x.type = "age" THEN x.params.years
                           ELSE IF x.type \in {"income", "funds", "accreditation", "employment"}
                           THEN x.params.amount ELSE ""
  OBVIOUS
<1>5. /\ CircuitInputs(x).type = x.type
      /\ CircuitInputs(x).least = (IF given = "" THEN DefaultThreshold(x.type) ELSE given)
      /\ CircuitInputs(x).restricted = (IF x.type # "jurisdiction" THEN {}
                        ELSE IF x.params.codes = <<>> THEN DefaultRestricted ELSE CodesOf(x.params.codes))
      /\ CircuitInputs(x).mode = (IF x.type # "jurisdiction" THEN "" ELSE IF x.params.mode = "" THEN "0" ELSE x.params.mode)
  BY <1>4 DEF CircuitInputs
<1>6. PICK want : want = IF wish.claim \notin ThresholdClaims THEN ""
                           ELSE IF (IF wish.claim = "age" THEN wish.years ELSE wish.amount) # ""
                           THEN (IF wish.claim = "age" THEN wish.years ELSE wish.amount) ELSE wish.least
  OBVIOUS
<1>7. Wanted(wish) = IF want = "" THEN DefaultThreshold(wish.claim) ELSE want
  BY <1>6 DEF Wanted
<1>8. given = want
  <2>1. CASE wish.claim = "age"
    BY <2>1, <1>2, <1>3, <1>4, <1>6 DEF ThresholdClaims
  <2>2. CASE wish.claim \in {"income", "funds", "accreditation"}
    BY <2>2, <1>2, <1>3, <1>4, <1>6 DEF ThresholdClaims
  <2>3. CASE wish.claim \in {"kyc", "jurisdiction"}
    BY <2>3, <1>2, <1>4, <1>6 DEF ThresholdClaims
  <2> QED BY <2>1, <2>2, <2>3, <1>2 DEF SdkTypes
<1>9. CircuitInputs(x).least = Wanted(wish)
  BY <1>2, <1>5, <1>7, <1>8
<1>10. wish.claim = "jurisdiction" /\ form.flips = MaxFlips =>
          CircuitInputs(x).mode = IF wish.mode = "" THEN "0" ELSE wish.mode
  BY <1>2, <1>5
<1> QED BY <1>2, <1>5, <1>9, <1>10

LEMMA NextRequestInv == RequestInv /\ [RequestNext]_requestVars => RequestInv'
<1> SUFFICES ASSUME RequestInv, [RequestNext]_requestVars PROVE RequestInv'
  OBVIOUS
<1>i. /\ formPage \in {"closed", "rejected", "open", "done"} /\ form.flips \in 0..MaxFlips
      /\ form = [type |-> form.type, issuer |-> form.issuer, mode |-> form.mode,
                 busy |-> form.busy, flips |-> form.flips]
      /\ form.busy \in BOOLEAN
      /\ formPage # "closed" => \E n : link = BuildLink(wish, n)
      /\ link # Nothing => \E n : link = BuildLink(wish, n)
      /\ formPage \in {"open", "done"} /\ Locked(link) => form.type = link.claim
      /\ formPage \in {"open", "done"} /\ form.flips = MaxFlips =>
            form.mode = IF link.mode = "" THEN "0" ELSE link.mode
      /\ form.busy => formPage = "open" /\ Answers(sent)
      /\ issued # Nothing => formPage = "done" /\ Answers(issued)
      /\ witnessed # Nothing => formPage = "done"
      /\ LinkIsProved
  BY DEF RequestInv
<1>n. MaxFlips \in Nat
  BY SharingAssumption DEF SharingAssumption
<1>k. form.flips \in 0..MaxFlips
  BY <1>i
\* Steps that leave the form, the page and the answers alone
<1>1. ASSUME UNCHANGED <<wish, link, formPage, form, issued, witnessed>>,
             sent' = sent
      PROVE  RequestInv'
  BY <1>1, <1>i DEF RequestInv, Answers, LinkIsProved
\* Steps of the form while it is open
<1>f. ASSUME UNCHANGED <<wish, link, formPage, sent, issued, witnessed>>, formPage = "open",
             NEW f, form' = f,
             f = [type |-> f.type, issuer |-> f.issuer, mode |-> f.mode, busy |-> f.busy, flips |-> f.flips],
             f.flips \in 0..MaxFlips, f.flips <= form.flips, f.busy \in BOOLEAN, f.busy => form.busy,
             Locked(link) => f.type = form.type,
             f.flips = MaxFlips => f.mode = form.mode
      PROVE  RequestInv'
  <2>1. f.flips = MaxFlips => form.flips = MaxFlips
    BY <1>f, <1>k, <1>n
  <2>2. Answers(sent) => Answers(sent)'
    BY <1>f, <2>1 DEF Answers
  <2>3. issued = Nothing /\ witnessed = Nothing
    BY <1>f, <1>i
  <2>4. LinkIsProved'
    BY <1>f, <2>3 DEF LinkIsProved
  <2> QED BY <1>f, <1>i, <2>1, <2>2, <2>3, <2>4 DEF RequestInv
<1>2. CASE LinkTime
  BY <1>2, <1>1 DEF LinkTime
<1>3. CASE Redirected
  <2>1. link = Nothing /\ link' = BuildLink(wish, clock) /\ UNCHANGED <<wish, formPage, form, sent, issued, witnessed>>
    BY <1>3 DEF Redirected
  <2>2. CASE formPage = "closed"
    <3>1. ~form.busy /\ issued = Nothing /\ witnessed = Nothing
      BY <2>2, <1>i
    <3> QED BY <2>1, <2>2, <3>1, <1>i DEF RequestInv, LinkIsProved
  <2>3. CASE formPage # "closed"
    <3>1. PICK n : link = BuildLink(wish, n)
      BY <2>3, <1>i
    <3>2. /\ link'.claim = link.claim /\ link'.mode = link.mode /\ link'.restricted = link.restricted
          /\ link'.threshold_years = link.threshold_years /\ link'.threshold = link.threshold
          /\ link'.min_threshold = link.min_threshold
      BY <2>1, <3>1 DEF BuildLink
    <3>3. Locked(link)' = Locked(link) /\ ParamsFromUrl(link)' = ParamsFromUrl(link)
      BY <3>2 DEF Locked, RequiredClaim, ParamsFromUrl
    <3>4. /\ (Answers(sent) => Answers(sent)') /\ (Answers(issued) => Answers(issued)')
          /\ (LinkIsProved => LinkIsProved')
      BY <2>1, <3>2, <3>3 DEF Answers, LinkIsProved
    <3> QED BY <2>1, <3>2, <3>3, <3>4, <1>i DEF RequestInv
  <2> QED BY <2>2, <2>3
<1>4. CASE OpenVerifyPage
  <2>1. /\ link # Nothing /\ formPage = "closed" /\ formPage' \in {"rejected", "open"}
        /\ UNCHANGED <<wish, link, sent, issued, witnessed>>
    BY <1>4 DEF OpenVerifyPage
  <2>2. PICK f : f = [form EXCEPT !.type = IF Locked(link) THEN RequiredClaim(link) ELSE "kyc",
                                  !.mode = IF link.mode = "" THEN "0" ELSE link.mode]
    OBVIOUS
  <2>3. form' = f
    BY <1>4, <2>2 DEF OpenVerifyPage
  <2>4. /\ f = [type |-> f.type, issuer |-> f.issuer, mode |-> f.mode, busy |-> f.busy, flips |-> f.flips]
        /\ f.busy = form.busy /\ f.flips = form.flips
        /\ f.type = (IF Locked(link) THEN RequiredClaim(link) ELSE "kyc")
        /\ f.mode = IF link.mode = "" THEN "0" ELSE link.mode
    BY <2>2, <1>i
  <2>5. Locked(link) => f.type = link.claim
    BY <2>4 DEF Locked, RequiredClaim
  <2>6. ~form.busy /\ issued = Nothing /\ witnessed = Nothing
    BY <2>1, <1>i
  <2>7. LinkIsProved'
    BY <2>1, <2>6 DEF LinkIsProved
  <2>8. \E n : link = BuildLink(wish, n)
    BY <2>1, <1>i
  <2> QED BY <2>1, <2>3, <2>4, <2>5, <2>6, <2>7, <2>8, <1>i DEF RequestInv
<1>5. CASE IssuersListed
  <2>1. PICK f : f = [form EXCEPT !.issuer = Redefault(Registry, form.type, form.issuer)]
    OBVIOUS
  <2>2. form' = f /\ formPage = "open" /\ UNCHANGED <<wish, link, formPage, sent, issued, witnessed>>
    BY <1>5, <2>1 DEF IssuersListed
  <2>3. /\ f = [type |-> f.type, issuer |-> f.issuer, mode |-> f.mode, busy |-> f.busy, flips |-> f.flips]
        /\ f.busy = form.busy /\ f.flips = form.flips /\ f.type = form.type /\ f.mode = form.mode
    BY <2>1, <1>i
  <2>4. f.flips \in 0..MaxFlips /\ f.flips <= form.flips
    BY <2>3, <1>k, <1>n
  <2> QED BY <2>2, <2>3, <2>4, <1>f, <1>i
\* What the holder changes counts as a flip
<1>a. ASSUME NEW g, Adjust(g), g.busy = form.busy, Locked(link) => g.type = form.type,
             g = [type |-> g.type, issuer |-> g.issuer, mode |-> g.mode, busy |-> g.busy, flips |-> g.flips]
      PROVE  RequestInv'
  <2>1. PICK f : f = [g EXCEPT !.flips = form.flips - 1]
    OBVIOUS
  <2>2. /\ form' = f /\ formPage = "open" /\ form.flips > 0
        /\ UNCHANGED <<wish, link, formPage, sent, issued, witnessed>>
    BY <1>a, <2>1 DEF Adjust
  <2>3. /\ f = [type |-> f.type, issuer |-> f.issuer, mode |-> f.mode, busy |-> f.busy, flips |-> f.flips]
        /\ f.busy = form.busy /\ f.flips = form.flips - 1 /\ f.type = g.type
    BY <1>a, <2>1
  <2>4. f.flips \in 0..MaxFlips /\ f.flips <= form.flips /\ f.flips # MaxFlips
    <3>1. form.flips > 0 /\ f.flips = form.flips - 1
      BY <2>2, <2>3
    <3> QED BY <3>1, <1>k, <1>n
  <2> QED BY <2>2, <2>3, <2>4, <1>a, <1>f, <1>i
<1>6. ASSUME NEW t \in AskedTypes, ChooseType(t) PROVE RequestInv'
  <2>1. PICK g : g = [form EXCEPT !.type = t, !.issuer = Redefault(listed, t, form.issuer)]
    OBVIOUS
  <2>2. ~Locked(link) /\ Adjust(g)
    BY <1>6, <2>1 DEF ChooseType
  <2>3. g = [type |-> g.type, issuer |-> g.issuer, mode |-> g.mode, busy |-> g.busy, flips |-> g.flips]
        /\ g.busy = form.busy
    BY <2>1, <1>i
  <2> QED BY <2>2, <2>3, <1>a
<1>7. ASSUME NEW id, ChooseIssuer(id) PROVE RequestInv'
  <2>1. PICK g : g = [form EXCEPT !.issuer = id]
    OBVIOUS
  <2>2. Adjust(g)
    BY <1>7, <2>1 DEF ChooseIssuer
  <2>3. g = [type |-> g.type, issuer |-> g.issuer, mode |-> g.mode, busy |-> g.busy, flips |-> g.flips]
        /\ g.busy = form.busy /\ g.type = form.type
    BY <2>1, <1>i
  <2> QED BY <2>2, <2>3, <1>a
<1>8. ASSUME NEW m, ChooseMode(m) PROVE RequestInv'
  <2>1. PICK g : g = [form EXCEPT !.mode = m]
    OBVIOUS
  <2>2. Adjust(g)
    BY <1>8, <2>1 DEF ChooseMode
  <2>3. g = [type |-> g.type, issuer |-> g.issuer, mode |-> g.mode, busy |-> g.busy, flips |-> g.flips]
        /\ g.busy = form.busy /\ g.type = form.type
    BY <2>1, <1>i
  <2> QED BY <2>2, <2>3, <1>a
<1>9. CASE RequestCredential
  <2>1. PICK p : p = IF form.type = "jurisdiction" THEN [ParamsFromUrl(link) EXCEPT !.mode = form.mode]
                     ELSE ParamsFromUrl(link)
    OBVIOUS
  <2>2. /\ sent'.type = form.type /\ sent'.params = p
        /\ formPage = "open" /\ FormFaultless(link) /\ issued = Nothing
        /\ form' = [form EXCEPT !.busy = TRUE] /\ UNCHANGED <<wish, link, formPage, issued, witnessed>>
    BY <1>9, <2>1 DEF RequestCredential, RequestOffered
  <2>3. /\ form'.type = form.type /\ form'.mode = form.mode /\ form'.flips = form.flips /\ form'.busy = TRUE
        /\ form' = [type |-> form'.type, issuer |-> form'.issuer, mode |-> form'.mode,
                    busy |-> form'.busy, flips |-> form'.flips]
    <3>1. PICK f : f = [form EXCEPT !.busy = TRUE]
      OBVIOUS
    <3>2. /\ f.type = form.type /\ f.mode = form.mode /\ f.flips = form.flips /\ f.busy = TRUE
          /\ f = [type |-> f.type, issuer |-> f.issuer, mode |-> f.mode, busy |-> f.busy, flips |-> f.flips]
      BY <3>1, <1>i
    <3> QED BY <2>2, <3>1, <3>2
  <2>4. /\ p.years = ParamsFromUrl(link).years /\ p.amount = ParamsFromUrl(link).amount
        /\ p.codes = link.restricted
        /\ form.type = "jurisdiction" => p.mode = form.mode
    BY <2>1 DEF ParamsFromUrl
  <2>5. Locked(link) => link.claim \in FormTypes
    <3>1. Locked(link) => link.claim \in CredentialTypes
      BY DEF Locked, RequiredClaim
    <3>2. link.claim \in FormTypes \union {""}
      BY <2>2 DEF FormFaultless
    <3> QED BY <3>1, <3>2 DEF CredentialTypes, SdkTypes
  <2>6. Answers(sent)'
    BY <2>2, <2>3, <2>4, <2>5, <1>i DEF Answers
  <2>7. witnessed = Nothing /\ LinkIsProved'
    BY <2>2, <1>i DEF LinkIsProved
  <2> QED BY <2>2, <2>3, <2>6, <2>7, <1>i DEF RequestInv
<1>10. CASE RequestIssued
  <2>1. PICK f : f = [form EXCEPT !.busy = FALSE]
    OBVIOUS
  <2>2. /\ form.busy /\ issued = Nothing /\ issued' = sent /\ form' = f /\ formPage' = "done"
        /\ UNCHANGED <<wish, link, sent, witnessed>>
    BY <1>10, <2>1 DEF RequestIssued
  <2>3. /\ f.type = form.type /\ f.mode = form.mode /\ f.flips = form.flips /\ f.busy = FALSE
        /\ f = [type |-> f.type, issuer |-> f.issuer, mode |-> f.mode, busy |-> f.busy, flips |-> f.flips]
    BY <2>1, <1>i
  <2>4. formPage = "open" /\ witnessed = Nothing /\ Answers(sent)
    BY <2>2, <1>i
  <2>5. Answers(issued)' /\ LinkIsProved'
    BY <2>2, <2>3, <2>4 DEF Answers, LinkIsProved
  <2> QED BY <2>2, <2>3, <2>4, <2>5, <1>i DEF RequestInv
<1>11. CASE RequestRefused
  <2>1. PICK f : f = [form EXCEPT !.busy = FALSE, !.flips = form.flips - 1]
    OBVIOUS
  <2>2. /\ form.busy /\ form.flips > 0 /\ form' = f
        /\ UNCHANGED <<wish, link, formPage, sent, issued, witnessed>>
    BY <1>11, <2>1 DEF RequestRefused
  <2>3. /\ f.type = form.type /\ f.mode = form.mode /\ f.flips = form.flips - 1 /\ f.busy = FALSE
        /\ f = [type |-> f.type, issuer |-> f.issuer, mode |-> f.mode, busy |-> f.busy, flips |-> f.flips]
    BY <2>1, <1>i
  <2>4. formPage = "open" /\ f.flips \in 0..MaxFlips /\ f.flips <= form.flips
    <3>1. form.flips > 0 /\ f.flips = form.flips - 1
      BY <2>2, <2>3
    <3>2. formPage = "open"
      BY <2>2, <1>i
    <3> QED BY <3>1, <3>2, <1>k, <1>n
  <2> QED BY <2>2, <2>3, <2>4, <1>f, <1>i
<1>12. CASE ReturnHome
  BY <1>12, <1>1 DEF ReturnHome
<1>13. CASE MakeWitness
  <2>1. /\ issued # Nothing /\ witnessed' = CircuitInputs(issued)
        /\ UNCHANGED <<wish, link, formPage, form, sent, issued>>
    BY <1>13 DEF MakeWitness
  <2>2. formPage = "done" /\ Answers(issued)
    BY <2>1, <1>i
  <2>3. PICK n : link = BuildLink(wish, n)
    BY <2>2, <1>i
  <2>4. LinkIsProved'
    BY <2>1, <2>2, <2>3, StatedAsWanted DEF LinkIsProved, Locked, RequiredClaim
  <2>5. (Answers(sent) => Answers(sent)') /\ Answers(issued)'
    BY <2>1, <2>2 DEF Answers
  <2> QED BY <2>1, <2>2, <2>4, <2>5, <1>i DEF RequestInv
<1>14. CASE UNCHANGED requestVars
  BY <1>14, <1>1 DEF requestVars
<1> QED
  BY <1>2, <1>3, <1>4, <1>5, <1>6, <1>7, <1>8, <1>9, <1>10, <1>11, <1>12, <1>13, <1>14 DEF RequestNext

\* The inductive invariant of the request that a link makes.
THEOREM RequestInvariant == RequestSpec => []RequestInv
BY InitRequestInv, NextRequestInv, PTL DEF RequestSpec

\* What is proved is what the link asks, for every registry, gate, number of
\* flips and moment.
THEOREM LinkIsAlwaysProved == RequestSpec => []LinkIsProved
<1>1. RequestInv => LinkIsProved
  BY DEF RequestInv
<1> QED BY <1>1, RequestInvariant, PTL
-----------------------------------------------------------------------------
\* A link made of a preset lists each of its claims once, with its minimum
LinkFaithful(l) ==
    l.preset # Nothing => \A t \in DOMAIN l.preset :
        \E c \in l.claims : /\ c.type = t /\ c.least = l.preset[t]
                            /\ \A d \in l.claims : d.type = t => d = c

\* What is answered with yes was proved, and meets the only minimum that is listed
AnswersTrue(answers, numbers) ==
    /\ DOMAIN numbers = DOMAIN answers
    /\ \A t \in DOMAIN answers : answers[t] =>
          /\ numbers[t] # "none"
          /\ \A c \in presetLink.claims : c.type = t /\ Alone(c) => Meets(numbers[t], c.least)

CheckShape(c) == c = [phase |-> c.phase, wallet |-> c.wallet, answers |-> c.answers, seen |-> c.seen]

\* A check reads the claims of the link, and says yes of none that was not met; its
\* verdict is over when the next one begins.
SharingInv ==
    /\ presets \subseteq PresetsOver
    /\ presetLink # Nothing => LinkFaithful(presetLink)
    /\ presetLink = Nothing => check.phase = "idle" /\ check.answers = <<>> /\ check.seen = <<>> /\ verdict = Nothing
    /\ CheckShape(check)
    /\ check.phase \in {"idle", "probing", "reading"}
    /\ check.phase # "idle" => verdict = Nothing /\ presetLink.claims # {}
    /\ AnswersTrue(check.answers, check.seen)
    /\ badge = [wallet |-> badge.wallet, shown |-> badge.shown, reading |-> badge.reading, truth |-> badge.truth]
    /\ SharedVerdictsAreEarned

LEMMA InitSharingInv == SharingInit => SharingInv
<1> SUFFICES ASSUME SharingInit PROVE SharingInv
  OBVIOUS
<1>1. /\ presets = {} /\ presetLink = Nothing /\ check = NoAnswers /\ verdict = Nothing
      /\ \E b \in BOOLEAN : badge = [wallet |-> b, shown |-> "loading", reading |-> b, truth |-> Nothing]
  BY DEF SharingInit
<1>2. check.phase = "idle" /\ check.answers = <<>> /\ check.seen = <<>> /\ CheckShape(check)
  BY <1>1 DEF NoAnswers, CheckShape
<1>3. badge = [wallet |-> badge.wallet, shown |-> badge.shown, reading |-> badge.reading, truth |-> badge.truth]
      /\ badge.shown = "loading"
  BY <1>1
<1>4. verdict # "verified"
  BY <1>1, SharingAssumption DEF SharingAssumption
<1>5. AnswersTrue(check.answers, check.seen)
  BY <1>2 DEF AnswersTrue
<1>6. SharedVerdictsAreEarned
  BY <1>3, <1>4 DEF SharedVerdictsAreEarned
<1> QED BY <1>1, <1>2, <1>3, <1>5, <1>6 DEF SharingInv

\* The link loses nothing of a preset.
LEMMA LinkCarriesPreset ==
  ASSUME NEW p \in PresetsOver, NEW l, l.preset = p, l.claims = DecodedLink(EncodedPreset(p))
  PROVE  LinkFaithful(l)
<1>1. PICK S \in SUBSET PresetTypes : p \in [S -> Minimums]
  BY DEF PresetsOver
<1> DEFINE Text(t) == IF p[t] = "" THEN "no colon" ELSE p[t]
<1>2. \A t \in DOMAIN p : t \in SdkTypes /\ LeastOf(Text(t)) = p[t]
  BY <1>1, SharingAssumption DEF SharingAssumption, Minimums, LeastOf
<1>3. \A c : c \in l.claims <=> \E t \in DOMAIN p : c = [type |-> t, least |-> p[t]]
  <2>1. \A e : e \in EncodedPreset(p) <=> \E t \in DOMAIN p : e = [type |-> t, text |-> Text(t)]
    BY DEF EncodedPreset
  <2>2. \A c : c \in l.claims <=>
           \E e : e \in EncodedPreset(p) /\ e.type \in SdkTypes /\ c = [type |-> e.type, least |-> LeastOf(e.text)]
    BY DEF DecodedLink
  <2>3. \A t \in DOMAIN p :
           LET e == [type |-> t, text |-> Text(t)] IN
           e.type \in SdkTypes /\ [type |-> e.type, least |-> LeastOf(e.text)] = [type |-> t, least |-> p[t]]
    BY <1>2
  <2> HIDE DEF Text
  <2>4. ASSUME NEW c, c \in l.claims PROVE \E t \in DOMAIN p : c = [type |-> t, least |-> p[t]]
    <3>1. PICK e : e \in EncodedPreset(p) /\ c = [type |-> e.type, least |-> LeastOf(e.text)]
      BY <2>2, <2>4
    <3>2. PICK t \in DOMAIN p : e = [type |-> t, text |-> Text(t)]
      BY <2>1, <3>1
    <3> QED BY <2>3, <3>1, <3>2
  <2>5. ASSUME NEW t \in DOMAIN p PROVE [type |-> t, least |-> p[t]] \in l.claims
    <3>1. PICK e : e = [type |-> t, text |-> Text(t)]
      OBVIOUS
    <3>2. e \in EncodedPreset(p) /\ e.type \in SdkTypes
          /\ [type |-> e.type, least |-> LeastOf(e.text)] = [type |-> t, least |-> p[t]]
      BY <2>1, <2>3, <3>1
    <3> QED BY <2>2, <3>2
  <2> QED BY <2>4, <2>5
<1>4. \A t \in DOMAIN p : \E c \in l.claims : /\ c.type = t /\ c.least = p[t]
                                              /\ \A d \in l.claims : d.type = t => d = c
  <2> TAKE t \in DOMAIN p
  <2> DEFINE c == [type |-> t, least |-> p[t]]
  <2>1. c \in l.claims /\ c.type = t /\ c.least = p[t]
    BY <1>3
  <2>2. \A d \in l.claims : d.type = t => d = c
    BY <1>3
  <2> QED BY <2>1, <2>2
<1> QED BY <1>4 DEF LinkFaithful

\* Only the minimum of a claim that is alone is asked of its type.
LEMMA MinimumOfAlone ==
  ASSUME NEW c \in presetLink.claims, Alone(c)
  PROVE  Minimum(c.type) = {c.least}
<1>1. {d.least : d \in {d \in presetLink.claims : d.type = c.type}} = {c.least}
  BY DEF Alone
<1> QED BY <1>1 DEF Minimum

LEMMA NextSharingInv == SharingInv /\ [SharingNext]_sharingVars => SharingInv'
<1> SUFFICES ASSUME SharingInv, [SharingNext]_sharingVars PROVE SharingInv'
  OBVIOUS
<1>i. /\ presets \subseteq PresetsOver
      /\ presetLink # Nothing => LinkFaithful(presetLink)
      /\ presetLink = Nothing => check.phase = "idle" /\ check.answers = <<>> /\ check.seen = <<>> /\ verdict = Nothing
      /\ CheckShape(check)
      /\ check.phase \in {"idle", "probing", "reading"}
      /\ check.phase # "idle" => verdict = Nothing /\ presetLink.claims # {}
      /\ AnswersTrue(check.answers, check.seen)
      /\ badge = [wallet |-> badge.wallet, shown |-> badge.shown, reading |-> badge.reading, truth |-> badge.truth]
      /\ SharedVerdictsAreEarned
  BY DEF SharingInv
<1>n. Nothing \notin {"unknown", "unverified", "verified"}
  BY SharingAssumption DEF SharingAssumption
<1>1. ASSUME UNCHANGED <<presetLink, check, verdict, badge>>, presets' \subseteq PresetsOver
      PROVE  SharingInv'
  BY <1>1, <1>i DEF SharingInv, SharedVerdictsAreEarned, LinkFaithful, CheckShape, AnswersTrue, Alone
<1>2. ASSUME NEW p \in PresetsOver, SavePreset(p) \/ RemovePreset(p) PROVE SharingInv'
  BY <1>2, <1>1, <1>i DEF SavePreset, RemovePreset
<1>3. ASSUME NEW l, presetLink = Nothing, presetLink' = l, LinkFaithful(l), UNCHANGED <<presets, check, verdict, badge>>
      PROVE  SharingInv'
  <2>1. check.phase = "idle" /\ check.answers = <<>> /\ check.seen = <<>> /\ verdict = Nothing
    BY <1>3, <1>i
  <2>2. SharedVerdictsAreEarned'
    BY <1>3, <2>1, <1>n, <1>i DEF SharedVerdictsAreEarned
  <2>3. AnswersTrue(check.answers, check.seen)'
    BY <1>3, <2>1 DEF AnswersTrue
  <2> QED BY <1>3, <2>1, <2>2, <2>3, <1>i DEF SharingInv, LinkFaithful, CheckShape
<1>4. ASSUME NEW p \in PresetsOver, OpenPresetLink(p) PROVE SharingInv'
  <2>1. PICK l : l = [preset |-> p, claims |-> DecodedLink(EncodedPreset(p))]
    OBVIOUS
  <2>2. LinkFaithful(l)
    BY <2>1, LinkCarriesPreset
  <2> QED BY <1>4, <2>1, <2>2, <1>3 DEF OpenPresetLink, OpenLink
<1>5. ASSUME NEW query \in HandmadeLinks, OpenHandmadeLink(query) PROVE SharingInv'
  <2>1. PICK l : l = [preset |-> Nothing, claims |-> DecodedLink(query)]
    OBVIOUS
  <2>2. LinkFaithful(l)
    BY <2>1 DEF LinkFaithful
  <2> QED BY <1>5, <2>1, <2>2, <1>3 DEF OpenHandmadeLink, OpenLink
<1>6. ASSUME NEW w, TypeWallet(w) PROVE SharingInv'
  BY <1>6, <1>1, <1>i DEF TypeWallet
\* Steps after which no verdict is shown, or one that claims nothing
<1>v. ASSUME UNCHANGED <<presets, presetLink, badge>>, presetLink # Nothing,
             verdict' \in {Nothing, "unknown", "unverified"}, NEW c, check' = c, CheckShape(c),
             c.phase \in {"idle", "probing", "reading"},
             c.phase # "idle" => verdict' = Nothing /\ presetLink.claims # {},
             AnswersTrue(c.answers, c.seen)
      PROVE  SharingInv'
  <2>1. SharedVerdictsAreEarned'
    BY <1>v, <1>n, <1>i DEF SharedVerdictsAreEarned
  <2>2. AnswersTrue(check.answers, check.seen)'
    BY <1>v DEF AnswersTrue, Alone
  <2> QED BY <1>v, <2>1, <2>2, <1>i DEF SharingInv, LinkFaithful, CheckShape
<1>7. CASE CheckPreset
  <2>1. PICK c : c = [NoAnswers EXCEPT !.phase = "probing", !.wallet = typed]
    OBVIOUS
  <2>2. /\ presetLink # Nothing /\ presetLink.claims # {} /\ check' = c /\ verdict' = Nothing
        /\ UNCHANGED <<presets, presetLink, badge>>
    BY <1>7, <2>1 DEF CheckPreset
  <2>3. c.phase = "probing" /\ c.answers = <<>> /\ c.seen = <<>> /\ CheckShape(c)
    BY <2>1 DEF NoAnswers, CheckShape
  <2>4. AnswersTrue(c.answers, c.seen)
    BY <2>3 DEF AnswersTrue
  <2> QED BY <2>2, <2>3, <2>4, <1>v
<1>p. ASSUME NEW phase, NEW c, c = [check EXCEPT !.phase = phase]
      PROVE  c.phase = phase /\ c.answers = check.answers /\ c.seen = check.seen /\ CheckShape(c)
  BY <1>p, <1>i DEF CheckShape
<1>8. CASE ProbeForPreset
  <2>1. /\ check.phase = "probing" /\ UNCHANGED <<presets, presetLink, badge>> /\ presetLink # Nothing
        /\ verdict = Nothing /\ presetLink.claims # {}
    BY <1>8, <1>i DEF ProbeForPreset
  <2>2. CASE reachable
    <3>1. PICK c : c = [check EXCEPT !.phase = "reading"]
      OBVIOUS
    <3>2. check' = c /\ UNCHANGED verdict
      BY <1>8, <2>2, <3>1 DEF ProbeForPreset
    <3> QED BY <2>1, <3>1, <3>2, <1>p, <1>v, <1>i
  <2>3. CASE ~reachable
    <3>1. PICK c : c = [check EXCEPT !.phase = "idle"]
      OBVIOUS
    <3>2. check' = c /\ verdict' = "unknown"
      BY <1>8, <2>3, <3>1 DEF ProbeForPreset
    <3> QED BY <2>1, <3>1, <3>2, <1>p, <1>v, <1>i
  <2> QED BY <2>2, <2>3
<1>9. ASSUME NEW t \in SdkTypes, AnswerClaim(t) PROVE SharingInv'
  <2> DEFINE number == ProvenBy(check.wallet, t)
  <2>1. PICK least \in Minimum(t) :
          check' = [check EXCEPT
             !.answers = [u \in DOMAIN @ \union {t} |-> IF u = t THEN reachable /\ Meets(number, least) ELSE @[u]],
             !.seen = [u \in DOMAIN @ \union {t} |-> IF u = t THEN number ELSE @[u]]]
    BY <1>9 DEF AnswerClaim
  <2>2. PICK a : a = [u \in DOMAIN check.answers \union {t} |->
                         IF u = t THEN reachable /\ Meets(number, least) ELSE check.answers[u]]
    OBVIOUS
  <2>3. PICK b : b = [u \in DOMAIN check.seen \union {t} |-> IF u = t THEN number ELSE check.seen[u]]
    OBVIOUS
  <2>4. PICK c : c = [check EXCEPT !.answers = a, !.seen = b]
    OBVIOUS
  <2>5. /\ check.phase = "reading" /\ check' = c
        /\ UNCHANGED <<presets, presetLink, verdict, badge>>
    BY <1>9, <2>1, <2>2, <2>3, <2>4 DEF AnswerClaim
  <2>6. presetLink # Nothing /\ verdict = Nothing /\ presetLink.claims # {}
    BY <2>5, <1>i
  <2>7. c.phase = "reading" /\ c.answers = a /\ c.seen = b /\ CheckShape(c)
    BY <2>4, <2>5, <1>i DEF CheckShape
  <2>8. /\ DOMAIN a = DOMAIN check.answers \union {t} /\ DOMAIN b = DOMAIN check.seen \union {t}
        /\ a[t] = (reachable /\ Meets(number, least)) /\ b[t] = number
        /\ \A u \in DOMAIN a : u # t => u \in DOMAIN check.answers /\ a[u] = check.answers[u]
        /\ \A u \in DOMAIN b : u # t => b[u] = check.seen[u]
    BY <2>2, <2>3
  <2> HIDE DEF number
  <2>9. AnswersTrue(a, b)
    <3>1. DOMAIN b = DOMAIN a
      BY <2>8, <1>i DEF AnswersTrue
    <3>2. ASSUME NEW u \in DOMAIN a, a[u]
          PROVE  /\ b[u] # "none"
                 /\ \A d \in presetLink.claims : d.type = u /\ Alone(d) => Meets(b[u], d.least)
      <4>1. CASE u = t
        <5>1. Meets(number, least) /\ b[u] = number
          BY <2>8, <3>2, <4>1
        <5>2. \A d \in presetLink.claims : d.type = u /\ Alone(d) => d.least = least
          BY <4>1, <2>1, MinimumOfAlone
        <5> QED BY <5>1, <5>2 DEF Meets
      <4>2. CASE u # t
        BY <4>2, <2>8, <3>1, <3>2, <1>i DEF AnswersTrue
      <4> QED BY <4>1, <4>2
    <3> QED BY <3>1, <3>2 DEF AnswersTrue
  <2> QED BY <2>5, <2>6, <2>7, <2>9, <1>v
<1>10. CASE ShowVerdict
  <2>1. PICK c : c = [check EXCEPT !.phase = "idle"]
    OBVIOUS
  <2>2. /\ check.phase = "reading" /\ Unread = {} /\ check' = c
        /\ verdict' = (IF AllValid(check.answers) THEN "verified" ELSE "unverified")
        /\ UNCHANGED <<presets, presetLink, badge>>
    BY <1>10, <2>1 DEF ShowVerdict
  <2>3. c.phase = "idle" /\ c.answers = check.answers /\ c.seen = check.seen /\ CheckShape(c)
    BY <2>1, <1>p
  <2>4. presetLink # Nothing /\ presetLink.claims # {} /\ LinkFaithful(presetLink)
    BY <2>2, <1>i
  <2>5. CASE AllValid(check.answers)
    <3>1. \A d \in presetLink.claims : d.type \in DOMAIN check.answers /\ check.answers[d.type]
      BY <2>2, <2>5 DEF Unread, Asked, AllValid
    <3>2. \A d \in presetLink.claims : /\ d.type \in DOMAIN check.seen /\ check.seen[d.type] # "none"
                                       /\ Alone(d) => Meets(check.seen[d.type], d.least)
      BY <3>1, <1>i DEF AnswersTrue
    <3>3. presetLink.preset # Nothing => \A t \in DOMAIN presetLink.preset :
             t \in DOMAIN check.seen /\ Meets(check.seen[t], presetLink.preset[t])
      BY <2>4, <3>2 DEF LinkFaithful, Alone
    <3>4. SharedVerdictsAreEarned
      BY <1>i
    <3>5. SharedVerdictsAreEarned'
      BY <2>2, <2>3, <2>4, <3>2, <3>3, <3>4 DEF SharedVerdictsAreEarned, Alone
    <3>6. AnswersTrue(check.answers, check.seen)'
      BY <2>2, <2>3, <1>i DEF AnswersTrue, Alone
    <3> QED BY <2>2, <2>3, <2>4, <3>5, <3>6, <1>i DEF SharingInv, LinkFaithful, CheckShape
  <2>6. CASE ~AllValid(check.answers)
    BY <2>2, <2>3, <2>4, <2>6, <1>v, <1>i
  <2> QED BY <2>5, <2>6
<1>11. ASSUME UNCHANGED <<presets, presetLink, check, verdict>>, NEW b, badge' = b,
              b = [wallet |-> b.wallet, shown |-> b.shown, reading |-> b.reading, truth |-> b.truth],
              b.wallet /\ b.shown \in {"verified", "unverified"} => b.shown = b.truth
       PROVE  SharingInv'
  BY <1>11, <1>i DEF SharingInv, SharedVerdictsAreEarned, LinkFaithful, CheckShape, AnswersTrue, Alone
<1>12. CASE BadgeOfNobody
  <2>1. PICK b : b = [badge EXCEPT !.shown = "unverified"]
    OBVIOUS
  <2>2. badge' = b /\ UNCHANGED <<presets, presetLink, check, verdict>> /\ ~badge.wallet
    BY <1>12, <2>1 DEF BadgeOfNobody
  <2>3. b = [wallet |-> b.wallet, shown |-> b.shown, reading |-> b.reading, truth |-> b.truth] /\ b.wallet = badge.wallet
    BY <2>1, <1>i
  <2> QED BY <2>2, <2>3, <1>11
<1>13. ASSUME NEW t, BadgeAnswered(t) PROVE SharingInv'
  <2>1. PICK b : b = [badge EXCEPT !.shown = BadgeOutcome(t), !.reading = FALSE,
                                   !.truth = IF proven[t] = "none" THEN "unverified" ELSE "verified"]
    OBVIOUS
  <2>2. badge' = b /\ UNCHANGED <<presets, presetLink, check, verdict>>
    BY <1>13, <2>1 DEF BadgeAnswered
  <2>3. /\ b = [wallet |-> b.wallet, shown |-> b.shown, reading |-> b.reading, truth |-> b.truth]
        /\ b.shown = BadgeOutcome(t) /\ b.truth = IF proven[t] = "none" THEN "unverified" ELSE "verified"
    BY <2>1, <1>i
  <2>4. b.shown \in {"verified", "unverified"} => b.shown = b.truth
    BY <2>3 DEF BadgeOutcome
  <2> QED BY <2>2, <2>3, <2>4, <1>11
<1>14. CASE BadgeRetries
  <2>1. PICK b : b = [badge EXCEPT !.shown = "loading", !.reading = TRUE]
    OBVIOUS
  <2>2. badge' = b /\ UNCHANGED <<presets, presetLink, check, verdict>>
    BY <1>14, <2>1 DEF BadgeRetries
  <2>3. b = [wallet |-> b.wallet, shown |-> b.shown, reading |-> b.reading, truth |-> b.truth] /\ b.shown = "loading"
    BY <2>1, <1>i
  <2> QED BY <2>2, <2>3, <1>11
<1>15. CASE NodeOrChainChanges
  BY <1>15, <1>1, <1>i DEF NodeOrChainChanges
<1>16. CASE UNCHANGED sharingVars
  BY <1>16, <1>1, <1>i DEF sharingVars
<1> QED
  BY <1>2, <1>4, <1>5, <1>6, <1>7, <1>8, <1>9, <1>10, <1>12, <1>13, <1>14, <1>15, <1>16 DEF SharingNext

\* The inductive invariant of presets, their check and badges.
THEOREM SharingInvariant == SharingSpec => []SharingInv
BY InitSharingInv, NextSharingInv, PTL DEF SharingSpec

\* "Verified" is earned, for every set of types and every link, however its text was
\* made, and whatever the node and the chain do.
THEOREM SharedVerdictsAlwaysEarned == SharingSpec => []SharedVerdictsAreEarned
<1>1. SharingInv => SharedVerdictsAreEarned
  BY DEF SharingInv
<1> QED BY <1>1, SharingInvariant, PTL
=============================================================================
