---------------------------- MODULE GatedServer ----------------------------
(***************************************************************************)
(* A protocol's server that gates a page on a claim: the wallet challenges *)
(* of the SDK (challenge.ts) with the reads they rest on, and the routes   *)
(* of the reference integration that issue a challenge, verify the signed  *)
(* answer, and serve what a session opens.  Requests overlap at every      *)
(* await; visitors double-click, retry, come late and switch accounts.     *)
(*                                                                         *)
(* A challenge is not made for a wallet, and a request states its own      *)
(* nonce, message, wallet and options: nothing on the server ties them.    *)
(***************************************************************************)
EXTENDS Integers, Sequences, FiniteSets

CONSTANTS
    Visitors,                   \* wallets
    Options,                    \* what requests have the registry check of a claim
    ChallengeTtl, SessionTtl,
    MaxChallenges, MaxPosts, MaxRecords, MaxServerTime, MaxRestarts    \* bounds

ASSUME TtlAssumption ==
    ChallengeTtl \in Nat \ {0} /\ SessionTtl \in Nat \ {0} /\ MaxServerTime \in Nat

\* An issuer among those trusted, a threshold reached: either, both or none
ASSUME OptionsAssumption == Options \subseteq SUBSET {"issuer", "threshold"}

VARIABLES
    serverTime,
    onChain,     \* ProofRegistry: the record of each wallet
    written,     \* records written so far
    challenges,  \* the challenges issued, each with the run of the process that did
    nonces,      \* MemoryChallengeStore: the nonces it holds
    posts,       \* POST /api/auth/verify, in the order they came
    tokens,      \* sessions, each named by the post it was granted to
    held,        \* history: the posts whose claim has held since they came
    restarts     \* which run of the process this is

gateVars == <<serverTime, onChain, written, challenges, nonces, posts, tokens, held, restarts>>

\* What a claim may lack, of what requests ask for: an issuer that is trusted, or the threshold
NoRecord == [revoked |-> FALSE, expiry |-> -1, lacks |-> "nothing"]
Lasting == [revoked |-> FALSE, expiry |-> MaxServerTime, lacks |-> "nothing"]

\* At first nobody has a claim, or one visitor
ServerInit ==
    /\ serverTime = 0 /\ written = 0 /\ restarts = 0
    /\ \E who \in Visitors, r \in {NoRecord, Lasting} : onChain = [w \in Visitors |-> IF w = who THEN r ELSE NoRecord]
    /\ challenges = <<>> /\ nonces = {} /\ posts = <<>> /\ tokens = {} /\ held = {}

---------------------------------------------------------------------------
\* The registry, and what the SDK reads of it

\* is_verified and check_claim, as the options of the request have them asked
Valid(r, asks) == ~r.revoked /\ r.expiry > serverTime /\ r.lacks \notin asks

\* The order in which checkClaimStatus looks for what is wrong
StatusOf(r, asks) ==
    CASE r = NoRecord           -> "not_verified"
      [] r.revoked              -> "revoked"
      [] r.expiry <= serverTime -> "expired"
      [] r.lacks \in asks       -> IF r.lacks = "issuer" THEN "wrong_issuer" ELSE "unmet_threshold"
      [] OTHER                  -> "verified"

\* A read that fails answers as if there were nothing, or throws if the request asks
\* for that
Reads(answer, failed) == {answer, failed, "throws"}

RecordChanges(w) ==
    /\ written < MaxRecords /\ written' = written + 1
    /\ \/ \E lacks \in {"nothing"} \union UNION Options, expiry \in serverTime + 1 .. MaxServerTime :
             onChain' = [onChain EXCEPT ![w] = [revoked |-> FALSE, expiry |-> expiry, lacks |-> lacks]]
       \/ /\ onChain[w] # NoRecord
          /\ onChain' = [onChain EXCEPT ![w].revoked = TRUE]
    /\ held' = held \union {p \in DOMAIN posts :
                     posts[p].at # "done" /\ Valid(onChain'[posts[p].wallet], posts[p].asks)}
    /\ UNCHANGED <<serverTime, challenges, nonces, posts, tokens, restarts>>

ServerTick ==
    /\ serverTime < MaxServerTime /\ serverTime' = serverTime + 1
    /\ UNCHANGED <<onChain, written, challenges, nonces, posts, tokens, held, restarts>>

---------------------------------------------------------------------------
\* Challenges

\* Both save and consume first drop what has expired
Unexpired == {n \in nonces : serverTime <= challenges[n].expiresAt}

\* GET /api/auth/challenge: the message names the nonce and when it expires
IssueChallenge ==
    /\ Len(challenges) < MaxChallenges
    /\ challenges' = Append(challenges, [expiresAt |-> serverTime + ChallengeTtl, run |-> restarts])
    /\ nonces' = Unexpired \union {Len(challenges) + 1}
    /\ UNCHANGED <<serverTime, onChain, written, posts, tokens, held, restarts>>

\* (Faulty: the nonce is looked up, and stays)
ConsumedNever(n) == Unexpired

\* consume: the nonces left once n has been taken
Consumed(n) == Unexpired \ {n}

---------------------------------------------------------------------------
\* POST /api/auth/verify

\* What a request carries: a nonce; a message, that of some challenge with its expiry,
\* or 0 for another text without one; a wallet, and whether it has signed this message,
\* now or at any time before; options
VerifyRequests == [nonce: DOMAIN challenges, message: {0} \union DOMAIN challenges,
                   wallet: Visitors, signed: BOOLEAN, asks: Options]

\* The expiry that came with the message
StatedExpired(m) == m # 0 /\ serverTime > challenges[m].expiresAt

\* verifyWalletClaim up to its first read of the chain, the nonce taken before anything
\* else is looked at: the reason to refuse, if there is one
Objection(r) ==
    IF r.nonce \notin Unexpired THEN "challenge_replayed"
    ELSE IF StatedExpired(r.message) THEN "challenge_expired"
    ELSE IF ~r.signed THEN "invalid_signature" ELSE "none"

\* What is left of a request that was refused
PostRefused(w, reason) == [nonce |-> 0, wallet |-> w, signed |-> FALSE, asks |-> {},
                           run |-> 0, taken |-> 0, at |-> "done", reply |-> reason]

\* The body has come: run and taken are history, the run of the process and the time
Post(r) ==
    /\ Len(posts) < MaxPosts
    /\ nonces' = Consumed(r.nonce)
    /\ IF Objection(r) # "none"
       THEN posts' = Append(posts, PostRefused(r.wallet, Objection(r))) /\ UNCHANGED held
       ELSE /\ posts' = Append(posts, [nonce |-> r.nonce, wallet |-> r.wallet, signed |-> r.signed,
                                       asks |-> r.asks, run |-> restarts, taken |-> serverTime,
                                       at |-> "hasClaim", reply |-> "none"])
            /\ held' = IF Valid(onChain[r.wallet], r.asks) THEN held \union {Len(posts')} ELSE held
    /\ UNCHANGED <<serverTime, onChain, written, challenges, tokens, restarts>>

Refuse(p, reason) == posts' = [posts EXCEPT ![p] = PostRefused(posts[p].wallet, reason)]
Await(p, read) == posts' = [posts EXCEPT ![p].at = read]

\* hasClaim has answered
ClaimAnswered(p) ==
    /\ posts[p].at = "hasClaim"
    /\ \E answer \in Reads(IF Valid(onChain[posts[p].wallet], posts[p].asks) THEN "holds" ELSE "no", "no") :
          CASE answer = "throws" -> Refuse(p, "on_chain_error")
            [] answer = "holds"  -> Await(p, "getClaims")
            [] OTHER             -> Await(p, "checkClaimStatus")
    /\ UNCHANGED <<serverTime, onChain, written, challenges, nonces, tokens, held, restarts>>

\* checkClaimStatus names the reason, if it finds one by then
StatusAnswered(p) ==
    /\ posts[p].at = "checkClaimStatus"
    /\ \E answer \in Reads(StatusOf(onChain[posts[p].wallet], posts[p].asks), "not_verified") :
          Refuse(p, IF answer \in {"verified", "throws"} THEN "not_verified" ELSE answer)
    /\ UNCHANGED <<serverTime, onChain, written, challenges, nonces, tokens, held, restarts>>

\* getClaims has answered, with the claim or, when it has ended meanwhile or could
\* not be read, without it: the session is granted in any case
Grant(p) ==
    /\ posts[p].at = "getClaims"
    /\ posts' = [posts EXCEPT ![p].at = "done", ![p].reply = "granted"]
    /\ tokens' = tokens \union {[post |-> p, until |-> serverTime + SessionTtl]}
    /\ UNCHANGED <<serverTime, onChain, written, challenges, nonces, held, restarts>>

---------------------------------------------------------------------------
\* GET /api/protected/treasury, and the process

\* A session that has expired is dropped by the request that finds it so; a token
\* that is not known is refused and changes nothing
OpenTreasury(t) ==
    /\ serverTime > t.until
    /\ tokens' = tokens \ {t}
    /\ UNCHANGED <<serverTime, onChain, written, challenges, nonces, posts, held, restarts>>

\* Nonces and sessions are kept in memory; requests under way are lost
Restart ==
    /\ restarts < MaxRestarts /\ restarts' = restarts + 1
    /\ nonces' = {} /\ tokens' = {}
    /\ posts' = [p \in DOMAIN posts |-> IF posts[p].at = "done" THEN posts[p] ELSE PostRefused(posts[p].wallet, "lost")]
    /\ UNCHANGED <<serverTime, onChain, written, challenges, held>>

ServerNext ==
    \/ ServerTick \/ Restart \/ IssueChallenge
    \/ \E w \in Visitors : RecordChanges(w)
    \/ \E r \in VerifyRequests : Post(r)
    \/ \E p \in DOMAIN posts : ClaimAnswered(p) \/ StatusAnswered(p) \/ Grant(p)
    \/ \E t \in tokens : OpenTreasury(t)

ServerSpec == ServerInit /\ [][ServerNext]_gateVars

---------------------------------------------------------------------------
\* Properties

ServerTypeOK ==
    /\ nonces \subseteq DOMAIN challenges
    /\ \A t \in tokens : t.post \in DOMAIN posts
    /\ \A p \in DOMAIN posts :
          posts[p].at \in {"hasClaim", "getClaims", "checkClaimStatus", "done"}

\* Whatever posts overlap, are repeated or come late, and whatever was restarted: a
\* session is granted to a wallet that signed what it sent, whose claim has held, as far
\* as the request asked, while the request was under way; for a nonce that this very run
\* of the process had issued and that had not expired; and no nonce opens a second
\* session (verifyWalletClaim, challenge.ts; POST /api/auth/verify)
SessionsAreEarned ==
    \A p \in DOMAIN posts : posts[p].reply = "granted" =>
        LET n == posts[p].nonce IN
        /\ posts[p].signed /\ p \in held
        /\ challenges[n].run = posts[p].run
        /\ posts[p].taken \in 0 .. challenges[n].expiresAt
        /\ \A q \in DOMAIN posts : posts[q].reply = "granted" /\ posts[q].nonce = n => q = p

\* That the message a wallet signed is the one of the nonce its request took cannot be
\* stated: the signature is checked over the message that was sent, and the nonce is the
\* one that was sent (challenge.ts:298-333), so that neither restricts the other here.

\* Not checked, for it does not hold: what a session opens ends with the claim it was
\* granted for.  The reference integration gives it an hour in any case (server.ts:313-318).
SessionEndsWithClaim ==
    \A t \in tokens : serverTime <= t.until => Valid(onChain[posts[t.post].wallet], posts[t.post].asks)
=============================================================================
