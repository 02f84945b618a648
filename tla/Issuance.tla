------------------------------ MODULE Issuance ------------------------------
(***************************************************************************)
(* Issuing a credential from the /verify page: single-use links, POST      *)
(* /api/issue, the identity inquiry at Persona with its webhook, and the   *)
(* page that resumes when the user comes back.  One tab, one link.         *)
(***************************************************************************)
EXTENDS Integers, Sequences, FiniteSets

CONSTANTS
    Inquiries,      \* inquiries Persona can create
    Expiries,       \* when the link may expire; 0 is never
    MaxPolls,       \* maxPollAttempts: 15
    MaxEvents, MaxHours      \* bounds

ASSUME LinkAssumption == Expiries \subseteq Nat

VARIABLES
    page,       \* where the page is, with the link or without, its inquiry, and the
                \* details its resume has loaded
    wallet,     \* a wallet is connected
    asked,     \* POST /api/issue of the form: none, of the page, of nobody's
    strays,     \* requests of a resume that was cancelled
    details,    \* sessionStorage: sc_persona_pending
    redirecting,    \* timers of redirectAfterIssue
    consumed,   \* sessionStorage: sc_verify_consumed, the entry of the link
    expires,    \* the expiry of the link
    time,
    inquiry,    \* Persona: the status of each inquiry
    events,     \* Persona: the events it delivers, once or more
    pending, results, processing, seen,     \* the maps of persona-webhook.ts
    handlers,   \* webhook requests at their await
    byWebhook,  \* history: issuances of the webhook
    forgotten,  \* history: the server has restarted, or evicted an entry
    used        \* history: the link has been consumed

tabVars == <<page, wallet, asked, strays, details, redirecting, consumed, expires, time, used>>
serverVars == <<pending, results, processing, seen, handlers, byWebhook, forgotten>>
personaVars == <<inquiry, events>>
issueVars == <<tabVars, serverVars, personaVars>>

Closed == [at |-> "closed", link |-> FALSE, of |-> "none", polls |-> 0, carries |-> FALSE]
NotConsumed == -1

IssueInit ==
    /\ page = Closed /\ wallet = FALSE /\ asked = "none" /\ strays = {}
    /\ details = FALSE /\ redirecting = {}
    /\ consumed = NotConsumed /\ expires \in Expiries /\ time = 1 /\ used = FALSE
    /\ inquiry = [q \in Inquiries |-> "none"] /\ events = <<>>
    /\ pending = {} /\ results = [q \in Inquiries |-> "none"]
    /\ processing = {} /\ seen = {} /\ handlers = {}
    /\ byWebhook = [q \in Inquiries |-> 0] /\ forgotten = FALSE

IssueTick ==
    /\ time < MaxHours /\ time' = time + 1
    /\ UNCHANGED <<page, wallet, asked, strays, details, redirecting, consumed,
                   expires, used, serverVars, personaVars>>

---------------------------------------------------------------------------
\* The page

Expired == expires # 0 /\ time >= expires

\* (Faulty: forgets an entry a second before its link expires)
PrunedEarly == IF consumed = 0 \/ consumed > time + 1 THEN consumed ELSE NotConsumed

\* pruneConsumed
Pruned == IF consumed = 0 \/ consumed > time THEN consumed ELSE NotConsumed

\* Opens /verify, with the link or without: its details of an inquiry are stale
OpenForm(link) ==
    /\ page.at = "closed"
    /\ LET refused == link /\ (Expired \/ Pruned # NotConsumed)
       IN page' = [Closed EXCEPT !.at = IF refused THEN "refused" ELSE "form", !.link = link]
    /\ consumed' = IF link /\ ~Expired THEN Pruned ELSE consumed
    /\ details' = FALSE
    /\ UNCHANGED <<wallet, asked, strays, redirecting, expires, time, used, serverVars, personaVars>>

\* Comes back from Persona, or opens that address again later
OpenReturn(q) ==
    /\ page.at \in {"closed", "persona"} /\ inquiry[q] # "none"
    /\ page.at = "persona" => page.of = q
    /\ page' = [Closed EXCEPT !.at = "returned", !.of = q]
    /\ UNCHANGED <<wallet, asked, strays, details, redirecting, consumed, expires, time,
                   used, serverVars, personaVars>>

\* What a resume has under way when it is cancelled
Cancelled ==
    CASE page.at = "resuming" -> strays \cup {<<"poll", page.of>>}
      [] page.at = "fallback" -> strays \cup {<<"issue", page.of>>}
      [] OTHER -> strays

\* By a link of the application, or by a reload, which stops timers and requests
LeaveVerify ==
    /\ page.at # "closed" /\ page' = Closed
    /\ asked' = IF asked = "page" THEN "nobody" ELSE asked
    /\ \/ strays' = Cancelled /\ UNCHANGED redirecting
       \/ strays' = {} /\ redirecting' = {}
    /\ UNCHANGED <<wallet, details, consumed, expires, time, used, serverVars, personaVars>>

WalletChanges ==
    /\ wallet' = ~wallet /\ strays' = Cancelled
    /\ page' = IF page.at \in {"resuming", "fallback"} THEN [page EXCEPT !.at = "returned", !.polls = 0, !.carries = FALSE]
               ELSE page
    /\ UNCHANGED <<asked, details, redirecting, consumed, expires, time, used, serverVars, personaVars>>

\* onRequest
Request ==
    /\ page.at = "form" /\ wallet /\ asked = "none"
    /\ page' = [page EXCEPT !.at = "asked"] /\ asked' = "page"
    /\ UNCHANGED <<wallet, strays, details, redirecting, consumed, expires, time, used, serverVars, personaVars>>

Ended(at) == [page EXCEPT !.at = at, !.polls = 0, !.carries = FALSE]

\* handleSuccess of the page that is there
Succeeds ==
    /\ page' = Ended("done")
    /\ redirecting' = redirecting \cup {page.link}

\* The credentials are issued at once
IssuesAtOnce ==
    /\ IF asked = "page" THEN Succeeds ELSE UNCHANGED <<page, redirecting>>
    /\ UNCHANGED <<details, pending, inquiry>>

\* A field, the issuer or its key is refused, or a provider cannot be reached
RefusesRequest ==
    /\ page' = IF asked = "page" THEN [page EXCEPT !.at = "form"] ELSE page
    /\ UNCHANGED <<redirecting, details, pending, inquiry>>

\* A new inquiry at Persona, whose return address has no link
SendsToPersona(q) ==
    /\ inquiry[q] = "none" /\ inquiry' = [inquiry EXCEPT ![q] = "created"]
    /\ pending' = pending \cup {q}
    /\ page' = IF asked = "page" THEN [page EXCEPT !.at = "persona", !.of = q] ELSE page
    /\ details' = IF asked = "page" THEN TRUE ELSE details
    /\ UNCHANGED redirecting

\* POST /api/issue without an inquiry
IssueAnswers ==
    /\ asked # "none" /\ asked' = "none"
    /\ IssuesAtOnce \/ RefusesRequest \/ (\E q \in Inquiries : SendsToPersona(q))
    /\ UNCHANGED <<wallet, strays, consumed, expires, time, used, results, processing, seen,
                   handlers, byWebhook, forgotten, events>>

\* performVerifyRedirect: consumes the link of the page that issued, and leaves
Redirect ==
    /\ \E link \in redirecting :
          /\ redirecting' = redirecting \ {link}
          /\ consumed' = IF link THEN expires ELSE consumed
          /\ used' = (used \/ link)
    /\ page' = Closed /\ strays' = Cancelled
    /\ asked' = IF asked = "page" THEN "nobody" ELSE asked
    /\ UNCHANGED <<wallet, details, expires, time, serverVars, personaVars>>

---------------------------------------------------------------------------
\* usePersonaResume

\* The details are taken out of the storage: another start has none
StartResume ==
    /\ page.at = "returned" /\ wallet
    /\ page' = [page EXCEPT !.at = "resuming", !.carries = details]
    /\ details' = FALSE
    /\ UNCHANGED <<wallet, asked, strays, redirecting, consumed, expires, time, used, serverVars, personaVars>>

ResumeFails == page' = Ended("failed") /\ UNCHANGED redirecting

\* GET /api/persona/result, or no answer of it
Poll ==
    /\ page.at = "resuming"
    /\ \/ results[page.of] = "completed" /\ Succeeds
       \/ results[page.of] = "failed" /\ ResumeFails
       \/ ResumeFails
       \/ /\ page' = IF page.polls + 1 < MaxPolls THEN [page EXCEPT !.polls = @ + 1]
                     ELSE [page EXCEPT !.at = "fallback", !.polls = 0]
          /\ results[page.of] = "none" /\ UNCHANGED redirecting
    /\ UNCHANGED <<wallet, asked, strays, details, consumed, expires, time, used, serverVars, personaVars>>

\* POST /api/issue with the inquiry: Persona has approved it, and not only
\* completed it; without the details it is refused
Fallback ==
    /\ page.at = "fallback"
    /\ \/ page.carries /\ inquiry[page.of] = "approved" /\ Succeeds
       \/ ResumeFails
    /\ UNCHANGED <<wallet, asked, strays, details, consumed, expires, time, used, serverVars, personaVars>>

\* The answer of a cancelled resume: a success is handled all the same
StrayAnswers ==
    /\ \E s \in strays :
          /\ strays' = strays \ {s}
          /\ \/ /\ s[1] = "poll" => results[s[2]] = "completed"
                /\ s[1] = "issue" => inquiry[s[2]] = "approved"
                /\ redirecting' = redirecting \cup {FALSE}
                /\ page' = IF page.of = s[2] THEN Ended("done") ELSE page
             \/ UNCHANGED <<redirecting, page>>
    /\ UNCHANGED <<wallet, asked, details, consumed, expires, time, used, serverVars, personaVars>>

---------------------------------------------------------------------------
\* Persona, and POST /api/persona/webhook

\* An inquiry is completed by the user and decided by Persona, at once or later;
\* the event of the completion may tell the decision already
InquiryMoves(q) ==
    /\ Len(events) < MaxEvents
    /\ \E to \in {"completed", "approved", "declined"} :
          /\ \/ inquiry[q] = "created"
             \/ inquiry[q] \in {"completed", "declined"} /\ to = "approved"
             \/ inquiry[q] = "completed" /\ to = "declined"
          /\ inquiry' = [inquiry EXCEPT ![q] = to]
          /\ \E name \in {to} \cup (IF inquiry[q] = "created" THEN {"completed"} ELSE {}) :
                events' = Append(events, [of |-> q, name |-> name, status |-> to])
    /\ UNCHANGED <<tabVars, serverVars>>

Processes(e) == events[e].name \in {"completed", "approved"} \/ events[e].status \in {"completed", "approved"}

\* (Faulty: an event that is processed only remembers itself)
MayBeginSeenOnly(e) == e \notin seen

\* beginInquiryProcessing
MayBegin(e) == e \notin seen /\ events[e].of \notin processing

\* An event of a declined inquiry ends without finishInquiryProcessing
Receive(e) ==
    LET q == events[e].of IN
    /\ Processes(e) /\ results[q] # "completed" /\ MayBegin(e)
    /\ processing' = processing \cup {q} /\ seen' = seen \cup {e}
    /\ IF events[e].status = "declined"
       THEN results' = [results EXCEPT ![q] = "failed"] /\ UNCHANGED handlers
       ELSE handlers' = handlers \cup {e} /\ UNCHANGED results
    /\ UNCHANGED <<tabVars, personaVars, pending, byWebhook, forgotten>>

\* The credentials are issued, by what was asked or, when that is forgotten,
\* by the defaults; or signing them has failed; or nobody is named to issue them to
HandlerEnds(e) ==
    LET q == events[e].of IN
    /\ e \in handlers /\ handlers' = handlers \ {e} /\ processing' = processing \ {q}
    /\ \/ /\ results' = [results EXCEPT ![q] = "completed"] /\ pending' = pending \ {q}
          /\ byWebhook' = [byWebhook EXCEPT ![q] = @ + 1]
       \/ results' = [results EXCEPT ![q] = "failed"] /\ UNCHANGED <<pending, byWebhook>>
       \/ q \notin pending /\ UNCHANGED <<results, pending, byWebhook>>
    /\ UNCHANGED <<tabVars, personaVars, seen, forgotten>>

\* evictExpired, fifteen minutes later
Evict(q) ==
    /\ ~forgotten /\ forgotten' = TRUE
    /\ \/ q \in pending /\ pending' = pending \ {q} /\ UNCHANGED results
       \/ results[q] # "none" /\ results' = [results EXCEPT ![q] = "none"] /\ UNCHANGED pending
    /\ UNCHANGED <<tabVars, personaVars, processing, seen, handlers, byWebhook>>

ServerRestarts ==
    /\ ~forgotten /\ forgotten' = TRUE
    /\ pending' = {} /\ results' = [q \in Inquiries |-> "none"]
    /\ processing' = {} /\ seen' = {} /\ handlers' = {}
    /\ UNCHANGED <<tabVars, personaVars, byWebhook>>

IssueNext ==
    \/ IssueTick \/ LeaveVerify \/ WalletChanges \/ Request \/ IssueAnswers \/ Redirect
    \/ \E link \in BOOLEAN : OpenForm(link)
    \/ StartResume \/ Poll \/ Fallback \/ StrayAnswers \/ ServerRestarts
    \/ \E q \in Inquiries : OpenReturn(q) \/ InquiryMoves(q) \/ Evict(q)
    \/ \E e \in DOMAIN events : Receive(e) \/ HandlerEnds(e)

IssueSpec == IssueInit /\ [][IssueNext]_issueVars
---------------------------------------------------------------------------
\* As long as the server remembers an inquiry its webhook issues for it once,
\* however its events (completed, approved, redelivered) arrive and overlap.
WebhookIssuesOnce == ~forgotten => \A q \in Inquiries : byWebhook[q] <= 1

\* "Single-use enforcement for verify links": once the link is consumed, the
\* tab never again offers to issue from it: the entry is kept for as long as the
\* link itself is not refused as expired.
UsedLinkStaysClosed == used => ~(page.link /\ page.at \in {"form", "asked"})
=============================================================================
