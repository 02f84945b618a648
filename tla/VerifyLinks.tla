----------------------------- MODULE VerifyLinks -----------------------------
(***************************************************************************)
(* What a link asks and what is answered to it.                            *)
(*                                                                         *)
(* A protocol asks for a claim with the SDK's link builder; the /verify    *)
(* page reads the link twice (one parser rejects it, another disables the  *)
(* form), the holder picks a type, an issuer and a mode, the request is    *)
(* posted, the credential issued for it carries the parameters, and the    *)
(* witness route turns those into the inputs of a circuit.  A holder also  *)
(* shares presets, lists of claims that somebody else's page checks, and   *)
(* embeds badges.  Single use and the identity provider are Issuance.      *)
(*                                                                         *)
(* A number in a link is text: RawNumbers has one of each kind that the    *)
(* validators tell apart, "" for an absent one.  Country codes are         *)
(* sequences of such texts, and a return URL is the kind it is of.         *)
(***************************************************************************)
EXTENDS Naturals, Sequences, FiniteSets

CONSTANTS
    AskedTypes,    \* claim types protocols ask for
    Registry,      \* /api/issuers: a sequence of [id, types, revoked]
    DemoIssuer,    \* NEXT_PUBLIC_ISSUER_ADDRESS
    Gates,         \* the trusted_issuers that links name, "malformed" among them
    PresetTypes,   \* claim types of presets
    HandmadeLinks, \* links to presets that no builder made, as sets of entries
    Nothing,       \* a model value: what is not there
    MaxOpen,       \* bound: ticks of the page's clock
    MaxFlips,      \* bound: times the holder changes type, issuer or mode
    MaxUpsets      \* bound: changes of the node or of the chain

VARIABLES
    wish, link, clock, formPage, form, listed, sent, issued, returned, witnessed,
    presets, presetLink, typed, check, verdict, badge, reachable, proven, upsetsLeft

requestVars == <<wish, link, clock, formPage, form, listed, sent, issued, returned, witnessed>>
sharingVars == <<presets, presetLink, typed, check, verdict, badge, reachable, proven, upsetsLeft>>
linkVars == <<requestVars, sharingVars>>

SdkTypes == {"kyc", "age", "income", "jurisdiction", "funds", "accreditation"}
CredentialTypes == SdkTypes \union {"employment"}

\* Presets are made of types that the SDK can check.
ASSUME SharingAssumption ==
    /\ PresetTypes \subseteq SdkTypes /\ PresetTypes # {} /\ MaxFlips \in Nat
    /\ Nothing \notin CredentialTypes \union {"unknown", "unverified", "verified"}

\* VALID_CLAIM_TYPES, "in sync with TYPE_META": it lacks employment.
FormTypes == SdkTypes

ThresholdClaims == {"age", "income", "funds", "accreditation"}

RawNumbers == {"", "word", "2.5", "-1", "0", "21", "151", "2^64"}
Whole == {"0", "21", "151", "2^64"}

CodeLists == {<<>>, <<"840", "364">>, <<"1000">>, <<"word">>,
              [i \in 1..9 |-> "840"]}
CodesOf(s) == {s[i] : i \in DOMAIN s}

-----------------------------------------------------------------------------
(* The builder. *)

AskPlain == [claim |-> "", years |-> "", amount |-> "", least |-> "", codes |-> <<>>,
             mode |-> "", gate |-> {}, back |-> "https", ticks |-> 0, state |-> TRUE]

\* What protocols ask: thresholds under each of the three names, countries
\* with a mode, issuers, and where and until when to come back.
Wishes == {[AskPlain EXCEPT !.claim = t, !.years = n]  : t \in AskedTypes \union {""}, n \in RawNumbers}
  \union {[AskPlain EXCEPT !.claim = t, !.amount = n] : t \in AskedTypes, n \in RawNumbers}
  \union {[AskPlain EXCEPT !.claim = t, !.least = n]  : t \in AskedTypes, n \in RawNumbers}
  \union {[AskPlain EXCEPT !.claim = "jurisdiction", !.codes = s, !.mode = m] :
             s \in CodeLists, m \in {"", "0", "1", "deny", "allow"}}
  \union {[AskPlain EXCEPT !.claim = "funds", !.gate = g] : g \in Gates}
  \union {[AskPlain EXCEPT !.claim = "age", !.back = b, !.ticks = n] :
             b \in {"path", "https", "httpHere", "httpElsewhere", "malformed"}, n \in 0..MaxOpen}

\* The query of the link: every field as it was asked, under the names that
\* the page reads; the expiry counts from now.
BuildLink(a, now) ==
    [return_url |-> a.back, claim |-> a.claim, threshold_years |-> a.years,
     threshold |-> a.amount, min_threshold |-> a.least, restricted |-> a.codes,
     mode |-> a.mode, trusted_issuers |-> a.gate, state |-> a.state,
     exp |-> IF a.ticks = 0 THEN 0 ELSE now + a.ticks]

-----------------------------------------------------------------------------
(* The page reads the link. *)

\* isValidReturnUrl, which rejects the link, against validateReturnUrl, which
\* only disables the form.
ReturnParsed(l) == l.return_url \in {"path", "https"}
ReturnAllowed(l) == l.return_url \in {"path", "https", "httpHere"}

Primary(l) ==
    LET own == IF l.claim = "age" THEN l.threshold_years ELSE l.threshold
    IN  IF own # "" THEN own ELSE l.min_threshold

LinkExpired(l, now) == l.exp # 0 /\ now >= l.exp

\* parseVerifyParams: the link is shown as unusable.
LinkRejected(l, now) ==
    \/ ~ReturnParsed(l)
    \/ l.claim # "" /\ l.claim \notin CredentialTypes
    \/ l.claim \in ThresholdClaims /\ Primary(l) \notin Whole \union {""}
    \/ \E c \in CodesOf(l.restricted) : c = "word"
    \/ LinkExpired(l, now)

NumberFits(n, most) == n \in {"", "21"} \union most
CodesFit(s) == Len(s) <= 8 /\ \A c \in CodesOf(s) : c \notin {"1000", "word"}

\* parseTrustedIssuersParam: no gate when none is named, or one is malformed.
Gate(l) == IF "malformed" \in l.trusted_issuers THEN {} ELSE l.trusted_issuers

\* validateVerifyParams: the form is shown with errors and without its button.
FormFaultless(l) ==
    /\ ReturnAllowed(l)
    /\ l.claim \in FormTypes \union {""}
    /\ NumberFits(l.threshold_years, {})
    /\ NumberFits(l.threshold, {"151", "2^64"})
    /\ CodesFit(l.restricted)
    /\ "malformed" \notin l.trusted_issuers

\* (Faulty: the shared name of the threshold is for financial claims only.)
ParamsSkipLeastAge(l) ==
    [years |-> l.threshold_years,
     amount |-> IF l.threshold # "" THEN l.threshold
                ELSE IF l.claim \in {"funds", "income", "accreditation", "employment"}
                     THEN l.min_threshold ELSE "",
     codes |-> l.restricted, mode |-> l.mode]

\* claimParamsFromUrl: what is posted is read from the link once more.
ParamsFromUrl(l) ==
    [years |-> IF l.threshold_years # "" THEN l.threshold_years
               ELSE IF l.claim = "age" THEN l.min_threshold ELSE "",
     amount |-> IF l.threshold # "" THEN l.threshold
                ELSE IF l.claim \in {"funds", "income", "accreditation", "employment"}
                     THEN l.min_threshold ELSE "",
     codes |-> l.restricted, mode |-> l.mode]

RequiredClaim(l) == IF l.claim \in CredentialTypes THEN l.claim ELSE Nothing
Locked(l) == RequiredClaim(l) # Nothing

-----------------------------------------------------------------------------
(* The holder's form. *)

EligibleIssuers(list, type) ==
    SelectSeq(list, LAMBDA i : ~i.revoked /\ type \in i.types)

IsProtocolAccepted(id, gate) == gate = {} \/ id \in gate

IdsOf(list) == {list[i].id : i \in DOMAIN list}

\* The first eligible issuer the protocol accepts, else the first one.
PickDefaultIssuer(list, gate) ==
    LET accepted == SelectSeq(list, LAMBDA i : IsProtocolAccepted(i.id, gate))
    IN  IF accepted # <<>> THEN accepted[1].id
        ELSE IF list # <<>> THEN list[1].id ELSE Nothing

\* The effect after every change of the eligible issuers.
Redefault(list, type, pick) ==
    LET eligible == EligibleIssuers(list, type)
    IN  IF pick \in IdsOf(eligible) THEN pick ELSE PickDefaultIssuer(eligible, Gate(link))

LinkInit ==
    /\ wish \in Wishes
    /\ link = Nothing /\ clock = 0 /\ formPage = "closed"
    /\ form = [type |-> Nothing, issuer |-> Nothing, mode |-> "0", busy |-> FALSE, flips |-> MaxFlips]
    /\ listed = <<>> /\ sent = Nothing /\ issued = Nothing /\ returned = Nothing
    /\ witnessed = Nothing

LinkTime ==
    /\ clock < MaxOpen
    /\ clock' = clock + 1
    /\ UNCHANGED <<wish, link, formPage, form, listed, sent, issued, returned, witnessed>>

Redirected ==
    /\ link = Nothing
    /\ link' = BuildLink(wish, clock)
    /\ UNCHANGED <<wish, clock, formPage, form, listed, sent, issued, returned, witnessed>>

OpenVerifyPage ==
    /\ link # Nothing /\ formPage = "closed"
    /\ formPage' = IF LinkRejected(link, clock) THEN "rejected" ELSE "open"
    /\ form' = [form EXCEPT !.type = IF Locked(link) THEN RequiredClaim(link) ELSE "kyc",
                            !.mode = IF link.mode = "" THEN "0" ELSE link.mode]
    /\ UNCHANGED <<wish, link, clock, listed, sent, issued, returned, witnessed>>

\* /api/issuers answers, before or after the holder goes on; a failed call
\* leaves the list empty.
IssuersListed ==
    /\ formPage = "open" /\ listed = <<>>
    /\ listed' = Registry
    /\ form' = [form EXCEPT !.issuer = Redefault(Registry, form.type, form.issuer)]
    /\ UNCHANGED <<wish, link, clock, formPage, sent, issued, returned, witnessed>>

Adjust(f) ==
    /\ formPage = "open" /\ form.flips > 0
    /\ form' = [f EXCEPT !.flips = form.flips - 1]
    /\ UNCHANGED <<wish, link, clock, formPage, listed, sent, issued, returned, witnessed>>

\* None of these waits for a request in flight.
ChooseType(t) ==
    /\ formPage = "open" /\ ~Locked(link) /\ t # form.type
    /\ Adjust([form EXCEPT !.type = t, !.issuer = Redefault(listed, t, form.issuer)])

ChooseIssuer(id) ==
    /\ id \in IdsOf(EligibleIssuers(listed, form.type)) /\ id # form.issuer
    /\ Adjust([form EXCEPT !.issuer = id])

\* Offered for jurisdiction, the link's mode or not.
ChooseMode(m) ==
    /\ form.type = "jurisdiction" /\ m # form.mode
    /\ Adjust([form EXCEPT !.mode = m])

RequestOffered == formPage = "open" /\ ~form.busy /\ FormFaultless(link)

RequestCredential ==
    /\ RequestOffered /\ issued = Nothing
    /\ sent' = [type |-> form.type, accepted |-> IsProtocolAccepted(
                    IF form.issuer # Nothing THEN form.issuer ELSE DemoIssuer, Gate(link)),
                byDemo |-> form.issuer = Nothing,
                params |-> IF form.type = "jurisdiction"
                           THEN [ParamsFromUrl(link) EXCEPT !.mode = form.mode]
                           ELSE ParamsFromUrl(link)]
    /\ form' = [form EXCEPT !.busy = TRUE]
    /\ UNCHANGED <<wish, link, clock, formPage, listed, issued, returned, witnessed>>

\* The credential carries the parameters of the request as they came.
RequestIssued ==
    /\ form.busy /\ issued = Nothing
    /\ issued' = sent
    /\ form' = [form EXCEPT !.busy = FALSE]
    /\ formPage' = "done"
    /\ UNCHANGED <<wish, link, clock, listed, sent, returned, witnessed>>

RequestRefused ==
    /\ form.busy /\ form.flips > 0
    /\ form' = [form EXCEPT !.busy = FALSE, !.flips = @ - 1]
    /\ UNCHANGED <<wish, link, clock, formPage, listed, sent, issued, returned, witnessed>>

\* resolveVerifyRedirect: the wallet, the verdict and the claims; the state
\* that the builder put into the link is not among them.
ReturnHome ==
    /\ formPage = "done" /\ returned = Nothing
    /\ returned' = [to |-> IF ReturnAllowed(link) THEN link.return_url ELSE "/holder",
                    claims |-> {issued.type} \intersect CredentialTypes, state |-> FALSE]
    /\ UNCHANGED <<wish, link, clock, formPage, form, listed, sent, issued, witnessed>>

-----------------------------------------------------------------------------
(* The witness route. *)

FitsU64(n) == n \in {"", "0", "21", "151"}

\* validateWitnessCredential, on the parameters of the type's circuit.
WitnessRefused(c) ==
    \/ c.type = "age" /\ ~FitsU64(c.params.years)
    \/ c.type \in {"income", "funds", "accreditation", "employment"} /\ ~FitsU64(c.params.amount)
    \/ c.type = "jurisdiction" /\ ~CodesFit(c.params.codes)

DefaultThreshold(type) ==
    CASE type = "age" -> "18" [] type = "income" -> "200000" [] type = "funds" -> "10000"
      [] type = "accreditation" -> "1000000" [] type = "employment" -> "the holder's own" [] OTHER -> ""

DefaultRestricted == {"840", "364", "408"}

\* buildInputs: the public statement of the type's circuit.
CircuitInputs(c) ==
    LET given == IF c.type = "age" THEN c.params.years
                 ELSE IF c.type \in {"income", "funds", "accreditation", "employment"}
                 THEN c.params.amount ELSE ""
    IN  [type |-> c.type,
         least |-> IF given = "" THEN DefaultThreshold(c.type) ELSE given,
         restricted |-> IF c.type # "jurisdiction" THEN {}
                        ELSE IF c.params.codes = <<>> THEN DefaultRestricted ELSE CodesOf(c.params.codes),
         mode |-> IF c.type # "jurisdiction" THEN "" ELSE IF c.params.mode = "" THEN "0" ELSE c.params.mode]

\* A mode is a field element for the circuit: a word does not execute.
Executes(inputs) == inputs.mode \in {"", "0", "1"}

\* Rate limits, an old circuit version, a node that gives no ledger time and
\* exhausted memory refuse a request without a trace: the holder may retry.
MakeWitness ==
    /\ issued # Nothing /\ witnessed = Nothing
    /\ ~WitnessRefused(issued) /\ Executes(CircuitInputs(issued))
    /\ witnessed' = CircuitInputs(issued)
    /\ UNCHANGED <<wish, link, clock, formPage, form, listed, sent, issued, returned>>

RequestNext ==
    \/ LinkTime \/ Redirected \/ OpenVerifyPage \/ IssuersListed
    \/ \E t \in AskedTypes : ChooseType(t)
    \/ \E i \in DOMAIN Registry : ChooseIssuer(Registry[i].id)
    \/ \E m \in {"0", "1"} : ChooseMode(m)
    \/ RequestCredential \/ RequestIssued \/ RequestRefused
    \/ ReturnHome \/ MakeWitness

RequestSpec == LinkInit /\ [][RequestNext]_requestVars

\* What the protocol asked for, as a statement of the circuit of that type: a
\* number under the name that belongs to the type, else under the shared one.
Wanted(a) ==
    LET own == IF a.claim = "age" THEN a.years ELSE a.amount
        given == IF a.claim \notin ThresholdClaims THEN "" ELSE IF own # "" THEN own ELSE a.least
    IN  IF given = "" THEN DefaultThreshold(a.claim) ELSE given

\* What is proved in answer to a link that names a claim is what the protocol
\* asked for, number and countries, whatever the holder did in the form; and
\* the mode, unless the holder changed it.  Builder, two validators, page,
\* request, credential and witness route each handle the parameters again.
LinkIsProved ==
    witnessed # Nothing /\ Locked(link) =>
        /\ witnessed.type = wish.claim
        /\ witnessed.least = Wanted(wish)
        /\ wish.claim = "jurisdiction" =>
              /\ witnessed.restricted = IF wish.codes = <<>> THEN DefaultRestricted
                                        ELSE CodesOf(wish.codes)
              /\ form.flips = MaxFlips => witnessed.mode = IF wish.mode = "" THEN "0" ELSE wish.mode

\* Every link the builder makes that the page does not reject can be answered:
\* the second validator agrees with the first.  It does not for employment, a
\* threshold of 0, an age above 150, four-digit or more than eight codes.
OpenLinkIsUsable == formPage = "open" => FormFaultless(link)

\* The state of the link comes back with the holder, as the builder promises.
StateComesBack == returned # Nothing /\ wish.state => returned.state

\* A request that a link limits to some issuers goes to one of them when one of
\* them is eligible, unless the holder chose otherwise.  A request made before
\* the issuers are listed goes to the demo issuer.
RequestByAcceptedIssuer ==
    sent # Nothing /\ form.flips = MaxFlips
        /\ (\E i \in DOMAIN EligibleIssuers(Registry, sent.type) :
                IsProtocolAccepted(EligibleIssuers(Registry, sent.type)[i].id, Gate(link)))
        => sent.accepted

\* Every mode that the builder documents has a proof.
DocumentedModesProvable ==
    issued # Nothing /\ issued.type = "jurisdiction" /\ wish.mode \in {"deny", "allow"}
        => Executes(CircuitInputs(issued))

-----------------------------------------------------------------------------
(* Presets, their check on another page, and badges.                       *)
(* A preset is a function from its claim types to the minimum of each, ""  *)
(* for none.  A link is a set of entries, a type with the text behind its  *)
(* colon, if it has one.  A claim of the holder on the chain is "none", or *)
(* has the number it was proved for; the other wallet has proved nothing.  *)

Minimums == {"", "18", "21", "2.5"}
PresetsOver == UNION {[S -> Minimums] : S \in (SUBSET PresetTypes) \ {{}}}

Written == Minimums \union {"no colon", "word"}
LinkEntries == [type: SdkTypes \union {"unknown"}, text: Written]
PresetClaims == [type: SdkTypes, least: Minimums]

ASSUME LinksAssumption == HandmadeLinks \subseteq SUBSET LinkEntries

\* check_claim, with the SDK's validation of the minimum in front: a fraction
\* is refused, and the refusal is an answer of "no".
Meets(number, least) ==
    /\ number # "none" /\ least # "2.5"
    /\ least = "21" => number = "21"

NoAnswers == [phase |-> "idle", wallet |-> "holder", answers |-> <<>>, seen |-> <<>>]

SharingInit ==
    /\ presets = {} /\ presetLink = Nothing /\ typed = "holder"
    /\ check = NoAnswers
    /\ verdict = Nothing
    /\ \E b \in BOOLEAN : badge = [wallet |-> b, shown |-> "loading", reading |-> b, truth |-> Nothing]
    /\ reachable = TRUE /\ upsetsLeft = MaxUpsets
    /\ proven \in [PresetTypes -> {"none", "18", "21"}]

\* savePreset puts the preset first and removePreset filters it out; the page
\* saves types that the SDK knows, and a minimum that is a number.
SavePreset(p) ==
    /\ presets = {} /\ presetLink = Nothing
    /\ presets' = {p}
    /\ UNCHANGED <<presetLink, typed, check, verdict, badge, reachable, proven, upsetsLeft>>

RemovePreset(p) ==
    /\ p \in presets
    /\ presets' = presets \ {p}
    /\ UNCHANGED <<presetLink, typed, check, verdict, badge, reachable, proven, upsetsLeft>>

\* encodePresetClaims
EncodedPreset(p) == {[type |-> t, text |-> IF p[t] = "" THEN "no colon" ELSE p[t]] : t \in DOMAIN p}

\* Number and Number.isFinite: what is no number is no minimum.
LeastOf(text) == IF text \in {"no colon", "", "word"} THEN "" ELSE text

\* (Faulty: only whole numbers are numbers.)
LeastWhole(text) == IF text \in {"no colon", "", "word", "2.5"} THEN "" ELSE text
DecodeWhole(query) == {[type |-> e.type, least |-> LeastWhole(e.text)] : e \in {e \in query : e.type \in SdkTypes}}

\* decodePresetClaims: a type the SDK does not know is dropped, and so is a
\* minimum that is no number, with the claim kept.
DecodedLink(query) == {[type |-> e.type, least |-> LeastOf(e.text)] : e \in {e \in query : e.type \in SdkTypes}}

OpenLink(preset, query) ==
    /\ presetLink = Nothing
    /\ presetLink' = [preset |-> preset, claims |-> DecodedLink(query)]
    /\ UNCHANGED <<presets, typed, check, verdict, badge, reachable, proven, upsetsLeft>>

OpenPresetLink(p) == p \in presets /\ OpenLink(p, EncodedPreset(p))
OpenHandmadeLink(query) == presets = {} /\ OpenLink(Nothing, query)

\* The field stays open to changes while a check runs and after it.
TypeWallet(w) ==
    /\ presetLink # Nothing /\ typed # w
    /\ typed' = w
    /\ UNCHANGED <<presets, presetLink, check, verdict, badge, reachable, proven, upsetsLeft>>

\* A link that names no claim offers no check.
CheckPreset ==
    /\ presetLink # Nothing /\ presetLink.claims # {}
    /\ check.phase = "idle" /\ upsetsLeft > 0
    /\ check' = [NoAnswers EXCEPT !.phase = "probing", !.wallet = typed]
    /\ verdict' = Nothing
    /\ upsetsLeft' = upsetsLeft - 1
    /\ UNCHANGED <<presets, presetLink, typed, badge, reachable, proven>>

\* The node is probed before the claims are read, so that an outage is not
\* taken for a rejection.
ProbeForPreset ==
    /\ check.phase = "probing"
    /\ IF reachable
       THEN check' = [check EXCEPT !.phase = "reading"] /\ UNCHANGED verdict
       ELSE check' = [check EXCEPT !.phase = "idle"] /\ verdict' = "unknown"
    /\ UNCHANGED <<presets, presetLink, typed, badge, reachable, proven, upsetsLeft>>

Asked == {c.type : c \in presetLink.claims}
Unread == Asked \ DOMAIN check.answers

\* verifyPreset: the minimum that a claim of this type states, the last one
\* when several do.
Minimum(t) ==
    LET stated == {c.least : c \in {c \in presetLink.claims : c.type = t}} \ {""}
    IN  IF stated = {} THEN {""} ELSE stated

ProvenBy(w, t) == IF w = "holder" /\ t \in PresetTypes THEN proven[t] ELSE "none"

\* hasClaims: all types are read at once and answer in any order; a failed
\* read is "no".
AnswerClaim(t) ==
    /\ check.phase = "reading" /\ t \in Unread
    /\ \E least \in Minimum(t) :
          check' = [check EXCEPT
             !.answers = [u \in DOMAIN @ \union {t} |->
                 IF u = t THEN reachable /\ Meets(ProvenBy(check.wallet, t), least) ELSE @[u]],
             !.seen = [u \in DOMAIN @ \union {t} |->
                 IF u = t THEN ProvenBy(check.wallet, t) ELSE @[u]]]
    /\ UNCHANGED <<presets, presetLink, typed, verdict, badge, reachable, proven, upsetsLeft>>

\* (Faulty: one claim is enough.)
SomeValid(answers) == \E t \in DOMAIN answers : answers[t]

\* verifyPreset: at least one claim, and every one of them.
AllValid(answers) == DOMAIN answers # {} /\ \A t \in DOMAIN answers : answers[t]

ShowVerdict ==
    /\ check.phase = "reading" /\ Unread = {}
    /\ verdict' = IF AllValid(check.answers) THEN "verified" ELSE "unverified"
    /\ check' = [check EXCEPT !.phase = "idle"]
    /\ UNCHANGED <<presets, presetLink, typed, badge, reachable, proven, upsetsLeft>>

\* A badge that names no wallet is "not verified" at once, without a read.
BadgeOfNobody ==
    /\ ~badge.wallet /\ badge.shown = "loading"
    /\ badge' = [badge EXCEPT !.shown = "unverified"]
    /\ UNCHANGED <<presets, presetLink, typed, check, verdict, reachable, proven, upsetsLeft>>

BadgeOutcome(t) ==
    IF ~reachable THEN "unknown" ELSE IF proven[t] = "none" THEN "unverified" ELSE "verified"

BadgeAnswered(t) ==
    /\ badge.reading
    /\ badge' = [badge EXCEPT !.shown = BadgeOutcome(t), !.reading = FALSE,
                              !.truth = IF proven[t] = "none" THEN "unverified" ELSE "verified"]
    /\ UNCHANGED <<presets, presetLink, typed, check, verdict, reachable, proven, upsetsLeft>>

\* The timer that runs while the badge is unknown, or the embedder's reload.
BadgeRetries ==
    /\ badge.shown = "unknown"
    /\ badge' = [badge EXCEPT !.shown = "loading", !.reading = TRUE]
    /\ UNCHANGED <<presets, presetLink, typed, check, verdict, reachable, proven, upsetsLeft>>

NodeOrChainChanges ==
    /\ upsetsLeft > 0
    /\ upsetsLeft' = upsetsLeft - 1
    /\ \/ reachable' = ~reachable /\ UNCHANGED proven
       \/ \E t \in PresetTypes, n \in {"none", "21"} :
             n # proven[t] /\ proven' = [proven EXCEPT ![t] = n] /\ UNCHANGED reachable
    /\ UNCHANGED <<presets, presetLink, typed, check, verdict, badge>>

SharingNext ==
    \/ \E p \in PresetsOver : SavePreset(p) \/ RemovePreset(p) \/ OpenPresetLink(p)
    \/ \E query \in HandmadeLinks : OpenHandmadeLink(query)
    \/ \E w \in {"holder", "other"} : TypeWallet(w)
    \/ CheckPreset \/ ProbeForPreset \/ ShowVerdict
    \/ \E t \in SdkTypes : AnswerClaim(t)
    \/ BadgeOfNobody \/ BadgeAnswered(CHOOSE t \in PresetTypes : TRUE) \/ BadgeRetries
    \/ NodeOrChainChanges

SharingSpec == SharingInit /\ [][SharingNext]_sharingVars

\* The claim is the only one of its type that the page lists.
Alone(c) == \A d \in presetLink.claims : d.type = c.type => d = c

\* "Verified" is shown on a preset's page only when the wallet the check was
\* begun for had met every claim the page lists when that claim was read, there
\* is at least one, and, for a link made of a preset, every claim the holder
\* saved, with its minimum.  (Of claims of one type with two minimums one only
\* is read.)  And a badge that names a wallet shows a verdict, negative ones
\* included, only from a read that was answered.
SharedVerdictsAreEarned ==
    /\ verdict = "verified" =>
          /\ presetLink.claims # {}
          /\ \A c \in presetLink.claims :
                /\ check.seen[c.type] # "none"
                /\ Alone(c) => Meets(check.seen[c.type], c.least)
          /\ presetLink.preset # Nothing =>
                \A t \in DOMAIN presetLink.preset :
                    t \in DOMAIN check.seen /\ Meets(check.seen[t], presetLink.preset[t])
    /\ badge.wallet /\ badge.shown \in {"verified", "unverified"} => badge.shown = badge.truth

\* Not checked, for they do not hold: the page lists every entry and calls all
\* of them verified, of which the SDK read one of each type; and it says so
\* under a field whose wallet may have been changed since.
EveryListedIsMet ==
    verdict = "verified" => \A c \in presetLink.claims : Meets(check.seen[c.type], c.least)
VerdictIsOfTyped == verdict = "verified" => typed = check.wallet

\* An outage is never shown as a rejection on the preset's page.  It is when the
\* node fails after the probe.
OutageIsNoRejection ==
    verdict = "unverified" => \E c \in presetLink.claims : ~Meets(check.seen[c.type], c.least)

LinksTypeOK ==
    /\ formPage \in {"closed", "rejected", "open", "done"}
    /\ form.type \in CredentialTypes \union {Nothing} /\ form.flips \in 0..MaxFlips
    /\ verdict \in {Nothing, "unknown", "verified", "unverified"}
=============================================================================
