---------------------------- MODULE Onboarding ----------------------------
(***************************************************************************)
(* The guided tour (OnboardingWizard.tsx) over its saved progress          *)
(* (onboarding.ts) and the rules that open its steps                       *)
(* (onboarding-guidance.ts), with the nudge of the dashboard, a second     *)
(* copy of the progress (OnboardingNudge.tsx).                             *)
(*                                                                         *)
(* The tour reads the credential store and the issuer registry; both       *)
(* answer later, in any order, and the store also changes under it: the    *)
(* dashboard and other tabs write it too.                                  *)
(***************************************************************************)
EXTENDS Integers, Sequences, SequencesExt

CONSTANTS
    TourCreds,       \* credentials the holder may come to hold
    NoCred,
    Outcomes,        \* what a check of the registry may give
    MaxTourChanges,  \* bound: changes of store or wallet by others, reloads, resets
    MaxTourReads     \* bound: reads of a kind awaited

ASSUME TourAssumption ==
    /\ NoCred \notin TourCreds
    /\ Outcomes \subseteq {"active", "key_retired", "key_revoked", "issuer_revoked", "unknown",
                            "failed"}
    /\ MaxTourChanges \in Nat /\ MaxTourReads \in Nat \ {0}

VARIABLES
    tour,        \* the wizard's progress: [step, dismissed]
    savedTour,   \* the progress in localStorage
    nudge,       \* the dashboard's copy of the progress
    nudgeHidden,
    connected,   \* a wallet is connected
    held,        \* the credentials in the store, in order
    saving,      \* issued ones whose write has not happened
    loads,       \* reads of the store awaited, each with what it will answer
    shownCred,   \* the credential the wizard shows
    requesting,  \* a request to /api/issue is out
    trust,       \* [checked, running, status]
    trustReads,  \* checks of the registry awaited, by credential
    met,         \* history: conditions met since the tour began
    resumed,     \* history: the tour was resumed at a later step
    tourChanges  \* what is left of the bound

tourVars == <<tour, savedTour, nudge, nudgeHidden, connected, held, saving, loads, shownCred,
              requesting, trust, trustReads, met, resumed, tourChanges>>

\* ONBOARDING_STEPS, by index
Welcome == 0
ConnectWallet == 1
GetCredential == 2
VerifyTrust == 3
GenerateProof == 4
UnlockAccess == 5
TourSteps == Welcome..UnlockAccess

InitialTrust == [checked |-> FALSE, running |-> FALSE, status |-> "none"]
DefaultTour == [step |-> Welcome, dismissed |-> FALSE]

\* A visitor of an earlier version is spared the tour by the key it left
TourInit ==
    /\ savedTour \in {DefaultTour, [DefaultTour EXCEPT !.dismissed = TRUE]}
    /\ tour = savedTour /\ nudge = savedTour
    /\ nudgeHidden = FALSE
    /\ connected = FALSE
    /\ held = <<>> /\ saving = {} /\ shownCred = NoCred /\ requesting = FALSE
    /\ loads = IF savedTour.dismissed THEN <<>> ELSE <<NoCred>>
    /\ trust = InitialTrust /\ trustReads = <<>>
    /\ met = {} /\ resumed = FALSE
    /\ tourChanges = MaxTourChanges

---------------------------------------------------------------------------
(* The effects of the wizard.                                              *)

\* Faulty: the rail lets the visitor jump to any step.
ReachableAll(step) == TRUE

\* The rail: the steps up to the current one
Reachable(step) == step <= tour.step

\* canProceed: what "Next" asks of a step
CanProceed(step) ==
    CASE step = ConnectWallet -> connected
      [] step = GetCredential -> shownCred # NoCred
      [] step = VerifyTrust   -> trust.checked
      [] OTHER                -> TRUE

\* refreshCredential: the first age credential, which here is the first held
LoadCredentials == IF held = <<>> THEN NoCred ELSE Head(held)

\* The check starts by itself when the step, the credential or the wallet
\* changes, unless one was made or runs, as the render before the change saw it
ChecksItself(step, cred, wallet) ==
    /\ step = VerifyTrust /\ cred # NoCred /\ wallet
    /\ ~trust.checked /\ ~trust.running

StartCheck(base, cred) ==
    /\ trust' = [base EXCEPT !.running = TRUE, !.status = IF @ = "failed" THEN "none" ELSE @]
    /\ trustReads' = Append(trustReads, cred)

\* The wizard takes a new progress: showing it or changing its step reads the
\* store again
Goes(new) ==
    /\ tour' = new
    /\ IF ~new.dismissed /\ (tour.dismissed \/ new.step # tour.step)
       THEN Len(loads) < MaxTourReads /\ loads' = Append(loads, LoadCredentials)
       ELSE UNCHANGED loads
    /\ IF new.step # tour.step /\ ChecksItself(new.step, shownCred, connected)
       THEN Len(trustReads) < MaxTourReads /\ StartCheck(trust, shownCred)
       ELSE UNCHANGED <<trust, trustReads>>

\* Every move of the wizard is saved
GoesAndSaves(new) ==
    /\ Goes(new)
    /\ savedTour' = new
    /\ UNCHANGED <<nudge, nudgeHidden, connected, held, saving, shownCred, requesting, resumed,
                   tourChanges>>

Visible == ~tour.dismissed

---------------------------------------------------------------------------
NextStep ==
    /\ Visible /\ tour.step < UnlockAccess /\ CanProceed(tour.step)
    /\ GoesAndSaves([tour EXCEPT !.step = @ + 1])

PrevStep ==
    /\ Visible /\ tour.step > Welcome
    /\ GoesAndSaves([tour EXCEPT !.step = @ - 1])

GoToStep(step) ==
    /\ Visible /\ Reachable(step) /\ step # tour.step
    /\ GoesAndSaves([tour EXCEPT !.step = step])

\* Closed, skipped, finished, or left alone on the last step for ten seconds
Dismiss ==
    /\ Visible
    /\ GoesAndSaves([tour EXCEPT !.dismissed = TRUE])

\* The store answers: a new credential supersedes the result of the last check
LoadAnswers(i) ==
    /\ loads' = RemoveAt(loads, i)
    /\ shownCred' = loads[i]
    /\ LET base == IF loads[i] # shownCred THEN InitialTrust ELSE trust
       IN  IF ChecksItself(tour.step, loads[i], connected)
           THEN Len(trustReads) < MaxTourReads /\ StartCheck(base, loads[i])
           ELSE trust' = base /\ UNCHANGED trustReads
    /\ UNCHANGED <<tour, savedTour, nudge, nudgeHidden, connected, held, saving, requesting,
                   resumed, tourChanges>>

RequestCredential ==
    /\ Visible /\ tour.step = GetCredential
    /\ connected /\ shownCred = NoCred /\ ~requesting
    /\ requesting' = TRUE
    /\ UNCHANGED <<tour, savedTour, nudge, nudgeHidden, connected, held, saving, loads, shownCred,
                   trust, trustReads, resumed, tourChanges>>

\* The credentials are saved without waiting, and the store is read at once
Issued(c) ==
    /\ requesting /\ requesting' = FALSE
    /\ c \notin saving /\ ~\E i \in DOMAIN held : held[i] = c
    /\ saving' = saving \cup {c}
    /\ Len(loads) < MaxTourReads /\ loads' = Append(loads, LoadCredentials)
    /\ UNCHANGED <<tour, savedTour, nudge, nudgeHidden, connected, held, shownCred, trust,
                   trustReads, resumed, tourChanges>>

NotIssued ==
    /\ requesting /\ requesting' = FALSE
    /\ UNCHANGED <<tour, savedTour, nudge, nudgeHidden, connected, held, saving, loads, shownCred,
                   trust, trustReads, resumed, tourChanges>>

Saved(c) ==
    /\ c \in saving
    /\ saving' = saving \ {c}
    /\ held' = Append(held, c)
    /\ UNCHANGED <<tour, savedTour, nudge, nudgeHidden, connected, loads, shownCred, requesting,
                   trust, trustReads, resumed, tourChanges>>

\* The button of the step: the first run or one more
RunTrustCheck ==
    /\ Visible /\ tour.step = VerifyTrust
    /\ connected /\ shownCred # NoCred /\ ~trust.running
    /\ Len(trustReads) < MaxTourReads
    /\ StartCheck(trust, shownCred)
    /\ UNCHANGED <<tour, savedTour, nudge, nudgeHidden, connected, held, saving, loads, shownCred,
                   requesting, resumed, tourChanges>>

\* Any outcome counts as checked, a throw too: an unreachable registry does not
\* hold the visitor
TrustAnswers(i) ==
    /\ trustReads' = RemoveAt(trustReads, i)
    /\ \E status \in Outcomes :
          trust' = [checked |-> TRUE, running |-> FALSE, status |-> status]
    /\ UNCHANGED <<tour, savedTour, nudge, nudgeHidden, connected, held, saving, loads, shownCred,
                   requesting, resumed, tourChanges>>

---------------------------------------------------------------------------
(* The other copy, and what happens around the wizard.                     *)

NudgeShown == connected /\ ~nudgeHidden /\ nudge.step <= GenerateProof

\* resumeAt: the wizard hears of it by an event and loads what is saved; the
\* write is made by a state updater, which may run only after the event
ResumeAt(step) ==
    /\ NudgeShown
    /\ LET new == [step |-> step, dismissed |-> FALSE]
       IN  /\ savedTour' = new
           /\ \/ nudge' = new /\ Goes(new)
              \/ nudge' = savedTour /\ Goes(savedTour)
    /\ resumed' = TRUE
    /\ UNCHANGED <<nudgeHidden, connected, held, saving, shownCred, requesting, tourChanges>>

HideNudge ==
    /\ NudgeShown
    /\ nudgeHidden' = TRUE
    /\ UNCHANGED <<tour, savedTour, nudge, connected, held, saving, loads, shownCred, requesting,
                   trust, trustReads, resumed, tourChanges>>

\* The "Tour" button of the header: saved first, then announced
ResetOnboarding ==
    /\ tourChanges > 0 /\ tourChanges' = tourChanges - 1
    /\ savedTour' = DefaultTour /\ nudge' = DefaultTour
    /\ Goes(DefaultTour)
    /\ resumed' = FALSE
    /\ UNCHANGED <<nudgeHidden, connected, held, saving, shownCred, requesting>>

WalletComesOrGoes ==
    /\ tourChanges > 0 /\ tourChanges' = tourChanges - 1
    /\ connected' = ~connected
    /\ IF ChecksItself(tour.step, shownCred, connected')
       THEN Len(trustReads) < MaxTourReads /\ StartCheck(trust, shownCred)
       ELSE UNCHANGED <<trust, trustReads>>
    /\ UNCHANGED <<tour, savedTour, nudge, nudgeHidden, held, saving, loads, shownCred, requesting,
                   resumed>>

\* The dashboard or another tab puts a credential first or takes the first away
StoreChanges ==
    /\ tourChanges > 0 /\ tourChanges' = tourChanges - 1
    /\ \/ held # <<>> /\ held' = Tail(held)
       \/ \E c \in TourCreds \ saving :
             (\A i \in DOMAIN held : held[i] # c) /\ held' = <<c>> \o held
    /\ UNCHANGED <<tour, savedTour, nudge, nudgeHidden, connected, saving, loads, shownCred,
                   requesting, trust, trustReads, resumed>>

\* The page is loaded again; the wallet is restored later, if at all
ReloadTour ==
    /\ tourChanges > 0 /\ tourChanges' = tourChanges - 1
    /\ tour' = savedTour /\ nudge' = savedTour
    /\ connected' = FALSE /\ shownCred' = NoCred /\ saving' = {} /\ requesting' = FALSE
    /\ trust' = InitialTrust /\ trustReads' = <<>>
    /\ loads' = IF savedTour.dismissed THEN <<>> ELSE <<LoadCredentials>>
    /\ UNCHANGED <<savedTour, nudgeHidden, held, resumed>>

---------------------------------------------------------------------------
TourStep ==
    \/ NextStep \/ PrevStep \/ Dismiss
    \/ \E step \in TourSteps : GoToStep(step)
    \/ \E i \in DOMAIN loads : LoadAnswers(i)
    \/ RequestCredential \/ NotIssued
    \/ \E c \in TourCreds : Issued(c) \/ Saved(c)
    \/ RunTrustCheck
    \/ \E i \in DOMAIN trustReads : TrustAnswers(i)
    \/ ResumeAt(GenerateProof) \/ HideNudge
    \/ ResetOnboarding \/ WalletComesOrGoes \/ StoreChanges \/ ReloadTour

\* What has been true since the tour began, or began again
TourNext ==
    /\ TourStep
    /\ met' = (IF tourChanges' < tourChanges /\ tour' = DefaultTour /\ ~resumed' THEN {} ELSE met)
              \cup (IF connected' THEN {ConnectWallet} ELSE {})
              \cup (IF shownCred' # NoCred THEN {GetCredential} ELSE {})
              \cup (IF trust'.checked THEN {VerifyTrust} ELSE {})

TourSpec == TourInit /\ [][TourNext]_tourVars

---------------------------------------------------------------------------
\* Nobody is past a step whose condition was not met since the tour began,
\* through reloads, back and forth, and whatever the wallet and the store do
\* meanwhile; only the nudge may put a visitor further on (onboarding.ts,
\* OnboardingWizard.tsx, canProceed).
GatesArePassed ==
    ~resumed => \A step \in {ConnectWallet, GetCredential, VerifyTrust} :
                    tour.step > step => step \in met

\* Not checked: what the wizard shows is what is saved; an update made after
\* its event leaves the wizard as it was (onboarding.ts:145-158).
WizardShowsSaved == tour = savedTour

\* Not checked: the result of a check is about the credential shown, as the
\* comment of OnboardingWizard.tsx:802 says; the answer to a check of the old
\* credential arrives later and is shown under the new one.
NewCredentialSupersedes ==
    [][\A i \in DOMAIN trustReads :
          TrustAnswers(i) => trustReads[i] = shownCred]_tourVars

\* Not checked: once the store is quiet the wizard shows it, as the comment of
\* OnboardingWizard.tsx:796 says; the read after an issuance is made before the
\* save has happened.
GatesFollowStore ==
    Visible /\ loads = <<>> /\ saving = {}
        => shownCred = LoadCredentials
===========================================================================
