--------------------------- MODULE HolderSession ---------------------------
(***************************************************************************)
(* What a page of the web application knows of its visitor: the connected  *)
(* wallet (wallet-context.tsx over wallet.ts), whether the wallet is on    *)
(* the application's network, whether the RPC node answers                 *)
(* (rpc-health.ts), and whether the wallet meets the requirements of a     *)
(* protocol (use-protocol-access.ts over contract-simulation.ts).          *)
(*                                                                         *)
(* The four are effects that start reads and write what comes back; every  *)
(* read here is answered later, in any order.  A wallet holds one account  *)
(* and is named by it; a protocol has one requirement.                     *)
(***************************************************************************)
EXTENDS Integers, Sequences, SequencesExt

CONSTANTS
    Accounts,          \* the wallets a visitor may connect
    Extensions,        \* those that are browser extensions, and may be missing
    NoAccount,
    Proved,            \* the accounts with a valid claim on chain
    Links,             \* the accounts a page's address may carry as sc_wallet
    MaxConnects,       \* bound: times the wallet picker is opened
    MaxUpsets,         \* bound: reloads, network changes and outages together
    MaxPending         \* bound: answers awaited of a kind

ASSUME SessionAssumption ==
    /\ NoAccount \notin Accounts
    /\ Extensions \subseteq Accounts
    /\ Proved \subseteq Accounts /\ Links \subseteq Accounts \cup {NoAccount}
    /\ MaxConnects \in Nat /\ MaxUpsets \in Nat /\ MaxPending \in Nat \ {0}

VARIABLES
    \* wallet-context.tsx and the kit behind wallet.ts
    address,       \* the connected account
    savedWallet,   \* localStorage: the wallet to restore after a reload
    walletKit,      \* the wallet kit, loaded on first use: the outcome is kept
    kitWallet,     \* the wallet the kit has selected
    restoring,     \* the wallet a reload is restoring
    attempt,       \* connect(): [phase, wallet]
    walletError,   \* kind of the last failed connect, or "none"
    \* the wallet's network
    offNetwork,    \* the wallets set to another network
    networkReads,  \* answers awaited from getNetwork
    mismatch,      \* the warning shown
    \* rpc-health.ts
    nodeUp,
    probes,        \* answers awaited from getLatestLedger: did the node answer
    health,        \* "unchecked", "ok" or "degraded"
    \* use-protocol-access.ts
    linkAccount,   \* the sc_wallet of the page's address
    checks,        \* runs of the effect that have not ended
    verdict,       \* what the card shows
    readBy,        \* the read behind the verdict: [who, found]
    connects, upsets  \* what is left of the bounds

walletVars == <<address, savedWallet, walletKit, kitWallet, restoring, attempt, walletError>>
networkVars == <<offNetwork, networkReads, mismatch>>
healthVars == <<nodeUp, probes, health>>
accessVars == <<linkAccount, checks, verdict, readBy>>
sessionVars == <<walletVars, networkVars, healthVars, accessVars, connects, upsets>>
budget == <<connects, upsets>>


NoAttempt == [phase |-> "idle", wallet |-> NoAccount]
NoRead == [who |-> NoAccount, found |-> FALSE]

WalletErrors == {"not-installed", "dismissed", "rejected", "timeout", "unknown"}
Verdicts == {"idle", "loading", "granted", "denied", "unknown", "error"}

SessionTypeOK ==
    /\ address \in Accounts \cup {NoAccount}
    /\ savedWallet \in Accounts \cup {NoAccount}
    /\ walletKit \in {"unloaded", "ready", "broken"}
    /\ kitWallet \in Accounts
    /\ restoring \in Accounts \cup {NoAccount}
    /\ attempt \in [phase : {"idle", "modal", "approving"}, wallet : Accounts \cup {NoAccount}]
    /\ walletError \in WalletErrors \cup {"none"}
    /\ offNetwork \subseteq Accounts
    /\ networkReads \in Seq([live : BOOLEAN, ok : BOOLEAN])
    /\ mismatch \in BOOLEAN /\ nodeUp \in BOOLEAN
    /\ probes \in Seq(BOOLEAN)
    /\ health \in {"unchecked", "ok", "degraded"}
    /\ linkAccount \in Links
    /\ checks \in Seq([who : Accounts, live : BOOLEAN, phase : {"waiting", "reading"}])
    /\ verdict \in Verdicts
    /\ readBy \in [who : Accounts \cup {NoAccount}, found : BOOLEAN]
    /\ connects \in Nat /\ upsets \in Nat

SessionInit ==
    /\ savedWallet \in Accounts \cup {NoAccount}
    /\ walletKit = "unloaded"
    /\ kitWallet = IF savedWallet = NoAccount THEN CHOOSE w \in Accounts : TRUE ELSE savedWallet
    /\ restoring = savedWallet
    /\ address = NoAccount /\ attempt = NoAttempt /\ walletError = "none"
    /\ offNetwork = {} /\ networkReads = <<>> /\ mismatch = FALSE
    /\ nodeUp = TRUE /\ probes = <<TRUE>> /\ health = "unchecked"
    /\ linkAccount \in Links
    /\ checks = <<>> /\ readBy = NoRead
    /\ verdict = IF linkAccount = NoAccount THEN "idle" ELSE "granted"
    /\ connects = MaxConnects /\ upsets = MaxUpsets

---------------------------------------------------------------------------
(* The access check: an effect of the account, the network warning and     *)
(* the retry button.  A run that is replaced is cancelled: its timer is    *)
(* cleared, or its answer will be ignored.                                 *)

\* The runs without the timer that is cleared: that of the last one started
Reading == IF checks # <<>> /\ Last(checks).phase = "waiting" THEN Front(checks) ELSE checks

\* (Faulty: the answer of a replaced run is written as well.)
CancelledTimerOnly == Reading

CancelledRuns == [i \in 1..Len(Reading) |-> [Reading[i] EXCEPT !.live = FALSE]]

\* The account asked about is the connected one or else the one in the link; a
\* visitor who is not connected previews the link's account as granted.
RunCheck(account) ==
    IF account # NoAccount
    THEN /\ verdict' = "loading"
         /\ checks' = Append(CancelledRuns, [who |-> account, live |-> TRUE, phase |-> "waiting"])
    ELSE /\ verdict' = IF linkAccount = NoAccount THEN "idle" ELSE "granted"
         /\ checks' = CancelledRuns

\* The debounce ends: one checkClaim per requirement
CheckReads(i) ==
    /\ checks[i].phase = "waiting"
    /\ checks' = [checks EXCEPT ![i].phase = "reading"]
    /\ UNCHANGED <<walletVars, networkVars, healthVars, linkAccount, verdict, readBy,
                   budget>>

\* checkClaim tells "not proved" from "could not ask", and reports either to
\* the health of the node, whether or not the run was cancelled
CheckAnswered(i) ==
    /\ checks[i].phase = "reading" /\ nodeUp
    /\ health' = "ok"
    /\ checks' = RemoveAt(checks, i)
    /\ IF checks[i].live
       THEN /\ verdict' = IF checks[i].who \in Proved THEN "granted" ELSE "denied"
            /\ readBy' = [who |-> checks[i].who, found |-> checks[i].who \in Proved]
       ELSE UNCHANGED <<verdict, readBy>>
    /\ UNCHANGED <<walletVars, networkVars, nodeUp, probes, linkAccount, budget>>

CheckUnanswered(i) ==
    /\ checks[i].phase = "reading" /\ ~nodeUp
    /\ health' = "degraded"
    /\ checks' = RemoveAt(checks, i)
    /\ verdict' = IF checks[i].live THEN "unknown" ELSE verdict
    /\ UNCHANGED <<walletVars, networkVars, nodeUp, probes, linkAccount, readBy, budget>>

\* The SDK could not be loaded: a throw, not the result of a read
CheckThrows(i) ==
    /\ checks[i].phase = "reading" /\ ~nodeUp
    /\ checks' = RemoveAt(checks, i)
    /\ verdict' = IF checks[i].live THEN "error" ELSE verdict
    /\ UNCHANGED <<walletVars, networkVars, healthVars, linkAccount, readBy, budget>>

RetryCheck ==
    /\ verdict \in {"unknown", "error"}
    /\ Len(checks) < MaxPending
    /\ RunCheck(address)
    /\ UNCHANGED <<walletVars, networkVars, healthVars, linkAccount, readBy, budget>>

---------------------------------------------------------------------------
(* The network warning: read on connecting and every four seconds, of the  *)
(* wallet the kit has selected.                                            *)

ReadNetwork == [live |-> TRUE, ok |-> kitWallet \notin offNetwork]

StaleReads == [i \in 1..Len(networkReads) |-> [networkReads[i] EXCEPT !.live = FALSE]]

NetworkPoll ==
    /\ address # NoAccount
    /\ Len(networkReads) < MaxPending
    /\ networkReads' = Append(networkReads, ReadNetwork)
    /\ UNCHANGED <<walletVars, offNetwork, mismatch, healthVars, accessVars, budget>>

\* A change of the warning is a change of networkKey: the check runs again
NetworkAnswers(i) ==
    /\ networkReads' = RemoveAt(networkReads, i)
    /\ mismatch' = IF networkReads[i].live THEN ~networkReads[i].ok ELSE mismatch
    /\ IF mismatch' # mismatch
       THEN RunCheck(address) /\ Len(checks) < MaxPending
       ELSE UNCHANGED <<checks, verdict>>
    /\ UNCHANGED <<walletVars, offNetwork, healthVars, linkAccount, readBy, budget>>

WalletSwitchesNetwork(w) ==
    /\ upsets > 0
    /\ offNetwork' = IF w \in offNetwork THEN offNetwork \ {w} ELSE offNetwork \cup {w}
    /\ upsets' = upsets - 1
    /\ UNCHANGED <<walletVars, networkReads, mismatch, healthVars, accessVars, connects>>

---------------------------------------------------------------------------
(* The wallet.                                                             *)

\* setAddress, and the two effects that depend on it: they run after the page was
\* rendered with the new account, one frame of which this step leaves out
SetAddress(account) ==
    /\ address' = account
    /\ IF account = address
       THEN UNCHANGED <<networkReads, mismatch, checks, verdict>>
       ELSE /\ Len(checks) < MaxPending /\ Len(networkReads) < MaxPending
            /\ networkReads' = IF account = NoAccount THEN StaleReads
                               ELSE Append(StaleReads, ReadNetwork)
            /\ mismatch' = IF account = NoAccount THEN FALSE ELSE mismatch
            /\ RunCheck(account)
    /\ UNCHANGED <<offNetwork, healthVars, linkAccount, readBy>>

\* Three dynamic imports, awaited by whatever needs the kit first; one promise
\* serves the whole page, also when it was rejected
KitLoads ==
    /\ walletKit = "unloaded"
    /\ restoring # NoAccount \/ attempt.phase = "modal"
    /\ \/ walletKit' = "ready" /\ UNCHANGED upsets
       \/ walletKit' = "broken" /\ upsets > 0 /\ upsets' = upsets - 1
    /\ UNCHANGED <<address, savedWallet, kitWallet, restoring, attempt, walletError, networkVars,
                   healthVars, accessVars, connects>>

\* restore() selects the saved wallet in the kit, then asks for its address
RestoreAnswers ==
    /\ restoring # NoAccount /\ walletKit = "ready"
    /\ restoring' = NoAccount
    /\ SetAddress(restoring)
    /\ UNCHANGED <<savedWallet, walletKit, kitWallet, attempt, walletError, budget>>

RestoreFails ==
    /\ restoring # NoAccount /\ walletKit # "unloaded"
    /\ restoring' = NoAccount
    /\ savedWallet' = NoAccount
    /\ UNCHANGED <<address, walletKit, kitWallet, attempt, walletError, networkVars, healthVars,
                   accessVars, budget>>

\* The button: connect while disconnected, try again beside an error
Connect ==
    /\ attempt.phase = "idle" /\ connects > 0
    /\ address = NoAccount \/ walletError # "none"
    /\ attempt' = [phase |-> "modal", wallet |-> NoAccount]
    /\ walletError' = "none"
    /\ connects' = connects - 1
    /\ UNCHANGED <<address, savedWallet, walletKit, kitWallet, restoring, networkVars, healthVars,
                   accessVars, upsets>>

SelectWallet(w) ==
    /\ attempt.phase = "modal" /\ walletKit = "ready"
    /\ attempt' = [phase |-> "approving", wallet |-> w]
    /\ kitWallet' = w
    /\ UNCHANGED <<address, savedWallet, walletKit, restoring, walletError, networkVars, healthVars,
                   accessVars, budget>>

WalletApproves ==
    /\ attempt.phase = "approving"
    /\ attempt' = NoAttempt
    /\ SetAddress(attempt.wallet)
    /\ savedWallet' = attempt.wallet
    /\ UNCHANGED <<walletKit, kitWallet, restoring, walletError, budget>>

\* What a failure of the selected wallet is called: absent is told apart only of
\* an extension, silent is a timeout, all the rest counts as the user's refusal
ErrorKind(w, cause) ==
    CASE cause = "absent" /\ w \in Extensions -> "not-installed"
      [] cause = "silent"                     -> "timeout"
      [] OTHER                                -> "rejected"

Fail(kind) ==
    /\ attempt' = NoAttempt
    /\ walletError' = kind
    /\ UNCHANGED <<address, savedWallet, walletKit, kitWallet, restoring, networkVars, healthVars,
                   accessVars, budget>>

ConnectFails ==
    \/ attempt.phase = "modal" /\ walletKit = "ready"  /\ Fail("dismissed")
    \/ attempt.phase = "modal" /\ walletKit = "broken" /\ Fail("unknown")
    \/ /\ attempt.phase = "approving"
       /\ \E cause \in {"absent", "silent", "declined"} : Fail(ErrorKind(attempt.wallet, cause))

Disconnect ==
    /\ address # NoAccount /\ attempt.phase = "idle"
    /\ SetAddress(NoAccount)
    /\ walletError' = "none"
    /\ savedWallet' = NoAccount
    /\ UNCHANGED <<walletKit, kitWallet, restoring, attempt, budget>>

\* A full reload forgets the page and what it waited for; storage stays
Reload ==
    /\ upsets > 0
    /\ upsets' = upsets - 1
    /\ restoring' = savedWallet
    /\ walletKit' = "unloaded"
    /\ kitWallet' = IF savedWallet = NoAccount THEN kitWallet ELSE savedWallet
    /\ address' = NoAccount /\ attempt' = NoAttempt /\ walletError' = "none"
    /\ networkReads' = <<>> /\ mismatch' = FALSE
    /\ probes' = <<nodeUp>> /\ health' = "unchecked"
    /\ checks' = <<>> /\ verdict' = IF linkAccount = NoAccount THEN "idle" ELSE "granted"
    /\ UNCHANGED <<savedWallet, offNetwork, nodeUp, linkAccount, readBy, connects>>

---------------------------------------------------------------------------
(* The health of the node: a probe on load, every twenty seconds, when the *)
(* browser is online again and on request.                                 *)

Probe ==
    /\ Len(probes) < MaxPending
    /\ probes' = Append(probes, nodeUp)
    /\ UNCHANGED <<walletVars, networkVars, nodeUp, health, accessVars, budget>>

\* getLatestLedger raced with the deadline
NodeProbeAnswers(i) ==
    /\ probes' = RemoveAt(probes, i)
    /\ health' = IF probes[i] THEN "ok" ELSE "degraded"
    /\ UNCHANGED <<walletVars, networkVars, nodeUp, accessVars, budget>>

NodeChanges ==
    /\ nodeUp => upsets > 0
    /\ nodeUp' = ~nodeUp
    /\ upsets' = IF nodeUp THEN upsets - 1 ELSE upsets
    /\ UNCHANGED <<walletVars, networkVars, probes, health, accessVars, connects>>

---------------------------------------------------------------------------
(* What the pages show.                                                    *)

Account == IF address # NoAccount THEN address ELSE linkAccount

\* The line at the foot of a protocol's card
CardOutcome ==
    CASE Account = NoAccount              -> "connect wallet"
      [] verdict \in {"unknown", "error"} -> "cannot verify"
      [] OTHER                            -> verdict

\* The badge beside a requirement
RequirementShown ==
    CASE verdict = "loading"              -> "checking"
      [] verdict \in {"unknown", "error"} -> "unknown"
      [] verdict = "granted"              -> "proved"
      [] OTHER                            -> "needed"

\* A protocol's own page sends a visitor who was denied to be verified
GetVerifiedOffered == verdict = "denied" /\ address # NoAccount

\* The button of a protocol's own page: locked in preview, whatever the verdict
ActionOffered == verdict = "granted" /\ address # NoAccount

\* The banner over every page
Banner == health = "degraded"

---------------------------------------------------------------------------
CheckAnswers(i) == CheckAnswered(i) \/ CheckUnanswered(i) \/ CheckThrows(i)

SessionNext ==
    \/ \E i \in DOMAIN checks : CheckReads(i) \/ CheckAnswers(i)
    \/ RetryCheck
    \/ NetworkPoll
    \/ \E i \in DOMAIN networkReads : NetworkAnswers(i)
    \/ \E w \in Accounts : WalletSwitchesNetwork(w) \/ SelectWallet(w)
    \/ RestoreAnswers \/ RestoreFails
    \/ Connect \/ WalletApproves \/ Disconnect
    \/ KitLoads \/ ConnectFails
    \/ Reload
    \/ Probe
    \/ \E i \in DOMAIN probes : NodeProbeAnswers(i)
    \/ NodeChanges

SessionSpec == SessionInit /\ [][SessionNext]_sessionVars

---------------------------------------------------------------------------
\* A card never shows one wallet the verdict on another, nor takes an outage
\* for a denial: what a connected visitor reads as granted or denied is the
\* answer the chain gave about the account connected now, whatever was
\* connected, disconnected or answered late meanwhile (use-protocol-access.ts,
\* contract-simulation.ts).
VerdictIsRead ==
    /\ ActionOffered => readBy = [who |-> address, found |-> TRUE]
    /\ GetVerifiedOffered => readBy = [who |-> address, found |-> FALSE]
    /\ RequirementShown = "proved" /\ address # NoAccount => address \in Proved

\* A check always has a run behind it: the spinner does not stay for ever.
LoadingIsRunning ==
    CardOutcome = "loading" => \E i \in DOMAIN checks : checks[i].live

\* No other run still waits for its timer than the last one started.
LastRunWaits ==
    \A i \in DOMAIN checks : checks[i].phase = "waiting" => i = Len(checks)

\* Not checked: a restored connection replaces one made while it was pending,
\* and is then not the wallet that storage and the kit name
\* (wallet-context.tsx:51-52).
RestoreYields ==
    address # NoAccount => savedWallet = address

\* Not checked: a visitor who is not connected is not told "granted", as the
\* comment of AppsPageClient.tsx:47 and ProtocolDetailClient.tsx:42 says; with
\* sc_wallet in the address the code does.
PreviewGrantsNothing ==
    address = NoAccount => CardOutcome # "granted"
===========================================================================
