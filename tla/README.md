# StellarCred: formal verification

TLA+ modules that model StellarCred, TLC configurations that check them on small
instances, and TLAPS proofs of what matters most for every value of the
constants. Paths below are relative to the repository; `PROJECT.json` maps every
definition to the lines it models and lists the hazards the properties are for.

## The system

StellarCred lets a holder prove a statement about a credential ("over 18") in
zero knowledge on Soroban and caches the verdict for other contracts to read.

| Part | State | Operations | Interacts with |
|---|---|---|---|
| **IssuerRegistry** (`contracts/issuer_registry`) | issuer entries, current and retired signing keys, list and count, metadata, root admin and roles | register, revoke, rotate key, revoke key, set metadata, governance | read by ProofRegistry at each submission |
| **CredentialVerifier** (`contracts/credential_verifier`) | verification keys per (type, version), latest version, deprecation markers, governance | set, deprecate, prune, verify | called by ProofRegistry |
| **ProofRegistry** (`contracts/proof_registry`) | claims, delegations, nullifiers, pause, governance, a TTL per entry | submit (single, with nullifier, batch, aggregate), delegate, revoke (holder, issuer, all), migrate, pause, read | calls the two above; read by gated protocols |
| **GatedPool** (`contracts/gated_pool`) | balances | deposit, withdraw | reads ProofRegistry, moves a token |
| **Indexer** (`services/indexer/src`) | claims table, ledger cursor, webhook outbox, subscriptions, the integrity cursor, a circuit breaker, the backfill's checkpoint file | tick, reconcile, backfill, dispatch, integrity pass, paged queries | reads contract events through Horizon, posts to webhooks, answers the application and the SDK |
| **Application, server** (`frontend/lib`, `frontend/app/api`) | idempotency records, rate windows, export slots and jobs, links used, inquiries, the audit chain and its file, outbound events, the application directory, tenants and their secrets | issue, batch issue, webhook, export, submit and review an application | route handlers over the memory of a process and a shared store |
| **Application, browser** (`frontend/components`, `frontend/lib`) | credential store, wallet and network, verdicts, tour progress, the prover worker, submissions | save, seal, prove, submit, recover, ask for access | wallet, RPC node, issuer registry, the routes above |
| **SDK and reference server** (`frontend/packages/sdk`, `frontend/examples`) | claim cache, shared indexer rows, subscriptions, challenges, sessions | hasClaim, gate, watch, subscribe, challenge, verify | chain, indexer, visitors |

The contracts interact by synchronous calls inside one transaction: a panic
anywhere reverts everything. What is hard there is **order**: a claim is cached
under one state of the issuer's keys and of the verification keys and is read
under a later one; clocks with strict and inclusive ends meet; histories are
bounded; windows, expiries and storage lifetimes are counted in different units.
Elsewhere it is concurrency proper: awaits between a read and the write that
depends on it, answers that come late or out of order, repeated and lost
deliveries, reorganised ledgers, processes that die between two writes.

What makes each part correct:

- governance: a proposal dies with its root, and a root that leaves keeps nothing;
- IssuerRegistry: rotation keeps the window it promised, revocation is immediate,
  pruning and the history limit lose nothing that counts, the list follows the entries;
- CredentialVerifier: the bytes behind a version never change, a version is kept
  through its support window, a deprecated one never comes back;
- ProofRegistry: a claim becomes valid only by an accepted submission, ends only by
  its own parties or by time, states what was proved, and no key known to be
  compromised signs a new one; a claim is readable while it is valid;
- GatedPool: entry gated, exit open, tokens cover balances;
- indexer: the table converges to the chain's claims through restarts, reorgs and
  backfills; deliveries settle; every row is checked in turn; pages miss nothing;
- server: a request's effect happens once, an inquiry is issued for once, a used
  link stays closed, what is signed is signed with a registered key, a download is
  whole, the audit file is history, a received application is kept;
- browser: saves are kept, a mark "proved" is true, a verdict is of the wallet
  shown, a recovery is of one set of shares;
- SDK: nothing older than the last invalidation is served, one nonce opens one
  session, subscribers hear of every gain and loss.

## Modules

| Module | Models |
|---|---|
| `Governance` | the role table and the two-step handover the three contracts each carry; the contract modules EXTEND it and guard with `RequireAdmin` / `RequireRole`. Holds the type lemma they share |
| `GovernanceHistory` | + history: who proposed, terms of office; theorems about the handover |
| `IssuerRegistry` | the contract (retired keys as a set of records: the code's first match is the only one, `KeysDistinct`) |
| `CredentialVerifier` | the contract |
| `KeyHistory` | + history of both: the window each rotation promised, keys revoked; first bytes and first deprecation of each version |
| `ProofRegistry` | the contract **composed** with the two it calls, which it instantiates over variables of its own; `Deployed` is the state the deployment scripts reach; `KeepsLedger`: the refinement mapping to `ClaimLedger` |
| `ClaimLedger` | the **abstract specification** of the claims: absent, attested by an issuer until a time, or revoked; what the reads promise of them |
| `ClaimHistory` | + history: signer of each claim, what accepted proofs stated, dead keys, spent nullifiers; the specifications of the three claim runs |
| `ClaimStorage` | the TTL of a claim's entry: `bump_ttl` and its callers against the host's rules; two clocks, ledgers and seconds |
| `GatedPool` | the pool **composed** with ProofRegistry and a token; its theorems |
| `WebhookOutbox` | the claims table with its subscriptions, the outbox, the dispatcher's attempts and backoff |
| `Ingester` | the polling loop over it, await by await, against a chain that grows and forks and replicas that lag |
| `Backfill` | the operator's backfill with its checkpoint **beside** the loop, over one table |
| `Integrity` | the rolling sample of rows compared with contract records |
| `HttpClient` | the indexer's retries and circuit breaker |
| `IndexerApi` | paged reads while rows are written, revoked and rolled back |
| `Idempotency` | records, slots in flight with their joins, the shared store |
| `RateLimits` | the four limiters: memory, REST store, Redis, the indexer's |
| `AdminExports` | chunked downloads, a shared slot counter, cursors, processes that die |
| `UserExports` | a holder's export job in memory and store, its links, the dialog that polls |
| `ExportService` | queue, runners, probe, counters, traces, alerts |
| `AuditTrail` | the hash chain, its file, the bounded event queue, the issuance queue |
| `AppDirectory` | applications submitted, reviewed and listed over the indexer, each process's memory and the shared store: a remote one, or one more memory of each process |
| `Issuance` | a single-use link, the identity inquiry with polls and webhooks, the page that resumes |
| `IssuerDesk` | the routes that sign, with tenant and secret; the issuer's page; the check of an issuer's status |
| `VerifyLinks` | what a link asks, through builder, parsers, form, request and witness; links of presets and links made by hand, decoded and checked; badges |
| `GatedServer` | challenges and their nonces; posts, each with a nonce, a message, a wallet and options of its own; sessions |
| `CredentialStore` | the stored credentials as read-modify-write from several tabs; sealing, guardian backup, wipe |
| `GuardianRecovery` | the dialog that splits a backup's key and puts it together |
| `ProofFlow` | the view, the prover worker and its queues, the backend cache, cancel, crash, timeout |
| `Submissions` | selection, preflight, send and poll of single and batch transactions |
| `HolderSession` | wallet, network, node and access: reads answered late, in any order |
| `Onboarding` | the guided tour and its second copy on the dashboard |
| `ClaimReads` | hasClaim with cache, generations and shared rows; gate, hook and watch |
| `Subscriptions` | the SDK's feed pages, expiry sweep and resync |
| `MCKeys`, `MCIndexerEvents`, `MCParts`, `MCBrowser`, `MCProtocols`, `MCLive` | what runs are made of, below |
| `KeyProofs` | theorems about the IssuerRegistry and the CredentialVerifier |
| `ClaimProofs` | theorems about ProofRegistry and its history |
| `StorageProofs` | theorems about storage: claim TTLs, the indexer's loop and backfill, its sweep and its pages |
| `WebProofs` | theorems about what servers do for holders and visitors |
| `HolderProofs` | theorems about what a holder keeps and sees |

**Contracts.** A call is a step of one transaction. `require_auth` is the `caller`
parameter: signing as somebody else is not possible, so a guard compares `caller`
with the stored address. A panic reverts the call, so a call that would panic is
not enabled. An absent storage entry is `None`. The ledger's timestamp is `now`,
advanced by `Tick`. `ProofRegistry` abstracts a proof to the public inputs it
binds: the issuer's key, the threshold. A proof the verifier rejects changes
nothing, so only valid ones are enumerated, and whether the verifier is reached
at all is `CV!Accepts`. For the aggregate the model keeps the position
arithmetic: which slot the code reads the key and the threshold from, given the
types the *caller* names. A record keeps its number of fields (`shape`), because
deserialising another layout panics.

**Programs that await.** The code between two awaits is one action, since a
JavaScript task runs to its end; a call in flight is a record that keeps what was
read before the await, and the action that ends it uses that copy as the code
does. Answers come in any order unless the code orders them. A process that dies
loses its variables and keeps its database, store or file. Each fault (an
unreachable node, a failed write, a restart, an edit in another tab) is an action
of its own, bounded by a constant that the module names under "bounds".

**Faulty twins.** Definitions introduced by a comment "(Faulty: ...)" are plausible
mistakes in the operator that follows. No specification uses them; putting one in
its operator's place must break the property named with it in `PROJECT.json`
under `mutants`, which shows that the property can fail.

## Runs

| Run (`module`, `cfg`) | Shows | Bounds |
|---|---|---|
| `keys` (`MCKeys`) | a rotated key keeps its window, a revoked one is dead until installed again; a version's bytes never change and outlive the support window | one issuer, four keys for a history of two: one beyond full; windows of up to two seconds over four timestamps, so that one opens, closes and is pruned on either side of its end. Three versions, one of which can be set out of order; window of two seconds, five timestamps: deprecated and pruned twice over |
| `claim_lifecycle` (`ClaimHistory!LifecycleSpec`) | the contracts implement the abstract ledger; freshness, dead keys, attestation | one holder and type against two keys, one retired, and the whole life of a VK; pauses, and the migration of four-field records; three timestamps: submitted, at expiry, after |
| `claim_batches` (`ClaimHistory!BatchSpec`) | what a valid claim states was proved, through batches and aggregates | the circuit's two types in either order and repeated, two thresholds, two keys |
| `claim_operations` (`ClaimHistory!OperationsSpec`) | a nullifier is spent once, against pause, migration, delegation, handover | two issuers, a second address to hand over to, one nullifier, four-field records of every content |
| `gated_pool` (`GatedPool`) | solvency, open exit | two depositors with two tokens each, thresholds on both sides of the pool's, donations |
| `indexer` (`MCIndexerEvents`) | nothing is lost behind the cursor, a backfill can be resumed, the table converges, deliveries settle | one claim key, one subscription, two attempts; four settings, each with the faults its question needs: a restarted service before stale replicas; a chain whose last ledger is replaced; webhooks beside ledgers with incomplete or foreign events; the backfill with the service off |
| `parts` (`MCParts`) | eight properties of nine parts: governance, claim storage, integrity check, query API, both export systems, the export service, audit trail, application directory | three addresses and four terms: leave, return, leave again; ledgers of 2 or 3 s against a nominal 2, eight ledgers, threshold < TTL < maximum; three row ids against a sample of two, pages of one; two admins, two jobs of two chunks, one slot, one death; two holders' jobs, a fault, a restart; two audited requests, a queue of two; two applications, two servers, one review, one upset after any state of indexer and store, with a remote store and without |
| `browser` (`MCBrowser`) | five properties of the store, submissions, session, tour, recovery and claim reads; proving runs beside them | two tabs, two commitments, two passphrases; two guardians with threshold two, two recovery sets, one altered document; two proofs, two backends; two transactions, a single that lives one second and a batch that lives three against two of polling; two accounts; four readers over two sources, two reads at once, one invalidation. Symmetric in the credentials |
| `protocols` (`MCProtocols`) | six properties of issuance, the gated server, the issuer desk, links and presets | one inquiry with two polls and two events; two visitors, one of whom may have a claim at first, two challenges, two posts, one restart, posts that trust some issuers only or all; two issuers, three keys, a batch of two, two upheavals; every link the builder can build from five types, gates and preset claims; presets of two types, four minimums, and links by hand: an unknown type, alone and beside a known one, a minimum that is empty or no number, two minimums for one type; two wallets |
| `live` (`MCLive`) | what must eventually happen, and `NoReexecution` | a breaker of two failures, three requests on one key, limits of one per window, two faults of the store, two proofs in one view, a feed of two pages |
| `redis_lockout` (`RateLimits`) | *violation*, below | the Redis limiter alone |
| `guardian_merge` (`CredentialStore`) | *violation*, below | the credential store alone, in one tab, with room for the backup, the wipe and a merge of two credentials |

**Parts side by side.** `MCKeys`, `MCParts`, `MCBrowser`, `MCProtocols` and `MCLive`
put modules that share no state into one run: the first state chooses the part
that runs (`part`), the others keep their initial state, and where a part has
several initial states the ones not running are pinned to one of them. A
behaviour of a part alone is a behaviour of the sum and the reverse, so what holds
of the sum holds of each part, and TLC explores the sum of the state spaces and
not their product. Parts that do interact are composed: ProofRegistry with its
callees, the pool with the registry, the backfill with the loop, its table and
the outbox.

**Why these bounds are enough.** Each bound is the smallest at which the hazard the
property is for can happen: one more key than the history holds, a batch that
outlives its polling, a second write while a first is between read and write, a
fork below the cursor. The mutants confirm it: each property fails within its
run's bounds under a plausible mistake. Where a theorem states the property, the
bounds do not limit the claim.

**Fairness.** The contracts take no step of their own and assume none. Weak fairness
is asked of: the HTTP client's call in progress, an idempotent request in progress, a
limiter's check in progress and the end of its window, a client's retry, the
proof view's pending work, the subscription's tick and the resync falling due,
the indexer's tick, a delivery attempt and the end of a backoff. The code
justifies them: the event loop runs every continuation that is ready; the SDK's and
the indexer's requests have a timeout, so their awaits end; the loops
reschedule themselves in `finally`; clocks advance. The prover's requests
(`proof.ts:142,275`), the web application's remote store (`shared-store.ts:125`) and
others have no timeout of their own: `ProofsAreAnswered`, `NoReexecution` and
`RetriesAreServed` rest there on the browser or the platform to end a request, and
`ProofsAreAnswered` besides on `generateProof` of bb.js, which is not in this
repository, to reject when its backend is destroyed under it (`proof.ts:315-325`). Nothing is asked of
faults, of the chain or of users, except that a client told to retry does, which
is what `RetriesAreServed` is about. Faults are finite in number in every model,
and the liveness properties are about what happens after them.

### Where code and documents disagree

Two disagreements are runs that must fail; `findings` quotes the lines.

- `RetriesAreServed` under the Redis limiter: INCR and PEXPIRE are two commands, and
  when the second fails the key keeps its count and no expiry: the client is
  told to retry after one window, for ever.
- `MergeRestoresAll`: merging recovered credentials starts every save without waiting
  for the last. With a single tab and two credentials in the backup, both saves read
  the list before either writes it, and one of them is lost. The property is about
  merges only, begun while nothing else is under way and with nothing saved, marked or
  removed until both have ended.

The others are stated as definitions beside the model, so that a run can be
pointed at them; no run is, because one violation each is enough to know.

| Definition (module) | What a document, comment or name says, and what the code does |
|---|---|
| `WindowInclusive` (`KeyHistory`) | the end of a rotation window is documented as inclusive, and validation includes it; a rotation at exactly that timestamp prunes the key |
| `KeyRevocationReachesCache` (`ClaimHistory`) | revoking a key does not end cached claims signed with it: `is_verified` never asks the IssuerRegistry |
| `AggregateLayoutChecked` (`ClaimHistory`) | an aggregate submission is checked for counts only, so a third type is read from a slot of another |
| `ReadableWhileValid` (`ClaimStorage`) | overwriting a claim with one that expires later leaves the TTL as it was while it is above the threshold; the entry is archived before the claim expires |
| `PageLimit = 2` in `Indexer.cfg` (`Ingester`) | a page of events that ends inside a ledger (`ingester.ts:619`) loses the rest behind the cursor: `NothingLostBehindCursor` fails |
| `CrashDuringRollback = TRUE` in `Indexer.cfg` (`Ingester`) | a process that dies between the two writes of `reconcile` (`ingester.ts:814-817`) has deleted rows whose events are behind the cursor it kept: `NothingLostBehindCursor` fails |
| `mcBothSetups` (`MCIndexerEvents`) | a backfill beside the live loop writes an old event over a newer one: `TableConverges` fails |
| `InSyncIsSilent` (`Integrity`) | the checker reads row and record at different moments and reports a difference that never was |
| `RemoteStore = TRUE` (`Idempotency`) | over the shared store two servers' requests of one key both run: `NoReexecution` is a promise of one process |
| `SlotsReturn` (`AdminExports`) | a process that dies keeps its slot of the shared counter (`export-concurrency.ts:19-23`) |
| `RestartContinues` (`AuditTrail`) | after a failed bootstrap (`audit-log.ts:140-152`) the next write starts the file anew |
| `ApprovedIsListed`, `RejectedIsDelisted`, `KeptOnce` (`AppDirectory`) | the fallback memory of a process (`apps-store.ts:137-163,253-257`) is neither reviewed nor listed with the indexer's, and a late answer stores an application twice |
| `FailedSignedNothing` (`IssuerDesk`) | a batch answered as failed has signed and audited its earlier items (`batch/route.ts:409-473`) |
| `SignedIsPreviewed` (`IssuerDesk`) | the issuer's page signs the form as it is, not the preview that was confirmed (`IssuerPageClient.tsx:80-108`) |
| `RetiredStillProves` (`IssuerDesk`) | `docs/ISSUER_LIFECYCLE.md:102` keeps a retired key usable in its window; `issuer-registry.ts:275` calls it revoked |
| `OpenLinkIsUsable` (`VerifyLinks`) | links accepted that no form can answer: employment is missing in the list that `verifyParams.ts:11` says to keep in step |
| `StateComesBack` (`VerifyLinks`) | `verify-redirect.ts` returns no `sc_state`, which `buildVerifyUrl.ts:42,64,144` promises |
| `RequestByAcceptedIssuer` (`VerifyLinks`) | the form falls back to an issuer the gate does not accept (`useVerifyFlow.ts:204`) |
| `DocumentedModesProvable` (`VerifyLinks`) | mode "allow" / "deny" (`buildVerifyUrl.ts:26`) reaches a circuit that takes "0" / "1" |
| `ReceivedIsShared` (`AppDirectory`) | a submission that the indexer did not take is for every process only when `UPSTASH_*` or `KV_*` name a remote store (`shared-store.ts:295-304`); else it is in the memory of the process that took it, and ends with it |
| `EveryListedIsMet` (`VerifyLinks`) | a preset's page lists every entry of its link and reads one minimum of each type (`claims.ts:1672-1675`); the builder of presets writes no type twice, a link by hand may |
| `VerdictIsOfTyped` (`VerifyLinks`) | the wallet's field may be changed under a verdict, which stays (`VerifyPresetPageClient.tsx:93-94`) |
| `OutageIsNoRejection` (`VerifyLinks`) | a preset's page shows an unanswered read as "not met" (`VerifyPresetPageClient.tsx:28,37`) |
| `SessionEndsWithClaim` (`GatedServer`) | a session outlives the claim it was opened for (`server.ts:313-318`) |
| `CachedDiesWithCredential` (`ClaimReads`) | a cached "yes" is served past the claim's expiry (`claims.ts:1324-1355`, against `packages/sdk/README.md:123`) |
| `HookShowsItsWallet` (`ClaimReads`) | after the wallet changes, the hook shows the late answer about the old one (`react.ts:76-130`) |
| `StopIsSilent` (`Subscriptions`) | a tick in flight reports after `stop()` (`subscriptions.ts:462-468`, against `README.md:373`) |
| `RestoreYields` (`HolderSession`) | a late `restore` overwrites a newer connection (`wallet-context.tsx:44-60`) |
| `PreviewGrantsNothing` (`HolderSession`) | the `sc_wallet` preview decides what an application's card offers (`AppsPageClient.tsx:47`) |
| `WizardShowsSaved`, `NewCredentialSupersedes`, `GatesFollowStore` (`Onboarding`) | the tour's copy of progress, of the newest credential and of the store falls behind (`OnboardingWizard.tsx:796,802`) |
| `CancelSparesOthers` (`ProofFlow`) | cancelling one proof terminates the worker under the other |
| `PreviewIsOfBackup`, `SharesTakenStay` (`GuardianRecovery`) | a decryption that ends late shows another backup's preview; two files read at once lose one's shares (`GuardianRecoveryModal.tsx:137-186`) |

Smaller ones the models make visible:

- *contracts*: a deprecated VK is refused at once, where `SUPPORT_POLICY.md` says its
  second phase still accepts it; a revoked key that aged out can be rotated in again,
  where `IssuerKey.revoked` is documented as final (`KilledStaysDead` says "until
  installed again"); revoked keys keep their slot in a full history, where
  `docs/ISSUER_KEY_ROTATION.md` advises revoking to make room; `migrate_record`
  rewrites four-field records only and documents a six-field target (the struct has seven).
- *issuance*: an inquiry whose "completed" webhook is declined stays in processing
  (webhook route 103-114); the identity path never consumes the single-use link; the
  fallback and a late webhook issue once each; a restart forgets pending inquiries;
  issuing goes on for an issuer revoked on the chain (`ISSUER_KEY_ROTATION.md:271`).
- *links*: `claims`, `wallet` and `state` of a link are read by nobody; an age ask
  with `threshold` instead of `threshold_years` is proved with the default;
  employment without a minimum proves the holder's own seniority (`witness/route.ts:163`).
- *browser*: a batch whose preflight throws stays "submitting"; a network error of the
  poll reports failure while the transaction may land; a locked store is overwritten
  in plain text by a guardian's "replace"; `onboarding-completed` is never set by the
  tour; a failed load of the wallet kit is cached for the page.
- *SDK and indexer*: the `.catch` of an old indexer read deletes a newer entry
  (`claims.ts:954-957`); `watchClaim` reports "lost" on a failed read;
  unsubscribing leaves deliveries; failures of the head fetch do not count in
  `health.consecutiveErrors` (`ingester.ts:697-703`).
- *exports*: the index of a holder's exports is read, changed and written back and
  may lose an id (`export-jobs.ts:119-123`); a crash leaves a job "processing".

## Proofs

All theorems are checked by TLAPS with no assumption but the named ones on
constants, which TLC also evaluates, and the hypotheses a theorem states.
`PROJECT.json` lists them with what each establishes. Every safety invariant and
action property of the runs is a theorem, `ExitAlwaysOpen` excepted. What each rests on:

**Contracts**

- `GovernanceHistory`. Type correctness with the history, the proposer of a pending
  proposal being the root, and every role assignment's term bounded by the present
  one. The middle part is inductive because `accept_admin` clears the proposal in the
  step that changes the root; the last needs the lemma that terms only advance.
- `KeyProofs`, signing keys. `KeyInv`: types, no key twice (`KeysDistinct`), and
  `KeySetIsHistory`: the stored key set is what the promised windows and the
  revocations determine. None of `WindowHonoured`, `ValidOnlyInWindow`,
  `KilledStaysDead` is inductive alone, since validity depends on the entry found in
  the history; given `KeySetIsHistory` each follows in a state. The hard case is
  rotation, which prunes, retires the current key and forgets the new one at once.
  `HistoryBounded` and `ListInSync` (no duplicates, exactly the registered issuers,
  the count its length) hold for any set of issuers; the run checks one.
- `KeyProofs`, verification keys. `VkInv`: types, `VkImmutable`, `SupportWindowKept` and
  `MarkersMatch`. Immutability alone is not inductive: `set_vk` looks only for present
  bytes and a marker, so that a version without bytes was never set before has to
  come from the support window, which needs the markers to survive pruning.
- `ClaimProofs`. Every step of the composition is reduced to what it can do to one
  record (`RecordChange`: keep, remove, attest, revoke by its issuer, migrate) and to
  one delegation; the lemmas from `SubmitStores` to `OperatorChanges` do this for every
  entry point, the two callees and the governance included. `ClaimInv` adds to the
  types that a record of the present layout *with an issuer* is younger than the
  ceiling: migration gives older records a layout that is read but no issuer. For the
  history, `HistoryOnlyWatches` shows that `HSpec` implements `Spec`, so these theorems
  carry over; `NullifierInv` says a spent nullifier is on file; `DeadKeyInv` says a
  key in `killed` is in no valid position of the key set, which needs the bound on the
  history where an old revocation is dropped; `ProvenInv` says what a record states is
  among the accepted facts. `ContractsKeepLedger` is the refinement: `Spec` implements
  `ClaimLedger!LedgerSpec` under the mapping `LedgerClaims` (a record of a shape the code
  can read is a claim, any other is none) and `LedgerTrust`. Each entry point is a step
  of the ledger or leaves it alone; migration is the one that must be a stutter
  although it rewrites a record, and is only because a four-field record names no
  issuer: `FourFieldsNameNobody` is the strengthening. `ReadsAreOfLedger` says that every
  read the contract offers answers what the ledger promises, and `is_verified` and the
  threshold reads agree with one another. `ClaimsProven` has the hypothesis that the credential types
  are the aggregate circuit's, with a third `AggregateLayoutChecked` is the exception.
- `GatedPool`. `PoolInv`: the tokens held cover the sum of what is owed, as a set of
  numbered tokens, one for each unit of each balance, so that the sum is a cardinality and
  a deposit or withdrawal adds or takes a slice (`OwedGrows`). Holders are any finite
  set. `ExitIsFunded`, `NobodyGains` and the action property `DepositsAreGated` follow.
  `ExitAlwaysOpen` itself is `ENABLED` and stays with TLC. `PoolOnlyReads` shows that the
  composition with the pool implements `ProofRegistry!Spec`, so that what `ClaimProofs`
  proves of the contracts, the refinement included, holds beside a contract that calls them.

**Storage** (`StorageProofs`)

- Claim TTLs. `RegularBumpsKeepLive` and `FirstWriteCoversExpiry` depend on the network, so
  each names its hypothesis. The first needs `MinPersistentTtl > PROOF_BUMP_THRESHOLD`,
  because a restored entry starts at the network's minimum; its invariant is that a
  touched entry has a threshold of ledgers left (`BumpHolds`). The second needs
  `NetworkSuits`, the opposite bound among others: an entry *created* with more life
  than the threshold is not extended by `bump_ttl` at all. `PROOF_BUMP_THRESHOLD` is one
  day of ledgers, so on a network whose minimum persistent TTL is longer than a day
  `FirstWriteCoversExpiry` is not promised and `ReadableWhileValid` already fails on the
  first write. The two hypotheses meet in `PROOF_BUMP_THRESHOLD + 1` only, which the run uses.
- The index. `Replay` is the closed form of applying events one by one: a key has the row
  of its last attestation, revoked if a revocation follows (`ReplayIsFold`, an assumption
  that TLC evaluates, compares the two). Both theorems rest on `Recoverable(c, t, n, m)`:
  applying the events after the n-th to table t gives what the first m events say. It is
  kept by applying the next event (`AppliedRecovers`), by going back (`EarlierRecovers`),
  which is what a crash does, by longer chains (`LaterRecovers`) and by deleting rows that
  came later (`DeletedRecover`). `LiveInv` says from where the table is recoverable at
  each point of a tick, which is past the cursor while a batch is being written, and that
  the batch is what the chain has up to `top`; `BackInv` the same of the job's token.
  `CursorLosesNothing` names its hypotheses: `FinalityLag >= MaxReorg`; no page ends
  inside a ledger that is final (`WholePages`) and no crash inside `reconcile`, without
  either of which it is false (above); and no backfill beside the live loop. With
  the service off and ranges that follow one another, `BackfillResumes` has none.
- The index's other promises. `RowsAreAlwaysFinal` and `RevocationsReachSubscribers` have the
  hypotheses of `CursorLosesNothing`. The first rests on `SourcedInv`: every row stems from
  a submission in the settled part of the chain, which no fork reaches any more. The second
  says that a revocation the cursor has passed is in the outbox of everyone subscribed
  before it. Between the write of the rows and that of the deliveries it is not true of the
  table, so `HooksInv` keeps the place where deliveries are owed from (`HookPlace`), between
  the cursor and what is settled, with a batch below the ceiling it was fetched under and
  a new subscription's `since` not below that place. `DeliveredIsReceived` has no
  hypothesis: a delivery marked done was answered by the receiver (`OutboxInv`, through
  attempts in flight while the process restarts).
- The integrity sweep. `SampledInTurn` bounds how long a row waits, which says nothing of
  the next step; `SweepInv` is that what a row has waited, plus the passes that the rows
  ahead of it in the sweep still take, fits one sweep of the table (`Ahead`). Rows
  that are inserted, deleted or rolled back meanwhile change both sides.
- The query API. `ApiInv` says that the rows nobody wrote since the reading began are
  seen once up to the reader's cursor and not at all beyond it (`Passed`), over the
  order of pages (`PageIsBeginning`): ledger and id for /recent, id for GraphQL.

**Servers** (`WebProofs`)

- `Idempotency`. `IdemInv`: while no request has outlasted its record, one request of a key
  executes at a time and none does once the key is recorded (`OneExecutes`).
  `NothingRunsTwice` has the hypothesis `~RemoteStore`.
- `GatedServer`. `GateInv`: the nonce of a post that was not refused is gone, was issued by
  the run of the process that took it, and is no other such post's; those that are left
  are of the present run (`NoncesSpent`); and a claim found by the first read has held
  since the post came (`ClaimsHeld`), as far as its own options have it checked. Nothing is
  said of a tie between nonce and message, since the server makes none: the signature
  is checked over the message sent, the nonce sent is spent, and neither is compared with
  the other (`challenge.ts:297-332`); nor does `GET /api/auth/challenge` ask for a wallet.
  What `signed` contributes is that no path to a session goes round the check.
- `Issuance`. `WebhookInv`: unless a restart has forgotten, the handler past the status
  check is alone with its inquiry (`HandlersHold`). `LinkInv`: a used link is remembered
  at least until it expires, so that pruning never reopens it.
- `AuditTrail`. `AuditInv`: while every stop was orderly, file and contents being written
  are prefixes of what was logged, and the memory is all of it.
- `AppDirectory`. `DirInv`: what a process remembers, or has received and not lost by a
  restart, is in the store that it writes to, at the instant that its id names
  (`CopiesAgree`); what the indexer answered, calls in flight included, is in the row
  of its id (`RowOf`). `ReceivedIsKept` then depends on where the store is: for every process
  with a remote one, for the process that took the submission, and until its restart, without.
  Submissions of one millisecond and failed writes of the remote store are excepted.
- `IssuerDesk`. `DeskInv`: a request's key, and what it has signed, is among the keys the
  registry has held since it came (`Sound`); the vault may answer anything. `DeskSpec` is
  the union of the three next-state relations that the run takes one at a time.
- `VerifyLinks`. `RequestInv`: the link is as built, and what was sent, issued and
  proved answers it wherever the link leaves the holder no choice; `StatedAsWanted` is
  the lemma that builder, parser and witness together keep a minimum. `SharingInv`
  relates a preset's verdict to the reads it was made of, and the claims that the page lists to
  what was decoded of its link: all of a preset's, of a handmade link those of a known type,
  with the minimum that is a number.

**Holders** (`HolderProofs`)

- `CredentialStore`. `StoreInv`: an operation past its read is about to seal what it makes
  of what it read (`SealsItsWork`); saves that did not overlap then read what the last
  one wrote.
- `Submissions`. `SubInv`: a single transaction can land only before its time bound and
  is given up only after it (`OnTime`), so what is reported as not found never lands.
- `AdminExports`. `ExportsInv`: a served job is complete (`Complete`), a cursor continues
  the chunks got so far (`Continues`), and an answer under way is of that job
  (`Serves`). `UserExports`: a link offered is of a job known, kept for as long (`KeptFor`).
- `GuardianRecovery`. `GuardianInv`: the shares collected, those a file will add and those a
  decryption works on are one of each guardian; that they are then as many as their
  guardians (`GuardiansCounted`) is a bijection, which is what the threshold counts.
- `HolderSession`. `SessionInv`: a run that is not cancelled is about the connected
  account (`LiveRunsOfAccount`), so what it writes is.
- `ClaimReads`. `ReadsInv`: a read of the present generation began, and the rows it shares
  were asked for, since the last invalidation (`BegunSince`, `SharedRowsAreNew`); an older one may
  not store. Eviction keeps the entries by their rank, whose existence (`RankReached`) is
  shown by the pigeonhole principle.

Assumptions on constants: sets that are counted are finite (`Holders`, `Commitments`,
`Guardians`); clocks, lives and bounds are naturals; keys, records and claims differ from
"absent" (`KeyAssumption`, `RecordAssumption`); the times of a submission are those of the code, 60 s of validity
against 65 s of polling (`TimesAssumption`); presets name the SDK's types
(`SharingAssumption`), handmade links consist of entries (`LinksAssumption`); options ask for
an issuer or a threshold (`OptionsAssumption`); no process is called as the remote store is
(`DirectoryAssumption`); the setup form offers some number of guardians
(`GuardianAssumption`).

Beside the properties of the runs these are proved: `PendingProposedByRoot`, `KeysDistinct`,
`KeySetIsHistory`, `ValidOnlyInWindow`, `HistoryBounded`, `ListInSync`, `DeprecatedStaysClosed`,
`LatestIsHighestEver`, `RegularBumpsKeepLive`, `PauseStopsIntake`, `ExitIsFunded`, `NobodyGains`,
`DepositsAreGated`, `GivingUpIsFinal`, `ClaimsEndByTheirParties`, `AllReadsAgree`,
`RevocationsEnqueued`, `RowsAreFinal`, `DeliveredWasReceived`.

### Only model-checked

- Liveness: `BreakerRecovers`, `RetriesAreServed`, `ProofsAreAnswered`, `SubscribersCatchUp`,
  `TableConverges`, `DeliveriesSettle`. TLAPS proves no property from fairness here.
- `ExitAlwaysOpen`: stated with `ENABLED`, which TLAPS cannot take; its part without
  `ENABLED` is the theorem `ExitsAreFunded`.

The theorems are about the specifications with clocks bounded by an arbitrary
constant. Those of `ClaimProofs` start from nothing but records an earlier version
left, while the runs start from `Deployed`.

Definitions that hold, that no run lists because a deeper property covers them or they
follow from one checked: `GatesArePassed`, `FailuresAreAlerted`, `ListedWasApproved`,
`LoadingIsRunning`, `LastRunWaits`, `RequestsAnswered`.

### What the properties leave out

- `KilledStaysDead` ends when the same key is installed again, which the contract lets an
  issuer do once it has aged out of the history; of that no property complains.
- `ClaimsAreFresh` bounds the age of a cached claim; a key or a VK that changed since is the
  registry's business no longer (`KeyRevocationReachesCache`).
- `NothingLostBehindCursor` and `TableConverges`: pages that end inside a ledger, a crash within
  `reconcile` and a backfill beside the live loop are excepted; `NoReexecution`: requests
  that outlast their slot, and the remote store. All are in the table above.
- `SavesInTurnAreKept` is about saves that do not overlap; those that do are
  `MergeRestoresAll`. `MarksAreOnChain` follows mostly from the guard of the poll; the late
  landing is the theorem `NotFoundIsFinal`. `PreviewIsEarned` rests on the threshold of the
  decryption; the dialog's own mistakes are `PreviewIsOfBackup` and `SharesTakenStay`.
- `SignedByRegistered` is for a server that knows the registry's id: without it the comparison
  is skipped (`validate.ts:271`, `batch/route.ts:373`), and no setting of the run is without.
- `UsedLinkStaysClosed`: a write to the tab's storage that fails is passed over
  (`verify-nonce.ts:38-40`) and would leave a used link open; storage does not fail in the model.
- `VerdictIsRead`: an account and the effects that run after the render with it change in one
  step of the model; a page shows the old verdict for the frame between.
- `SessionsAreEarned` takes one type of claim for all: a post may name any type.
- `Integrity!Compare` leaves out the kinds `verified_at_mismatch` and `issuer_mismatch`
  (`integrity.ts:243-259`): no property tells the kinds apart.

## Not modelled

- Contracts: `upgrade` (replaces the code), `migrate_data` (a version marker), events,
  revocation reasons, paging of reads, TTLs of entries other than claims; overflow of
  128-bit amounts, beyond any real supply.
- The circuits' arithmetic and UltraHonk verification: a proof is what it binds.
- The Solidity registry, a contract no other part calls; scripts, migrations, deployment.
- Rendering, local form state, the admin and documentation pages, the sponsor route,
  `issuers.ts`, the CLI: one request and its answer, no protocol of their own.
  `proof-cache.ts` is called by its tests only.
- Statistics and health of the indexer, OpenAPI, authentication.

## Plan

1. The rest of the SDK's reads (`getClaims`) and of the web application's routes.
2. The administrator's page over `AdminExports`, which polls as the holders' dialog does.
