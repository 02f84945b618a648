----------------------------- MODULE IssuerDesk -----------------------------
(***************************************************************************)
(* The application as an issuer, over the issuer registry of the chain:    *)
(* the routes that sign credentials for a deployment and for its tenants   *)
(* (api/issue, api/issue/batch) with the keys the secrets provider holds   *)
(* (secrets-vault.ts, tenancy.ts), the page an issuer signs from           *)
(* (IssuerPageClient.tsx), and the check by which a holder's application   *)
(* learns what became of an issuer (issuer-registry.ts).                   *)
(*                                                                         *)
(* Each reads the registry at one moment and acts on it at a later one;    *)
(* administrators rotate and revoke keys in between.  A key stands for the *)
(* pair.  One tenant, active at first; a request of nobody's is the        *)
(* deployment's own.  Replay by Idempotency-Key is in Idempotency, the     *)
(* providers asked before signing in Issuance, the audit in AuditTrail.    *)
(***************************************************************************)
EXTENDS IssuerRegistry, SequencesExt

CONSTANTS
    Operator,                  \* holds every role of the registry
    TenantIssuer, TenantKey,   \* the tenant's issuer, and its key at first
    DefaultIssuer, EnvKey,     \* NEXT_PUBLIC_ISSUER_ADDRESS, ISSUER_PRIVATE_KEY
    Provider,                  \* "vault", or "env"
    CacheTtl,                  \* cacheTtlMs of the vault provider
    Subjects,                  \* the holders an issuer enters
    MaxItems, MaxUpheavals     \* bounds; a later request has fewer items

ASSUME DeskAssumption ==
    /\ {TenantIssuer, DefaultIssuer} \subseteq Issuers /\ {TenantKey, EnvKey} \subseteq PubKeys
    /\ Provider \in {"vault", "env"} /\ CacheTtl \in Nat \ {0}
    /\ IsFiniteSet(Issuers) /\ MaxItems \in Nat

VARIABLES
    secret,       \* the keys in the vault, by path
    vaultUp,
    secretCache,  \* VaultSecretsProvider.cache: [key, until], None where there is none
    tenant,       \* status of the tenant
    signings,     \* requests to sign, in the order they came
    desk,         \* the issuer's page
    statusCheck,      \* the last check of an issuer's status
    upheavals     \* changes by others so far

deskVars == <<secret, vaultUp, secretCache, tenant, signings, desk, statusCheck, upheavals>>
vaultVars == <<secret, vaultUp, secretCache, tenant>>

Paths == {"tenant", "default"}
Absent == [key |-> None, until |-> -1]

NoLoad == [at |-> "idle", left |-> <<>>, got |-> <<>>]
NoForm == [issuer |-> None, holder |-> None, type |-> None]
NoCheck == [at |-> "none", issuer |-> None, type |-> None, key |-> None,
              status |-> "none", accepted |-> FALSE]

\* The registered issuers with their keys
KeysNow == {<<i, issuer[i].pubkey>> : i \in {j \in Issuers : Registered(j)}}

\* Both issuers are registered, each with the key the application holds for it
DeskInit ==
    /\ admin = Operator /\ pendingAdmin = None
    /\ roles = [r \in Roles |-> IF r \in SeededRoles THEN Operator ELSE None]
    /\ now = 0 /\ retired = [i \in Issuers |-> {}] /\ currentKeyRevoked = {}
    /\ issuer = [i \in Issuers |->
           [pubkey |-> IF i = TenantIssuer THEN TenantKey ELSE EnvKey,
            credentialTypes |-> CredTypes, revoked |-> FALSE]]
    /\ issuerList = SetToSeq(Issuers)
    /\ issuerCount = Cardinality(Issuers) /\ metadata = {}
    /\ secret = [p \in Paths |-> IF p = "tenant" THEN TenantKey ELSE None]
    /\ vaultUp = TRUE /\ secretCache = [p \in Paths |-> Absent] /\ tenant = "active"
    /\ signings = <<>> /\ upheavals = 0 /\ statusCheck = NoCheck
    /\ desk = [load |-> [NoLoad EXCEPT !.at = "ids"], issuers |-> <<>>, wallet |-> None,
               form |-> [NoForm EXCEPT !.type = CHOOSE t \in CredTypes : TRUE],
               preview |-> NoForm, signed |-> NoForm, request |-> 0]

---------------------------------------------------------------------------
\* The secrets

\* Without a vault every reference ends at the key of the environment
EnvSecret == EnvKey

\* What a read of a path gives, and the cache it leaves.  A vault that cannot be
\* reached or answers with an error gives nothing, and nothing is kept; that a path
\* does not exist is kept as long as a key
Secret(path) ==
    CASE Provider = "env"              -> [key |-> EnvSecret, cache |-> secretCache]
      [] secretCache[path].until > now -> [key |-> secretCache[path].key, cache |-> secretCache]
      [] vaultUp                       -> [key |-> secret[path],
                                           cache |-> [secretCache EXCEPT ![path] =
                                               [key |-> secret[path], until |-> now + CacheTtl]]]
      [] OTHER                         -> [key |-> None, cache |-> secretCache]

---------------------------------------------------------------------------
\* Requests to sign

\* The issuer an item is signed for
IssuerOf(r, item) ==
    IF item.issuer # None THEN item.issuer
    ELSE IF r.tenant THEN TenantIssuer
    ELSE IF r.route = "batch" THEN DefaultIssuer ELSE None

\* Refused before the registry is asked: the item is malformed, its holder at the rate
\* limit, its type unknown or not the tenant's; or the tenant may not sign for that issuer
Refused(r, item) ==
    \/ item.fault = "invalid" \/ IssuerOf(r, item) = None
    \/ r.tenant /\ IssuerOf(r, item) # TenantIssuer

\* A faulty item names no issuer; what comes after the first is never looked at
Items ==
    {item \in [issuer: Issuers \cup {None}, fault: {"none", "invalid", "unsignable"}] :
        item.fault # "none" => item.issuer = None}
Batches ==
    {items \in UNION {[1..size -> Items] : size \in 1..MaxItems} :
        \A n \in 1 .. Len(items) - 1 : items[n].fault = "none"}

NewRequest(route, byTenant, items) ==
    [route |-> route, tenant |-> byTenant, items |-> items, at |-> "received", key |-> None,
     checked |-> [i \in Issuers |-> "unknown"], issued |-> <<>>,
     seen |-> KeysNow]

\* What is kept of a request that has ended, besides its reply: whether it signed, and
\* whether each key it signed with had been its issuer's meanwhile
EndedSigning(r, issued, reply) ==
    [at |-> "done", reply |-> reply, signed |-> issued # <<>>,
     registered |-> ToSet(issued) \subseteq r.seen]

\* POST /api/issue/batch, or /api/issue with one item
ReceiveSigning(route, byTenant, items) ==
    /\ Len(signings) + Len(items) <= MaxItems
    /\ \A n \in DOMAIN signings : signings[n].at = "done"
    /\ route = "single" => Len(items) = 1
    /\ signings' = Append(signings, NewRequest(route, byTenant, items))
    /\ UNCHANGED <<vars, vaultVars, desk, statusCheck, upheavals>>

Set(n, request) == signings' = [signings EXCEPT ![n] = request]
Reply(n, issued, reply) == signings' = [signings EXCEPT ![n] = EndedSigning(@, issued, reply)]

\* /api/issue looks at its item before the tenant's key is asked for
RefusedAtOnce(r) == r.route = "single" /\ Refused(r, r.items[1])

\* The key is known, and the items are next
WithKey(r, key) == [r EXCEPT !.at = "items", !.key = key]

\* resolveTenant: an unknown key, a suspended and a revoked tenant are refused
Authenticate(n) ==
    /\ signings[n].at = "received"
    /\ IF signings[n].tenant
       THEN IF tenant # "active" THEN Reply(n, <<>>, "unauthorized")
            ELSE IF RefusedAtOnce(signings[n]) THEN Reply(n, <<>>, "failed")
            ELSE Set(n, [signings[n] EXCEPT !.at = "tenant"])
       ELSE Set(n, WithKey(signings[n], EnvKey))
    /\ UNCHANGED <<vars, vaultVars, desk, statusCheck, upheavals>>

\* resolveSigningKey: the tenant's path, then the default path, then the environment
ReadSecret(n) ==
    /\ signings[n].at \in Paths
    /\ LET r == signings[n]
           read == Secret(r.at) IN
       /\ secretCache' = read.cache
       /\ Set(n, IF read.key # None THEN WithKey(r, read.key)
                 ELSE IF r.at = "tenant" THEN [r EXCEPT !.at = "default"]
                 ELSE WithKey(r, EnvKey))
    /\ UNCHANGED <<vars, secret, vaultUp, tenant, desk, statusCheck, upheavals>>

\* issueAndAuditCredentials
Signed(r, i) == Append(r.issued, <<i, r.key>>)

\* The item a request is at, checked as far as it can be before an await, and signed
\* and audited once the registry has confirmed its issuer's key
NextItem(n) ==
    /\ signings[n].at = "items"
    /\ LET r == signings[n]
           item == r.items[Len(r.issued) + 1]
           i == IssuerOf(r, item)
           fails == \/ Refused(r, item) \/ r.checked[i] = "differs"
                    \/ r.checked[i] = "matches" /\ item.fault = "unsignable" IN
       IF fails THEN Reply(n, r.issued, "failed")
       ELSE IF r.checked[i] = "unknown" THEN Set(n, [r EXCEPT !.at = "registry"])
       ELSE IF Len(r.issued) + 1 < Len(r.items) THEN Set(n, [r EXCEPT !.issued = Signed(r, i)])
       ELSE Reply(n, Signed(r, i), "issued")
    /\ UNCHANGED <<vars, vaultVars, desk, statusCheck, upheavals>>

\* (Faulty: what the registry has is compared with the deployment's own key)
MatchesOwn(r, i) == issuer[i].pubkey = EnvKey

\* What fetchIssuerPubkey gives is compared with the key that will sign
Matches(r, i) == issuer[i].pubkey = r.key

Compared(r, i, answer) == [r EXCEPT !.at = "items", !.checked[i] = answer]

\* fetchIssuerPubkey has answered; or the account to simulate from could not be read,
\* which counts as not registered; or the call failed, and the request with it
PubkeyAnswers(n) ==
    /\ signings[n].at = "registry"
    /\ LET r == signings[n]
           i == IssuerOf(r, r.items[Len(r.issued) + 1]) IN
       \/ Set(n, Compared(r, i, IF Matches(r, i) THEN "matches" ELSE "differs"))
       \/ Set(n, Compared(r, i, "differs"))
       \/ Reply(n, r.issued, "error")
    /\ UNCHANGED <<vars, vaultVars, desk, statusCheck, upheavals>>

RequestProceeds ==
    \E n \in DOMAIN signings :
        Authenticate(n) \/ ReadSecret(n) \/ NextItem(n) \/ PubkeyAnswers(n)

---------------------------------------------------------------------------
\* The issuer's page

Loading == desk.load.at # "idle"
Busy == desk.request # 0

\* The entry of the selected issuer in the list, and the types the form offers
Selected(p) == SelectSeq(p.issuers, LAMBDA e : e.id = p.form.issuer)
Offered(p) == IF Selected(p) = <<>> THEN CredTypes ELSE Selected(p)[1].types

\* The effect that follows the offered types
Settled(p) ==
    IF Offered(p) = {} \/ p.form.type \in Offered(p) THEN p
    ELSE [p EXCEPT !.form.type = CHOOSE t \in Offered(p) : TRUE]

Shows(p) == desk' = Settled(p)
ChangesPage(p) == Shows(p) /\ UNCHANGED <<vars, vaultVars, signings, statusCheck, upheavals>>

\* fetchRegisteredIssuers: the list, and then one issuer after the other.  A read that
\* gives nothing counts as an empty list, or passes over the issuer; one that throws
\* ends the whole
IdsAnswer ==
    /\ desk.load.at = "ids"
    /\ \/ \E ids \in {issuerList, <<>>} : ChangesPage([desk EXCEPT !.load.at = "records", !.load.left = ids])
       \/ ChangesPage([desk EXCEPT !.load = NoLoad])

RecordAnswers ==
    /\ desk.load.at = "records" /\ desk.load.left # <<>>
    /\ LET i == Head(desk.load.left)
           entry == [id |-> i, types |-> issuer[i].credentialTypes] IN
       \/ ChangesPage([desk EXCEPT !.load.left = Tail(@),
                           !.load.got = IF issuer[i].revoked THEN @ ELSE Append(@, entry)])
       \/ ChangesPage([desk EXCEPT !.load.left = Tail(@)])
       \/ ChangesPage([desk EXCEPT !.load = NoLoad])

Preferred(ids) ==
    CASE desk.wallet \in ToSet(ids)   -> desk.wallet
      [] DefaultIssuer \in ToSet(ids) -> DefaultIssuer
      [] OTHER                        -> ids[1]

\* The list is shown, and an issuer of it selected anew
ListAnswers ==
    /\ desk.load.at = "records" /\ desk.load.left = <<>>
    /\ LET got == desk.load.got
           ids == [n \in DOMAIN got |-> got[n].id] IN
       ChangesPage([desk EXCEPT !.load = NoLoad, !.issuers = got,
                        !.form.issuer = IF got = <<>> THEN @ ELSE Preferred(ids)])

\* Only the form has these fields, and a preview replaces it
FillsIn ==
    /\ desk.preview = NoForm
    /\ \/ \E n \in DOMAIN desk.issuers : ~Loading /\ ChangesPage([desk EXCEPT !.form.issuer = desk.issuers[n].id])
       \/ \E h \in Subjects : ChangesPage([desk EXCEPT !.form.holder = h])
       \/ \E t \in Offered(desk) : ChangesPage([desk EXCEPT !.form.type = t])

OnReview ==
    /\ desk.preview = NoForm /\ ~Busy /\ ~Loading
    /\ desk.form.holder # None /\ Selected(desk) # <<>> /\ Offered(desk) # {}
    /\ ChangesPage([desk EXCEPT !.preview = desk.form])

OnBack ==
    /\ desk.preview # NoForm /\ ~Busy
    /\ ChangesPage([desk EXCEPT !.preview = NoForm])

\* What is posted is the form as it is now
OnConfirmIssue ==
    /\ desk.preview # NoForm /\ ~Busy /\ Selected(desk) # <<>>
    /\ Len(signings) < MaxItems
    /\ signings' = Append(signings, NewRequest("single", FALSE,
                              <<[issuer |-> desk.form.issuer, fault |-> "none"]>>))
    /\ Shows([desk EXCEPT !.signed = desk.form, !.request = Len(signings')])
    /\ UNCHANGED <<vars, vaultVars, statusCheck, upheavals>>

IssueAnswered ==
    /\ Busy /\ signings[desk.request].at = "done"
    /\ ChangesPage([desk EXCEPT !.request = 0, !.preview = NoForm, !.signed = NoForm])

\* The wallet connects, or another one does: the list is loaded again
IssuerWalletChanges ==
    /\ upheavals < MaxUpheavals /\ upheavals' = upheavals + 1
    /\ \E w \in (Issuers \cup {None}) \ {desk.wallet} :
          Shows([desk EXCEPT !.wallet = w, !.load = [NoLoad EXCEPT !.at = "ids"]])
    /\ UNCHANGED <<vars, vaultVars, signings, statusCheck>>

PageStep ==
    \/ IdsAnswer \/ RecordAnswers \/ ListAnswers \/ IssuerWalletChanges
    \/ FillsIn \/ OnReview \/ OnBack \/ OnConfirmIssue \/ IssueAnswered

---------------------------------------------------------------------------
\* checkIssuerStatus, for one credential at a time (useIssuerStatus, the tour)

Answered(status) == statusCheck' = [statusCheck EXCEPT !.at = "none", !.status = status]
Asks(at) == statusCheck' = [statusCheck EXCEPT !.at = at]
Rest == UNCHANGED <<vars, vaultVars, signings, desk, upheavals>>

\* What a submission asks of the registry
Accepted(i, t, k) == IsValidIssuer(i, t) /\ IsValidIssuerKey(i, k)

\* Asked on the holder's page and in the tour, for one credential after the other
CheckIssuerStatus(i, t, k) ==
    /\ statusCheck.at = "none"
    /\ statusCheck' = [at |-> "issuer", issuer |-> i, type |-> t, key |-> k, status |-> "none",
                   accepted |-> Accepted(i, t, k)]
    /\ Rest

\* A simulation may give nothing, or throw: the status is not known
IssuerAnswers ==
    /\ statusCheck.at = "issuer"
    /\ \/ IF IsValidIssuer(statusCheck.issuer, statusCheck.type) THEN Asks("key") ELSE Asks("record")
       \/ Answered("unknown")
    /\ Rest

\* The record tells a revoked issuer from a revoked key; without it the key is blamed
IssuerRecordAnswers ==
    /\ statusCheck.at = "record"
    /\ \/ issuer[statusCheck.issuer].revoked /\ Answered("issuer_revoked")
       \/ Answered("key_revoked")
    /\ Rest

KeyAnswers ==
    /\ statusCheck.at = "key"
    /\ \/ ~IsValidIssuerKey(statusCheck.issuer, statusCheck.key) /\ Answered("key_retired")
       \/ Answered("active")
    /\ Rest

CheckStep ==
    \/ \E i \in Issuers, t \in CredTypes, k \in PubKeys : CheckIssuerStatus(i, t, k)
    \/ IssuerAnswers \/ IssuerRecordAnswers \/ KeyAnswers

---------------------------------------------------------------------------
\* What others do meanwhile

\* The histories go along
Witnessed ==
    /\ signings' = [n \in DOMAIN signings |->
           IF signings[n].at = "done" THEN signings[n]
           ELSE [signings[n] EXCEPT !.seen = @ \cup KeysNow']]
    /\ IF statusCheck.at = "none" THEN UNCHANGED statusCheck
       ELSE \E i \in {statusCheck.issuer}, t \in {statusCheck.type}, k \in {statusCheck.key} :
                statusCheck' = [statusCheck EXCEPT !.accepted = @ \/ Accepted(i, t, k)']

RegistryChanges(issuers, typeSets) ==
    /\ upheavals < MaxUpheavals /\ upheavals' = upheavals + 1
    /\ \E i \in issuers :
          \/ RevokeIssuer(Operator, i)
          \/ \E types \in typeSets : RegisterIssuer(Operator, i, issuer[i].pubkey, types)
          \/ \E k \in PubKeys :
                \/ RotateIssuerKey(Operator, i, k, now + MAX_KEY_RETENTION_SECS)
                \/ RevokeIssuerKey(Operator, i, k)
    /\ Witnessed
    /\ UNCHANGED <<vaultVars, desk>>

\* Another key is stored, or the vault goes and comes
VaultChanges ==
    /\ upheavals < MaxUpheavals /\ upheavals' = upheavals + 1
    /\ \/ vaultUp' = ~vaultUp /\ UNCHANGED secret
       \/ \E p \in Paths, k \in (PubKeys \ {EnvKey}) \cup {None} :
             k # secret[p] /\ secret' = [secret EXCEPT ![p] = k] /\ UNCHANGED vaultUp
    /\ UNCHANGED <<vars, secretCache, tenant, signings, desk, statusCheck>>

TenantChanges ==
    /\ upheavals < MaxUpheavals /\ upheavals' = upheavals + 1
    /\ tenant' \in {"active", "suspended"} \ {tenant}
    /\ UNCHANGED <<vars, secret, vaultUp, secretCache, signings, desk, statusCheck>>

\* The cache is in memory, and so are the requests
SignerRestarts ==
    /\ upheavals < MaxUpheavals /\ upheavals' = upheavals + 1
    /\ secretCache' = [p \in Paths |-> Absent]
    /\ signings' = [n \in DOMAIN signings |->
           IF signings[n].at = "done" THEN signings[n]
           ELSE EndedSigning(signings[n], signings[n].issued, "lost")]
    /\ UNCHANGED <<vars, secret, vaultUp, tenant, desk, statusCheck>>

TimePasses == Tick /\ UNCHANGED deskVars

IssuingNext ==
    \/ \E byTenant \in BOOLEAN, route \in {"batch", "single"}, items \in Batches :
          ReceiveSigning(route, byTenant, items)
    \/ RequestProceeds
    \/ RegistryChanges({TenantIssuer}, {}) \/ VaultChanges \/ TenantChanges \/ SignerRestarts \/ TimePasses

IssuerPageNext == PageStep \/ RequestProceeds \/ RegistryChanges(Issuers, {{t} : t \in CredTypes})

StatusNext == CheckStep \/ RegistryChanges(Issuers, SUBSET CredTypes) \/ TimePasses

\* All of it at once: the runs take one of the three at a time
DeskSpec == DeskInit /\ [][IssuingNext \/ IssuerPageNext \/ StatusNext]_<<vars, deskVars>>

---------------------------------------------------------------------------
\* Properties

DeskTypeOK ==
    /\ secret \in [Paths -> PubKeys \cup {None}]
    /\ \A n \in DOMAIN signings :
          signings[n].at \in Paths \cup {"received", "items", "registry", "done"}
    /\ desk.request \in 0 .. Len(signings)

\* Whatever a vault that is down, slow to change or empty makes the tenant's key fall
\* back to, and whoever rotates keys meanwhile: what is signed for an issuer is signed
\* with a key the registry held for it at some moment since the request came
\* (api/issue/batch/route.ts, handlers/validate.ts, secrets-vault.ts)
SignedByRegistered ==
    \A n \in DOMAIN signings : signings[n].at = "done" => signings[n].registered

\* A batch answered as failed has signed nothing.  Does not hold: the items before the
\* first failure are signed and in the audit log (route.ts:409-455)
FailedSignedNothing ==
    \A n \in DOMAIN signings :
        signings[n].at = "done" /\ signings[n].reply \in {"failed", "error"} => ~signings[n].signed

\* What is signed is what the issuer confirmed on the preview.  Does not hold: a list
\* that arrives under the preview selects another issuer (IssuerPageClient.tsx:80-108)
SignedIsPreviewed == Busy => desk.signed = desk.preview

\* A credential whose status is key_retired still proves: its key was accepted at some
\* moment of the check
RetiredStillProves == statusCheck.status = "key_retired" => statusCheck.accepted
=============================================================================
