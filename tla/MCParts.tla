------------------------------- MODULE MCParts -------------------------------
(***************************************************************************)
(* Parts of the system that share no state with each other, side by side:  *)
(* the governance of a contract and the storage entry of a claim; of the   *)
(* indexer its integrity check and its query API; of the web application   *)
(* the export jobs of administrators and of holders, the export service,   *)
(* the audit trail and the directory of applications.  The first state     *)
(* chooses the part that runs and the others stay as they are: a behaviour *)
(* of a part alone is one here and the reverse, so what holds of the sum   *)
(* holds of each part.                                                     *)
(***************************************************************************)
EXTENDS GovernanceHistory, ClaimStorage, Integrity, IndexerApi, AdminExports,
        ExportService, UserExports, AuditTrail, AppDirectory

CONSTANT Parts

VARIABLE part

\* One group of parts of each side
ledgerVars == <<hvars, vars>>
indexerVars == <<integrityVars, apiVars>>
jobVars == <<exportVars, serviceVars, userVars>>
webVars == <<jobVars, auditVars, directoryVars>>

PartsInit ==
    /\ part \in Parts
    /\ HInit /\ Init
    /\ IntegrityInit /\ ApiInit
    /\ ExportsInit /\ ServiceInit /\ UserInit /\ AuditInit /\ DirectoryInit
    /\ part # "governance" => admin = CHOOSE a \in Address : TRUE
    /\ part # "apps" => guarded /\ indexerUp /\ configured

LedgerNext ==
    \/ part = "governance" /\ HNext /\ UNCHANGED vars
    \/ part = "storage"    /\ Next  /\ UNCHANGED hvars

IndexerNext ==
    \/ part = "integrity" /\ IntegrityNext /\ UNCHANGED apiVars
    \/ part = "api"       /\ ApiNext       /\ UNCHANGED integrityVars

JobNext ==
    \/ part = "exports" /\ ExportsNext /\ UNCHANGED <<serviceVars, userVars>>
    \/ part = "service" /\ ServiceNext /\ UNCHANGED <<exportVars, userVars>>
    \/ part = "user"    /\ UserNext    /\ UNCHANGED <<exportVars, serviceVars>>

WebNext ==
    \/ JobNext /\ UNCHANGED <<auditVars, directoryVars>>
    \/ part = "audit" /\ AuditNext /\ UNCHANGED <<jobVars, directoryVars>>
    \/ part = "apps"  /\ DirectoryNext /\ UNCHANGED <<jobVars, auditVars>>

PartsNext ==
    \/ LedgerNext  /\ UNCHANGED <<part, indexerVars, webVars>>
    \/ IndexerNext /\ UNCHANGED <<part, ledgerVars, webVars>>
    \/ WebNext     /\ UNCHANGED <<part, ledgerVars, indexerVars>>

PartsSpec == PartsInit /\ [][PartsNext]_<<part, ledgerVars, indexerVars, webVars>>
=============================================================================
