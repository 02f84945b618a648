------------------------------ MODULE Governance ------------------------------
(***************************************************************************)
(* Role-based access control and the two-step root-admin handover that     *)
(* IssuerRegistry, CredentialVerifier and ProofRegistry each carry.  Every *)
(* contract keeps its own copy of this state; a contract module EXTENDS    *)
(* this one and guards its operations with RequireRole / RequireAdmin.     *)
(*                                                                         *)
(* A call is a transaction signed by `caller`: require_auth succeeds       *)
(* exactly for that address, and a panic reverts the whole call, so a call *)
(* that panics is a call that is not enabled.                              *)
(***************************************************************************)
CONSTANTS
    Address,      \* accounts that can sign a call
    Roles,        \* role names in use, e.g. "admin", "pauser"
    SeededRoles,  \* the roles __constructor hands to the deployer
    None          \* an absent storage entry

ASSUME GovAssumption ==
    /\ SeededRoles \subseteq Roles
    /\ "admin" \in SeededRoles
    /\ None \notin Address

VARIABLES
    admin,         \* DataKey::Admin
    pendingAdmin,  \* DataKey::PendingAdmin
    roles          \* DataKey::Roles: role -> holder

govVars == <<admin, pendingAdmin, roles>>

GovTypeOK ==
    /\ admin \in Address
    /\ pendingAdmin \in Address \cup {None}
    /\ roles \in [Roles -> Address \cup {None}]

-----------------------------------------------------------------------------
RequireAdmin(caller) == caller = admin

RequireRole(caller, role) == roles[role] = caller

HasRole(role, address) == roles[role] = address

\* __constructor: the deployer is root and holds the seeded roles.
GovInit ==
    /\ admin \in Address
    /\ pendingAdmin = None
    /\ roles = [r \in Roles |-> IF r \in SeededRoles THEN admin ELSE None]

ProposeAdmin(caller, newAdmin) ==
    /\ RequireAdmin(caller)
    /\ pendingAdmin' = newAdmin
    /\ UNCHANGED <<admin, roles>>

\* (Faulty: only the admin role moves.)
AcceptMovesAdminOnly(caller) ==
    /\ pendingAdmin # None
    /\ caller = pendingAdmin
    /\ roles' = [roles EXCEPT !["admin"] = caller]
    /\ admin' = caller
    /\ pendingAdmin' = None

\* The candidate takes the root key and every role the outgoing root holds.
AcceptAdmin(caller) ==
    /\ pendingAdmin # None
    /\ caller = pendingAdmin
    /\ roles' = [r \in Roles |-> IF roles[r] = admin THEN caller ELSE roles[r]]
    /\ admin' = caller
    /\ pendingAdmin' = None

CancelAdminProposal(caller) ==
    /\ RequireAdmin(caller)
    /\ pendingAdmin' = None
    /\ UNCHANGED <<admin, roles>>

GrantRole(caller, role, address) ==
    /\ RequireAdmin(caller)
    /\ roles' = [roles EXCEPT ![role] = address]
    /\ UNCHANGED <<admin, pendingAdmin>>

\* Naming anybody but the holder panics; revoking an unassigned role is a no-op.
RevokeRole(caller, role, address) ==
    /\ RequireAdmin(caller)
    /\ roles[role] \in {address, None}
    /\ roles' = [roles EXCEPT ![role] = None]
    /\ UNCHANGED <<admin, pendingAdmin>>

GovNext ==
    \E caller \in Address :
        \/ \E a \in Address : ProposeAdmin(caller, a)
        \/ AcceptAdmin(caller)
        \/ CancelAdminProposal(caller)
        \/ \E r \in Roles, a \in Address : GrantRole(caller, r, a)
        \/ \E r \in Roles, a \in Address : RevokeRole(caller, r, a)

GovSpec == GovInit /\ [][GovNext]_govVars

-----------------------------------------------------------------------------
\* The governance steps keep the governance types.
LEMMA GovStepTypeOK ==
  ASSUME GovTypeOK, GovNext
  PROVE  GovTypeOK'
<1> USE GovAssumption DEF GovAssumption, GovTypeOK
<1>1. ASSUME NEW c \in Address, NEW a \in Address, ProposeAdmin(c, a)
      PROVE  GovTypeOK'
  BY <1>1 DEF ProposeAdmin
<1>2. ASSUME NEW c \in Address, AcceptAdmin(c)
      PROVE  GovTypeOK'
  BY <1>2 DEF AcceptAdmin
<1>3. ASSUME NEW c \in Address, CancelAdminProposal(c)
      PROVE  GovTypeOK'
  BY <1>3 DEF CancelAdminProposal
<1>4. ASSUME NEW c \in Address, NEW r \in Roles, NEW a \in Address,
             GrantRole(c, r, a)
      PROVE  GovTypeOK'
  BY <1>4 DEF GrantRole
<1>5. ASSUME NEW c \in Address, NEW r \in Roles, NEW a \in Address,
             RevokeRole(c, r, a)
      PROVE  GovTypeOK'
  BY <1>5 DEF RevokeRole
<1> QED BY <1>1, <1>2, <1>3, <1>4, <1>5 DEF GovNext
=============================================================================
