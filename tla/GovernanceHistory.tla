-------------------------- MODULE GovernanceHistory --------------------------
(***************************************************************************)
(* Governance with two history variables, read only by the properties:     *)
(* who made the pending proposal, and which terms of office each address   *)
(* and each role assignment belong to.  A term is the span between two     *)
(* accepted handovers; MaxTerms bounds how many a behaviour has.           *)
(***************************************************************************)
EXTENDS Governance, Naturals, TLAPS

CONSTANT MaxTerms

ASSUME TermAssumption == MaxTerms \in Nat \ {0}

VARIABLES
    proposer,   \* the root that made the pending proposal, None without one
    term,       \* number of handovers accepted so far
    leftIn,     \* leftIn[a]: the term a's last root tenure ended with, 0 if none
    assignedIn  \* assignedIn[r]: the term role r was last granted in

histVars == <<proposer, term, leftIn, assignedIn>>
hvars == <<govVars, histVars>>

HInit ==
    /\ GovInit
    /\ proposer = None
    /\ term = 1
    /\ leftIn = [a \in Address |-> 0]
    /\ assignedIn = [r \in Roles |-> 1]

HProposeAdmin(caller, a) ==
    /\ ProposeAdmin(caller, a)
    /\ proposer' = caller
    /\ UNCHANGED <<term, leftIn, assignedIn>>

HCancelAdminProposal(caller) ==
    /\ CancelAdminProposal(caller)
    /\ proposer' = None
    /\ UNCHANGED <<term, leftIn, assignedIn>>

\* A root that accepts its own proposal stays: its tenure does not end.
HAcceptAdmin(caller) ==
    /\ term < MaxTerms
    /\ AcceptAdmin(caller)
    /\ proposer' = None
    /\ term' = term + 1
    /\ leftIn' = IF caller = admin THEN leftIn
                 ELSE [leftIn EXCEPT ![admin] = term]
    /\ UNCHANGED assignedIn

HGrantRole(caller, r, a) ==
    /\ GrantRole(caller, r, a)
    /\ assignedIn' = [assignedIn EXCEPT ![r] = term]
    /\ UNCHANGED <<proposer, term, leftIn>>

HRevokeRole(caller, r, a) ==
    /\ RevokeRole(caller, r, a)
    /\ UNCHANGED histVars

HNext ==
    \E caller \in Address :
        \/ \E a \in Address : HProposeAdmin(caller, a)
        \/ HAcceptAdmin(caller)
        \/ HCancelAdminProposal(caller)
        \/ \E r \in Roles, a \in Address : HGrantRole(caller, r, a)
        \/ \E r \in Roles, a \in Address : HRevokeRole(caller, r, a)

HSpec == HInit /\ [][HNext]_hvars

-----------------------------------------------------------------------------
HTypeOK ==
    /\ GovTypeOK
    /\ proposer \in Address \cup {None}
    /\ term \in 1..MaxTerms
    /\ leftIn \in [Address -> 0..MaxTerms]
    /\ assignedIn \in [Roles -> 1..MaxTerms]

\* A pending proposal is always one the present root made: no handover, and no
\* sequence of proposals and cancellations, leaves a former root's candidate
\* able to call accept_admin.
PendingProposedByRoot == pendingAdmin # None => proposer = admin

\* accept_admin is wholesale: whoever stepped down as root holds a role only if
\* a later root granted it anew ("the outgoing root loses all privileged
\* access").
FormerRootHasNoOldRole ==
    \A r \in Roles : \A a \in Address :
        roles[r] = a /\ a # admin /\ leftIn[a] > 0 => assignedIn[r] > leftIn[a]
-----------------------------------------------------------------------------
(* Theorems about the root-admin handover, for every set of addresses and  *)
(* roles and every number of terms.                                        *)

USE GovAssumption, TermAssumption

\* Every reachable state of the role table is well typed.
THEOREM HandoverTypeOK == HSpec => []HTypeOK
<1>1. HInit => HTypeOK
  BY SMT DEF HInit, GovInit, HTypeOK, GovTypeOK
<1>2. HTypeOK /\ [HNext]_hvars => HTypeOK'
  <2> SUFFICES ASSUME HTypeOK, [HNext]_hvars PROVE HTypeOK'
    OBVIOUS
  <2> USE DEF HTypeOK, GovTypeOK
  <2>1. ASSUME NEW c \in Address, NEW a \in Address, HProposeAdmin(c, a)
        PROVE  HTypeOK'
    BY <2>1 DEF HProposeAdmin, ProposeAdmin
  <2>2. ASSUME NEW c \in Address, HAcceptAdmin(c)
        PROVE  HTypeOK'
    BY <2>2 DEF HAcceptAdmin, AcceptAdmin
  <2>3. ASSUME NEW c \in Address, HCancelAdminProposal(c)
        PROVE  HTypeOK'
    BY <2>3 DEF HCancelAdminProposal, CancelAdminProposal
  <2>4. ASSUME NEW c \in Address, NEW r \in Roles, NEW a \in Address,
               HGrantRole(c, r, a)
        PROVE  HTypeOK'
    BY <2>4 DEF HGrantRole, GrantRole
  <2>5. ASSUME NEW c \in Address, NEW r \in Roles, NEW a \in Address,
               HRevokeRole(c, r, a)
        PROVE  HTypeOK'
    BY <2>5 DEF HRevokeRole, RevokeRole, histVars
  <2>6. CASE UNCHANGED hvars
    BY <2>6 DEF hvars, govVars, histVars
  <2> QED BY <2>1, <2>2, <2>3, <2>4, <2>5, <2>6 DEF HNext
<1> QED BY <1>1, <1>2, PTL DEF HSpec

\* The pending candidate was named by the root in office, across any number of
\* handovers, overwritten proposals and cancellations.
THEOREM ProposalIsCurrent == HSpec => []PendingProposedByRoot
<1>1. HInit => PendingProposedByRoot
  BY DEF HInit, GovInit, PendingProposedByRoot
<1>2. PendingProposedByRoot /\ [HNext]_hvars => PendingProposedByRoot'
  <2> SUFFICES ASSUME PendingProposedByRoot, [HNext]_hvars
               PROVE  PendingProposedByRoot'
    OBVIOUS
  <2> USE DEF PendingProposedByRoot
  <2>1. ASSUME NEW c \in Address, NEW a \in Address, HProposeAdmin(c, a)
        PROVE  PendingProposedByRoot'
    BY <2>1 DEF HProposeAdmin, ProposeAdmin, RequireAdmin
  <2>2. ASSUME NEW c \in Address, HAcceptAdmin(c) \/ HCancelAdminProposal(c)
        PROVE  PendingProposedByRoot'
    BY <2>2 DEF HAcceptAdmin, AcceptAdmin, HCancelAdminProposal,
                CancelAdminProposal
  <2>3. ASSUME NEW c \in Address, NEW r \in Roles, NEW a \in Address,
               HGrantRole(c, r, a) \/ HRevokeRole(c, r, a)
        PROVE  PendingProposedByRoot'
    BY <2>3 DEF HGrantRole, GrantRole, HRevokeRole, RevokeRole, histVars
  <2>4. CASE UNCHANGED hvars
    BY <2>4 DEF hvars, govVars, histVars
  <2> QED BY <2>1, <2>2, <2>3, <2>4 DEF HNext
<1> QED BY <1>1, <1>2, PTL DEF HSpec

\* A term of office that ended did so before the present one.
PastTerms == \A a \in Address : leftIn[a] < term

LEMMA TermsAdvance == HSpec => []PastTerms
<1>1. HInit => PastTerms
  <2> SUFFICES ASSUME HInit, NEW a \in Address PROVE leftIn[a] < term
    BY DEF PastTerms
  <2> QED BY SMT DEF HInit
<1>2. HTypeOK /\ PastTerms /\ [HNext]_hvars => PastTerms'
  <2> SUFFICES ASSUME HTypeOK, PastTerms, [HNext]_hvars PROVE PastTerms'
    OBVIOUS
  <2> USE DEF HTypeOK, GovTypeOK, PastTerms
  <2>1. ASSUME NEW c \in Address, HAcceptAdmin(c)
        PROVE  PastTerms'
    BY <2>1 DEF HAcceptAdmin, AcceptAdmin
  <2>2. CASE UNCHANGED <<leftIn, term>>
    BY <2>2
  <2> QED
    BY <2>1, <2>2 DEF HNext, hvars, histVars, HProposeAdmin,
       HCancelAdminProposal, HGrantRole, HRevokeRole
<1> QED BY <1>1, <1>2, HandoverTypeOK, PTL DEF HSpec

\* Stepping down as root forfeits every role held until a later root grants it
\* anew.  A grant is newer than any ended tenure because of PastTerms.
THEOREM OutgoingRootStripped == HSpec => []FormerRootHasNoOldRole
<1>1. HInit => FormerRootHasNoOldRole
  BY SMT DEF HInit, GovInit, FormerRootHasNoOldRole
<1>2. HTypeOK /\ PastTerms /\ FormerRootHasNoOldRole /\ [HNext]_hvars
      => FormerRootHasNoOldRole'
  <2> SUFFICES ASSUME HTypeOK, PastTerms, FormerRootHasNoOldRole,
                      [HNext]_hvars,
                      NEW q \in Roles, NEW b \in Address,
                      roles'[q] = b, b # admin', leftIn'[b] > 0
               PROVE  assignedIn'[q] > leftIn'[b]
    BY DEF FormerRootHasNoOldRole
  <2> USE DEF HTypeOK, GovTypeOK, FormerRootHasNoOldRole
  <2>1. ASSUME NEW c \in Address, NEW a \in Address,
               HProposeAdmin(c, a)
        PROVE  assignedIn'[q] > leftIn'[b]
    BY <2>1 DEF HProposeAdmin, ProposeAdmin
  <2>2. ASSUME NEW c \in Address, HAcceptAdmin(c)
        PROVE  assignedIn'[q] > leftIn'[b]
    <3>1. roles[q] = b /\ b # admin
      BY <2>2 DEF HAcceptAdmin, AcceptAdmin
    <3>2. leftIn'[b] = leftIn[b] /\ assignedIn' = assignedIn
      BY <2>2, <3>1 DEF HAcceptAdmin, AcceptAdmin
    <3> QED BY <3>1, <3>2
  <2>3. ASSUME NEW c \in Address, HCancelAdminProposal(c)
        PROVE  assignedIn'[q] > leftIn'[b]
    BY <2>3 DEF HCancelAdminProposal, CancelAdminProposal
  <2>4. ASSUME NEW c \in Address, NEW r \in Roles, NEW a \in Address,
               HGrantRole(c, r, a)
        PROVE  assignedIn'[q] > leftIn'[b]
    BY <2>4 DEF HGrantRole, GrantRole, PastTerms
  <2>5. ASSUME NEW c \in Address, NEW r \in Roles, NEW a \in Address,
               HRevokeRole(c, r, a)
        PROVE  assignedIn'[q] > leftIn'[b]
    BY <2>5 DEF HRevokeRole, RevokeRole, histVars
  <2>6. CASE UNCHANGED hvars
    BY <2>6 DEF hvars, govVars, histVars
  <2> QED BY <2>1, <2>2, <2>3, <2>4, <2>5, <2>6 DEF HNext
<1> QED BY <1>1, <1>2, HandoverTypeOK, TermsAdvance, PTL DEF HSpec
=============================================================================
