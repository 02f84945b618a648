------------------------------ MODULE MCBrowser ------------------------------
(***************************************************************************)
(* What runs in the browser of a holder, side by side: the credential      *)
(* store, the guardian dialog, proving, submissions to the chain, the      *)
(* session of a page (wallet, network, node, access), the guided tour, and *)
(* the claim reads of the SDK with their cache.  They share no state here; *)
(* the first state chooses the part that runs and the others stay as they  *)
(* are, so what holds of the sum holds of each part.                       *)
(***************************************************************************)
EXTENDS CredentialStore, ProofFlow, Submissions, HolderSession, Onboarding,
        ClaimReads, GuardianRecovery, TLC

CONSTANTS Parts, k1, k2

VARIABLE part

\* Every credential is of a type of its own
mcTypeOf == [c \in Creds |-> c]
mcSymmetry == Permutations(Creds)

vars == <<part, storeVars, proverVars, subVars, sessionVars, tourVars, readVars, guardianVars>>

Init ==
    /\ part \in Parts
    /\ StoreInit /\ ProverInit /\ SubInit /\ SessionInit /\ TourInit /\ ReadInit /\ GuardianInit
    /\ part # "store" => stored = Empty
    /\ part # "session" => savedWallet = NoAccount /\ linkAccount = NoAccount
    /\ part # "tour" => ~tour.dismissed
    /\ part # "reads" => reader = "app"
    /\ part # "guardians" => sets = <<[total |-> 2, threshold |-> 2, creds |-> Recoverable, readable |-> FALSE]>>

Next ==
    \/ part = "store"       /\ StoreNext
       /\ UNCHANGED <<part, proverVars, subVars, sessionVars, tourVars, readVars, guardianVars>>
    \/ part = "proofs"      /\ ProverNext
       /\ UNCHANGED <<part, storeVars, subVars, sessionVars, tourVars, readVars, guardianVars>>
    \/ part = "submissions" /\ SubNext
       /\ UNCHANGED <<part, storeVars, proverVars, sessionVars, tourVars, readVars, guardianVars>>
    \/ part = "session"     /\ SessionNext
       /\ UNCHANGED <<part, storeVars, proverVars, subVars, tourVars, readVars, guardianVars>>
    \/ part = "tour"        /\ TourNext
       /\ UNCHANGED <<part, storeVars, proverVars, subVars, sessionVars, readVars, guardianVars>>
    \/ part = "reads"       /\ ReadNext
       /\ UNCHANGED <<part, storeVars, proverVars, subVars, sessionVars, tourVars, guardianVars>>
    \/ part = "guardians"   /\ GuardianNext
       /\ UNCHANGED <<part, storeVars, proverVars, subVars, sessionVars, tourVars, readVars>>

Spec == Init /\ [][Next]_vars
=============================================================================
