------------------------------- MODULE MCKeys -------------------------------
(***************************************************************************)
(* The two registries of keys side by side, each with its history: the     *)
(* signing keys of issuers and the verification keys of circuits.  They    *)
(* are contracts of their own; the first state chooses the one that runs.  *)
(***************************************************************************)
EXTENDS KeyHistory

VARIABLE part

keysVars == <<part, hvars, vkHVars>>

KeysInit == part \in {"issuers", "circuits"} /\ HInit /\ VkHInit

KeysNext ==
    \/ part = "issuers"  /\ HNext   /\ UNCHANGED <<part, ledgerTime, vkVars, vkHistVars>>
    \/ part = "circuits" /\ VkHNext /\ UNCHANGED <<part, now, registryVars, histVars>>

KeysSpec == KeysInit /\ [][KeysNext]_keysVars
=============================================================================
