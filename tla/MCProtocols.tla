----------------------------- MODULE MCProtocols -----------------------------
(***************************************************************************)
(* Protocols between a page and the services behind it, side by side:      *)
(* issuance through a verification link and the identity provider, a       *)
(* server that gates a page on a claim, the application as an issuer (the  *)
(* routes that sign, the issuer's page, the check of an issuer's status),  *)
(* and what verification links and shared presets carry.  They share no    *)
(* state; the first state chooses the part that runs and the others stay   *)
(* as they are, so what holds of the sum holds of each part.               *)
(***************************************************************************)
EXTENDS Issuance, GatedServer, IssuerDesk, VerifyLinks

CONSTANT Parts

VARIABLE part

registryAndDesk == <<vars, deskVars>>
protocolVars == <<part, issueVars, gateVars, registryAndDesk, linkVars>>

\* One issuer of two types, one of all, and a revoked one.
mcRegistry == << [id |-> "i1", types |-> {"age", "funds"}, revoked |-> FALSE],
                 [id |-> "i2", types |-> CredentialTypes,   revoked |-> FALSE],
                 [id |-> "i3", types |-> CredentialTypes,   revoked |-> TRUE] >>
mcOptions == {{}, {"issuer"}}
\* An unknown type, a minimum that is no number, one type twice, nothing known.
Entry(t, text) == [type |-> t, text |-> text]
mcLinks == { {Entry("kyc", "no colon"), Entry("unknown", "18")}, {Entry("age", "word")},
             {Entry("age", "18"), Entry("age", "21")}, {Entry("age", ""), Entry("funds", "21")},
             {Entry("unknown", "no colon")} }
mcGates == {{}, {"i2"}, {"i3"}, {"malformed"}}

ProtocolsInit ==
    /\ part \in Parts
    /\ IssueInit /\ ServerInit /\ DeskInit /\ LinkInit /\ SharingInit
    /\ part # "issuance" => expires = 0
    /\ part # "server" => onChain = [w \in Visitors |-> NoRecord]
    \* Visitors are alike: who has a claim at first, if anybody, may be fixed
    /\ onChain[CHOOSE w \in Visitors : TRUE] = NoRecord
    /\ part # "request" => wish = AskPlain
    /\ part # "sharing" => proven = [t \in PresetTypes |-> "none"] /\ badge.wallet
    \* A badge of nobody has no claims to read, and "kyc" is proved for no number
    /\ ~badge.wallet => proven = [t \in PresetTypes |-> "none"]
    /\ proven["kyc"] # "21"

DeskNext ==
    \/ part = "issuing" /\ IssuingNext
    \/ part = "page"    /\ IssuerPageNext
    \/ part = "status"  /\ StatusNext

ProtocolsNext ==
    \/ part = "issuance" /\ IssueNext  /\ UNCHANGED <<part, gateVars, registryAndDesk, linkVars>>
    \/ part = "server"   /\ ServerNext /\ UNCHANGED <<part, issueVars, registryAndDesk, linkVars>>
    \/ DeskNext /\ UNCHANGED <<part, issueVars, gateVars, linkVars>>
    \/ /\ \/ part = "request" /\ RequestNext /\ UNCHANGED sharingVars
          \/ part = "sharing" /\ SharingNext /\ UNCHANGED requestVars
       /\ UNCHANGED <<part, issueVars, gateVars, registryAndDesk>>

ProtocolsSpec == ProtocolsInit /\ [][ProtocolsNext]_protocolVars
=============================================================================
