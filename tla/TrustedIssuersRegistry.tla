----------------------- MODULE TrustedIssuersRegistry -----------------------
(***************************************************************************)
(* TrustedIssuersRegistry.sol: which accounts may issue claims for which   *)
(* topics.  removeTrustedIssuer clears one issuer/topic pair and leaves    *)
(* the array of issuers and its membership flag alone.                     *)
(***************************************************************************)
EXTENDS ClaimTopicsRegistry

CONSTANT Issuer   \* bound: the accounts a run considers as issuers

ASSUME IssuerAssumption == Issuer \subseteq Account /\ Admin \in Issuer

VARIABLES
  issuerTopics,      \* _issuerTopics[a]: the topics a is trusted for
  isTrustedIssuer,   \* _isTrustedIssuer[a]: a was once added
  issuers            \* _issuers, the array

issuersVars == <<issuerTopics, isTrustedIssuer, issuers>>

IssuersType ==
  /\ issuerTopics \in [Issuer -> SUBSET Topic]
  /\ isTrustedIssuer \in [Issuer -> BOOLEAN]
  /\ issuers \in Seq(Issuer)

\* deploy.ts adds the admin for the KYC topic right after construction.
IssuersInit ==
  /\ issuerTopics = [a \in Issuer |-> IF a = Admin THEN {KYC_TOPIC} ELSE {}]
  /\ isTrustedIssuer = [a \in Issuer |-> a = Admin]
  /\ issuers = <<Admin>>

IsTrustedIssuerForTopic(a, t) == a \in Issuer /\ t \in issuerTopics[a]

AddTrustedIssuer(sender, a, t) ==
  /\ OnlyOwner("TrustedIssuersRegistry", sender)
  /\ issuers' = IF isTrustedIssuer[a] THEN issuers ELSE Append(issuers, a)
  /\ isTrustedIssuer' = [isTrustedIssuer EXCEPT ![a] = TRUE]
  /\ issuerTopics' = [issuerTopics EXCEPT ![a] = @ \cup {t}]

\* Mutant: also clears the membership flag when no topic is left.
RemoveAndUnflag(sender, a, t) ==
  /\ OnlyOwner("TrustedIssuersRegistry", sender)
  /\ issuerTopics' = [issuerTopics EXCEPT ![a] = @ \ {t}]
  /\ isTrustedIssuer' = [isTrustedIssuer EXCEPT ![a] = issuerTopics'[a] # {}]
  /\ UNCHANGED issuers

RemoveTrustedIssuer(sender, a, t) ==
  /\ OnlyOwner("TrustedIssuersRegistry", sender)
  /\ issuerTopics' = [issuerTopics EXCEPT ![a] = @ \ {t}]
  /\ UNCHANGED <<isTrustedIssuer, issuers>>

IssuersNext ==
  \E sender \in Account, a \in Issuer, t \in Topic :
    AddTrustedIssuer(sender, a, t) \/ RemoveTrustedIssuer(sender, a, t)

(***************************************************************************)
(* getTrustedIssuers is the only way to enumerate who may issue claims: it *)
(* must list every issuer that is trusted for some topic, and never one    *)
(* twice, although removal and re-addition touch only some of the three    *)
(* structures.                                                             *)
(***************************************************************************)
IssuersListed ==
  /\ NoDuplicates(issuers)
  /\ \A a \in Issuer :
       /\ isTrustedIssuer[a] <=> a \in Elements(issuers)
       /\ issuerTopics[a] # {} => isTrustedIssuer[a]
=============================================================================
