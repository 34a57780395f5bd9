------------------------------ MODULE Ownable ------------------------------
(***************************************************************************)
(* OpenZeppelin's Ownable, the base of every contract of the suite.  One   *)
(* function `owner' stands for the private slot each contract inherits.    *)
(* A call that reverts changes nothing, so it is a stuttering step here    *)
(* and in every module that extends this one.                              *)
(***************************************************************************)
EXTENDS FiniteSets

CONSTANTS
  Account,       \* externally owned accounts (admin, anson, beatrice, ...)
  Admin,         \* the account deploy.ts runs as, initial owner everywhere
  ZeroAddress,   \* address(0)
  Handovers      \* bound: the <<contract, new owner>> changes a run explores

\* An address is a word of twenty bytes: there are finitely many.
ASSUME AdminAssumption ==
  /\ IsFiniteSet(Account)
  /\ Admin \in Account /\ ZeroAddress \notin Account

Contract == {"ClaimTopicsRegistry", "TrustedIssuersRegistry",
             "IdentityRegistryStorage", "IdentityRegistry", "Token",
             "BasicCompliance"}

ASSUME HandoverAssumption ==
  Handovers \subseteq Contract \X (Account \cup {ZeroAddress})

VARIABLE owner   \* owner[c]: the account onlyOwner of contract c admits

OwnerType == owner \in [Contract -> Account \cup {ZeroAddress}]

OwnerInit == owner = [c \in Contract |-> Admin]

\* The onlyOwner modifier: msg.sender must be the contract's owner.
OnlyOwner(c, sender) == owner[c] = sender

\* transferOwnership, and renounceOwnership as the change to the zero address.
SetOwner(c, sender, newOwner) ==
  /\ OnlyOwner(c, sender)
  /\ owner' = [owner EXCEPT ![c] = newOwner]
=============================================================================
