-------------------------- MODULE IdentityRegistry --------------------------
(***************************************************************************)
(* IdentityRegistryStorage.sol and its front door IdentityRegistry.sol.    *)
(* The storage trusts one caller, boundIdentityRegistry; the registry adds *)
(* the roles: its owner registers and removes, trusted issuers issue       *)
(* claims.  The registry keeps no state of its own.                        *)
(***************************************************************************)
EXTENDS TrustedIssuersRegistry

CONSTANTS
  Wallet,            \* bound: the addresses a run registers
  RegistryAddress,   \* the address of the IdentityRegistry deploy.ts creates
  BindTargets        \* bound: the addresses a run binds the storage to

ASSUME RegistryAssumption ==
  /\ Wallet \subseteq Account
  /\ RegistryAddress \notin Account \cup {ZeroAddress}
  /\ RegistryAddress \in BindTargets
  /\ BindTargets \subseteq Account \cup {RegistryAddress}

VARIABLES
  boundRegistry,   \* boundIdentityRegistry
  registered,      \* _identities[w].registered
  claims           \* _identities[w].claims, the topics mapped to true

storageVars == <<boundRegistry, registered, claims>>

StorageType ==
  /\ boundRegistry \in BindTargets
  /\ registered \in [Wallet -> BOOLEAN]
  /\ claims \in [Wallet -> SUBSET Topic]

\* deploy.ts binds the registry before it ends; no wallet is registered yet.
StorageInit ==
  /\ boundRegistry = RegistryAddress
  /\ registered = [w \in Wallet |-> FALSE]
  /\ claims = [w \in Wallet |-> {}]

-----------------------------------------------------------------------------
(* IdentityRegistryStorage *)

\* Mutant: the onlyOwner modifier is missing.
BindByAnyone(sender, registry) ==
  /\ boundRegistry' = registry
  /\ UNCHANGED <<registered, claims>>

BindIdentityRegistry(sender, registry) ==
  /\ OnlyOwner("IdentityRegistryStorage", sender)
  /\ boundRegistry' = registry
  /\ UNCHANGED <<registered, claims>>

OnlyBoundRegistry(sender) == sender = boundRegistry

StorageRegister(sender, w) ==
  /\ OnlyBoundRegistry(sender)
  /\ ~registered[w]
  /\ registered' = [registered EXCEPT ![w] = TRUE]
  /\ UNCHANGED <<boundRegistry, claims>>

\* `delete _identities[wallet]' resets the flag; Solidity does not clear the
\* mapping nested in the struct, so the claims stay.
StorageRemove(sender, w) ==
  /\ OnlyBoundRegistry(sender)
  /\ registered[w]
  /\ registered' = [registered EXCEPT ![w] = FALSE]
  /\ UNCHANGED <<boundRegistry, claims>>

StorageSetClaim(sender, w, t, issued) ==
  /\ OnlyBoundRegistry(sender)
  /\ registered[w]
  /\ claims' = [claims EXCEPT ![w] = IF issued THEN @ \cup {t} ELSE @ \ {t}]
  /\ UNCHANGED <<boundRegistry, registered>>

-----------------------------------------------------------------------------
(* IdentityRegistry *)

\* An address no run registers stands for every unregistered one.
IsRegistered(a) == a \in Wallet /\ registered[a]

IsVerified(a) ==
  /\ IsRegistered(a)
  /\ \A i \in DOMAIN topics : topics[i] \in claims[a]

\* Mutant: no early return; registering again starts the identity afresh.
RegisterAfresh(sender, w) ==
  /\ OnlyOwner("IdentityRegistry", sender)
  /\ OnlyBoundRegistry(RegistryAddress)
  /\ registered' = [registered EXCEPT ![w] = TRUE]
  /\ claims' = [claims EXCEPT ![w] = {}]
  /\ UNCHANGED boundRegistry

\* A registered wallet is an early return, not a revert: nothing changes.
RegisterIdentity(sender, w) ==
  /\ OnlyOwner("IdentityRegistry", sender)
  /\ \/ registered[w] /\ UNCHANGED storageVars
     \/ ~registered[w] /\ StorageRegister(RegistryAddress, w)

RemoveIdentity(sender, w) ==
  /\ OnlyOwner("IdentityRegistry", sender)
  /\ StorageRemove(RegistryAddress, w)

IssueClaim(sender, w, t) ==
  /\ registered[w]
  /\ IsClaimTopicRequired(t)
  /\ IsTrustedIssuerForTopic(sender, t)
  /\ StorageSetClaim(RegistryAddress, w, t, TRUE)

\* What accounts can do: call the registry, or the storage itself, which
\* admits an account only when the owner bound that account's address.
IdentityNext ==
  \E sender \in Account :
    \/ \E r \in BindTargets : BindIdentityRegistry(sender, r)
    \/ \E w \in Wallet :
         \/ RegisterIdentity(sender, w) \/ RemoveIdentity(sender, w)
         \/ StorageRegister(sender, w) \/ StorageRemove(sender, w)
         \/ \E t \in Topic :
              \/ IssueClaim(sender, w, t)
              \/ \E issued \in BOOLEAN : StorageSetClaim(sender, w, t, issued)
=============================================================================
