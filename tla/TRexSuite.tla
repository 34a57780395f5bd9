----------------------------- MODULE TRexSuite -----------------------------
(***************************************************************************)
(* The deployed suite: the four registries and the token as one state      *)
(* machine, one action per transaction.  A transaction runs alone and      *)
(* either takes effect completely or reverts.  The initial state is the    *)
(* one deploy.ts leaves behind.                                            *)
(***************************************************************************)
EXTENDS Token, Functions

vars == <<owner, topicsVars, issuersVars, storageVars, tokenVars>>

Init ==
  /\ OwnerInit
  /\ TopicsInit
  /\ IssuersInit
  /\ StorageInit
  /\ TokenInit

HandoverNext ==
  \E sender \in Account, h \in Handovers : SetOwner(h[1], sender, h[2])

\* A transaction of any account to any contract.
Next ==
  \/ HandoverNext /\ UNCHANGED <<topicsVars, issuersVars, storageVars, tokenVars>>
  \/ TopicsNext /\ UNCHANGED <<owner, issuersVars, storageVars, tokenVars>>
  \/ IssuersNext /\ UNCHANGED <<owner, topicsVars, storageVars, tokenVars>>
  \/ IdentityNext /\ UNCHANGED <<owner, topicsVars, issuersVars, tokenVars>>
  \/ TokenNext /\ UNCHANGED <<owner, topicsVars, issuersVars, storageVars>>

Spec == Init /\ [][Next]_vars

\* The transactions backend-api and the command-line scripts sign: the admin
\* registers, issues the KYC claim and mints; a wallet transfers.
ServiceNext ==
  /\ \/ /\ \E w \in Wallet : RegisterIdentity(Admin, w) \/ IssueClaim(Admin, w, KYC_TOPIC)
        /\ UNCHANGED tokenVars
     \/ /\ \E to \in Account, value \in 0..MaxUint :
             \/ Mint(Admin, to, value)
             \/ \E from \in Account : Transfer(from, to, value)
        /\ UNCHANGED storageVars
  /\ UNCHANGED <<owner, topicsVars, issuersVars>>

ServiceSpec == Init /\ [][ServiceNext]_vars

TypeOK ==
  /\ OwnerType
  /\ TopicsType
  /\ IssuersType
  /\ StorageType
  /\ TokenType

-----------------------------------------------------------------------------
Verified == {a \in Account : IsVerified(a)}

Ledger == INSTANCE CompliantLedger WITH
            Holder <- Account, Limit <- MaxUint,
            eligible <- Verified, balance <- balances, issued <- totalSupply

(***************************************************************************)
(* The compliance boundary: whatever accounts do to whichever contract,    *)
(* tokens are created only for, and move only between, wallets that are    *)
(* verified at that moment, and no registry operation moves tokens.        *)
(***************************************************************************)
CompliantLedgerSpec == Ledger!Spec

(***************************************************************************)
(* ERC20 bookkeeping under the token's _update override: the balances add  *)
(* up to the supply, so the unchecked additions of _update cannot wrap.    *)
(***************************************************************************)
SupplyIsBacked == SumFunction(balances) = totalSupply

(***************************************************************************)
(* architecture.md's onboarding states: along the paths the services use,  *)
(* Verified is terminal.  A wallet once verified stays verified.           *)
(***************************************************************************)
VerifiedIsTerminal == [][\A a \in Account : IsVerified(a) => IsVerified(a)']_vars

(***************************************************************************)
(* Along the same paths no balance is ever frozen: every account that      *)
(* holds tokens is verified, so it can be debited and credited.            *)
(***************************************************************************)
HoldersVerified == \A a \in Account : balances[a] > 0 => IsVerified(a)

(***************************************************************************)
(* The test suite's reading of registration: a wallet that has just been   *)
(* registered is not verified until a claim is issued, as long as some     *)
(* topic is required at all.                                               *)
(***************************************************************************)
FreshlyRegisteredUnverified ==
  [][\A w \in Wallet :
       ~registered[w] /\ registered'[w] /\ topics' # <<>> => ~IsVerified(w)']_vars

(***************************************************************************)
(* Renouncing both the registry and its storage seals the identity set:    *)
(* with the registry bound and neither contract owned, no account can      *)
(* register, remove or rebind, whatever the other owners still do.         *)
(***************************************************************************)
Sealed ==
  /\ boundRegistry = RegistryAddress
  /\ owner["IdentityRegistry"] = ZeroAddress
  /\ owner["IdentityRegistryStorage"] = ZeroAddress

SealedForGood == [][Sealed => Sealed' /\ UNCHANGED registered]_vars
=============================================================================
