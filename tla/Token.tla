------------------------------- MODULE Token -------------------------------
(***************************************************************************)
(* Token.sol over OpenZeppelin's ERC20, with BasicCompliance.sol as the    *)
(* compliance module it consults.  Every transfer, by the holder or by a   *)
(* spender with an allowance, goes through _update, which asks the         *)
(* IdentityRegistry about both ends at the moment of the transfer.         *)
(***************************************************************************)
EXTENDS IdentityRegistry

CONSTANTS
  MaxUint,     \* 2^256 - 1, made small
  Approvals    \* bound: the <<holder, spender>> pairs a run lets approve

ASSUME TokenAssumption ==
  /\ MaxUint \in Nat \ {0}
  /\ Approvals \subseteq Account \X Account

VARIABLES
  balances,      \* ERC20 _balances
  allowances,    \* ERC20 _allowances, per <<holder, spender>>
  totalSupply    \* ERC20 _totalSupply

tokenVars == <<balances, allowances, totalSupply>>

TokenType ==
  /\ balances \in [Account -> Nat]
  /\ allowances \in [Approvals -> 0..MaxUint]
  /\ totalSupply \in 0..MaxUint

TokenInit ==
  /\ balances = [a \in Account |-> 0]
  /\ allowances = [p \in Approvals |-> 0]
  /\ totalSupply = 0

\* BasicCompliance.canTransfer; its transferred() hook does nothing.
CanTransfer(from, to, value) == TRUE

\* Mutant: both balances are read before either is written.
UpdateFromCopies(from, to, value) ==
  /\ IsVerified(from)
  /\ IsVerified(to)
  /\ balances[from] >= value
  /\ balances' = [[balances EXCEPT ![from] = @ - value] EXCEPT ![to] = balances[to] + value]
  /\ UNCHANGED totalSupply

\* Mutant: the recipient is not checked.
UpdateToAnyone(from, to, value) ==
  /\ IsVerified(from)
  /\ balances[from] >= value
  /\ balances' = [[balances EXCEPT ![from] = @ - value] EXCEPT ![to] = @ + value]
  /\ UNCHANGED totalSupply

\* _update between two accounts: both ends verified, then the balances.
Update(from, to, value) ==
  /\ IsVerified(from)
  /\ IsVerified(to)
  /\ CanTransfer(from, to, value)
  /\ balances[from] >= value
  /\ balances' = [[balances EXCEPT ![from] = @ - value] EXCEPT ![to] = @ + value]
  /\ UNCHANGED totalSupply

\* Mutant: the addition to the supply is unchecked.
MintUnchecked(sender, to, value) ==
  /\ OnlyOwner("Token", sender)
  /\ IsVerified(to)
  /\ totalSupply' = totalSupply + value
  /\ balances' = [balances EXCEPT ![to] = @ + value]
  /\ UNCHANGED allowances

\* Mutant: registration is enough to be minted to.
MintToRegistered(sender, to, value) ==
  /\ OnlyOwner("Token", sender)
  /\ IsRegistered(to)
  /\ totalSupply + value <= MaxUint
  /\ totalSupply' = totalSupply + value
  /\ balances' = [balances EXCEPT ![to] = @ + value]
  /\ UNCHANGED allowances

\* _mint: the supply is the checked addition, an overflow reverts.
Mint(sender, to, value) ==
  /\ OnlyOwner("Token", sender)
  /\ IsVerified(to)
  /\ totalSupply + value <= MaxUint
  /\ totalSupply' = totalSupply + value
  /\ balances' = [balances EXCEPT ![to] = @ + value]
  /\ UNCHANGED allowances

Transfer(sender, to, value) ==
  /\ Update(sender, to, value)
  /\ UNCHANGED allowances

Approve(sender, spender, value) ==
  /\ <<sender, spender>> \in Approvals
  /\ allowances' = [allowances EXCEPT ![<<sender, spender>>] = value]
  /\ UNCHANGED <<balances, totalSupply>>

\* The allowance is spent before the transfer, except the infinite one.
TransferFrom(sender, from, to, value) ==
  /\ <<from, sender>> \in Approvals
  /\ allowances[<<from, sender>>] >= value
  /\ allowances' = [allowances EXCEPT
                      ![<<from, sender>>] = IF @ = MaxUint THEN @ ELSE @ - value]
  /\ Update(from, to, value)

TokenNext ==
  \E sender \in Account, to \in Account, value \in 0..MaxUint :
    \/ Mint(sender, to, value)
    \/ Transfer(sender, to, value)
    \/ Approve(sender, to, value)
    \/ \E from \in Account : TransferFrom(sender, from, to, value)
=============================================================================
