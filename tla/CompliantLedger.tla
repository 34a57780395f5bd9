-------------------------- MODULE CompliantLedger --------------------------
(***************************************************************************)
(* What the suite promises its users, without registries or roles: a       *)
(* ledger whose units are created for, and move between, accounts that are *)
(* eligible at that moment.  Eligibility comes and goes on its own, and a  *)
(* change of eligibility never moves units.                                *)
(***************************************************************************)
EXTENDS Naturals

CONSTANTS Holder, Limit

VARIABLES
  eligible,   \* the accounts that may receive and send now
  balance,    \* units per account
  issued      \* units created so far

vars == <<eligible, balance, issued>>

Init ==
  /\ eligible \in SUBSET Holder
  /\ balance = [h \in Holder |-> 0]
  /\ issued = 0

Issue(to, n) ==
  /\ to \in eligible
  /\ issued + n <= Limit
  /\ issued' = issued + n
  /\ balance' = [balance EXCEPT ![to] = @ + n]
  /\ UNCHANGED eligible

Move(from, to, n) ==
  /\ from \in eligible /\ to \in eligible
  /\ from # to
  /\ n <= balance[from]
  /\ balance' = [balance EXCEPT ![from] = @ - n, ![to] = @ + n]
  /\ UNCHANGED <<eligible, issued>>

Requalify ==
  /\ eligible' \in SUBSET Holder
  /\ UNCHANGED <<balance, issued>>

Next ==
  \/ \E to \in Holder, n \in 0..Limit : Issue(to, n)
  \/ \E from, to \in Holder, n \in 0..Limit : Move(from, to, n)
  \/ Requalify

Spec == Init /\ [][Next]_vars
=============================================================================
