---------------------------- MODULE MCBackendApi ----------------------------
(***************************************************************************)
(* TLC instances of BackendApi: request bodies and the calls of scripts.   *)
(***************************************************************************)
EXTENDS BackendApi

CONSTANTS anson, beatrice, mallory

Onboard(op, who) == [op |-> op, from |-> Admin, to |-> who, amount |-> 0]
Minting(who, n) == [op |-> "mint", from |-> Admin, to |-> who, amount |-> n]
Sending(from, to, n) == [op |-> "transfer", from |-> from, to |-> to, amount |-> n]

\* Onboarding beatrice, funding anson, transfers both ways, and a transfer
\* by somebody the routes do not know.
MCBody ==
  {Onboard("registerIdentity", beatrice), Onboard("issueClaim", beatrice),
   Minting(anson, 1), Sending(anson, beatrice, 1), Sending(beatrice, anson, 1),
   Sending(mallory, anson, 1)}

\* Scripts onboard anson and beatrice.
MCScriptBody ==
  {Onboard(op, who) : op \in {"registerIdentity", "issueClaim"}, who \in {anson, beatrice}}

NoApprovals == {}
NoHandovers == {}
=============================================================================
