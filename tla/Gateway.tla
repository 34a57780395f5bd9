------------------------------ MODULE Gateway ------------------------------
(***************************************************************************)
(* Sending through chain-gateway: backend-api posts the call, gets the     *)
(* transaction hash back as a receipt id, and polls the receipt until it   *)
(* settles or its patience runs out.  The gateway keeps receipts in memory *)
(* and resolves them from a background tx.wait().  Either process may die  *)
(* and come back at any time.                                              *)
(***************************************************************************)
EXTENDS Naturals

CONSTANTS
  Call,        \* write calls of backend-api
  MaxTries,    \* pollReceipt's tries, 60 in the code
  MaxFaults    \* bound: restarts and lost answers in a behaviour

ASSUME GatewayAssumption ==
  /\ MaxTries \in Nat \ {0}
  /\ MaxFaults \in Nat

VARIABLES
  client,      \* where GatewayChainService's promise for the call is
  tries,       \* polls made so far
  handler,     \* where the gateway's POST handler is
  receipts,    \* ReceiptStore, "none" where the map has no entry
  fate,        \* what became of the transaction on chain
  faults       \* restarts and lost answers so far

vars == <<client, tries, handler, receipts, fate, faults>>

Settled == {"resolved", "rejected", "unknown"}

\* "error" carries the reason of a transaction that failed for good, "fault"
\* the message of an RPC error the background wait ran into; the client
\* treats both alike.
ReceiptStatus == {"none", "pending", "success", "error", "fault"}

TypeOK ==
  /\ client \in [Call -> {"idle", "posting", "polling"} \cup Settled]
  /\ tries \in [Call -> 0..MaxTries]
  /\ handler \in [Call -> {"none", "sending", "refused", "faulted", "waiting", "over", "lost"}]
  /\ receipts \in [Call -> ReceiptStatus]
  /\ fate \in [Call -> {"none", "pooled", "executed", "reverted", "replaced"}]
  /\ faults \in 0..MaxFaults

Init ==
  /\ client = [c \in Call |-> "idle"]
  /\ tries = [c \in Call |-> 0]
  /\ handler = [c \in Call |-> "none"]
  /\ receipts = [c \in Call |-> "none"]
  /\ fate = [c \in Call |-> "none"]
  /\ faults = 0

Fault == faults < MaxFaults /\ faults' = faults + 1

-----------------------------------------------------------------------------
(* The chain, through the gateway's NonceManager *)

Mine(c) ==
  /\ fate[c] = "pooled"
  /\ \E f \in {"executed", "reverted", "replaced"} : fate' = [fate EXCEPT ![c] = f]
  /\ UNCHANGED <<client, tries, handler, receipts, faults>>

-----------------------------------------------------------------------------
(* chain-gateway *)

\* The call cannot be submitted: 400, and no receipt.
RefusePost(c) ==
  /\ handler[c] = "sending"
  /\ handler' = [handler EXCEPT ![c] = "refused"]
  /\ UNCHANGED <<client, tries, receipts, fate, faults>>

\* Broadcast, createPending and the 202 happen without an await in between.
AcceptPost(c) ==
  /\ handler[c] = "sending"
  /\ handler' = [handler EXCEPT ![c] = "waiting"]
  /\ fate' = [fate EXCEPT ![c] = "pooled"]
  /\ receipts' = [receipts EXCEPT ![c] = "pending"]
  /\ UNCHANGED <<client, tries, faults>>

\* The node's answer to the broadcast is lost: the same catch, the same 400.
BroadcastFault(c) ==
  /\ Fault
  /\ handler[c] = "sending"
  /\ handler' = [handler EXCEPT ![c] = "faulted"]
  /\ \/ UNCHANGED fate
     \/ fate' = [fate EXCEPT ![c] = "pooled"]
  /\ UNCHANGED <<client, tries, receipts>>

Resolve(c, status) ==
  /\ receipts' = [receipts EXCEPT ![c] = status]
  /\ handler' = [handler EXCEPT ![c] = "over"]

\* Mutant: any receipt of the background wait is a success.
ResolveAnyReceipt(c) ==
  /\ handler[c] = "waiting"
  /\ fate[c] \in {"executed", "reverted"}
  /\ Resolve(c, "success")
  /\ UNCHANGED <<client, tries, fate, faults>>

\* The background tx.wait() is over.
ResolveReceipt(c) ==
  /\ handler[c] = "waiting"
  /\ \/ fate[c] = "executed" /\ Resolve(c, "success")
     \/ fate[c] \in {"reverted", "replaced"} /\ Resolve(c, "error")
  /\ UNCHANGED <<client, tries, fate, faults>>

WaitFault(c) ==
  /\ Fault
  /\ handler[c] = "waiting"
  /\ Resolve(c, "fault")
  /\ UNCHANGED <<client, tries, fate>>

\* The process dies: the receipt map, the handlers and the waits are gone.
GatewayRestart ==
  /\ Fault
  /\ receipts' = [c \in Call |-> "none"]
  /\ handler' = [c \in Call |-> IF handler[c] = "none" THEN "none" ELSE "lost"]
  /\ UNCHANGED <<client, tries, fate>>

-----------------------------------------------------------------------------
(* backend-api *)

Become(c, where) == client' = [client EXCEPT ![c] = where]

Post(c) ==
  /\ client[c] = "idle"
  /\ Become(c, "posting")
  /\ handler' = [handler EXCEPT ![c] = "sending"]
  /\ UNCHANGED <<tries, receipts, fate, faults>>

\* The answer to the POST, or the broken connection of a gateway that died.
TakeReply(c) ==
  /\ client[c] = "posting"
  /\ \/ handler[c] = "refused" /\ Become(c, "rejected")
     \/ handler[c] \in {"waiting", "over"} /\ Become(c, "polling")
     \/ handler[c] \in {"faulted", "lost"} /\ Become(c, "unknown")
  /\ UNCHANGED <<tries, handler, receipts, fate, faults>>

\* Mutant: a 404 does not count as a try.
PollUncounted(c) ==
  /\ receipts[c] \in {"none", "pending"}
  /\ tries' = [tries EXCEPT ![c] = IF receipts[c] = "none" THEN @ ELSE @ + 1]
  /\ \/ tries'[c] < MaxTries /\ UNCHANGED client
     \/ tries'[c] = MaxTries /\ Become(c, "unknown")

\* A pending receipt and the 404 of a receipt the gateway does not know are
\* the same to pollReceipt: try again, up to MaxTries.
PollAgain(c) ==
  /\ receipts[c] \in {"none", "pending"}
  /\ tries' = [tries EXCEPT ![c] = @ + 1]
  /\ \/ tries[c] + 1 < MaxTries /\ UNCHANGED client
     \/ tries[c] + 1 = MaxTries /\ Become(c, "unknown")

\* Mutant: a 404 is taken for a failed transaction.
PollRejectsUnknown(c) ==
  /\ \/ receipts[c] = "success" /\ Become(c, "resolved")
     \/ receipts[c] \in {"none", "error"} /\ Become(c, "rejected")
     \/ receipts[c] = "fault" /\ Become(c, "unknown")
  /\ UNCHANGED tries

PollSettled(c) ==
  /\ \/ receipts[c] = "success" /\ Become(c, "resolved")
     \/ receipts[c] = "error" /\ Become(c, "rejected")
     \/ receipts[c] = "fault" /\ Become(c, "unknown")
  /\ UNCHANGED tries

Poll(c) ==
  /\ client[c] = "polling"
  /\ PollAgain(c) \/ PollSettled(c)
  /\ UNCHANGED <<handler, receipts, fate, faults>>

\* fetch throws: the gateway is down, or its answer is lost.
FetchFails(c) ==
  /\ Fault
  /\ client[c] \in {"posting", "polling"}
  /\ Become(c, "unknown")
  /\ UNCHANGED <<tries, handler, receipts, fate>>

BackendRestart ==
  /\ Fault
  /\ client' = [c \in Call |->
                  IF client[c] \in {"posting", "polling"} THEN "unknown" ELSE client[c]]
  /\ UNCHANGED <<tries, handler, receipts, fate>>

Next ==
  \/ GatewayRestart
  \/ BackendRestart
  \/ \E c \in Call :
       \/ Post(c) \/ TakeReply(c) \/ Poll(c) \/ FetchFails(c)
       \/ RefusePost(c) \/ AcceptPost(c) \/ BroadcastFault(c)
       \/ ResolveReceipt(c) \/ WaitFault(c)
       \/ Mine(c)

Spec == Init /\ [][Next]_vars

(***************************************************************************)
(* Both event loops run: the node answers the send, the reply arrives, the *)
(* timer of the next poll fires.  No transaction has to be mined: it may   *)
(* sit in the pool for ever.                                               *)
(***************************************************************************)
FairSpec ==
  /\ Spec
  /\ \A c \in Call :
       /\ WF_vars(RefusePost(c) \/ AcceptPost(c))
       /\ WF_vars(TakeReply(c))
       /\ WF_vars(Poll(c))

-----------------------------------------------------------------------------
Send == INSTANCE AbstractSend WITH
          state <- [c \in Call |->
                      IF client[c] \in {"posting", "polling"} THEN "pending" ELSE client[c]],
          effect <- {c \in Call : fate[c] = "executed"}

(***************************************************************************)
(* GatewayChainService keeps the same promise to the services as direct    *)
(* transport, through restarts of either process, lost answers, exhausted  *)
(* polls and forgotten receipts: it resolves only calls that executed, and *)
(* what it rejects for good never executes.                                *)
(***************************************************************************)
ImplementsSend == Send!Spec

(***************************************************************************)
(* A receipt never contradicts the chain, and one that is pending has a    *)
(* background wait that will settle it, in whatever order waits end and    *)
(* the process restarts.                                                   *)
(***************************************************************************)
ReceiptsAgree ==
  \A c \in Call :
    /\ receipts[c] = "success" => fate[c] = "executed"
    /\ receipts[c] = "error" => fate[c] \in {"reverted", "replaced"}
    /\ receipts[c] = "pending" => handler[c] = "waiting"

(***************************************************************************)
(* Bounded polling gives every call an end, whatever the chain and the     *)
(* gateway do: the hang that tx.wait() has in direct mode cannot happen.   *)
(***************************************************************************)
EveryCallEnds == \A c \in Call : client[c] \in {"posting", "polling"} ~> client[c] \in Settled
=============================================================================
