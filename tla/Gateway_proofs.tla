--------------------------- MODULE Gateway_proofs ---------------------------
(***************************************************************************)
(* Sending through chain-gateway, for any number of calls, any patience of *)
(* pollReceipt and any number of restarts and lost answers: types,         *)
(* receipts that agree with the chain, and the implementation of           *)
(* AbstractSend.                                                           *)
(***************************************************************************)
EXTENDS Gateway, TLAPS

\* What a handler that has not broadcast, a receipt and a client's verdict
\* say of the transaction.  ReceiptsAgree alone is not inductive: a settled
\* receipt stays right because only a handler still sending can change the
\* fate of an unpooled transaction.
CallInv(c) ==
  /\ handler[c] = "none" => client[c] = "idle"
  /\ client[c] = "idle" => handler[c] = "none"
  /\ handler[c] \in {"none", "sending", "refused"} =>
       fate[c] = "none" /\ receipts[c] = "none"
  /\ client[c] = "resolved" => fate[c] = "executed"
  /\ client[c] = "rejected" =>
       handler[c] # "sending" /\ fate[c] \notin {"pooled", "executed"}

IInv ==
  /\ TypeOK
  /\ ReceiptsAgree
  /\ \A c \in Call : CallInv(c)

\* The actions that change the state of one call and of no other.
CallStep(c) ==
  \/ Post(c) \/ TakeReply(c) \/ Poll(c) \/ FetchFails(c)
  \/ RefusePost(c) \/ AcceptPost(c) \/ BroadcastFault(c)
  \/ ResolveReceipt(c) \/ WaitFault(c)
  \/ Mine(c)

LEMMA InitInv == Init => IInv
BY GatewayAssumption DEF Init, IInv, TypeOK, ReceiptsAgree, ReceiptStatus, CallInv

LEMMA NextTyped == TypeOK /\ [Next]_vars => TypeOK'
<1> SUFFICES ASSUME TypeOK, [Next]_vars
             PROVE  TypeOK'
  OBVIOUS
<1> USE GatewayAssumption DEF TypeOK, Settled, ReceiptStatus
<1>1. CASE GatewayRestart
  BY <1>1 DEF GatewayRestart, Fault
<1>2. CASE BackendRestart
  BY <1>2 DEF BackendRestart, Fault
<1>3. ASSUME NEW c \in Call, CallStep(c)
      PROVE  TypeOK'
  <2>1. CASE Post(c)
    BY <2>1 DEF Post, Become
  <2>2. CASE TakeReply(c)
    BY <2>2 DEF TakeReply, Become
  <2>3. CASE Poll(c)
    BY <2>3 DEF Poll, PollAgain, PollSettled, Become
  <2>4. CASE FetchFails(c)
    BY <2>4 DEF FetchFails, Become, Fault
  <2>5. CASE RefusePost(c)
    BY <2>5 DEF RefusePost
  <2>6. CASE AcceptPost(c)
    BY <2>6 DEF AcceptPost
  <2>7. CASE BroadcastFault(c)
    BY <2>7 DEF BroadcastFault, Fault
  <2>8. CASE ResolveReceipt(c)
    BY <2>8 DEF ResolveReceipt, Resolve
  <2>9. CASE WaitFault(c)
    BY <2>9 DEF WaitFault, Resolve, Fault
  <2>10. CASE Mine(c)
    BY <2>10 DEF Mine
  <2> QED
    BY <1>3, <2>1, <2>2, <2>3, <2>4, <2>5, <2>6, <2>7, <2>8, <2>9, <2>10 DEF CallStep
<1>4. CASE UNCHANGED vars
  BY <1>4 DEF vars
<1> QED
  BY <1>1, <1>2, <1>3, <1>4 DEF Next, CallStep

\* A step of one call leaves every other call as it is.
LEMMA OthersUnchanged ==
  ASSUME TypeOK, NEW c \in Call, NEW d \in Call, d # c, CallStep(c)
  PROVE  /\ client'[d] = client[d]
         /\ handler'[d] = handler[d]
         /\ receipts'[d] = receipts[d]
         /\ fate'[d] = fate[d]
BY DEF TypeOK, CallStep, Post, TakeReply, Poll, PollAgain, PollSettled, FetchFails,
       RefusePost, AcceptPost, BroadcastFault, ResolveReceipt, WaitFault, Mine,
       Become, Resolve, Fault

Agrees(c) ==
  /\ receipts[c] = "success" => fate[c] = "executed"
  /\ receipts[c] = "error" => fate[c] \in {"reverted", "replaced"}
  /\ receipts[c] = "pending" => handler[c] = "waiting"

LEMMA CallStepInv ==
  ASSUME IInv, NEW c \in Call, CallStep(c)
  PROVE  CallInv(c)' /\ Agrees(c)'
<1> USE DEF IInv, TypeOK, ReceiptsAgree, CallInv, Agrees
<1>1. CASE Post(c)
  BY <1>1 DEF Post, Become
<1>2. CASE TakeReply(c)
  BY <1>2 DEF TakeReply, Become
<1>3. CASE Poll(c)
  BY <1>3 DEF Poll, PollAgain, PollSettled, Become
<1>4. CASE FetchFails(c)
  BY <1>4 DEF FetchFails, Become
<1>5. CASE RefusePost(c)
  BY <1>5 DEF RefusePost
<1>6. CASE AcceptPost(c)
  BY <1>6 DEF AcceptPost
<1>7. CASE BroadcastFault(c)
  BY <1>7 DEF BroadcastFault
<1>8. CASE ResolveReceipt(c)
  BY <1>8 DEF ResolveReceipt, Resolve
<1>9. CASE WaitFault(c)
  BY <1>9 DEF WaitFault, Resolve
<1>10. CASE Mine(c)
  BY <1>10 DEF Mine
<1> QED
  BY <1>1, <1>2, <1>3, <1>4, <1>5, <1>6, <1>7, <1>8, <1>9, <1>10 DEF CallStep

LEMMA NextInv == IInv /\ [Next]_vars => IInv'
<1> SUFFICES ASSUME IInv, [Next]_vars
             PROVE  IInv'
  OBVIOUS
<1>1. TypeOK'
  BY NextTyped DEF IInv
<1>2. ASSUME NEW d \in Call
      PROVE  CallInv(d)' /\ Agrees(d)'
  <2> USE DEF IInv, TypeOK, ReceiptsAgree, CallInv, Agrees
  <2>1. CASE GatewayRestart
    BY <2>1 DEF GatewayRestart
  <2>2. CASE BackendRestart
    BY <2>2 DEF BackendRestart
  <2>3. ASSUME NEW c \in Call, CallStep(c), d # c
        PROVE  CallInv(d)' /\ Agrees(d)'
    BY <2>3, OthersUnchanged
  <2>4. CASE UNCHANGED vars
    BY <2>4 DEF vars
  <2> QED
    BY <2>1, <2>2, <2>3, <2>4, CallStepInv DEF Next, CallStep
<1> QED
  BY <1>1, <1>2 DEF IInv, ReceiptsAgree, Agrees

LEMMA Invariance == Spec => []IInv
BY InitInv, NextInv, PTL DEF Spec

(***************************************************************************)
(* The gateway's receipts never contradict the chain and a pending one is  *)
(* always being waited for, for any number of calls and restarts.          *)
(***************************************************************************)
THEOREM ReceiptsAlwaysAgree == Spec => [](TypeOK /\ ReceiptsAgree)
<1>1. IInv => TypeOK /\ ReceiptsAgree
  BY DEF IInv
<1> QED
  BY <1>1, Invariance, PTL

-----------------------------------------------------------------------------
AbstractEffect == {c \in Call : fate[c] = "executed"}

\* Settling one call is a change of one abstract state.
LEMMA Becoming ==
  ASSUME NEW c \in Call, NEW to \in Settled, client = [d \in Call |-> client[d]],
         client' = [client EXCEPT ![c] = to], client[c] \in {"posting", "polling"}
  PROVE  Send!Become(c, "pending", to)
BY DEF Send!Become, Settled

\* Every step of one call is a step of the abstract call, or none at all.
LEMMA StepIsAbstract ==
  ASSUME IInv, NEW c \in Call, CallStep(c)
  PROVE  [Send!Next]_(Send!vars)
<1> USE DEF IInv, TypeOK, CallInv
<1>0. /\ \A d \in Call \ {c} : client'[d] = client[d] /\ fate'[d] = fate[d]
      /\ client' = [client EXCEPT ![c] = client'[c]]
      /\ client = [d \in Call |-> client[d]]
      /\ "resolved" \in Settled /\ "rejected" \in Settled
  BY OthersUnchanged, NextTyped DEF Next, CallStep, Settled
<1>1. CASE Post(c)
  <2>1. Send!Begin(c)
    BY <1>0, <1>1 DEF Post, Become, Send!Begin, Send!Become
  <2> QED
    BY <2>1 DEF Send!Next
<1>2. CASE client'[c] = "unknown" /\ client[c] \in {"posting", "polling"} /\ UNCHANGED fate
  <2>1. Send!LoseTrack({c})
    BY <1>0, <1>2 DEF Send!LoseTrack
  <2> QED
    BY <2>1 DEF Send!Next
<1>3. CASE client'[c] = "rejected" /\ client[c] \in {"posting", "polling"} /\ UNCHANGED fate
           /\ fate[c] # "executed"
  <2>1. Send!Become(c, "pending", "rejected")
    BY <1>0, <1>3, Becoming
  <2>2. Send!Reject(c)
    BY <1>3, <2>1 DEF Send!Reject
  <2> QED
    BY <2>2 DEF Send!Next
<1>4. CASE client'[c] = "resolved" /\ client[c] \in {"posting", "polling"} /\ UNCHANGED fate
           /\ fate[c] = "executed"
  <2>1. Send!Become(c, "pending", "resolved")
    BY <1>0, <1>4, Becoming
  <2>2. Send!Resolve(c)
    BY <1>4, <2>1 DEF Send!Resolve
  <2> QED
    BY <2>2 DEF Send!Next
<1>5. CASE client'[c] \in {"posting", "polling"} /\ client[c] \in {"posting", "polling"}
           /\ UNCHANGED fate
  BY <1>0, <1>5 DEF Send!vars
<1>6. CASE UNCHANGED client /\ AbstractEffect' = AbstractEffect
  BY <1>6 DEF AbstractEffect, Send!vars
<1>7. CASE UNCHANGED client /\ fate[c] = "pooled" /\ fate'[c] = "executed"
  <2>1. client[c] \in {"posting", "polling", "unknown"}
    BY <1>7 DEF Settled
  <2>2. Send!Execute(c)
    BY <1>0, <1>7, <2>1 DEF Send!Execute
  <2> QED
    BY <2>2 DEF Send!Next
<1>8. CASE TakeReply(c)
  BY <1>2, <1>3, <1>5, <1>8 DEF TakeReply, Become
<1>9. CASE Poll(c)
  BY <1>2, <1>3, <1>4, <1>5, <1>9 DEF Poll, PollAgain, PollSettled, Become, ReceiptsAgree
<1>10. CASE FetchFails(c)
  BY <1>2, <1>10 DEF FetchFails, Become
<1>11. CASE RefusePost(c) \/ ResolveReceipt(c) \/ WaitFault(c)
  BY <1>6, <1>11 DEF RefusePost, ResolveReceipt, WaitFault, AbstractEffect
<1>12. CASE AcceptPost(c) \/ BroadcastFault(c)
  BY <1>6, <1>12 DEF AcceptPost, BroadcastFault, AbstractEffect
<1>13. CASE Mine(c)
  BY <1>6, <1>7, <1>13 DEF Mine, AbstractEffect
<1> QED
  BY <1>1, <1>8, <1>9, <1>10, <1>11, <1>12, <1>13 DEF CallStep

(***************************************************************************)
(* GatewayChainService implements what the services rely on, for every     *)
(* value of the constants: a resolved call has executed, and a rejected    *)
(* one never will.                                                         *)
(***************************************************************************)
THEOREM GatewayImplementsSend == Spec => ImplementsSend
<1>1. Init => Send!Init
  BY DEF Init, Send!Init
<1>2. IInv /\ [Next]_vars => [Send!Next]_(Send!vars)
  <2> SUFFICES ASSUME IInv, [Next]_vars
               PROVE  [Send!Next]_(Send!vars)
    OBVIOUS
  <2>1. CASE GatewayRestart
    BY <2>1 DEF GatewayRestart, Send!vars
  <2>2. CASE BackendRestart
    <3>1. PICK C \in SUBSET Call : C = {c \in Call : client[c] \in {"posting", "polling"}}
      OBVIOUS
    <3>2. Send!LoseTrack(C)
      BY <2>2, <3>1 DEF BackendRestart, Send!LoseTrack, IInv, TypeOK
    <3> QED
      BY <3>2 DEF Send!Next
  <2>3. CASE UNCHANGED vars
    BY <2>3 DEF vars, Send!vars
  <2> QED
    BY <2>1, <2>2, <2>3, StepIsAbstract DEF Next, CallStep
<1> QED
  BY <1>1, <1>2, Invariance, PTL DEF Spec, ImplementsSend, Send!Spec
=============================================================================
