---------------------------- MODULE SendPipeline ----------------------------
(***************************************************************************)
(* Sending transactions for one identity: ChainService's NonceManager, the *)
(* services' send/wait/catch, and the node's transaction pool.  Requests   *)
(* of the HTTP server run concurrently and share the signer; each await is *)
(* a point where the others may move.  Out-of-band senders (the scripts of *)
(* contracts/scripts) use the same key without the NonceManager.           *)
(*                                                                         *)
(* ethers' NonceManager and the Besu pool are not in the repository: they  *)
(* are modelled from how ChainService uses them and what its comments say. *)
(***************************************************************************)
EXTENDS Integers, Sequences, FiniteSets

CONSTANTS
  Request,        \* the sends of this identity, one per service call
  Script,         \* the sender of out-of-band transactions
  MaxOutOfBand,   \* bound: out-of-band transactions in a behaviour
  MaxFaults       \* bound: failed RPC calls and restarts in a behaviour

ASSUME PipelineAssumption ==
  /\ IsFiniteSet(Request) /\ Script \notin Request
  /\ MaxOutOfBand \in Nat
  /\ MaxFaults \in Nat

VARIABLES
  noncePromise,   \* the NonceManager's cached promise, 0 for null
  delta,          \* its count of nonces handed out on that promise
  count,          \* count[p]: the pending nonce promise p resolved to, if it did
  pc,             \* where each request is
  ticket,         \* the promise and the delta each request reserved
  chainNonce,     \* the account's nonce: transactions mined so far
  pool,           \* transactions the node holds, as [nonce, by]
  executed,       \* requests mined with status 1
  reverted,       \* requests mined with status 0
  outOfBand,      \* out-of-band transactions so far
  faults          \* failed RPC calls and restarts so far

managerVars == <<noncePromise, delta, count>>
requestVars == <<pc, ticket>>
chainVars == <<chainNonce, pool, executed, reverted>>
vars == <<managerVars, requestVars, chainVars, outOfBand, faults>>

Unresolved == -1
Failed == -2

Populating == "populating"   \* nonce reserved, gas estimate in progress
Waiting == "waiting"         \* broadcast accepted, in tx.wait()
Settled == {"resolved", "rejected", "unknown"}

Sender == Request \cup {Script}

TypeOK ==
  /\ count \in Seq(Nat \cup {Unresolved, Failed})
  /\ noncePromise \in 0..Len(count)
  /\ delta \in Nat
  /\ pc \in [Request -> {"idle", Populating, Waiting} \cup Settled]
  /\ ticket \in [Request -> [promise : Nat, delta : Nat]]
  /\ chainNonce \in Nat
  /\ pool \in SUBSET [nonce : Nat, by : Sender]
  /\ executed \in SUBSET Request
  /\ reverted \in SUBSET Request
  /\ outOfBand \in Nat
  /\ faults \in Nat

Init ==
  /\ noncePromise = 0
  /\ delta = 0
  /\ count = <<>>
  /\ pc = [r \in Request |-> "idle"]
  /\ ticket = [r \in Request |-> [promise |-> 0, delta |-> 0]]
  /\ chainNonce = 0
  /\ pool = {}
  /\ executed = {}
  /\ reverted = {}
  /\ outOfBand = 0
  /\ faults = 0

-----------------------------------------------------------------------------
(* The node *)

Pooled(n) == \E t \in pool : t.nonce = n

\* eth_getTransactionCount(address, "pending"): the first nonce from the
\* account's that no pooled transaction uses.
IsPendingNonce(n) ==
  /\ n >= chainNonce
  /\ ~Pooled(n)
  /\ \A m \in chainNonce..(n - 1) : Pooled(m)

\* A block takes the account's transactions in nonce order; execution may
\* revert although the estimate passed.
Mine ==
  /\ \E t \in pool :
       /\ t.nonce = chainNonce
       /\ pool' = pool \ {t}
       /\ \/ t.by = Script /\ UNCHANGED <<executed, reverted>>
          \/ /\ t.by # Script
             /\ executed' = executed \cup {t.by}
             /\ UNCHANGED reverted
          \/ /\ t.by # Script
             /\ reverted' = reverted \cup {t.by}
             /\ UNCHANGED executed
  /\ chainNonce' = chainNonce + 1
  /\ UNCHANGED <<managerVars, requestVars, outOfBand, faults>>

\* A script waits for its transactions, so it takes the next pending nonce.
SendOutOfBand(n) ==
  /\ outOfBand < MaxOutOfBand
  /\ IsPendingNonce(n)
  /\ pool' = pool \cup {[nonce |-> n, by |-> Script]}
  /\ outOfBand' = outOfBand + 1
  /\ UNCHANGED <<managerVars, requestVars, chainNonce, executed, reverted, faults>>

-----------------------------------------------------------------------------
(* The NonceManager *)

Nonce(r) == count[ticket[r].promise] + ticket[r].delta

\* Mutant: the count of nonces handed out survives the reset.
ResetPromiseOnly ==
  /\ noncePromise' = 0
  /\ UNCHANGED <<delta, count>>

\* ChainService.resetNonce: forget the cached promise.
ResetNonce ==
  /\ noncePromise' = 0
  /\ delta' = 0
  /\ UNCHANGED count

\* Mutant: the promise is remembered but the pending count never asked for.
ReserveUnasked(r) ==
  /\ pc[r] = "idle"
  /\ noncePromise' = IF noncePromise = 0 THEN Len(count) + 1 ELSE noncePromise
  /\ ticket' = [ticket EXCEPT ![r] = [promise |-> noncePromise', delta |-> delta]]
  /\ delta' = delta + 1
  /\ pc' = [pc EXCEPT ![r] = Populating]
  /\ UNCHANGED <<count, chainVars, outOfBand, faults>>

\* sendTransaction up to its first await: reserve the next nonce, asking the
\* node for the pending count if no promise is cached.
Reserve(r) ==
  /\ pc[r] = "idle"
  /\ \/ /\ noncePromise = 0
        /\ noncePromise' = Len(count) + 1
        /\ count' = Append(count, Unresolved)
     \/ /\ noncePromise # 0
        /\ UNCHANGED <<noncePromise, count>>
  /\ ticket' = [ticket EXCEPT ![r] = [promise |-> noncePromise', delta |-> delta]]
  /\ delta' = delta + 1
  /\ pc' = [pc EXCEPT ![r] = Populating]
  /\ UNCHANGED <<chainVars, outOfBand, faults>>

\* The node's answer to the pending-count query of promise p.
ResolveCount(p, n) ==
  /\ count[p] = Unresolved
  /\ IsPendingNonce(n)
  /\ count' = [count EXCEPT ![p] = n]
  /\ UNCHANGED <<noncePromise, delta, requestVars, chainVars, outOfBand, faults>>

\* The query of promise p fails; the rejected promise stays cached.
CountFails(p) ==
  /\ faults < MaxFaults
  /\ count[p] = Unresolved
  /\ count' = [count EXCEPT ![p] = Failed]
  /\ faults' = faults + 1
  /\ UNCHANGED <<noncePromise, delta, requestVars, chainVars, outOfBand>>

-----------------------------------------------------------------------------
(* The services' send, wait and catch *)

\* The catch blocks: resetNonce, then the error to the caller.
Fail(r) ==
  /\ pc' = [pc EXCEPT ![r] = "rejected"]
  /\ ResetNonce
  /\ UNCHANGED <<ticket, faults>>

\* eth_estimateGas reverts: nothing is broadcast, the reservation is lost.
EstimateReverts(r) ==
  /\ pc[r] = Populating
  /\ Fail(r)
  /\ UNCHANGED <<chainVars, outOfBand>>

\* The request's nonce is known.
HasNonce(r) == count[ticket[r].promise] \in Nat

\* Awaiting the rejected promise throws before anything is broadcast.
CountRejected(r) ==
  /\ pc[r] = Populating
  /\ count[ticket[r].promise] = Failed
  /\ Fail(r)
  /\ UNCHANGED <<chainVars, outOfBand>>

Accept(r) == pool' = pool \cup {[nonce |-> Nonce(r), by |-> r]}

\* A pooled transaction of the same nonce gives way to a later one.
Replace(r) ==
  pool' = {t \in pool : t.nonce # Nonce(r)} \cup {[nonce |-> Nonce(r), by |-> r]}

Broadcast(r) ==
  /\ pc[r] = Populating
  /\ HasNonce(r)
  /\ \/ /\ Nonce(r) >= chainNonce
        /\ \/ ~Pooled(Nonce(r)) /\ Accept(r)
           \/ Pooled(Nonce(r)) /\ Replace(r)
        /\ pc' = [pc EXCEPT ![r] = Waiting]
        /\ UNCHANGED <<managerVars, ticket, faults>>
     \/ /\ Nonce(r) < chainNonce \/ Pooled(Nonce(r))
        /\ Fail(r)
        /\ UNCHANGED pool
  /\ UNCHANGED <<chainNonce, executed, reverted, outOfBand>>

\* Mutant: a receipt is enough, whatever its status.
SettleOnReceipt(r) ==
  /\ pc[r] = Waiting
  /\ \/ /\ r \in executed \cup reverted
        /\ pc' = [pc EXCEPT ![r] = "resolved"]
        /\ UNCHANGED <<managerVars, ticket, faults>>
     \/ /\ r \notin executed \cup reverted
        /\ Nonce(r) < chainNonce
        /\ Fail(r)
  /\ UNCHANGED <<chainVars, outOfBand>>

\* Mutant: a replaced transaction is waited for like any other.
SettleUnlessReplaced(r) ==
  /\ pc[r] = Waiting
  /\ \/ /\ r \in executed
        /\ pc' = [pc EXCEPT ![r] = "resolved"]
        /\ UNCHANGED <<managerVars, ticket, faults>>
     \/ /\ r \in reverted
        /\ Fail(r)
  /\ UNCHANGED <<chainVars, outOfBand>>

\* tx.wait(): a receipt of status 1 resolves it, status 0 throws, and so does
\* finding the nonce used by another transaction.
Settle(r) ==
  /\ pc[r] = Waiting
  /\ \/ /\ r \in executed
        /\ pc' = [pc EXCEPT ![r] = "resolved"]
        /\ UNCHANGED <<managerVars, ticket, faults>>
     \/ /\ r \notin executed
        /\ r \in reverted \/ Nonce(r) < chainNonce
        /\ Fail(r)
  /\ UNCHANGED <<chainVars, outOfBand>>

\* The answer to the broadcast or to the receipt query is lost: the catch
\* block runs although the node may hold the transaction.
RpcFault(r) ==
  /\ faults < MaxFaults
  /\ \/ pc[r] = Waiting /\ UNCHANGED pool
     \/ /\ pc[r] = Populating
        /\ HasNonce(r)
        /\ \/ UNCHANGED pool
           \/ Nonce(r) >= chainNonce /\ ~Pooled(Nonce(r)) /\ Accept(r)
  /\ pc' = [pc EXCEPT ![r] = "unknown"]
  /\ ResetNonce
  /\ faults' = faults + 1
  /\ UNCHANGED <<ticket, chainNonce, executed, reverted, outOfBand>>

\* backend-api dies and comes back with an empty NonceManager; the node keeps
\* what was broadcast.
Restart ==
  /\ faults < MaxFaults
  /\ \E r \in Request : pc[r] \in {Populating, Waiting}
  /\ pc' = [r \in Request |-> IF pc[r] \in {Populating, Waiting} THEN "unknown" ELSE pc[r]]
  /\ ResetNonce
  /\ faults' = faults + 1
  /\ UNCHANGED <<ticket, chainVars, outOfBand>>

\* The nonces of a behaviour: one per request and out-of-band transaction.
NonceRange == 0..(Cardinality(Request) + MaxOutOfBand)

Next ==
  \/ Mine
  \/ Restart
  \/ \E n \in NonceRange : SendOutOfBand(n)
  \/ \E p \in DOMAIN count : CountFails(p) \/ \E n \in NonceRange : ResolveCount(p, n)
  \/ \E r \in Request :
       \/ Reserve(r) \/ EstimateReverts(r) \/ CountRejected(r) \/ Broadcast(r)
       \/ Settle(r) \/ RpcFault(r)

Spec == Init /\ [][Next]_vars

(***************************************************************************)
(* The node answers and produces a block every two seconds, and the event  *)
(* loop runs every continuation whose promise is settled.  Nobody has to   *)
(* send anything, and no estimate has to revert.                           *)
(***************************************************************************)
Fairness ==
  /\ WF_vars(Mine)
  /\ WF_vars(\E p \in DOMAIN count, n \in NonceRange : ResolveCount(p, n))
  /\ \A r \in Request :
       /\ WF_vars(EstimateReverts(r) \/ CountRejected(r) \/ Broadcast(r))
       /\ WF_vars(Settle(r))

FairSpec == Spec /\ Fairness

-----------------------------------------------------------------------------
Send == INSTANCE AbstractSend WITH
          Call <- Request,
          state <- [r \in Request |->
                      IF pc[r] \in {Populating, Waiting} THEN "pending" ELSE pc[r]],
          effect <- executed

(***************************************************************************)
(* Direct transport keeps the promise of AbstractSend through nonce        *)
(* collisions, replacements, reverted executions and lost answers: resolve *)
(* only after execution, and nothing rejected ever executes later, not     *)
(* even out of the pool.                                                   *)
(***************************************************************************)
ImplementsSend == Send!Spec

Holds(r, n) == pc[r] # "idle" /\ HasNonce(r) /\ Nonce(r) = n

\* A nonce below a pooled transaction that nothing pooled uses.
Gap(n) == n >= chainNonce /\ ~Pooled(n) /\ \E t \in pool : t.nonce > n

(***************************************************************************)
(* A gap in front of a pooled transaction is always some request's nonce,  *)
(* reserved and not yet broadcast, or abandoned by a send that failed.     *)
(* The NonceManager skips no nonce by itself, whatever is reset, resolved  *)
(* late or sent out of band meanwhile.                                     *)
(***************************************************************************)
GapsAreHeld ==
  \A n \in NonceRange :
    Gap(n) => \E r \in Request : pc[r] \notin {"idle", Waiting, "resolved"} /\ Holds(r, n)

\* Transaction of r waits behind a nonce that only failed sends held.
Blocked(r) ==
  /\ pc[r] = Waiting
  /\ \E n \in NonceRange :
       /\ n < Nonce(r) /\ Gap(n)
       /\ \A q \in Request : pc[q] = Populating => ~Holds(q, n)

(***************************************************************************)
(* The one thing tx.wait(), which has no timeout, can wait for in vain is  *)
(* a nonce abandoned by a failed send: every other broadcast settles.      *)
(***************************************************************************)
WaitsOnlyBehindAbandoned ==
  \A r \in Request : pc[r] = Waiting ~> pc[r] \in Settled \/ Blocked(r)

(***************************************************************************)
(* What PROJECT.md says resetNonce achieves: no send hangs forever after   *)
(* another one failed.                                                     *)
(***************************************************************************)
EverySendSettles == \A r \in Request : pc[r] = Waiting ~> pc[r] \in Settled
=============================================================================
