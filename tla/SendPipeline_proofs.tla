------------------------ MODULE SendPipeline_proofs ------------------------
(***************************************************************************)
(* Sending through one NonceManager, for any number of concurrent sends,   *)
(* out-of-band transactions, lost answers and restarts: types, the         *)
(* implementation of AbstractSend, and that no nonce is skipped.           *)
(***************************************************************************)
EXTENDS SendPipeline, FiniteSetTheorems, TLAPS

Started(r) == pc[r] # "idle"

\* A ticket is a promise the manager made and a delta below its count; the
\* deltas before it are held by other requests.
TicketInv ==
  /\ noncePromise = 0 => delta = 0
  /\ \A r \in Request : Started(r) => ticket[r].promise \in DOMAIN count
  /\ \A r \in Request : Started(r) =>
       \A j \in 0..(ticket[r].delta - 1) :
         \E q \in Request : /\ Started(q)
                            /\ ticket[q].promise = ticket[r].promise
                            /\ ticket[q].delta = j
  /\ \A j \in 0..(delta - 1) :
       \E q \in Request : /\ Started(q)
                          /\ ticket[q].promise = noncePromise
                          /\ ticket[q].delta = j

\* The pool holds one transaction per nonce, none below the account's, and a
\* request's only under the nonce it reserved.
PoolInv ==
  /\ \A t \in pool : t.nonce >= chainNonce
  /\ \A t, u \in pool : t.nonce = u.nonce => t = u
  /\ \A t \in pool : t.by \in Request =>
       /\ pc[t.by] \in {Waiting, "unknown"}
       /\ HasNonce(t.by)
       /\ t.nonce = Nonce(t.by)

\* What is mined is no longer pooled, and what a request was told is true.
FateInv ==
  /\ \A r \in executed \cup reverted :
       /\ pc[r] \in {Waiting} \cup Settled
       /\ \A t \in pool : t.by # r
  /\ \A r \in Request : pc[r] = Waiting => HasNonce(r)
  /\ \A r \in Request : pc[r] = "resolved" => r \in executed /\ HasNonce(r)
  /\ \A r \in Request : pc[r] = "rejected" =>
       r \notin executed /\ \A t \in pool : t.by # r

IInv == TypeOK /\ TicketInv /\ PoolInv /\ FateInv

\* Below the base of a promise, and below a script's transaction, nothing is
\* missing; and what was broadcast keeps its nonce occupied until mined.
BaseInv ==
  /\ \A p \in DOMAIN count : count[p] \in Nat =>
       \A m \in chainNonce..(count[p] - 1) : Pooled(m)
  /\ \A t \in pool : t.by = Script =>
       \A m \in chainNonce..(t.nonce - 1) : Pooled(m)
  /\ \A r \in Request : pc[r] \in {Waiting, "resolved"} =>
       Nonce(r) < chainNonce \/ Pooled(Nonce(r))

-----------------------------------------------------------------------------
(* Types *)

LEMMA NonceRangeInNat == NonceRange \subseteq Nat
<1>1. Cardinality(Request) \in Nat
  BY PipelineAssumption, FS_CardinalityType
<1> QED
  BY <1>1, PipelineAssumption DEF NonceRange

LEMMA InitInv == Init => IInv /\ BaseInv
<1> SUFFICES ASSUME Init
             PROVE  IInv /\ BaseInv
  OBVIOUS
<1> USE DEF Init
<1>1. TypeOK
  BY DEF TypeOK
<1>2. TicketInv /\ PoolInv /\ FateInv
  BY DEF TicketInv, PoolInv, FateInv, Started, Settled, Waiting
<1>3. BaseInv
  BY DEF BaseInv, Waiting
<1> QED
  BY <1>1, <1>2, <1>3 DEF IInv

LEMMA NonceType ==
  ASSUME TypeOK, TicketInv, NEW r \in Request, Started(r), HasNonce(r)
  PROVE  Nonce(r) \in Nat
<1>1. count[ticket[r].promise] \in Nat \cup {Unresolved, Failed}
  BY DEF TypeOK, TicketInv
<1>2. count[ticket[r].promise] \in Nat
  BY <1>1 DEF HasNonce
<1> QED
  BY <1>2 DEF Nonce, TypeOK

LEMMA NextTyped == TypeOK /\ TicketInv /\ [Next]_vars => TypeOK'
<1> SUFFICES ASSUME TypeOK, TicketInv, [Next]_vars
             PROVE  TypeOK'
  OBVIOUS
<1> USE PipelineAssumption, NonceRangeInNat DEF TypeOK
<1>1. CASE Mine
  <2>1. PICK t \in pool : /\ pool' = pool \ {t}
                          /\ executed' \in {executed, executed \cup {t.by}}
                          /\ reverted' \in {reverted, reverted \cup {t.by}}
                          /\ t.by = Script => UNCHANGED <<executed, reverted>>
    BY <1>1 DEF Mine
  <2>2. t.by \in Request \cup {Script}
    BY DEF Sender
  <2> QED
    BY <1>1, <2>1, <2>2 DEF Mine, managerVars, requestVars
<1>2. CASE Restart
  BY <1>2 DEF Restart, ResetNonce, chainVars, Settled
<1>3. ASSUME NEW n \in NonceRange, SendOutOfBand(n)
      PROVE  TypeOK'
  <2>1. [nonce |-> n, by |-> Script] \in [nonce : Nat, by : Sender]
    BY DEF Sender
  <2> QED
    BY <1>3, <2>1 DEF SendOutOfBand, managerVars, requestVars
<1>4. ASSUME NEW p \in DOMAIN count, NEW n \in NonceRange, ResolveCount(p, n)
      PROVE  TypeOK'
  BY <1>4 DEF ResolveCount, requestVars, chainVars
<1>8. ASSUME NEW p \in DOMAIN count, CountFails(p)
      PROVE  TypeOK'
  BY <1>8 DEF CountFails, requestVars, chainVars
<1>5. ASSUME NEW r \in Request
      PROVE  /\ Reserve(r) => TypeOK'
             /\ EstimateReverts(r) \/ CountRejected(r) => TypeOK'
             /\ Settle(r) => TypeOK'
  <2>1. ASSUME Reserve(r) PROVE TypeOK'
    <3>1. /\ count' \in Seq(Nat \cup {Unresolved, Failed})
          /\ noncePromise' \in 0..Len(count') /\ noncePromise' \in Nat
      <4>1. CASE noncePromise = 0
        <5> PICK n \in Nat : n = Len(count)
          OBVIOUS
        <5>1. count' \in Seq(Nat \cup {Unresolved, Failed}) /\ Len(count') = n + 1
          <6>1. count' = Append(count, Unresolved)
            BY <2>1, <4>1 DEF Reserve
          <6>2. \A S : count \in Seq(S) /\ Unresolved \in S =>
                  Append(count, Unresolved) \in Seq(S)
                  /\ Len(Append(count, Unresolved)) = Len(count) + 1
            OBVIOUS
          <6> QED
            BY <6>1, <6>2
        <5>2. noncePromise' = n + 1
          BY <2>1, <4>1 DEF Reserve
        <5> QED
          BY <5>1, <5>2
      <4>2. CASE noncePromise # 0
        BY <2>1, <4>2 DEF Reserve
      <4> QED
        BY <4>1, <4>2
    <3>2. ticket' \in [Request -> [promise : Nat, delta : Nat]]
      BY <2>1, <3>1 DEF Reserve
    <3> QED
      BY <2>1, <3>1, <3>2 DEF Reserve, chainVars
  <2>2. ASSUME EstimateReverts(r) \/ CountRejected(r) PROVE TypeOK'
    <3>1. Fail(r) /\ UNCHANGED <<chainVars, outOfBand>>
      BY <2>2 DEF EstimateReverts, CountRejected
    <3> QED
      BY <3>1 DEF Fail, ResetNonce, chainVars, Settled
  <2>3. ASSUME Settle(r) PROVE TypeOK'
    <3>1. \/ pc' = [pc EXCEPT ![r] = "resolved"] /\ UNCHANGED managerVars
          \/ pc' = [pc EXCEPT ![r] = "rejected"] /\ ResetNonce
      BY <2>3 DEF Settle, Fail
    <3>2. pc' \in [Request -> {"idle", Populating, Waiting} \cup Settled]
      BY <3>1 DEF Settled
    <3>3. noncePromise' \in 0..Len(count') /\ delta' \in Nat /\ count' = count
      BY <3>1 DEF managerVars, ResetNonce
    <3>4. UNCHANGED <<ticket, chainVars, outOfBand, faults>>
      BY <2>3 DEF Settle, Fail
    <3> QED
      BY <3>2, <3>3, <3>4 DEF chainVars
  <2> QED
    BY <2>1, <2>2, <2>3
<1>6. ASSUME NEW r \in Request, Broadcast(r) \/ RpcFault(r)
      PROVE  TypeOK'
  <2>1. Started(r) /\ (HasNonce(r) => Nonce(r) \in Nat)
    BY <1>6, NonceType DEF Broadcast, RpcFault, Started, Populating, Waiting
  <2>2. HasNonce(r) => [nonce |-> Nonce(r), by |-> r] \in [nonce : Nat, by : Sender]
    BY <2>1 DEF Sender
  <2>3. CASE Broadcast(r)
    <3>1. pool' \in SUBSET [nonce : Nat, by : Sender]
      <4>1. UNCHANGED pool \/ (HasNonce(r) /\ (Accept(r) \/ Replace(r)))
        BY <2>3 DEF Broadcast, HasNonce
      <4> QED
        BY <2>2, <4>1 DEF Accept, Replace
    <3>2. pc' \in [Request -> {"idle", Populating, Waiting} \cup Settled]
      BY <2>3 DEF Broadcast, Fail, Settled
    <3> QED
      BY <2>3, <3>1, <3>2 DEF Broadcast, Fail, ResetNonce, managerVars
  <2>4. CASE RpcFault(r)
    <3>1. pool' \in SUBSET [nonce : Nat, by : Sender]
      BY <2>2, <2>4 DEF RpcFault, HasNonce, Accept
    <3> QED
      BY <2>4, <3>1 DEF RpcFault, ResetNonce, Settled
  <2> QED
    BY <1>6, <2>3, <2>4
<1>7. CASE UNCHANGED vars
  BY <1>7 DEF vars, managerVars, requestVars, chainVars
<1> QED
  BY <1>1, <1>2, <1>3, <1>4, <1>5, <1>6, <1>7, <1>8 DEF Next

-----------------------------------------------------------------------------
(* Tickets *)

\* A reservation is for good, and so is the nonce once the count is known.
LEMMA Stable ==
  ASSUME TypeOK, TicketInv, [Next]_vars, NEW r \in Request, Started(r)
  PROVE  /\ Started(r)' /\ ticket'[r] = ticket[r]
         /\ ticket[r].promise \in DOMAIN count'
         /\ HasNonce(r) => HasNonce(r)' /\ Nonce(r)' = Nonce(r)
<1>1. Started(r)' /\ ticket'[r] = ticket[r]
  BY DEF TypeOK, Started, Next, Mine, Restart, SendOutOfBand, ResolveCount, CountFails, Reserve,
         EstimateReverts, CountRejected, Broadcast, Settle, RpcFault, Fail, vars, requestVars,
         Populating, Waiting
<1>2. /\ DOMAIN count \subseteq DOMAIN count'
      /\ \A p \in DOMAIN count : count[p] \in Nat => count'[p] = count[p]
  <2>1. CASE UNCHANGED count
    BY <2>1
  <2>2. CASE count' = Append(count, Unresolved)
    <3> PICK n \in Nat : n = Len(count)
      BY DEF TypeOK
    <3> QED
      BY <2>2 DEF TypeOK
  <2>3. ASSUME NEW p \in DOMAIN count, NEW n \in NonceRange, ResolveCount(p, n)
        PROVE  /\ DOMAIN count \subseteq DOMAIN count'
               /\ \A q \in DOMAIN count : count[q] \in Nat => count'[q] = count[q]
    BY <2>3 DEF ResolveCount, TypeOK, Unresolved
  <2>4. ASSUME NEW p \in DOMAIN count, CountFails(p)
        PROVE  /\ DOMAIN count \subseteq DOMAIN count'
               /\ \A q \in DOMAIN count : count[q] \in Nat => count'[q] = count[q]
    BY <2>4 DEF CountFails, TypeOK, Unresolved
  <2> QED
    BY <2>1, <2>2, <2>3, <2>4
    DEF Next, Mine, Restart, SendOutOfBand, Reserve, EstimateReverts, CountRejected, Broadcast,
        Settle, RpcFault, Fail, ResetNonce, vars, managerVars
<1> QED
  BY <1>1, <1>2 DEF TicketInv, HasNonce, Nonce

LEMMA TicketsReserved ==
  ASSUME TypeOK, TicketInv, NEW r \in Request, Reserve(r)
  PROVE  TicketInv'
<1> USE DEF TypeOK, TicketInv, Started
<1>1. /\ pc[r] = "idle" /\ delta' = delta + 1
      /\ ticket' = [ticket EXCEPT ![r] = [promise |-> noncePromise', delta |-> delta]]
      /\ pc' = [pc EXCEPT ![r] = Populating]
  BY DEF Reserve
<1>2. /\ \A q \in Request : q # r => (Started(q)' <=> Started(q)) /\ ticket'[q] = ticket[q]
      /\ Started(r)' /\ ticket'[r].promise = noncePromise' /\ ticket'[r].delta = delta
  BY <1>1 DEF Populating
<1>3. /\ noncePromise' \in DOMAIN count' /\ noncePromise' # 0
      /\ DOMAIN count \subseteq DOMAIN count'
      /\ noncePromise # 0 => noncePromise' = noncePromise
      /\ noncePromise = 0 => delta = 0
  <2> PICK n \in Nat : n = Len(count)
    OBVIOUS
  <2>1. CASE noncePromise = 0
    BY <2>1 DEF Reserve
  <2>2. CASE noncePromise # 0
    BY <2>2 DEF Reserve
  <2> QED
    BY <2>1, <2>2
<1>4. ASSUME NEW j \in 0..(delta - 1)
      PROVE  \E q \in Request : Started(q)' /\ ticket'[q].promise = noncePromise'
                                /\ ticket'[q].delta = j
  <2>1. PICK q \in Request : /\ Started(q)
                             /\ ticket[q].promise = noncePromise
                             /\ ticket[q].delta = j
    OBVIOUS
  <2>2. q # r
    BY <1>1, <2>1
  <2> QED
    BY <1>2, <1>3, <2>1, <2>2
<1>5. ASSUME NEW j \in 0..(delta' - 1)
      PROVE  \E q \in Request : Started(q)' /\ ticket'[q].promise = noncePromise'
                                /\ ticket'[q].delta = j
  <2>1. j \in 0..(delta - 1) \/ j = delta
    BY <1>1
  <2> QED
    BY <1>2, <1>4, <2>1
<1>6. ASSUME NEW q \in Request, Started(q)', NEW j \in 0..(ticket'[q].delta - 1)
      PROVE  \E o \in Request : Started(o)' /\ ticket'[o].promise = ticket'[q].promise
                                /\ ticket'[o].delta = j
  <2>1. CASE q = r
    BY <1>2, <1>4, <1>6, <2>1
  <2>2. CASE q # r
    <3>1. Started(q) /\ j \in 0..(ticket[q].delta - 1) /\ ticket'[q] = ticket[q]
      BY <1>2, <1>6, <2>2
    <3>2. PICK o \in Request : /\ Started(o)
                               /\ ticket[o].promise = ticket[q].promise
                               /\ ticket[o].delta = j
      BY <3>1
    <3>3. o # r
      BY <1>1, <3>2
    <3> QED
      BY <1>2, <3>1, <3>2, <3>3
  <2> QED
    BY <2>1, <2>2
<1>7. ASSUME NEW q \in Request, Started(q)'
      PROVE  ticket'[q].promise \in DOMAIN count'
  <2>1. CASE q = r
    BY <1>2, <1>3, <2>1
  <2>2. CASE q # r
    BY <1>2, <1>3, <1>7, <2>2
  <2> QED
    BY <2>1, <2>2
<1> HIDE DEF Started, TypeOK
<1> QED
  BY <1>3, <1>5, <1>6, <1>7

LEMMA NextTickets == TypeOK /\ TicketInv /\ [Next]_vars => TicketInv'
<1> SUFFICES ASSUME TypeOK, TicketInv, [Next]_vars
             PROVE  TicketInv'
  OBVIOUS
<1>1. CASE \E r \in Request : Reserve(r)
  BY <1>1, TicketsReserved
<1>2. CASE ~\E r \in Request : Reserve(r)
  <2>1. ticket' = ticket
    BY <1>2 DEF Next, Mine, Restart, SendOutOfBand, ResolveCount, CountFails, EstimateReverts, CountRejected,
                Broadcast, Settle, RpcFault, Fail, vars, requestVars
  <2>2. \A r \in Request : Started(r)' <=> Started(r)
    BY <1>2 DEF TypeOK, Started, Next, Mine, Restart, SendOutOfBand, ResolveCount, CountFails,
                EstimateReverts, CountRejected, Broadcast, Settle, RpcFault, Fail, vars, requestVars,
                Populating, Waiting
  <2>3. UNCHANGED <<noncePromise, delta>> \/ (noncePromise' = 0 /\ delta' = 0)
    BY <1>2 DEF Next, Mine, Restart, SendOutOfBand, ResolveCount, CountFails, EstimateReverts, CountRejected,
                Broadcast, Settle, RpcFault, Fail, ResetNonce, vars, managerVars
  <2>4. \A r \in Request : Started(r) => ticket[r].promise \in DOMAIN count'
    BY Stable
  <2>5. ASSUME NEW r \in Request, Started(r)', NEW j \in 0..(ticket'[r].delta - 1)
        PROVE  \E q \in Request : Started(q)' /\ ticket'[q].promise = ticket'[r].promise
                                  /\ ticket'[q].delta = j
    BY <2>1, <2>2, <2>5 DEF TicketInv
  <2>6. ASSUME NEW j \in 0..(delta' - 1)
        PROVE  \E q \in Request : Started(q)' /\ ticket'[q].promise = noncePromise'
                                  /\ ticket'[q].delta = j
    <3>1. UNCHANGED <<noncePromise, delta>>
      BY <2>3
    <3> QED
      BY <2>1, <2>2, <3>1 DEF TicketInv
  <2>7. noncePromise' = 0 => delta' = 0
    BY <2>3 DEF TicketInv
  <2> QED
    BY <2>1, <2>2, <2>4, <2>5, <2>6, <2>7 DEF TicketInv
<1> QED
  BY <1>1, <1>2

-----------------------------------------------------------------------------
(* The pool *)

\* What a step does to the pool: it mines the next transaction, adds one
\* under a free nonce, or puts a new one in the place of an old one.
Mines(t) ==
  /\ t \in pool /\ t.nonce = chainNonce
  /\ pool' = pool \ {t} /\ chainNonce' = chainNonce + 1

Enters(t) ==
  /\ t.nonce >= chainNonce
  /\ pool' = {u \in pool : u.nonce # t.nonce} \cup {t}
  /\ chainNonce' = chainNonce

Puts(r) ==
  /\ pc[r] = Populating /\ pc'[r] \in {Waiting, "unknown"} /\ HasNonce(r)
  /\ Enters([nonce |-> Nonce(r), by |-> r])

LEMMA PoolSteps ==
  ASSUME TypeOK, [Next]_vars
  PROVE  \/ UNCHANGED <<pool, chainNonce>>
         \/ \E t \in pool : Mines(t)
         \/ \E n \in NonceRange : /\ IsPendingNonce(n)
                                  /\ Enters([nonce |-> n, by |-> Script])
         \/ \E r \in Request : Puts(r)
<1>1. CASE Mine
  BY <1>1 DEF Mine, Mines
<1>2. ASSUME NEW n \in NonceRange, SendOutOfBand(n)
      PROVE  IsPendingNonce(n) /\ Enters([nonce |-> n, by |-> Script])
  <2>1. {u \in pool : u.nonce # n} = pool
    BY <1>2 DEF SendOutOfBand, IsPendingNonce, Pooled
  <2> QED
    BY <1>2, <2>1 DEF SendOutOfBand, IsPendingNonce, Enters
<1>3. ASSUME NEW r \in Request, Broadcast(r) \/ RpcFault(r)
      PROVE  UNCHANGED <<pool, chainNonce>> \/ Puts(r)
  <2>1. ~Pooled(Nonce(r)) => {u \in pool : u.nonce # Nonce(r)} = pool
    BY DEF Pooled
  <2>2. CASE Broadcast(r)
    BY <2>1, <2>2 DEF Broadcast, Accept, Replace, Puts, Enters, HasNonce, TypeOK
  <2>3. CASE RpcFault(r)
    BY <2>1, <2>3 DEF RpcFault, Accept, Puts, Enters, HasNonce, TypeOK
  <2> QED
    BY <1>3, <2>2, <2>3
<1>4. CASE \/ Restart
           \/ \E p \in DOMAIN count :
                CountFails(p) \/ \E n \in NonceRange : ResolveCount(p, n)
           \/ \E r \in Request : Reserve(r) \/ EstimateReverts(r) \/ CountRejected(r) \/ Settle(r)
           \/ UNCHANGED vars
  BY <1>4 DEF Restart, ResolveCount, CountFails, Reserve, EstimateReverts, CountRejected, Settle,
              chainVars, vars
<1> QED
  BY <1>1, <1>2, <1>3, <1>4 DEF Next

\* The steps of the other requests' handlers.
LEMMA WhereaboutsStep ==
  ASSUME TypeOK, [Next]_vars, NEW r \in Request
  PROVE  /\ pc[r] = Waiting => pc'[r] \in {Waiting} \cup Settled
         /\ pc[r] \in Settled => pc'[r] = pc[r]
         /\ pc'[r] = Waiting => pc[r] = Waiting \/ HasNonce(r)
BY DEF TypeOK, Next, Mine, Restart, SendOutOfBand, ResolveCount, CountFails, Reserve,
       EstimateReverts, CountRejected, Broadcast, Settle, RpcFault, Fail, vars, requestVars,
       Populating, Waiting, Settled, HasNonce

LEMMA PooledNonce ==
  ASSUME IInv, NEW t \in pool, t.by \in Request
  PROVE  Started(t.by) /\ HasNonce(t.by) /\ Nonce(t.by) = t.nonce /\ t.nonce \in Nat
BY DEF IInv, TypeOK, PoolInv, Started, Waiting

\* As long as its transaction is pooled, a handler waits or has lost track.
LEMMA StillPooled ==
  ASSUME IInv, [Next]_vars, NEW t \in pool, t.by \in Request
  PROVE  pc'[t.by] \in {Waiting, "unknown"}
<1> DEFINE r == t.by
<1>1. pc[r] \in {Waiting, "unknown"} /\ r \notin executed \cup reverted
      /\ ~(Nonce(r) < chainNonce)
  BY PooledNonce DEF IInv, TypeOK, PoolInv, FateInv
<1>2. ~Settle(r)
  BY <1>1 DEF Settle
<1> QED
  BY <1>1, <1>2
  DEF IInv, TypeOK, Next, Mine, Restart, SendOutOfBand, ResolveCount, CountFails, Reserve,
      EstimateReverts, CountRejected, Broadcast, Settle, RpcFault, Fail, vars, requestVars,
      Populating, Waiting

LEMMA NextPool ==
  ASSUME IInv, [Next]_vars
  PROVE  PoolInv'
<1> USE PipelineAssumption
<1>1. ASSUME NEW t \in pool, t.by \in Request
      PROVE  pc'[t.by] \in {Waiting, "unknown"} /\ HasNonce(t.by)' /\ t.nonce = Nonce(t.by)'
  BY <1>1, StillPooled, PooledNonce, Stable DEF IInv
<1>2. CASE UNCHANGED <<pool, chainNonce>>
  BY <1>1, <1>2 DEF IInv, PoolInv
<1>3. ASSUME NEW t \in pool, Mines(t)
      PROVE  PoolInv'
  <2>1. \A u \in pool' : u \in pool /\ u.nonce >= chainNonce + 1
    BY <1>3 DEF Mines, IInv, PoolInv, TypeOK
  <2> QED
    BY <1>1, <1>3, <2>1 DEF Mines, IInv, PoolInv
<1>4. ASSUME NEW n \in NonceRange, Enters([nonce |-> n, by |-> Script])
      PROVE  PoolInv'
  <2>1. \A u \in pool' : (u \in pool /\ u.nonce # n) \/ u = [nonce |-> n, by |-> Script]
    BY <1>4 DEF Enters
  <2> QED
    BY <1>1, <1>4, <2>1 DEF Enters, IInv, PoolInv
<1>5. ASSUME NEW r \in Request, Puts(r)
      PROVE  PoolInv'
  <2> DEFINE new == [nonce |-> Nonce(r), by |-> r]
  <2>1. \A u \in pool' : (u \in pool /\ u.nonce # Nonce(r)) \/ u = new
    BY <1>5 DEF Puts, Enters
  <2>2. pc'[r] \in {Waiting, "unknown"} /\ HasNonce(r)' /\ Nonce(r)' = Nonce(r)
    BY <1>5, Stable DEF Puts, IInv, Started, Populating
  <2>3. new.nonce = Nonce(r) /\ new.by = r /\ new.nonce >= chainNonce' /\ chainNonce' = chainNonce
    BY <1>5 DEF Puts, Enters
  <2> HIDE DEF new
  <2> QED
    BY <1>1, <2>1, <2>2, <2>3 DEF IInv, PoolInv
<1> QED
  BY <1>2, <1>3, <1>4, <1>5, PoolSteps DEF IInv

-----------------------------------------------------------------------------
(* What requests are told *)

\* Only the transaction that leaves the pool is added to the mined ones.
LEMMA MinedStep ==
  ASSUME [Next]_vars, NEW r \in Request, r \in executed' \cup reverted'
  PROVE  r \in executed \cup reverted \/ \E t \in pool : t.by = r /\ Mines(t)
BY DEF Next, Mine, Mines, Restart, SendOutOfBand, ResolveCount, CountFails, Reserve, EstimateReverts, CountRejected,
       Broadcast, Settle, RpcFault, vars, chainVars

LEMMA MinedGrows ==
  ASSUME [Next]_vars
  PROVE  executed \subseteq executed'
BY DEF Next, Mine, Restart, SendOutOfBand, ResolveCount, CountFails, Reserve, EstimateReverts, CountRejected,
       Broadcast, Settle, RpcFault, vars, chainVars

LEMMA ResolvedStep ==
  ASSUME TypeOK, [Next]_vars, NEW r \in Request, pc'[r] = "resolved"
  PROVE  pc[r] = "resolved" \/ (pc[r] = Waiting /\ r \in executed)
BY DEF TypeOK, Next, Mine, Restart, SendOutOfBand, ResolveCount, CountFails, Reserve, EstimateReverts, CountRejected,
       Broadcast, Settle, RpcFault, Fail, vars, requestVars, Populating, Waiting

\* A send is rejected when it never got into the pool, or got out of it
\* without being executed.
LEMMA RejectedStep ==
  ASSUME IInv, [Next]_vars, NEW r \in Request, pc'[r] = "rejected", pc[r] # "rejected"
  PROVE  /\ EstimateReverts(r) \/ CountRejected(r) \/ Broadcast(r) \/ Settle(r)
         /\ r \notin executed /\ \A t \in pool : t.by # r
         /\ UNCHANGED <<pool, executed>>
<1>1. EstimateReverts(r) \/ CountRejected(r) \/ Broadcast(r) \/ Settle(r)
  BY DEF IInv, TypeOK, Next, Mine, Restart, SendOutOfBand, ResolveCount, CountFails, Reserve,
         EstimateReverts, CountRejected, Broadcast, Settle, RpcFault, Fail, vars, requestVars,
         Populating, Waiting
<1>2. \A t \in pool : t.by # r
  BY StillPooled DEF Waiting
<1>3. CASE EstimateReverts(r) \/ CountRejected(r) \/ Broadcast(r)
  BY <1>1, <1>2, <1>3 DEF EstimateReverts, CountRejected, Broadcast, Fail, chainVars, IInv, TypeOK, FateInv,
        Populating, Waiting, Settled
<1>4. CASE Settle(r)
  BY <1>1, <1>2, <1>4 DEF Settle, Fail, chainVars, IInv, TypeOK, Waiting
<1> QED
  BY <1>1, <1>2, <1>3, <1>4

LEMMA NextFate ==
  ASSUME IInv, [Next]_vars
  PROVE  FateInv'
<1> USE PipelineAssumption
<1>1. ASSUME NEW r \in Request, pc[r] # Populating, NEW t \in pool', t.by = r
      PROVE  t \in pool
  BY <1>1, PoolSteps DEF IInv, Mines, Enters, Puts
<1>2. ASSUME NEW r \in Request, NEW t \in pool, t.by = r, Mines(t)
      PROVE  \A u \in pool' : u.by # r
  BY <1>2, PooledNonce DEF Mines, IInv, PoolInv
<1>3. ASSUME NEW r \in executed' \cup reverted'
      PROVE  pc'[r] \in {Waiting} \cup Settled /\ \A t \in pool' : t.by # r
  <2>1. r \in Request
    BY NextTyped DEF IInv, TypeOK
  <2>2. CASE r \in executed \cup reverted
    <3>1. pc[r] \in {Waiting} \cup Settled /\ \A t \in pool : t.by # r
      BY <2>2 DEF IInv, FateInv
    <3> QED
      BY <1>1, <2>1, <3>1, WhereaboutsStep DEF IInv, Populating, Waiting, Settled
  <2>3. CASE \E t \in pool : t.by = r /\ Mines(t)
    BY <1>2, <2>1, <2>3, StillPooled DEF Settled
  <2> QED
    BY <2>1, <2>2, <2>3, MinedStep
<1>4. ASSUME NEW r \in Request, pc'[r] = Waiting
      PROVE  HasNonce(r)'
  <2>1. HasNonce(r) /\ Started(r)
    <3>1. pc[r] = Waiting \/ HasNonce(r)
      BY <1>4, WhereaboutsStep DEF IInv
    <3>2. Started(r)
      BY <1>4 DEF IInv, TypeOK, Started, Next, Mine, Restart, SendOutOfBand, ResolveCount, CountFails,
             Reserve, EstimateReverts, CountRejected, Broadcast, Settle, RpcFault, Fail, vars, requestVars,
             Populating, Waiting
    <3> QED
      BY <3>1, <3>2 DEF IInv, FateInv
  <2> QED
    BY <2>1, Stable DEF IInv
<1>5. ASSUME NEW r \in Request, pc'[r] = "resolved"
      PROVE  r \in executed' /\ HasNonce(r)'
  <2>1. Started(r) /\ r \in executed /\ HasNonce(r)
    BY <1>5, ResolvedStep DEF IInv, FateInv, Started, Waiting
  <2> QED
    BY <2>1, Stable, MinedGrows DEF IInv
<1>6. ASSUME NEW r \in Request, pc'[r] = "rejected"
      PROVE  r \notin executed' /\ \A t \in pool' : t.by # r
  <2>1. CASE pc[r] = "rejected"
    <3>1. r \notin executed /\ \A t \in pool : t.by # r
      BY <2>1 DEF IInv, FateInv
    <3>2. r \in executed' => r \in executed
      BY <3>1 DEF Next, Mine, Restart, SendOutOfBand, ResolveCount, CountFails, Reserve, EstimateReverts, CountRejected,
                  Broadcast, Settle, RpcFault, vars, chainVars
    <3> QED
      BY <1>1, <2>1, <3>1, <3>2 DEF Populating
  <2>2. CASE pc[r] # "rejected"
    BY <1>6, <2>2, RejectedStep
  <2> QED
    BY <2>1, <2>2
<1> QED
  BY <1>3, <1>4, <1>5, <1>6 DEF FateInv

LEMMA Invariance == Spec => []IInv
<1>1. Init => IInv
  BY InitInv
<1>2. IInv /\ [Next]_vars => IInv'
  BY NextTyped, NextTickets, NextPool, NextFate DEF IInv
<1> QED
  BY <1>1, <1>2, PTL DEF Spec

(***************************************************************************)
(* Type correctness of the pipeline, for any number of requests.           *)
(***************************************************************************)
THEOREM PipelineTypeCorrect == Spec => []TypeOK
<1>1. IInv => TypeOK
  BY DEF IInv
<1> QED
  BY <1>1, Invariance, PTL

-----------------------------------------------------------------------------
(* SendPipeline implements AbstractSend *)

\* Changing one handler changes one abstract state.
LEMMA Becoming ==
  ASSUME TypeOK, NEW r \in Request, NEW to \in Settled,
         pc' = [pc EXCEPT ![r] = to], pc[r] \in {Populating, Waiting}
  PROVE  Send!Become(r, "pending", to)
BY DEF Send!Become, Settled, Populating, Waiting, TypeOK

LEMMA RejectIsAbstract ==
  ASSUME IInv, [Next]_vars, NEW r \in Request, pc[r] \in {Populating, Waiting}, Fail(r)
  PROVE  Send!Reject(r)
<1>1. Send!Become(r, "pending", "rejected")
  BY Becoming DEF Fail, IInv, Settled
<1>2. pc'[r] = "rejected" /\ pc[r] # "rejected"
  BY DEF Fail, IInv, TypeOK, Populating, Waiting
<1> QED
  BY <1>1, <1>2, RejectedStep DEF Send!Reject

LEMMA StepIsAbstract ==
  ASSUME IInv, [Next]_vars
  PROVE  [Send!Next]_(Send!vars)
<1>1. CASE UNCHANGED <<pc, executed>>
  BY <1>1 DEF Send!vars
<1>2. CASE Mine
  <2>1. PICK t \in pool : \/ UNCHANGED executed
                          \/ t.by \in Request /\ executed' = executed \cup {t.by}
    BY <1>2 DEF Mine, IInv, TypeOK, Sender
  <2>2. CASE UNCHANGED executed
    BY <1>1, <1>2, <2>2 DEF Mine, requestVars
  <2>3. CASE t.by \in Request /\ executed' = executed \cup {t.by}
    <3>1. pc[t.by] \in {Waiting, "unknown"} /\ t.by \notin executed
      BY <2>3 DEF IInv, PoolInv, FateInv
    <3>2. Send!Execute(t.by)
      BY <1>2, <2>3, <3>1 DEF Mine, requestVars, Send!Execute, Waiting
    <3> QED
      BY <2>3, <3>2 DEF Send!Next
  <2> QED
    BY <2>1, <2>2, <2>3
<1>3. CASE Restart
  <2>1. PICK C \in SUBSET Request : C = {r \in Request : pc[r] \in {Populating, Waiting}}
    OBVIOUS
  <2>2. Send!LoseTrack(C)
    BY <1>3, <2>1 DEF Restart, chainVars, Send!LoseTrack, IInv, TypeOK, Populating, Waiting
  <2> QED
    BY <2>2 DEF Send!Next
<1>4. ASSUME NEW r \in Request, Reserve(r)
      PROVE  Send!Next
  <2>1. Send!Begin(r)
    BY <1>4 DEF Reserve, chainVars, Send!Begin, Send!Become, IInv, TypeOK, Populating, Waiting
  <2> QED
    BY <2>1 DEF Send!Next
<1>5. ASSUME NEW r \in Request, EstimateReverts(r) \/ CountRejected(r) \/ Broadcast(r) \/ Settle(r)
      PROVE  [Send!Next]_(Send!vars)
  <2>1. CASE Fail(r)
    <3>1. Send!Reject(r)
      BY <1>5, <2>1, RejectIsAbstract DEF EstimateReverts, CountRejected, Broadcast, Settle
    <3> QED
      BY <3>1 DEF Send!Next
  <2>2. CASE Broadcast(r) /\ pc' = [pc EXCEPT ![r] = Waiting]
    BY <2>2 DEF Broadcast, Send!vars, IInv, TypeOK, Populating, Waiting
  <2>3. CASE Settle(r) /\ r \in executed /\ pc' = [pc EXCEPT ![r] = "resolved"]
    <3>1. Send!Become(r, "pending", "resolved")
      BY <2>3, Becoming DEF Settle, IInv, Settled
    <3>2. Send!Resolve(r)
      BY <2>3, <3>1 DEF Settle, chainVars, Send!Resolve
    <3> QED
      BY <3>2 DEF Send!Next
  <2> QED
    BY <1>5, <2>1, <2>2, <2>3 DEF EstimateReverts, CountRejected, Broadcast, Settle
<1>6. ASSUME NEW r \in Request, RpcFault(r)
      PROVE  Send!Next
  <2>1. PICK C \in SUBSET Request : C = {r}
    OBVIOUS
  <2>2. Send!LoseTrack(C)
    BY <1>6, <2>1 DEF RpcFault, Send!LoseTrack, IInv, TypeOK, Populating, Waiting
  <2> QED
    BY <2>2 DEF Send!Next
<1>7. CASE \/ \E n \in NonceRange : SendOutOfBand(n)
           \/ \E p \in DOMAIN count :
                CountFails(p) \/ \E n \in NonceRange : ResolveCount(p, n)
           \/ UNCHANGED vars
  BY <1>1, <1>7 DEF SendOutOfBand, ResolveCount, CountFails, vars, requestVars, chainVars
<1> QED
  BY <1>2, <1>3, <1>4, <1>5, <1>6, <1>7 DEF Next

(***************************************************************************)
(* Direct transport implements what the services rely on, for any number   *)
(* of concurrent sends, out-of-band transactions, lost answers and         *)
(* restarts: a send resolves only after its transaction executed, and what *)
(* was rejected never executes, not even out of the pool.                  *)
(***************************************************************************)
THEOREM PipelineImplementsSend == Spec => ImplementsSend
<1>1. Init => Send!Init
  BY DEF Init, Send!Init, Populating, Waiting
<1>2. IInv /\ [Next]_vars => [Send!Next]_(Send!vars)
  BY StepIsAbstract
<1> QED
  BY <1>1, <1>2, Invariance, PTL DEF Spec, ImplementsSend, Send!Spec

-----------------------------------------------------------------------------
(* No nonce is skipped *)

\* A nonce the node holds stays occupied until it is mined.
LEMMA StaysPooled ==
  ASSUME IInv, [Next]_vars, NEW n \in Nat, n >= chainNonce => Pooled(n)
  PROVE  n >= chainNonce' => Pooled(n)'
<1>1. ASSUME NEW t \in pool, Mines(t), n >= chainNonce'
      PROVE  Pooled(n)'
  <2>1. PICK u \in pool : u.nonce = n
    BY <1>1 DEF Mines, IInv, TypeOK, Pooled
  <2>2. u \in pool'
    BY <1>1, <2>1 DEF Mines, IInv, TypeOK
  <2> QED
    BY <2>1, <2>2 DEF Pooled
<1>2. ASSUME NEW new, Enters(new), n >= chainNonce'
      PROVE  Pooled(n)'
  BY <1>2 DEF Enters, Pooled
<1>3. CASE UNCHANGED <<pool, chainNonce>>
  BY <1>3 DEF Pooled
<1> QED
  BY <1>1, <1>2, <1>3, PoolSteps DEF IInv, Puts

LEMMA NextBase ==
  ASSUME IInv, BaseInv, [Next]_vars
  PROVE  BaseInv'
<1> USE PipelineAssumption
<1>1. chainNonce \in Nat /\ chainNonce' \in Nat /\ chainNonce <= chainNonce'
  <2>1. chainNonce' = chainNonce \/ chainNonce' = chainNonce + 1
    BY DEF Next, Mine, Restart, SendOutOfBand, ResolveCount, CountFails, Reserve, EstimateReverts, CountRejected,
           Broadcast, Settle, RpcFault, vars, chainVars
  <2> QED
    BY <2>1 DEF IInv, TypeOK
\* What was filled from chainNonce up to k stays so.
<1>2. ASSUME NEW k \in Int, \A m \in chainNonce..(k - 1) : Pooled(m)
      PROVE  \A m \in chainNonce'..(k - 1) : Pooled(m)'
  <2> SUFFICES ASSUME NEW m \in chainNonce'..(k - 1)
               PROVE  Pooled(m)'
    OBVIOUS
  <2>1. m \in Nat /\ m >= chainNonce' /\ m \in chainNonce..(k - 1)
    BY <1>1
  <2> QED
    BY <1>2, <2>1, StaysPooled
<1>3. ASSUME NEW p \in DOMAIN count', count'[p] \in Nat
      PROVE  \A m \in chainNonce'..(count'[p] - 1) : Pooled(m)'
  <2>1. CASE p \in DOMAIN count /\ count[p] \in Nat /\ count'[p] = count[p]
    <3>1. \A m \in chainNonce..(count[p] - 1) : Pooled(m)
      BY <2>1 DEF BaseInv
    <3> QED
      BY <1>2, <2>1, <3>1
  <2>2. ASSUME NEW q \in DOMAIN count, NEW n \in NonceRange, ResolveCount(q, n), p = q
        PROVE  \A m \in chainNonce'..(count'[p] - 1) : Pooled(m)'
    <3>1. count'[p] = n /\ UNCHANGED <<pool, chainNonce>>
      BY <2>2 DEF ResolveCount, chainVars, IInv, TypeOK
    <3> QED
      BY <2>2, <3>1 DEF ResolveCount, IsPendingNonce, Pooled
  <2>3. \/ p \in DOMAIN count /\ count[p] \in Nat /\ count'[p] = count[p]
        \/ \E n \in NonceRange : p \in DOMAIN count /\ ResolveCount(p, n)
    <3>1. CASE UNCHANGED count
      BY <1>3, <3>1
    <3>2. CASE count' = Append(count, Unresolved)
      <4> PICK n \in Nat : n = Len(count)
        BY DEF IInv, TypeOK
      <4> QED
        BY <1>3, <3>2 DEF IInv, TypeOK, Unresolved
    <3>3. ASSUME NEW q \in DOMAIN count, NEW n \in NonceRange, ResolveCount(q, n)
          PROVE  \/ p \in DOMAIN count /\ count[p] \in Nat /\ count'[p] = count[p]
                 \/ p = q
      BY <1>3, <3>3 DEF ResolveCount, IInv, TypeOK
    <3>4. ASSUME NEW q \in DOMAIN count, CountFails(q)
          PROVE  p \in DOMAIN count /\ count[p] \in Nat /\ count'[p] = count[p]
      BY <1>3, <3>4 DEF CountFails, IInv, TypeOK, Failed
    <3> QED
      BY <3>1, <3>2, <3>3, <3>4
      DEF Next, Mine, Restart, SendOutOfBand, Reserve, EstimateReverts, CountRejected, Broadcast,
          Settle, RpcFault, Fail, ResetNonce, vars, managerVars
  <2> QED
    BY <2>1, <2>2, <2>3
<1>4. ASSUME NEW t \in pool', t.by = Script
      PROVE  \A m \in chainNonce'..(t.nonce - 1) : Pooled(m)'
  <2>1. CASE t \in pool
    <3>1. t.nonce \in Int
      BY <2>1 DEF IInv, TypeOK
    <3>2. \A m \in chainNonce..(t.nonce - 1) : Pooled(m)
      BY <1>4, <2>1 DEF BaseInv
    <3>3. PICK k \in Int : k = t.nonce
      BY <3>1
    <3>4. \A m \in chainNonce..(k - 1) : Pooled(m)
      BY <3>2, <3>3
    <3>5. \A m \in chainNonce'..(k - 1) : Pooled(m)'
      BY <1>2, <3>4
    <3> QED
      BY <3>3, <3>5
  <2>2. ASSUME NEW n \in NonceRange, IsPendingNonce(n),
               Enters([nonce |-> n, by |-> Script]), t = [nonce |-> n, by |-> Script]
        PROVE  \A m \in chainNonce'..(t.nonce - 1) : Pooled(m)'
    <3>1. n \in Nat /\ t.nonce = n /\ chainNonce' = chainNonce
      BY <2>2, NonceRangeInNat DEF Enters
    <3> QED
      BY <1>2, <2>2, <3>1 DEF IsPendingNonce
  <2> QED
    BY <1>4, <2>1, <2>2, PoolSteps DEF IInv, Mines, Enters, Puts
<1>5. ASSUME NEW r \in Request, pc'[r] \in {Waiting, "resolved"}
      PROVE  Nonce(r)' < chainNonce' \/ Pooled(Nonce(r))'
  <2>1. CASE pc[r] \in {Waiting, "resolved"}
    <3>1. Started(r) /\ HasNonce(r)
      BY <2>1 DEF IInv, FateInv, Started, Waiting
    <3>2. Nonce(r) \in Nat /\ Nonce(r)' = Nonce(r)
      BY <3>1, NonceType, Stable DEF IInv
    <3>3. Nonce(r) >= chainNonce => Pooled(Nonce(r))
      BY <1>1, <2>1, <3>2 DEF BaseInv
    <3>4. PICK n \in Nat : n = Nonce(r)
      BY <3>2
    <3>5. n >= chainNonce' => Pooled(n)'
      BY <3>3, <3>4, StaysPooled
    <3> QED
      BY <1>1, <3>2, <3>4, <3>5 DEF Pooled
  <2>2. CASE Puts(r)
    <3>1. Nonce(r)' = Nonce(r)
      BY <2>2, Stable DEF Puts, IInv, Started, Populating
    <3> DEFINE new == [nonce |-> Nonce(r), by |-> r]
    <3>2. new \in pool'
      BY <2>2 DEF Puts, Enters
    <3>3. new.nonce = Nonce(r)'
      BY <3>1
    <3>4. \E t \in pool' : t.nonce = Nonce(r)'
      BY <3>2, <3>3
    <3> QED
      BY <3>4 DEF Pooled
  <2>3. pc[r] \in {Waiting, "resolved"} \/ Puts(r)
    <3>1. CASE Broadcast(r)
      <4>1. ~Pooled(Nonce(r)) => {u \in pool : u.nonce # Nonce(r)} = pool
        BY DEF Pooled
      <4> QED
        BY <1>5, <3>1, <4>1 DEF Broadcast, Accept, Replace, Fail, Puts, Enters, HasNonce,
              IInv, TypeOK, Waiting
    <3>2. CASE ~Broadcast(r)
      BY <1>5, <3>2 DEF IInv, TypeOK, Next, Mine, Restart, SendOutOfBand, ResolveCount, CountFails,
            Reserve, EstimateReverts, CountRejected, Broadcast, Settle, RpcFault, Fail, vars, requestVars,
            Populating, Waiting
    <3> QED
      BY <3>1, <3>2
  <2> QED
    BY <2>1, <2>2, <2>3
<1> QED
  BY <1>3, <1>4, <1>5 DEF BaseInv

LEMMA GapHasHolder ==
  ASSUME IInv, BaseInv
  PROVE  GapsAreHeld
<1> SUFFICES ASSUME NEW n \in NonceRange, Gap(n)
             PROVE  \E q \in Request : pc[q] \notin {"idle", Waiting, "resolved"} /\ Holds(q, n)
  BY DEF GapsAreHeld
<1>1. n \in Nat /\ n >= chainNonce /\ ~Pooled(n) /\ chainNonce \in Nat
  BY NonceRangeInNat DEF Gap, IInv, TypeOK
<1>2. PICK t \in pool : t.nonce > n
  BY DEF Gap
<1>3. t.by # Script
  BY <1>1, <1>2 DEF BaseInv, IInv, TypeOK
<1>4. PICK r \in Request : t.by = r
  BY <1>3 DEF IInv, TypeOK, Sender
<1>5. Started(r) /\ HasNonce(r) /\ Nonce(r) = t.nonce /\ t.nonce \in Nat
  BY <1>4, PooledNonce
<1>6. PICK p \in DOMAIN count : p = ticket[r].promise
  BY <1>5 DEF IInv, TicketInv
<1>7. count[p] \in Nat /\ ticket[r].delta \in Nat /\ t.nonce = count[p] + ticket[r].delta
  BY <1>5, <1>6 DEF IInv, TypeOK, HasNonce, Nonce
<1>8. n >= count[p]
  BY <1>1, <1>5, <1>6, <1>7 DEF BaseInv, HasNonce
<1>9. PICK j \in 0..(ticket[r].delta - 1) : n = count[p] + j
  <2>1. PICK k \in Nat, d \in Nat : k = count[p] /\ d = ticket[r].delta
    BY <1>7
  <2>2. t.nonce = k + d
    BY <1>7, <2>1
  <2>3. n >= k /\ n < k + d
    BY <1>1, <1>2, <1>8, <2>1, <2>2
  <2>4. n - k \in 0..(d - 1) /\ n = k + (n - k)
    BY <1>1, <2>3
  <2> QED
    BY <2>1, <2>4
<1>10. PICK q \in Request : Started(q) /\ ticket[q].promise = p /\ ticket[q].delta = j
  BY <1>5, <1>6 DEF IInv, TicketInv
<1>11. Holds(q, n) /\ Nonce(q) = n
  BY <1>5, <1>6, <1>9, <1>10 DEF Holds, Started, HasNonce, Nonce
<1>12. pc[q] \notin {Waiting, "resolved"}
  BY <1>1, <1>11 DEF BaseInv
<1> QED
  BY <1>10, <1>11, <1>12 DEF Started

(***************************************************************************)
(* For any number of requests and faults, a gap in front of a pooled       *)
(* transaction is the nonce of a send that has not broadcast or failed:    *)
(* resets, late counts and out-of-band sends skip none.                    *)
(***************************************************************************)
THEOREM GapsAlwaysHeld == Spec => []GapsAreHeld
<1>1. Init => IInv /\ BaseInv
  BY InitInv
<1>2. IInv /\ BaseInv /\ [Next]_vars => BaseInv'
  BY NextBase
<1>3. IInv /\ BaseInv => GapsAreHeld
  BY GapHasHolder
<1> QED
  BY <1>1, <1>2, <1>3, Invariance, PTL DEF Spec
=============================================================================
