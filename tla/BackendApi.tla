----------------------------- MODULE BackendApi -----------------------------
(***************************************************************************)
(* backend-api over the deployed suite: the POST routes, the two services, *)
(* the audit log, and what the chain does with the transactions they send. *)
(* Handlers run concurrently; every await is a point where other handlers, *)
(* the chain and the command-line scripts may move.  The nonces behind     *)
(* `send' are SendPipeline's subject: here a transaction is pooled, then   *)
(* executed, reverted or replaced by another of its nonce.                 *)
(***************************************************************************)
EXTENDS TRexSuite

CONSTANTS
  Identity,       \* admin, anson and beatrice: who the routes accept
  Request,        \* HTTP requests
  Body,           \* bound: the request bodies a run posts
  ScriptBody,     \* bound: the calls a run makes out of band, by script
  MaxLosses       \* bound: crashes, lost answers and failed inserts

Operation == {"registerIdentity", "issueClaim", "mint", "transfer"}

\* An amount that does not fit a uint256 never leaves ethers' encoder.
ASSUME BackendAssumption ==
  /\ Identity \subseteq Account
  /\ \A b \in Body \cup ScriptBody :
       /\ b.op \in Operation /\ b.from \in Account /\ b.to \in Account /\ b.amount \in 0..MaxUint
       /\ b.op \in {"registerIdentity", "issueClaim"} => b.to \in Wallet
  /\ MaxLosses \in Nat

VARIABLES
  body,      \* body[r]: what request r posted
  pc,        \* where its handler is
  fate,      \* what became of its transaction
  answer,    \* the HTTP status it got, and why
  audit,     \* the transfers table: requests, by ascending id
  losses     \* crashes, lost answers and failed inserts so far

requestVars == <<body, pc, fate, answer>>
suiteVars == vars
backendVars == <<requestVars, audit, losses>>

NoBody == [op |-> "none", from |-> Admin, to |-> Admin, amount |-> 0]
NoAnswer == [status |-> 0, cause |-> "none"]

\* The handler is between two awaits of its service.
InFlight == {"checking", "sending", "waiting", "reading"}

Point == {"idle", "answered"} \cup InFlight
Outcome == {"none", "pooled", "executed", "reverted", "replaced"}
Response ==
  [status : {0, 200, 400, 500},
   cause : {"none", "done", "request", "contract", "nonce", "transport", "database", "crash"}]

BackendTypeOK ==
  /\ body \in [Request -> Body \cup {NoBody}]
  /\ pc \in [Request -> Point]
  /\ fate \in [Request -> Outcome]
  /\ answer \in [Request -> Response]
  /\ audit \in Seq(Request)
  /\ losses \in 0..MaxLosses

BackendInit ==
  /\ Init
  /\ body = [r \in Request |-> NoBody]
  /\ pc = [r \in Request |-> "idle"]
  /\ fate = [r \in Request |-> "none"]
  /\ answer = [r \in Request |-> NoAnswer]
  /\ audit = <<>>
  /\ losses = 0

-----------------------------------------------------------------------------
(* Transactions *)

\* Mutant: registering a registered wallet removes it first.
ExecutesToggling(b) ==
  /\ \/ /\ b.op = "registerIdentity"
        /\ RegisterIdentity(Admin, b.to) \/ RemoveIdentity(Admin, b.to)
        /\ UNCHANGED tokenVars
     \/ b.op = "issueClaim" /\ IssueClaim(Admin, b.to, KYC_TOPIC) /\ UNCHANGED tokenVars
     \/ b.op = "mint" /\ Mint(Admin, b.to, b.amount) /\ UNCHANGED storageVars
     \/ b.op = "transfer" /\ Transfer(b.from, b.to, b.amount) /\ UNCHANGED storageVars
  /\ UNCHANGED <<owner, topicsVars, issuersVars>>

\* The contract call a body stands for; the admin signs all but transfers.
Executes(b) ==
  /\ \/ b.op = "registerIdentity" /\ RegisterIdentity(Admin, b.to) /\ UNCHANGED tokenVars
     \/ b.op = "issueClaim" /\ IssueClaim(Admin, b.to, KYC_TOPIC) /\ UNCHANGED tokenVars
     \/ b.op = "mint" /\ Mint(Admin, b.to, b.amount) /\ UNCHANGED storageVars
     \/ b.op = "transfer" /\ Transfer(b.from, b.to, b.amount) /\ UNCHANGED storageVars
  /\ UNCHANGED <<owner, topicsVars, issuersVars>>

\* eth_estimateGas: would the call succeed on the state of this moment?
Succeeds(b) == ENABLED Executes(b)

Fate(r, f) == fate' = [fate EXCEPT ![r] = f]

\* A block takes up the transaction; the estimate may be out of date by now,
\* and a collision on the nonce may have replaced the transaction.
Mine(r) ==
  /\ fate[r] = "pooled"
  /\ \/ Executes(body[r]) /\ Fate(r, "executed")
     \/ ~Succeeds(body[r]) /\ Fate(r, "reverted") /\ UNCHANGED suiteVars
     \/ Fate(r, "replaced") /\ UNCHANGED suiteVars
  /\ UNCHANGED <<body, pc, answer, audit, losses>>

\* contracts/scripts: the same calls without the backend.
Script == \E b \in ScriptBody : Executes(b) /\ UNCHANGED backendVars

-----------------------------------------------------------------------------
(* Handlers *)

Goto(r, where) == pc' = [pc EXCEPT ![r] = where] /\ UNCHANGED answer

Reply(r, status, cause) ==
  /\ pc' = [pc EXCEPT ![r] = "answered"]
  /\ answer' = [answer EXCEPT ![r] = [status |-> status, cause |-> cause]]

\* isIdentity for whoever the body names, isPositiveInteger for amounts.
Valid(b) ==
  /\ b.to \in Identity
  /\ b.op = "transfer" => b.from \in Identity
  /\ b.op \in {"mint", "transfer"} => b.amount > 0

\* The route: validate, then call the service up to its first await.
Post(r, b) ==
  /\ pc[r] = "idle"
  /\ body' = [body EXCEPT ![r] = b]
  /\ \/ ~Valid(b) /\ Reply(r, 400, "request")
     \/ Valid(b) /\ b.op \in {"registerIdentity", "issueClaim"} /\ Goto(r, "checking")
     \/ Valid(b) /\ b.op \in {"mint", "transfer"} /\ Goto(r, "sending")
  /\ UNCHANGED <<suiteVars, fate, audit, losses>>

\* Mutant: issueClaim looks at the registration instead of the claims.
AlreadyRegistered(b) ==
  b.op \in {"registerIdentity", "issueClaim"} /\ IsRegistered(b.to)

AlreadyDone(b) ==
  \/ b.op = "registerIdentity" /\ IsRegistered(b.to)
  \/ b.op = "issueClaim" /\ IsVerified(b.to)

\* registerIdentity and issueClaim look first and skip a call not needed.
Check(r) ==
  /\ pc[r] = "checking"
  /\ \/ AlreadyDone(body[r]) /\ Reply(r, 200, "done")
     \/ ~AlreadyDone(body[r]) /\ Goto(r, "sending")
  /\ UNCHANGED <<suiteVars, body, fate, audit, losses>>

\* Mutant: an `already known' answer of the node is taken for a refusal.
SendAlreadyKnown(r) ==
  /\ pc[r] = "sending"
  /\ \/ Succeeds(body[r]) /\ Goto(r, "waiting") /\ Fate(r, "pooled")
     \/ ~Succeeds(body[r]) /\ Reply(r, 400, "contract") /\ UNCHANGED fate
     \/ Reply(r, 400, "nonce") /\ Fate(r, "pooled")
  /\ UNCHANGED <<suiteVars, body, audit, losses>>

\* The send: a reverting estimate or a refused nonce throws before anything
\* is broadcast.
Send(r) ==
  /\ pc[r] = "sending"
  /\ \/ Succeeds(body[r]) /\ Goto(r, "waiting") /\ Fate(r, "pooled")
     \/ ~Succeeds(body[r]) /\ Reply(r, 400, "contract") /\ UNCHANGED fate
     \/ Reply(r, 400, "nonce") /\ UNCHANGED fate
  /\ UNCHANGED <<suiteVars, body, audit, losses>>

\* tx.wait() throws.
Refuse(r) ==
  /\ pc[r] = "waiting"
  /\ \/ fate[r] = "reverted" /\ Reply(r, 400, "contract")
     \/ fate[r] = "replaced" /\ Reply(r, 400, "nonce")
  /\ UNCHANGED <<suiteVars, body, fate, audit, losses>>

\* Mutant: a receipt of status 0 confirms as well.
ConfirmReverted(r) ==
  /\ pc[r] = "waiting"
  /\ fate[r] \in {"executed", "reverted"}
  /\ Goto(r, "reading")
  /\ audit' = IF body[r].op = "transfer" THEN Append(audit, r) ELSE audit
  /\ UNCHANGED <<suiteVars, body, fate, losses>>

\* Mutant: mints are recorded like transfers.
ConfirmLogsMints(r) ==
  /\ pc[r] = "waiting"
  /\ fate[r] = "executed"
  /\ Goto(r, "reading")
  /\ audit' = IF body[r].op \in {"mint", "transfer"} THEN Append(audit, r) ELSE audit
  /\ UNCHANGED <<suiteVars, body, fate, losses>>

\* tx.wait() resolves: answer, or record the transfer and read balances.
Confirm(r) ==
  /\ pc[r] = "waiting"
  /\ fate[r] = "executed"
  /\ \/ /\ body[r].op \in {"registerIdentity", "issueClaim"}
        /\ Reply(r, 200, "done")
        /\ UNCHANGED audit
     \/ body[r].op = "mint" /\ Goto(r, "reading") /\ UNCHANGED audit
     \/ body[r].op = "transfer" /\ Goto(r, "reading") /\ audit' = Append(audit, r)
  /\ UNCHANGED <<suiteVars, body, fate, losses>>

\* balanceOf answers.
ReadBalances(r) ==
  /\ pc[r] = "reading"
  /\ Reply(r, 200, "done")
  /\ UNCHANGED <<suiteVars, body, fate, audit, losses>>

-----------------------------------------------------------------------------
(* Losses *)

Lose == losses < MaxLosses /\ losses' = losses + 1

\* Mutant: the failed INSERT is swallowed and the caller told of success.
InsertFailsSilently(r) ==
  /\ Lose
  /\ pc[r] = "waiting" /\ fate[r] = "executed" /\ body[r].op = "transfer"
  /\ Reply(r, 200, "done")
  /\ UNCHANGED <<suiteVars, body, fate, audit>>

\* The INSERT throws outside the try block.
InsertFails(r) ==
  /\ Lose
  /\ pc[r] = "waiting" /\ fate[r] = "executed" /\ body[r].op = "transfer"
  /\ Reply(r, 500, "database")
  /\ UNCHANGED <<suiteVars, body, fate, audit>>

\* An RPC answer is lost; docs/architecture.md promises a 503 here, which no
\* line of the code gives.  toComplianceError makes a 400 of every error with
\* a reason or shortMessage, ethers' own transport errors among them; other
\* errors, and those of the balance reads, are a 500.
LoseAnswer(r) ==
  /\ Lose
  /\ pc[r] \in InFlight
  /\ \/ UNCHANGED fate
     \/ pc[r] = "sending" /\ Succeeds(body[r]) /\ Fate(r, "pooled")
  /\ \/ pc[r] # "reading" /\ Reply(r, 400, "transport")
     \/ Reply(r, 500, "transport")
  /\ UNCHANGED <<suiteVars, body, audit>>

\* The process dies: every open connection is dropped; the table survives,
\* and so do the transactions the node holds, those of the handlers that were
\* still sending perhaps among them.
Crash ==
  /\ Lose
  /\ \E r \in Request : pc[r] \in InFlight
  /\ \E sent \in SUBSET {r \in Request : pc[r] = "sending" /\ Succeeds(body[r])} :
       fate' = [r \in Request |-> IF r \in sent THEN "pooled" ELSE fate[r]]
  /\ pc' = [r \in Request |-> IF pc[r] \in InFlight THEN "answered" ELSE pc[r]]
  /\ answer' = [r \in Request |->
                  IF pc[r] \in InFlight THEN [status |-> 0, cause |-> "crash"] ELSE answer[r]]
  /\ UNCHANGED <<suiteVars, body, audit>>

BackendNext ==
  \/ Script
  \/ Crash
  \/ \E r \in Request :
       \/ \E b \in Body : Post(r, b)
       \/ Check(r) \/ Send(r) \/ Mine(r) \/ Refuse(r) \/ Confirm(r) \/ ReadBalances(r)
       \/ InsertFails(r) \/ LoseAnswer(r)

BackendSpec == BackendInit /\ [][BackendNext]_<<suiteVars, backendVars>>

-----------------------------------------------------------------------------
Answered(r, op) == answer[r].status = 200 /\ body[r].op = op

(***************************************************************************)
(* A 200 of the onboarding routes tells the truth about the chain, now and *)
(* from now on, although the services decide on a check made before an     *)
(* await, never read back, and race each other and the scripts.            *)
(***************************************************************************)
AnswersAreTrue ==
  \A r \in Request :
    /\ Answered(r, "registerIdentity") => IsRegistered(body[r].to)
    /\ Answered(r, "issueClaim") => IsVerified(body[r].to)

Executed(r, op) == fate[r] = "executed" /\ body[r].op = op

(***************************************************************************)
(* The audit log reflects confirmed transfers only, each once, and has a   *)
(* row for every transfer a caller was told had succeeded (US-006/007).    *)
(***************************************************************************)
AuditIsSound ==
  /\ NoDuplicates(audit)
  /\ \A r \in Elements(audit) : Executed(r, "transfer")
  /\ \A r \in Request : Answered(r, "transfer") => r \in Elements(audit)

(***************************************************************************)
(* A transfer that executed without leaving a row is either still being    *)
(* waited for, or its handler was cut off by a crash, a lost answer or a   *)
(* failed insert: nothing else loses a row, a reused nonce included.       *)
(***************************************************************************)
UnloggedHasACause ==
  \A r \in Request :
    Executed(r, "transfer") /\ r \notin Elements(audit) =>
      pc[r] = "waiting" \/ answer[r].cause \in {"transport", "database", "crash"}

(***************************************************************************)
(* A caller told that the contract or the nonce refused the call can rely  *)
(* on it: the transaction did not execute and is in no pool.               *)
(***************************************************************************)
RefusalsAreFinal ==
  \A r \in Request :
    answer[r].cause \in {"request", "contract", "nonce"} =>
      fate[r] \notin {"pooled", "executed"}

AmountOf(requests) == SumFunctionOnSet([r \in Request |-> body[r].amount], requests)

Logged == Elements(audit)

\* The scripts of a run onboard wallets and move no tokens.
ScriptsOnboard == \A b \in ScriptBody : b.op \in {"registerIdentity", "issueClaim"}

(***************************************************************************)
(* With scripts that move no tokens and nothing lost, the audit log and    *)
(* the answered mints account for every balance as soon as no handler is   *)
(* at work: replaying the log gives what the chain shows.                  *)
(***************************************************************************)
LogReconciles ==
  ScriptsOnboard /\ losses = 0 /\ (\A r \in Request : pc[r] \notin InFlight) =>
    \A a \in Account :
      balances[a] + AmountOf({r \in Logged : body[r].from = a}) =
        AmountOf({r \in Logged : body[r].to = a})
        + AmountOf({r \in Request : Answered(r, "mint") /\ body[r].to = a})

(***************************************************************************)
(* The backend and the scripts change the chain only in the ways ServiceSpec *)
(* allows, so what holds of ServiceSpec holds behind the HTTP API.         *)
(***************************************************************************)
ChainSeesServices == ServiceSpec
=============================================================================
