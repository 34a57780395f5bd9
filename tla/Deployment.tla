----------------------------- MODULE Deployment -----------------------------
(***************************************************************************)
(* Bringing the stack up: docker compose, deploy.ts, the address file it   *)
(* writes, the processes that read that file once when they start, and     *)
(* seed.js, which redeploys and restarts one of them.  The chain has no    *)
(* volume: compose down wipes it, the file stays.  A contract's address is *)
(* a function of its deployer's nonce, so a wiped chain can bring an old   *)
(* address back to life.                                                   *)
(***************************************************************************)
EXTENDS Integers, Sequences

CONSTANTS
  anson, beatrice,
  EarlierFile,    \* bound: what may be left of the address file at the start
  MaxSeeds,       \* bound: runs of seed.js
  MaxDowns,       \* bound: compose down
  MaxMints,       \* bound: calls of the page's mint
  MaxFaults       \* bound: failing commands and transactions

Person == {anson, beatrice}
Process == {"backend", "gateway"}
Minter == {"seed", "page"}

\* An address file, or the addresses a process holds: those of the two
\* contracts it calls, and the chain they were deployed on.
Addresses == [is : {"addresses"}, ir : Nat, token : Nat, chain : Int]
Without(what) == [is |-> what, ir |-> 0, token |-> 0, chain |-> 0]

ASSUME DeploymentAssumption ==
  /\ anson # beatrice
  /\ EarlierFile \subseteq Addresses \cup {Without("absent")}
  /\ \A f \in EarlierFile : f.chain < 0 \/ f.is = "absent"
  /\ MaxSeeds \in Nat /\ MaxDowns \in Nat /\ MaxMints \in Nat /\ MaxFaults \in Nat

VARIABLES
  mode,         \* the stack that compose has up
  nonce,        \* the admin's nonce on this chain
  created,      \* addresses that have code
  registries,   \* identity registries by address
  tokens,       \* tokens by address, with the mints by whoever asked for them
  file,         \* deployed-addresses.json
  held,         \* the addresses each process read when it started
  cached,       \* its NonceManager's next admin nonce
  at,           \* the step seed.js is at, 0 when it does not run
  made,         \* the addresses deploy.ts has so far
  outcome,      \* how the last run of seed.js ended
  seeds, downs, mints, faults

chainVars == <<nonce, created, registries, tokens>>
seedVars == <<at, made, outcome>>
boundVars == <<seeds, downs, mints, faults>>
vars == <<mode, chainVars, file, held, cached, seedVars, boundVars>>

NoNonce == -1

Step(do, who) == [do |-> do, who |-> who]
Deploying(do) == Step(do, anson)

\* Mutant: the addresses are written as soon as they are known.
PlanSavesEarly ==
  <<Deploying("topics"), Deploying("issuers"), Deploying("storage"), Deploying("registry"),
    Deploying("compliance"), Deploying("token"), Deploying("save"),
    Deploying("bind"), Deploying("trust"), Deploying("bindToken"),
    Deploying("restart"), Deploying("await"),
    Step("register", anson), Step("claim", anson),
    Step("register", beatrice), Step("claim", beatrice), Step("mint", anson)>>

\* What seed.js does: deploy.ts, the restart, the wait, the API calls.
Plan ==
  <<Deploying("topics"), Deploying("issuers"), Deploying("storage"), Deploying("registry"),
    Deploying("bind"), Deploying("trust"),
    Deploying("compliance"), Deploying("token"), Deploying("bindToken"), Deploying("save"),
    Deploying("restart"), Deploying("await"),
    Step("register", anson), Step("claim", anson),
    Step("register", beatrice), Step("claim", beatrice), Step("mint", anson)>>

TypeOK ==
  /\ mode \in {"down", "direct", "gateway"}
  /\ nonce \in Nat
  /\ created \subseteq 0..(nonce - 1)
  /\ DOMAIN registries \subseteq created
  /\ \A a \in DOMAIN registries :
       registries[a] \in [bound : BOOLEAN, trusted : BOOLEAN,
                          registered : SUBSET Person, verified : SUBSET Person]
  /\ DOMAIN tokens \subseteq created
  /\ \A a \in DOMAIN tokens : tokens[a] \in [registry : DOMAIN registries, minted : [Minter -> Nat]]
  /\ file \in Addresses \cup {Without("absent"), Without("directory")}
  /\ held \in [Process -> Addresses \cup {Without("nothing"), Without("dead")}]
  /\ cached \in [Process -> Nat \cup {NoNonce}]
  /\ at \in 0..Len(Plan)
  /\ made \in [ir : Nat, token : Nat]
  /\ outcome \in {"none", "complete", "failed"}
  /\ seeds \in 0..MaxSeeds /\ downs \in 0..MaxDowns
  /\ mints \in 0..MaxMints /\ faults \in 0..MaxFaults

NoAddresses == [ir |-> 0, token |-> 0]
NoContracts == [a \in {} |-> a]

Init ==
  /\ mode = "down"
  /\ nonce = 0
  /\ created = {}
  /\ registries = NoContracts
  /\ tokens = NoContracts
  /\ file \in EarlierFile
  /\ held = [p \in Process |-> Without("dead")]
  /\ cached = [p \in Process |-> NoNonce]
  /\ at = 0
  /\ made = NoAddresses
  /\ outcome = "none"
  /\ seeds = 0 /\ downs = 0 /\ mints = 0 /\ faults = 0

Fault == faults < MaxFaults /\ faults' = faults + 1

-----------------------------------------------------------------------------
(* docker compose *)

\* A process that needs the addresses reads them in its constructor, and dies
\* when it cannot.
Read(f) == IF f.is = "addresses" THEN f ELSE Without("dead")

\* The bind mount of a file that is not there creates a directory.
Mount(f) == IF f.is = "absent" THEN Without("directory") ELSE f

\* compose up, with the gateway override or without; the override can be
\* added to a stack that is up, and then recreates backend-api.
Up(m) ==
  /\ at = 0
  /\ mode = "down" \/ (mode = "direct" /\ m = "gateway")
  /\ mode' = m
  /\ file' = Mount(file)
  /\ held' = IF m = "direct"
             THEN [backend |-> Read(file'), gateway |-> Without("dead")]
             ELSE [backend |-> Without("nothing"), gateway |-> Read(file')]
  /\ cached' = [p \in Process |-> NoNonce]
  /\ UNCHANGED <<chainVars, seedVars, boundVars>>

Down ==
  /\ at = 0 /\ mode # "down" /\ downs < MaxDowns
  /\ mode' = "down"
  /\ nonce' = 0
  /\ created' = {}
  /\ registries' = NoContracts
  /\ tokens' = NoContracts
  /\ held' = [p \in Process |-> Without("dead")]
  /\ cached' = [p \in Process |-> NoNonce]
  /\ outcome' = "none"
  /\ downs' = downs + 1
  /\ UNCHANGED <<file, at, made, seeds, mints, faults>>

-----------------------------------------------------------------------------
(* Calls of backend-api, through whichever process signs *)

Signer == IF mode = "gateway" THEN "gateway" ELSE "backend"
Uses == held[Signer]
Registry == registries[Uses.ir]
HasRegistry == Uses.is = "addresses" /\ Uses.ir \in DOMAIN registries
HasToken == Uses.is = "addresses" /\ Uses.token \in DOMAIN tokens

BackendUp == mode # "down" /\ held["backend"].is # "dead"

\* The signer's nonce, asked for after a reset and counted from then on.
NonceFits == cached[Signer] \in {NoNonce, nonce}

Forget == cached' = [cached EXCEPT ![Signer] = NoNonce]

\* A transaction of the admin is mined.
Transact ==
  /\ NonceFits
  /\ nonce' = nonce + 1
  /\ cached' = [cached EXCEPT ![Signer] = nonce + 1]

\* The check before the await finds nothing left to do.
AlreadyDone(op, who) ==
  /\ HasRegistry
  /\ \/ op = "register" /\ who \in Registry.registered
     \/ op = "claim" /\ who \in Registry.verified

Register(who) ==
  /\ HasRegistry /\ Registry.bound
  /\ registries' = [registries EXCEPT ![Uses.ir].registered = @ \cup {who}]
  /\ UNCHANGED tokens

Claim(who) ==
  /\ HasRegistry /\ Registry.trusted /\ who \in Registry.registered
  /\ registries' = [registries EXCEPT ![Uses.ir].verified = @ \cup {who}]
  /\ UNCHANGED tokens

Mint(who, by) ==
  /\ HasToken /\ who \in registries[tokens[Uses.token].registry].verified
  /\ tokens' = [tokens EXCEPT ![Uses.token].minted[by] = @ + 1]
  /\ UNCHANGED registries

\* The call's transaction executes.
Executes(op, who, by) ==
  /\ ~AlreadyDone(op, who)
  /\ Transact
  /\ \/ op = "register" /\ Register(who)
     \/ op = "claim" /\ Claim(who)
     \/ op = "mint" /\ Mint(who, by)
  /\ UNCHANGED created

Accepts(op, who, by) ==
  \/ AlreadyDone(op, who) /\ UNCHANGED <<chainVars, cached>>
  \/ Executes(op, who, by)

\* The call would revert, or the nonce is used up.
Reverts(op, who) ==
  \/ op = "register" /\ HasRegistry /\ ~Registry.bound
  \/ op = "claim" /\ HasRegistry /\ ~(Registry.trusted /\ who \in Registry.registered)
  \/ op = "mint" /\ HasToken /\ who \notin registries[tokens[Uses.token].registry].verified
  \/ op = "mint" /\ ~HasToken /\ Uses.token \in created
  \/ ~NonceFits

\* The answer is an error: a dead gateway, no contract to read from, a
\* refused send.  A call to an address without code succeeds on chain, and
\* the balance read after it fails.
Refuses(op, who) ==
  /\ ~AlreadyDone(op, who)
  /\ \/ /\ Uses.is = "dead" \/ (op # "mint" /\ ~HasRegistry)
        /\ \/ mode = "direct" /\ Forget
           \/ mode = "gateway" /\ UNCHANGED cached
        /\ UNCHANGED chainVars
     \/ /\ Uses.is = "addresses" /\ (op = "mint" \/ HasRegistry)
        /\ Reverts(op, who)
        /\ Forget
        /\ UNCHANGED chainVars
     \/ /\ op = "mint" /\ Uses.is = "addresses" /\ ~HasToken /\ Uses.token \notin created
        /\ Transact
        /\ UNCHANGED <<created, registries, tokens>>

\* Somebody works with the page meanwhile.  Its transfers are signed by anson
\* and beatrice, and change nothing that is kept here.
UserCall(op, who) ==
  /\ BackendUp
  /\ Accepts(op, who, "page") \/ Refuses(op, who)
  /\ IF op = "mint" THEN mints < MaxMints /\ mints' = mints + 1 ELSE UNCHANGED mints
  /\ UNCHANGED <<mode, file, held, seedVars, seeds, downs, faults>>

-----------------------------------------------------------------------------
(* deploy.ts *)

Doing(do) == at # 0 /\ Plan[at].do = do

Advance ==
  /\ at' = IF at = Len(Plan) THEN 0 ELSE at + 1
  /\ outcome' = IF at = Len(Plan) THEN "complete" ELSE outcome

Fail == at' = 0 /\ outcome' = "failed"

With(f, a, v) == [b \in DOMAIN f \cup {a} |-> IF b = a THEN v ELSE f[b]]

Creates(do) == do \in {"topics", "issuers", "storage", "registry", "compliance", "token"}

NoMints == [by \in Minter |-> 0]

\* Mutant: the constructor is given the compliance for the registry.
NewTokenOnCompliance == [registry |-> nonce - 1, minted |-> NoMints]

NewToken == [registry |-> made.ir, minted |-> NoMints]

\* One transaction, awaited before the next.
DeployStep ==
  /\ nonce' = nonce + 1
  /\ created' = IF Creates(Plan[at].do) THEN created \cup {nonce} ELSE created
  /\ \/ /\ Doing("registry")
        /\ registries' = With(registries, nonce, [bound |-> FALSE, trusted |-> FALSE,
                                                  registered |-> {}, verified |-> {}])
        /\ made' = [made EXCEPT !.ir = nonce]
        /\ UNCHANGED tokens
     \/ /\ \/ Doing("bind") /\ registries' = [registries EXCEPT ![made.ir].bound = TRUE]
           \/ Doing("trust") /\ registries' = [registries EXCEPT ![made.ir].trusted = TRUE]
        /\ UNCHANGED <<tokens, made>>
     \/ /\ Doing("token")
        /\ tokens' = With(tokens, nonce, NewToken)
        /\ made' = [made EXCEPT !.token = nonce]
        /\ UNCHANGED registries
     \/ /\ \E do \in {"topics", "issuers", "storage", "compliance", "bindToken"} : Doing(do)
        /\ UNCHANGED <<registries, tokens, made>>

Deploy ==
  /\ at # 0
  /\ DeployStep
  /\ Advance
  /\ UNCHANGED <<mode, file, held, cached, boundVars>>

SaveDeployedAddresses ==
  /\ Doing("save")
  /\ \/ /\ file.is = "directory"
        /\ Fail
        /\ UNCHANGED file
     \/ /\ file.is # "directory"
        /\ file' = [is |-> "addresses", ir |-> made.ir, token |-> made.token, chain |-> downs]
        /\ Advance
  /\ UNCHANGED <<mode, chainVars, held, cached, made, boundVars>>

-----------------------------------------------------------------------------
(* seed.js *)

Seed ==
  /\ at = 0 /\ mode # "down" /\ seeds < MaxSeeds
  /\ at' = 1
  /\ outcome' = "none"
  /\ made' = NoAddresses
  /\ seeds' = seeds + 1
  /\ UNCHANGED <<mode, chainVars, file, held, cached, downs, mints, faults>>

\* Mutant: the addresses read at the first start are kept.
RestartHeld == UNCHANGED held

\* backend-api starts again and reads the file, if its transport needs it.
Restarted ==
  held' = [held EXCEPT !["backend"] =
             IF mode = "direct" THEN Read(file) ELSE Without("nothing")]

\* docker compose restart backend-api; a failure is caught, and the process
\* that was running stays.
RestartBackend ==
  /\ Doing("restart")
  /\ \/ /\ Restarted
        /\ cached' = [cached EXCEPT !["backend"] = NoNonce]
        /\ UNCHANGED faults
     \/ Fault /\ UNCHANGED <<held, cached>>
  /\ Advance
  /\ UNCHANGED <<mode, chainVars, file, made, seeds, downs, mints>>

\* GET /transfers, which needs no chain, until it answers or tries run out.
WaitUntilOk ==
  /\ Doing("await")
  /\ \/ BackendUp /\ Advance
     \/ ~BackendUp /\ Fail
  /\ UNCHANGED <<mode, chainVars, file, held, cached, made, boundVars>>

\* Mutant: the answer's status is not looked at.
ApiIgnoresErrors ==
  /\ at # 0
  /\ LET op == Plan[at].do  who == Plan[at].who IN
       /\ op \in {"register", "claim", "mint"}
       /\ Accepts(op, who, "seed") \/ Refuses(op, who)
       /\ Advance
  /\ UNCHANGED <<mode, file, held, made, boundVars>>

\* One of the five API calls; an error answer ends the script.
Api ==
  /\ at # 0
  /\ LET op == Plan[at].do  who == Plan[at].who IN
       /\ op \in {"register", "claim", "mint"}
       /\ \/ Accepts(op, who, "seed") /\ Advance
          \/ Refuses(op, who) /\ Fail
  /\ UNCHANGED <<mode, file, held, made, boundVars>>

\* A transaction, a command or a request fails, and the script with it.
SeedDies ==
  /\ at # 0
  /\ Fault
  /\ Fail
  /\ UNCHANGED <<mode, chainVars, file, held, cached, made, seeds, downs, mints>>

Next ==
  \/ \E m \in {"direct", "gateway"} : Up(m)
  \/ Down
  \/ \E op \in {"register", "claim", "mint"}, who \in Person : UserCall(op, who)
  \/ Seed \/ Deploy \/ SaveDeployedAddresses \/ RestartBackend \/ WaitUntilOk \/ Api \/ SeedDies

Spec == Init /\ [][Next]_vars

-----------------------------------------------------------------------------
\* A complete suite at the addresses f: storage bound, issuer trusted, and the
\* token looking at that registry.
IsSuite(f) ==
  /\ f.ir \in DOMAIN registries /\ registries[f.ir].bound /\ registries[f.ir].trusted
  /\ f.token \in DOMAIN tokens /\ tokens[f.token].registry = f.ir

(***************************************************************************)
(* The address file is the coupling between the phases: on the chain it    *)
(* was written for it names one complete, wired suite, however often       *)
(* deployments die half way, and whoever uses the admin's nonces meanwhile.*)
(***************************************************************************)
FileNamesASuite == file.is = "addresses" /\ file.chain = downs => IsSuite(file)

(***************************************************************************)
(* `Seed complete': both identities are verified and the seed's mint is in *)
(* the suite the backend works on; and with direct transport and no        *)
(* failing command that is the suite this run has deployed, minted in by   *)
(* no other seed.  The page may have minted there too, at any time.        *)
(* After a restart that failed, a gateway added to the running stack reads *)
(* a newer file than the backend the seed spoke to: there it says nothing. *)
(***************************************************************************)
SeedIsHonest ==
  outcome = "complete" /\ (mode = "direct" \/ faults = 0) =>
    /\ IsSuite(Uses) /\ Person \subseteq Registry.verified
    /\ tokens[Uses.token].minted["seed"] > 0
    /\ mode = "direct" /\ faults = 0 =>
         /\ Uses = file /\ Uses.ir = made.ir /\ Uses.token = made.token
         /\ tokens[Uses.token].minted["seed"] = 1

(***************************************************************************)
(* With direct transport seed.js can be run again at any time, after any   *)
(* teardown and beside any user: it fails only when a command does, or     *)
(* when compose was up before there was an address file.                   *)
(***************************************************************************)
ReseedingWorks ==
  mode = "direct" /\ outcome = "failed" => faults > 0 \/ file.is = "directory"
=============================================================================
