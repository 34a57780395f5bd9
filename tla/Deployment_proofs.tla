------------------------- MODULE Deployment_proofs -------------------------
(***************************************************************************)
(* The address file and the seeding, for any file left from before and any *)
(* number of seeds, teardowns and failures.                                *)
(***************************************************************************)
EXTENDS Deployment, TLAPS

\* What deploy.ts has made by the time it is at a step, up to the save.
MadeOK ==
  /\ at > 4 => made.ir \in DOMAIN registries
  /\ at > 5 => registries[made.ir].bound
  /\ at > 6 => registries[made.ir].trusted
  /\ at > 8 => made.token \in DOMAIN tokens /\ tokens[made.token].registry = made.ir

\* No file is from a chain still to come.
FileDated == file.is = "addresses" => file.chain <= downs

FileInv == TypeOK /\ MadeOK /\ FileDated /\ FileNamesASuite

RegistryState ==
  [bound : BOOLEAN, trusted : BOOLEAN, registered : SUBSET Person, verified : SUBSET Person]

ChainOK ==
  /\ nonce \in Nat
  /\ created \subseteq 0..(nonce - 1)
  /\ DOMAIN registries \subseteq created
  /\ \A a \in DOMAIN registries : registries[a] \in RegistryState
  /\ DOMAIN tokens \subseteq created
  /\ \A a \in DOMAIN tokens : tokens[a] \in [registry : DOMAIN registries, minted : [Minter -> Nat]]

RestOK ==
  /\ mode \in {"down", "direct", "gateway"}
  /\ file \in Addresses \cup {Without("absent"), Without("directory")}
  /\ held \in [Process -> Addresses \cup {Without("nothing"), Without("dead")}]
  /\ at \in 0..Len(Plan)
  /\ made \in [ir : Nat, token : Nat]
  /\ outcome \in {"none", "complete", "failed"}
  /\ seeds \in 0..MaxSeeds /\ downs \in 0..MaxDowns
  /\ mints \in 0..MaxMints /\ faults \in 0..MaxFaults

CachedOK == cached \in [Process -> Nat \cup {NoNonce}]

LEMMA TypeParts ==
  /\ TypeOK => ChainOK /\ RestOK /\ CachedOK
  /\ ChainOK' /\ RestOK' /\ CachedOK' => TypeOK'
BY DEF TypeOK, ChainOK, RestOK, CachedOK, RegistryState

\* Contracts are never taken back while the chain lives, nor unwired.
Keeps ==
  /\ DOMAIN registries \subseteq DOMAIN registries'
  /\ \A a \in DOMAIN registries :
       /\ registries[a].bound => registries'[a].bound
       /\ registries[a].trusted => registries'[a].trusted
  /\ DOMAIN tokens \subseteq DOMAIN tokens'
  /\ \A a \in DOMAIN tokens : tokens'[a].registry = tokens[a].registry

LEMMA SuitesStay ==
  ASSUME Keeps, UNCHANGED <<file, downs>>, FileDated, FileNamesASuite
  PROVE  FileDated' /\ FileNamesASuite'
BY DEF Keeps, FileDated, FileNamesASuite, IsSuite

LEMMA MadeStays ==
  ASSUME Keeps, MadeOK, at \in Nat, UNCHANGED <<at, made>>
  PROVE  MadeOK'
BY DEF Keeps, MadeOK

-----------------------------------------------------------------------------
(* deploy.ts *)

\* Where the plan has the steps the proofs are about.
LEMMA PlanLayout ==
  /\ Len(Plan) = 17
  /\ \A i \in 1..17 :
       /\ Plan[i].do = "registry" <=> i = 4
       /\ Plan[i].do = "bind" <=> i = 5
       /\ Plan[i].do = "trust" <=> i = 6
       /\ Plan[i].do = "token" <=> i = 8
       /\ Plan[i].do = "save" <=> i = 10
       /\ Plan[i].do \in {"restart", "await", "register", "claim", "mint"} <=> i > 10
<1>1. Len(Plan) = 17
  BY DEF Plan
<1>2. /\ Plan[1].do = "topics" /\ Plan[2].do = "issuers" /\ Plan[3].do = "storage"
      /\ Plan[4].do = "registry" /\ Plan[5].do = "bind" /\ Plan[6].do = "trust"
      /\ Plan[7].do = "compliance" /\ Plan[8].do = "token" /\ Plan[9].do = "bindToken"
      /\ Plan[10].do = "save" /\ Plan[11].do = "restart" /\ Plan[12].do = "await"
      /\ Plan[13].do = "register" /\ Plan[14].do = "claim" /\ Plan[15].do = "register"
      /\ Plan[16].do = "claim" /\ Plan[17].do = "mint"
  BY DEF Plan, Step, Deploying
<1> QED
  BY <1>1, <1>2

LEMMA DeployKeepsInv ==
  ASSUME FileInv, Deploy
  PROVE  FileInv'
<1>1. /\ ChainOK /\ RestOK /\ CachedOK /\ Len(Plan) = 17 /\ at \in 1..17 /\ nonce \notin created
      /\ UNCHANGED <<mode, file, held, cached, seeds, downs, mints, faults>>
  BY TypeParts, PlanLayout DEF FileInv, Deploy, boundVars, ChainOK, RestOK
<1>2. /\ nonce' = nonce + 1 /\ created \subseteq created'
      /\ created' = (IF Creates(Plan[at].do) THEN created \cup {nonce} ELSE created)
      /\ at' = IF at = 17 THEN 0 ELSE at + 1
      /\ outcome' \in {outcome, "complete"}
  BY <1>1 DEF Deploy, DeployStep, Advance
<1>3. CASE Doing("registry")
  <2>1. at = 4 /\ Plan[at].do = "registry" /\ nonce \in created'
    BY <1>1, <1>2, <1>3, PlanLayout DEF Doing, Creates
  <2>2. /\ DOMAIN registries' = DOMAIN registries \cup {nonce}
        /\ \A a \in DOMAIN registries : registries'[a] = registries[a]
        /\ registries'[nonce] \in RegistryState
        /\ made' = [made EXCEPT !.ir = nonce] /\ UNCHANGED tokens
    <3>1. /\ registries' = With(registries, nonce, [bound |-> FALSE, trusted |-> FALSE,
                                                    registered |-> {}, verified |-> {}])
          /\ made' = [made EXCEPT !.ir = nonce] /\ UNCHANGED tokens
      BY <2>1 DEF Deploy, DeployStep, Doing
    <3> QED
      BY <1>1, <3>1 DEF With, RegistryState, ChainOK
  <2>3. Keeps
    BY <2>2 DEF Keeps
  <2>4. ChainOK'
    BY <1>1, <1>2, <2>1, <2>2 DEF ChainOK
  <2>5. RestOK' /\ MadeOK' /\ CachedOK'
    BY <1>1, <1>2, <2>1, <2>2 DEF RestOK, MadeOK, CachedOK, ChainOK
  <2> QED
    BY <1>1, <2>3, <2>4, <2>5, SuitesStay, TypeParts DEF FileInv
<1>4. CASE Doing("bind") \/ Doing("trust")
  <2>1. /\ at \in {5, 6} /\ created' = created /\ made.ir \in DOMAIN registries
        /\ registries[made.ir] \in RegistryState
    BY <1>1, <1>2, <1>4, PlanLayout DEF Doing, Creates, FileInv, MadeOK, ChainOK
  <2>2. /\ \/ at = 5 /\ registries' = [registries EXCEPT ![made.ir].bound = TRUE]
           \/ at = 6 /\ registries' = [registries EXCEPT ![made.ir].trusted = TRUE]
        /\ UNCHANGED <<tokens, made>>
    BY <1>1, <1>4, PlanLayout DEF Deploy, DeployStep, Doing
  <2>3. /\ DOMAIN registries' = DOMAIN registries
        /\ \A a \in DOMAIN registries : a # made.ir => registries'[a] = registries[a]
        /\ registries'[made.ir] \in RegistryState
        /\ at = 5 => registries'[made.ir].bound
        /\ at = 6 => registries'[made.ir].trusted /\ registries'[made.ir].bound = registries[made.ir].bound
        /\ registries[made.ir].bound => registries'[made.ir].bound
        /\ registries[made.ir].trusted => registries'[made.ir].trusted
    <3>1. ASSUME at = 5, registries' = [registries EXCEPT ![made.ir].bound = TRUE]
          PROVE  registries'[made.ir] = [registries[made.ir] EXCEPT !.bound = TRUE]
      BY <2>1, <3>1
    <3>2. ASSUME at = 6, registries' = [registries EXCEPT ![made.ir].trusted = TRUE]
          PROVE  registries'[made.ir] = [registries[made.ir] EXCEPT !.trusted = TRUE]
      BY <2>1, <3>2
    <3>3. /\ DOMAIN registries' = DOMAIN registries
          /\ \A a \in DOMAIN registries : a # made.ir => registries'[a] = registries[a]
      BY <2>2
    <3>4. /\ [registries[made.ir] EXCEPT !.bound = TRUE] \in RegistryState
          /\ [registries[made.ir] EXCEPT !.trusted = TRUE] \in RegistryState
          /\ [registries[made.ir] EXCEPT !.bound = TRUE].bound
          /\ [registries[made.ir] EXCEPT !.bound = TRUE].trusted = registries[made.ir].trusted
          /\ [registries[made.ir] EXCEPT !.trusted = TRUE].trusted
          /\ [registries[made.ir] EXCEPT !.trusted = TRUE].bound = registries[made.ir].bound
      BY <2>1 DEF RegistryState
    <3> HIDE DEF RegistryState
    <3>5. CASE at = 5
      <4>1. registries'[made.ir] = [registries[made.ir] EXCEPT !.bound = TRUE]
        BY <2>2, <3>1, <3>5
      <4> QED
        BY <3>3, <3>4, <3>5, <4>1
    <3>6. CASE at = 6
      <4>1. registries'[made.ir] = [registries[made.ir] EXCEPT !.trusted = TRUE]
        BY <2>2, <3>2, <3>6
      <4> QED
        BY <3>3, <3>4, <3>6, <4>1
    <3> QED
      BY <2>1, <3>5, <3>6
  <2>4. Keeps
    BY <2>2, <2>3 DEF Keeps
  <2>5. ChainOK'
    BY <1>1, <1>2, <2>1, <2>2, <2>3 DEF ChainOK
  <2>6. RestOK' /\ MadeOK' /\ CachedOK'
    BY <1>1, <1>2, <2>1, <2>2, <2>3 DEF RestOK, MadeOK, CachedOK, FileInv
  <2> QED
    BY <1>1, <2>4, <2>5, <2>6, SuitesStay, TypeParts DEF FileInv
<1>5. CASE Doing("token")
  <2>1. at = 8 /\ Plan[at].do = "token" /\ nonce \in created' /\ made.ir \in DOMAIN registries
    BY <1>1, <1>2, <1>5, PlanLayout DEF Doing, Creates, FileInv, MadeOK
  <2>2. /\ DOMAIN tokens' = DOMAIN tokens \cup {nonce}
        /\ \A a \in DOMAIN tokens : tokens'[a] = tokens[a]
        /\ tokens'[nonce] = NewToken
        /\ made' = [made EXCEPT !.token = nonce] /\ UNCHANGED registries
    <3>1. /\ tokens' = With(tokens, nonce, NewToken)
          /\ made' = [made EXCEPT !.token = nonce] /\ UNCHANGED registries
      BY <2>1 DEF Deploy, DeployStep, Doing
    <3> QED
      BY <1>1, <3>1 DEF With, ChainOK
  <2>3. Keeps
    BY <2>2 DEF Keeps
  <2>4. ChainOK'
    BY <1>1, <1>2, <2>1, <2>2 DEF ChainOK, NewToken, NoMints
  <2>5. RestOK' /\ MadeOK' /\ CachedOK'
    BY <1>1, <1>2, <2>1, <2>2 DEF RestOK, MadeOK, CachedOK, ChainOK, FileInv, NewToken
  <2> QED
    BY <1>1, <2>3, <2>4, <2>5, SuitesStay, TypeParts DEF FileInv
<1>6. CASE UNCHANGED <<registries, tokens, made>> /\ at \notin {4, 5, 6, 8}
  <2>1. Keeps
    BY <1>6 DEF Keeps
  <2>2. ChainOK'
    BY <1>1, <1>2, <1>6 DEF ChainOK
  <2>3. RestOK' /\ MadeOK' /\ CachedOK'
    BY <1>1, <1>2, <1>6 DEF RestOK, MadeOK, CachedOK, FileInv
  <2> QED
    BY <1>1, <2>1, <2>2, <2>3, SuitesStay, TypeParts DEF FileInv
<1> QED
  BY <1>1, <1>3, <1>4, <1>5, <1>6, PlanLayout DEF Deploy, DeployStep, Doing

-----------------------------------------------------------------------------
(* Calls of the API *)

\* Whoever calls: the admin's nonce moves on, and contracts keep their wiring.
CallKeeps ==
  /\ ChainOK' /\ CachedOK'
  /\ Keeps

LEMMA CallsKeep ==
  ASSUME FileInv, NEW op, NEW who \in Person, NEW by \in Minter,
         Accepts(op, who, by) \/ Refuses(op, who)
  PROVE  CallKeeps
<1>1. ChainOK /\ CachedOK /\ Signer \in Process
  BY TypeParts DEF FileInv, Signer, Process
<1>2. CASE UNCHANGED chainVars /\ (UNCHANGED cached \/ Forget)
  BY <1>1, <1>2 DEF chainVars, Forget, CallKeeps, Keeps, ChainOK, CachedOK, NoNonce
<1>3. ASSUME Transact
      PROVE  CachedOK' /\ nonce' = nonce + 1
  BY <1>1, <1>3 DEF Transact, CachedOK, ChainOK
<1>4. CASE Transact /\ UNCHANGED <<created, registries, tokens>>
  BY <1>1, <1>3, <1>4 DEF CallKeeps, Keeps, ChainOK
<1>5. CASE Executes(op, who, by)
  <2>1. Transact /\ UNCHANGED created
    BY <1>5 DEF Executes
  <2>2. CASE Register(who) \/ Claim(who)
    <3>1. /\ Uses.ir \in DOMAIN registries /\ UNCHANGED tokens
          /\ registries[Uses.ir] \in RegistryState
      BY <1>1, <2>2 DEF Register, Claim, HasRegistry, ChainOK
    <3>2. \/ registries' = [registries EXCEPT ![Uses.ir].registered = @ \cup {who}]
          \/ registries' = [registries EXCEPT ![Uses.ir].verified = @ \cup {who}]
      BY <2>2 DEF Register, Claim
    <3> HIDE DEF Uses
    <3>3. /\ DOMAIN registries' = DOMAIN registries
          /\ \A a \in DOMAIN registries :
               /\ registries'[a] \in RegistryState
               /\ registries'[a].bound = registries[a].bound
               /\ registries'[a].trusted = registries[a].trusted
      BY <1>1, <3>1, <3>2 DEF RegistryState, ChainOK
    <3> QED
      BY <1>1, <1>3, <2>1, <3>1, <3>3 DEF CallKeeps, Keeps, ChainOK
  <2>3. CASE Mint(who, by)
    <3>1. /\ Uses.token \in DOMAIN tokens /\ UNCHANGED registries
          /\ tokens' = [tokens EXCEPT ![Uses.token].minted[by] = @ + 1]
      BY <2>3 DEF Mint, HasToken
    <3>2. /\ DOMAIN tokens' = DOMAIN tokens
          /\ \A a \in DOMAIN tokens :
               /\ tokens'[a] \in [registry : DOMAIN registries, minted : [Minter -> Nat]]
               /\ tokens'[a].registry = tokens[a].registry
      <4> HIDE DEF Uses
      <4>1. \A a \in DOMAIN tokens : tokens[a] \in [registry : DOMAIN registries, minted : [Minter -> Nat]]
        BY <1>1 DEF ChainOK
      <4>2. tokens'[Uses.token] = [tokens[Uses.token] EXCEPT !.minted[by] = @ + 1]
        BY <3>1
      <4>3. /\ tokens'[Uses.token] \in [registry : DOMAIN registries, minted : [Minter -> Nat]]
            /\ tokens'[Uses.token].registry = tokens[Uses.token].registry
        BY <3>1, <4>1, <4>2
      <4> QED
        BY <3>1, <4>1, <4>3
    <3> QED
      BY <1>1, <1>3, <2>1, <3>1, <3>2 DEF CallKeeps, Keeps, ChainOK
  <2> QED
    BY <1>5, <2>2, <2>3 DEF Executes
<1> QED
  BY <1>2, <1>4, <1>5 DEF Accepts, Refuses

-----------------------------------------------------------------------------
(* Everything else *)

\* Steps that leave the chain, the file and the teardowns alone, and either
\* leave the deployment where it is, or are past the save, or end or begin it.
LEMMA ChainAlone ==
  ASSUME FileInv, UNCHANGED <<chainVars, file, downs>>, RestOK', CachedOK',
         \/ UNCHANGED <<at, made>> \/ at' \in {0, 1}
         \/ UNCHANGED made /\ at > 10
  PROVE  FileInv'
<1>1. ChainOK' /\ Keeps
  BY TypeParts DEF FileInv, chainVars, ChainOK, Keeps
<1>2. MadeOK'
  <2>1. CASE UNCHANGED <<at, made>>
    BY <2>1 DEF FileInv, chainVars, MadeOK
  <2>2. CASE at' \in {0, 1}
    BY <2>2 DEF MadeOK
  <2>3. CASE UNCHANGED made /\ at > 10
    <3>1. at \in Nat
      BY TypeParts DEF FileInv, RestOK
    <3> QED
      BY <2>3, <3>1 DEF FileInv, chainVars, MadeOK
  <2> QED
    BY <2>1, <2>2, <2>3
<1> QED
  BY <1>1, <1>2, SuitesStay, TypeParts DEF FileInv

LEMMA FileStep ==
  ASSUME FileInv, [Next]_vars
  PROVE  FileInv'
<1>0. /\ ChainOK /\ RestOK /\ CachedOK /\ Len(Plan) = 17
      /\ MaxSeeds \in Nat /\ MaxDowns \in Nat /\ MaxMints \in Nat /\ MaxFaults \in Nat
  BY TypeParts, PlanLayout, DeploymentAssumption DEF FileInv
<1>r. \A f \in Addresses \cup {Without("absent"), Without("directory")} :
        Read(f) \in Addresses \cup {Without("nothing"), Without("dead")}
  BY DEF Read, Addresses, Without
<1>1. ASSUME NEW m \in {"direct", "gateway"}, Up(m) PROVE FileInv'
  <2>1. file' \in Addresses \cup {Without("absent"), Without("directory")}
        /\ (file' = file \/ file'.is = "directory")
    BY <1>0, <1>1 DEF Up, Mount, RestOK, Without
  <2>2. CachedOK'
    BY <1>1 DEF Up, CachedOK, Process
  <2>3. held' \in [Process -> Addresses \cup {Without("nothing"), Without("dead")}]
    <3>1. Read(file') \in Addresses \cup {Without("nothing"), Without("dead")}
      BY <1>r, <2>1
    <3> QED
      BY <1>1, <3>1 DEF Up, Process
  <2>4. RestOK'
    BY <1>0, <1>1, <2>1, <2>3 DEF Up, RestOK, seedVars, boundVars
  <2>5. ChainOK' /\ MadeOK'
    BY <1>0, <1>1 DEF Up, ChainOK, chainVars, seedVars, MadeOK, FileInv
  <2>6. FileDated' /\ FileNamesASuite'
    BY <1>1, <2>1 DEF Up, FileInv, FileDated, FileNamesASuite, IsSuite, chainVars, boundVars
  <2> QED
    BY <2>2, <2>4, <2>5, <2>6, TypeParts DEF FileInv
<1>2. CASE Down
  <2>1. ChainOK'
    BY <1>2 DEF Down, ChainOK, NoContracts
  <2>2. RestOK' /\ CachedOK'
    BY <1>0, <1>2 DEF Down, RestOK, CachedOK, NoNonce, Process
  <2>3. MadeOK' /\ FileDated' /\ FileNamesASuite'
    BY <1>0, <1>2 DEF Down, RestOK, MadeOK, FileInv, FileDated, FileNamesASuite, Addresses, Without
  <2> QED
    BY <2>1, <2>2, <2>3, TypeParts DEF FileInv
<1>3. ASSUME NEW op \in {"register", "claim", "mint"}, NEW who \in Person, UserCall(op, who)
      PROVE  FileInv'
  <2>1. CallKeeps
    BY <1>3, CallsKeep DEF UserCall, Minter
  <2>2. RestOK'
    BY <1>0, <1>3 DEF UserCall, RestOK, seedVars
  <2>3. at \in Nat
    BY <1>0 DEF RestOK
  <2> QED
    BY <1>3, <2>1, <2>2, <2>3, SuitesStay, MadeStays, TypeParts
       DEF UserCall, CallKeeps, FileInv, seedVars
<1>4. CASE Seed
  <2>1. RestOK' /\ CachedOK'
    BY <1>0, <1>4 DEF Seed, RestOK, CachedOK, NoAddresses
  <2> QED
    BY <1>4, <2>1, ChainAlone DEF Seed
<1>5. CASE Deploy
  BY <1>5, DeployKeepsInv
<1>6. CASE SaveDeployedAddresses
  <2>1. at = 10 /\ IsSuite(made)
    BY <1>0, <1>6, PlanLayout DEF SaveDeployedAddresses, Doing, RestOK, FileInv, MadeOK, IsSuite
  <2>2. \/ file' = file /\ at' = 0
        \/ /\ file' = [is |-> "addresses", ir |-> made.ir, token |-> made.token, chain |-> downs]
           /\ at' = 11
    BY <1>0, <1>6, <2>1 DEF SaveDeployedAddresses, Fail, Advance
  <2>3. file' \in Addresses \cup {Without("absent"), Without("directory")}
    BY <1>0, <2>2 DEF RestOK, Addresses
  <2>4. RestOK' /\ CachedOK'
    BY <1>0, <1>6, <2>2, <2>3 DEF SaveDeployedAddresses, Fail, Advance, RestOK, CachedOK, boundVars
  <2>5. ChainOK' /\ MadeOK'
    BY <1>0, <1>6, <2>1, <2>2 DEF SaveDeployedAddresses, ChainOK, chainVars, MadeOK, FileInv, IsSuite
  <2>6. FileDated' /\ FileNamesASuite'
    BY <1>0, <1>6, <2>1, <2>2
       DEF SaveDeployedAddresses, chainVars, boundVars, FileInv, FileDated, FileNamesASuite,
           IsSuite, RestOK
  <2> QED
    BY <2>4, <2>5, <2>6, TypeParts DEF FileInv
<1>7. CASE RestartBackend
  <2>1. at > 10 /\ at \in 1..17
    BY <1>0, <1>7, PlanLayout DEF RestartBackend, Doing, RestOK
  <2>2. held' \in [Process -> Addresses \cup {Without("nothing"), Without("dead")}]
    <3>1. Read(file) \in Addresses \cup {Without("nothing"), Without("dead")}
      BY <1>0, <1>r DEF RestOK
    <3> QED
      BY <1>0, <1>7, <3>1 DEF RestartBackend, Restarted, Process, RestOK
  <2>3. RestOK' /\ CachedOK'
    BY <1>0, <1>7, <2>1, <2>2 DEF RestartBackend, Fault, Advance, RestOK, CachedOK, NoNonce
  <2> QED
    BY <1>7, <2>1, <2>3, ChainAlone DEF RestartBackend
<1>8. CASE WaitUntilOk
  <2>1. at > 10 /\ at \in 1..17
    BY <1>0, <1>8, PlanLayout DEF WaitUntilOk, Doing, RestOK
  <2>2. RestOK' /\ CachedOK'
    BY <1>0, <1>8, <2>1 DEF WaitUntilOk, Advance, Fail, RestOK, CachedOK, boundVars
  <2> QED
    BY <1>8, <2>1, <2>2, ChainAlone DEF WaitUntilOk, boundVars
<1>9. CASE Api
  <2>1. at > 10 /\ at \in 1..17
    BY <1>0, <1>9, PlanLayout DEF Api, RestOK
  <2>2. Plan[at].who \in Person
    BY <2>1 DEF Plan, Step, Deploying, Person
  <2>3. CallKeeps
    BY <1>9, <2>2, CallsKeep DEF Api, Minter
  <2>4. RestOK' /\ MadeOK'
    <3>1. RestOK'
      BY <1>0, <1>9, <2>1 DEF Api, Advance, Fail, RestOK, boundVars
    <3> QED
      BY <1>9, <2>1, <2>3, <3>1 DEF Api, Advance, Fail, CallKeeps, Keeps, FileInv, MadeOK
  <2> QED
    BY <1>9, <2>3, <2>4, SuitesStay, TypeParts DEF Api, CallKeeps, FileInv, boundVars
<1>10. CASE SeedDies
  <2>1. RestOK' /\ CachedOK'
    BY <1>0, <1>10 DEF SeedDies, Fault, Fail, RestOK, CachedOK
  <2> QED
    BY <1>10, <2>1, ChainAlone DEF SeedDies, Fail
<1>11. CASE UNCHANGED vars
  <2>1. RestOK' /\ CachedOK'
    BY <1>0, <1>11 DEF vars, seedVars, boundVars, RestOK, CachedOK
  <2> QED
    BY <1>11, <2>1, ChainAlone DEF vars, seedVars, boundVars
<1> QED
  BY <1>1, <1>2, <1>3, <1>4, <1>5, <1>6, <1>7, <1>8, <1>9, <1>10, <1>11 DEF Next

LEMMA FileInvInit == Init => FileInv
<1> SUFFICES ASSUME Init PROVE FileInv
  OBVIOUS
<1>1. ChainOK /\ CachedOK /\ MadeOK
  BY DEF Init, ChainOK, CachedOK, MadeOK, NoContracts, Process
<1>2. RestOK
  BY DeploymentAssumption, PlanLayout DEF Init, RestOK, NoAddresses, Process
<1>3. FileDated /\ FileNamesASuite
  BY DeploymentAssumption DEF Init, FileDated, FileNamesASuite, Addresses, Without
<1> QED
  BY <1>1, <1>2, <1>3 DEF FileInv, TypeOK, ChainOK, RestOK, CachedOK, RegistryState

LEMMA FileInvariance == Spec => []FileInv
BY FileInvInit, FileStep, PTL DEF Spec

(***************************************************************************)
(* The stack's state stays within its type: above all, no address is given *)
(* out twice on one chain, and every token looks at a registry there is.   *)
(***************************************************************************)
THEOREM StackAlwaysTyped == Spec => []TypeOK
<1>1. FileInv => TypeOK
  BY DEF FileInv
<1> QED
  BY <1>1, FileInvariance, PTL

(***************************************************************************)
(* On the chain it was written for, the address file names one complete    *)
(* and wired suite.                                                        *)
(***************************************************************************)
THEOREM FileAlwaysNamesASuite == Spec => []FileNamesASuite
<1>1. FileInv => FileNamesASuite
  BY DEF FileInv
<1> QED
  BY <1>1, FileInvariance, PTL

-----------------------------------------------------------------------------
(* Seeding again *)

\* Nothing has failed and nothing can: direct transport, no failing command,
\* and not the directory that compose makes of a missing file.
Undisturbed == mode = "direct" /\ faults = 0 /\ file.is # "directory"

\* What a seed has brought about by the time it is at a step.
SeedOK ==
  /\ at > 10 => file = [is |-> "addresses", ir |-> made.ir, token |-> made.token, chain |-> downs]
  /\ at > 11 => held["backend"] = file /\ cached["backend"] \in {NoNonce, nonce}
  /\ at > 13 => anson \in registries[file.ir].registered
  /\ at > 14 => anson \in registries[file.ir].verified
  /\ at > 15 => beatrice \in registries[file.ir].registered

ReseedInv ==
  /\ FileInv
  /\ mode = "down" => at = 0 /\ outcome = "none"
  /\ Undisturbed => outcome # "failed" /\ SeedOK

LEMMA PlanCalls ==
  /\ Plan[11].do = "restart" /\ Plan[12].do = "await"
  /\ Plan[13] = Step("register", anson) /\ Plan[14] = Step("claim", anson)
  /\ Plan[15] = Step("register", beatrice) /\ Plan[16] = Step("claim", beatrice)
  /\ Plan[17] = Step("mint", anson)
BY DEF Plan, Step, Deploying

\* Once onboarded in a suite, always.
LEMMA OnboardingStays ==
  ASSUME NEW op, NEW who \in Person, NEW by \in Minter,
         Accepts(op, who, by) \/ Refuses(op, who),
         NEW a \in DOMAIN registries, registries[a] \in RegistryState
  PROVE  /\ registries[a].registered \subseteq registries'[a].registered
         /\ registries[a].verified \subseteq registries'[a].verified
<1>1. CASE registries' = registries
  BY <1>1
<1>2. CASE Register(who) \/ Claim(who)
  <2>1. \/ registries' = [registries EXCEPT ![Uses.ir].registered = @ \cup {who}]
        \/ registries' = [registries EXCEPT ![Uses.ir].verified = @ \cup {who}]
    BY <1>2 DEF Register, Claim
  <2> HIDE DEF Uses
  <2> QED
    BY <2>1 DEF RegistryState
<1> QED
  BY <1>1, <1>2 DEF Accepts, Refuses, Executes, Mint, chainVars

\* The nonce the backend counts on stays the one the chain expects.
LEMMA NoncesStay ==
  ASSUME ChainOK, CachedOK, mode = "direct", NEW op, NEW who, NEW by,
         Accepts(op, who, by) \/ Refuses(op, who),
         cached["backend"] \in {NoNonce, nonce}
  PROVE  cached'["backend"] \in {NoNonce, nonce'}
<1>1. Signer = "backend" /\ "backend" \in Process
  BY DEF Signer, Process
<1>2. CASE UNCHANGED chainVars /\ (UNCHANGED cached \/ Forget)
  BY <1>1, <1>2 DEF chainVars, Forget, CachedOK
<1>3. CASE Transact
  BY <1>1, <1>3 DEF Transact, CachedOK
<1> QED
  BY <1>2, <1>3 DEF Accepts, Refuses, Executes

\* In an undisturbed seed no call of the API is refused.
LEMMA CallsSucceed ==
  ASSUME ReseedInv, Undisturbed, at \in 13..17,
         NEW op, NEW who, op = Plan[at].do, who = Plan[at].who
  PROVE  ~Refuses(op, who)
<1>1. /\ ChainOK /\ RestOK /\ SeedOK
      /\ Uses = file /\ file.is = "addresses" /\ IsSuite(file)
      /\ cached["backend"] \in {NoNonce, nonce} /\ Signer = "backend"
  BY TypeParts DEF ReseedInv, FileInv, Undisturbed, SeedOK, Uses, Signer, FileNamesASuite
<1>2. HasRegistry /\ HasToken /\ Registry.bound /\ Registry.trusted /\ NonceFits
  BY <1>1 DEF HasRegistry, HasToken, Registry, IsSuite, NonceFits
<1>3. registries[tokens[Uses.token].registry] = Registry
  BY <1>1 DEF Registry, IsSuite
<1>4. /\ op = "claim" => who \in Registry.registered
      /\ op = "mint" => who \in Registry.verified
      /\ op \in {"register", "claim", "mint"}
  BY <1>1, PlanCalls DEF Step, SeedOK, Registry
<1>5. ~Reverts(op, who)
  BY <1>2, <1>3, <1>4 DEF Reverts
<1> QED
  BY <1>1, <1>2, <1>5 DEF Refuses

LEMMA ReseedStep ==
  ASSUME ReseedInv, [Next]_vars
  PROVE  ReseedInv'
<1>0. /\ FileInv /\ FileInv' /\ ChainOK /\ RestOK /\ CachedOK /\ Len(Plan) = 17
      /\ at \in 0..17
  BY TypeParts, PlanLayout, FileStep DEF ReseedInv, FileInv, RestOK
<1>1. ASSUME NEW m \in {"direct", "gateway"}, Up(m) PROVE ReseedInv'
  <2>1. at' = 0 /\ outcome' = outcome /\ mode' = m
        /\ (mode = "down" \/ m = "gateway")
    BY <1>1 DEF Up, seedVars
  <2> QED
    BY <1>0, <2>1 DEF ReseedInv, Undisturbed, SeedOK
<1>2. CASE Down
  BY <1>0, <1>2 DEF Down, ReseedInv, Undisturbed
<1>3. ASSUME NEW op \in {"register", "claim", "mint"}, NEW who \in Person, UserCall(op, who)
      PROVE  ReseedInv'
  <2>1. /\ Accepts(op, who, "page") \/ Refuses(op, who)
        /\ mode # "down"
        /\ UNCHANGED <<mode, file, held, at, made, outcome, downs, faults>>
    BY <1>3 DEF UserCall, BackendUp, seedVars
  <2>2. SUFFICES ASSUME Undisturbed PROVE SeedOK'
    BY <1>0, <2>1 DEF ReseedInv, Undisturbed
  <2>3. SeedOK /\ (at > 10 => IsSuite(file))
    BY <1>0, <2>2 DEF ReseedInv, FileInv, FileNamesASuite, SeedOK
  <2>4. at > 11 => cached'["backend"] \in {NoNonce, nonce'}
    BY <1>0, <2>1, <2>2, <2>3, NoncesStay DEF SeedOK, Undisturbed
  <2>5. at > 13 => /\ registries[file.ir].registered \subseteq registries'[file.ir].registered
                   /\ registries[file.ir].verified \subseteq registries'[file.ir].verified
    BY <1>0, <2>1, <2>3, OnboardingStays DEF IsSuite, ChainOK, Minter
  <2> QED
    BY <1>0, <2>1, <2>3, <2>4, <2>5 DEF SeedOK
<1>4. CASE Seed
  BY <1>0, <1>4 DEF Seed, ReseedInv, Undisturbed, SeedOK
<1>5. CASE Deploy
  <2>1. at \in 1..9
    BY <1>0, <1>5, PlanLayout DEF Deploy, DeployStep, Doing
  <2> QED
    BY <1>0, <1>5, <2>1 DEF Deploy, Advance, ReseedInv, Undisturbed, SeedOK, boundVars
<1>6. CASE SaveDeployedAddresses
  <2>1. at = 10
    BY <1>0, <1>6, PlanLayout DEF SaveDeployedAddresses, Doing
  <2> QED
    BY <1>0, <1>6, <2>1
       DEF SaveDeployedAddresses, Fail, Advance, ReseedInv, Undisturbed, SeedOK, boundVars
<1>7. CASE RestartBackend
  <2>1. at = 11
    BY <1>0, <1>7, PlanLayout, PlanCalls DEF RestartBackend, Doing, Step
  <2>2. /\ at' = 12 /\ outcome' = outcome
        /\ UNCHANGED <<mode, nonce, registries, file, made, downs>>
    BY <1>0, <1>7, <2>1 DEF RestartBackend, Advance, chainVars
  <2>3. CASE Fault
    BY <1>0, <2>1, <2>2, <2>3 DEF Fault, ReseedInv, Undisturbed, RestOK
  <2>4. CASE /\ Restarted /\ cached' = [cached EXCEPT !["backend"] = NoNonce]
             /\ UNCHANGED faults
    <3>1. SUFFICES ASSUME Undisturbed PROVE SeedOK'
      BY <1>0, <2>1, <2>2, <2>4 DEF ReseedInv, Undisturbed
    <3>2. SeedOK /\ file.is = "addresses" /\ mode = "direct"
      BY <2>1, <3>1 DEF ReseedInv, SeedOK, Undisturbed
    <3>3. held'["backend"] = file /\ cached'["backend"] = NoNonce
      BY <1>0, <2>4, <3>2 DEF Restarted, Read, RestOK, CachedOK, Process
    <3> QED
      BY <2>1, <2>2, <3>2, <3>3 DEF SeedOK
  <2> QED
    BY <1>7, <2>3, <2>4 DEF RestartBackend
<1>8. CASE WaitUntilOk
  <2>1. at = 12 /\ UNCHANGED <<mode, nonce, registries, file, held, cached, made, downs, faults>>
    BY <1>0, <1>8, PlanLayout, PlanCalls DEF WaitUntilOk, Doing, Step, chainVars, boundVars
  <2>2. Undisturbed => BackendUp
    BY <2>1 DEF ReseedInv, Undisturbed, SeedOK, BackendUp
  <2> QED
    BY <1>0, <1>8, <2>1, <2>2 DEF WaitUntilOk, Advance, Fail, ReseedInv, Undisturbed, SeedOK
<1>9. CASE Api
  <2> DEFINE op == Plan[at].do
             who == Plan[at].who
  <2>1. /\ at \in 13..17 /\ op \in {"register", "claim", "mint"} /\ who \in Person
        /\ UNCHANGED <<mode, file, held, made, downs, faults>>
        /\ (Accepts(op, who, "seed") /\ Advance) \/ (Refuses(op, who) /\ Fail)
    <3>1. at \in 1..17 /\ op \in {"register", "claim", "mint"}
      BY <1>0, <1>9 DEF Api
    <3>2. at \in 13..17
      BY <3>1, PlanLayout, PlanCalls
    <3> QED
      BY <1>9, <3>1, <3>2, PlanCalls DEF Api, Step, Person, boundVars
  <2>2. CASE ~Undisturbed \/ mode = "down"
    BY <1>0, <2>1, <2>2 DEF ReseedInv, Undisturbed
  <2>3. CASE Undisturbed /\ mode # "down"
    <3>1. Accepts(op, who, "seed") /\ Advance
      BY <2>1, <2>3, CallsSucceed
    <3>2. /\ SeedOK /\ IsSuite(file) /\ Uses = file
      BY <2>1, <2>3 DEF ReseedInv, FileInv, FileNamesASuite, SeedOK, Undisturbed, Uses, Signer
    <3>3. cached'["backend"] \in {NoNonce, nonce'}
      <4>1. cached["backend"] \in {NoNonce, nonce} /\ mode = "direct"
        BY <2>1, <2>3, <3>2 DEF SeedOK, Undisturbed
      <4> HIDE DEF op, who
      <4> QED
        BY <1>0, <3>1, <4>1, NoncesStay
    <3>4. /\ registries[file.ir].registered \subseteq registries'[file.ir].registered
          /\ registries[file.ir].verified \subseteq registries'[file.ir].verified
      BY <1>0, <2>1, <3>1, <3>2, OnboardingStays DEF IsSuite, ChainOK, Minter
    <3>5. /\ op = "register" => who \in registries'[file.ir].registered
          /\ op = "claim" => who \in registries'[file.ir].verified
      <4>1. CASE AlreadyDone(op, who)
        BY <3>2, <3>4, <4>1 DEF AlreadyDone, Registry
      <4>2. CASE op = "register" /\ Register(who)
        BY <1>0, <3>2, <4>2 DEF Register, HasRegistry, ChainOK, RegistryState
      <4>3. CASE op = "claim" /\ Claim(who)
        BY <1>0, <3>2, <4>3 DEF Claim, HasRegistry, ChainOK, RegistryState
      <4> QED
        BY <3>1, <4>1, <4>2, <4>3 DEF Accepts, Executes
    <3>6. /\ at = 13 => op = "register" /\ who = anson
          /\ at = 14 => op = "claim" /\ who = anson
          /\ at = 15 => op = "register" /\ who = beatrice
      BY PlanCalls DEF Step
    <3>7. at' = (IF at = 17 THEN 0 ELSE at + 1) /\ outcome' \in {outcome, "complete"}
      BY <1>0, <3>1 DEF Advance
    <3> HIDE DEF op, who
    <3>8. SeedOK'
      BY <2>1, <3>2, <3>3, <3>4, <3>5, <3>6, <3>7 DEF SeedOK
    <3> QED
      BY <1>0, <2>1, <2>3, <3>7, <3>8 DEF ReseedInv, Undisturbed
  <2> QED
    BY <2>2, <2>3
<1>10. CASE SeedDies
  BY <1>0, <1>10 DEF SeedDies, Fault, Fail, ReseedInv, Undisturbed, RestOK
<1>11. CASE UNCHANGED vars
  BY <1>0, <1>11 DEF vars, chainVars, seedVars, boundVars, ReseedInv, Undisturbed, SeedOK
<1> QED
  BY <1>1, <1>2, <1>3, <1>4, <1>5, <1>6, <1>7, <1>8, <1>9, <1>10, <1>11 DEF Next

(***************************************************************************)
(* With direct transport seed.js can be repeated, after any teardown and   *)
(* beside any user, as often as one likes: without a failing command only  *)
(* the directory in the file's place makes it fail.                        *)
(***************************************************************************)
THEOREM ReseedingAlwaysWorks == Spec => []ReseedingWorks
<1>1. Init => ReseedInv
  BY FileInvInit DEF Init, ReseedInv, Undisturbed, SeedOK
<1>2. ReseedInv => ReseedingWorks
  BY TypeParts, DeploymentAssumption DEF ReseedInv, FileInv, RestOK, Undisturbed, ReseedingWorks
<1> QED
  BY <1>1, <1>2, ReseedStep, PTL DEF Spec

-----------------------------------------------------------------------------
(* `Seed complete' *)

Suite(f) == f.is = "addresses" /\ IsSuite(f)

\* Whom a registry knows it learned of with its storage bound, and whom it
\* holds verified with an issuer trusted.
OnboardedOK ==
  \A a \in DOMAIN registries :
    /\ registries[a].registered # {} => registries[a].bound
    /\ registries[a].verified # {} => registries[a].trusted /\ registries[a].registered # {}

\* A process works on a suite of this chain; or on what it read when the chain
\* was empty, and then nobody was verified anywhere else.
UsesOK ==
  IsSuite(Uses) \/ \A a \in DOMAIN registries : registries[a].verified # {} => a = Uses.ir

\* While a seed runs: what it wrote, and what its calls have brought about
\* in the suite they were made to.
RunOK ==
  /\ at # 0 => outcome = "none" /\ mode # "down"
  /\ at > 8 => tokens[made.token].minted["seed"] = 0
  /\ at > 10 => file = [is |-> "addresses", ir |-> made.ir, token |-> made.token, chain |-> downs]
  /\ at > 14 => HasRegistry /\ anson \in Registry.verified
  /\ at > 16 => beatrice \in Registry.verified

HonestInv ==
  /\ ReseedInv
  /\ mode = "down" => DOMAIN registries = {}
  /\ mode = "direct" => Suite(file) \/ held["backend"] = Read(file)
  /\ mode # "down" => UsesOK
  /\ OnboardedOK
  /\ RunOK
  /\ SeedIsHonest

LEMMA SuiteStays == ASSUME Keeps, NEW f, IsSuite(f) PROVE IsSuite(f)'
BY DEF Keeps, IsSuite

\* A registry's entry after a call: the one the signer uses, or as it was.
Grown(old, new) ==
  /\ old.registered \subseteq new.registered /\ old.verified \subseteq new.verified
  /\ new.bound = old.bound /\ new.trusted = old.trusted
  /\ new.registered # old.registered => old.bound
  /\ new.verified # old.verified => old.trusted /\ old.registered # {}

LEMMA CallEffect ==
  ASSUME ChainOK, NEW op, NEW who \in Person, NEW by \in Minter,
         Accepts(op, who, by) \/ Refuses(op, who)
  PROVE  /\ DOMAIN registries' = DOMAIN registries
         /\ \A a \in DOMAIN registries : registries'[a] = registries[a]
                                         \/ (a = Uses.ir /\ Grown(registries[a], registries'[a]))
         /\ DOMAIN tokens' = DOMAIN tokens
         /\ \A a \in DOMAIN tokens : tokens'[a].minted["seed"] >= tokens[a].minted["seed"]
         /\ op # "mint" \/ by = "page" =>
              \A a \in DOMAIN tokens : tokens'[a].minted["seed"] = tokens[a].minted["seed"]
<1>1. \A a \in DOMAIN tokens : tokens[a].minted["seed"] \in Nat
  BY DEF ChainOK, Minter
<1>2. CASE UNCHANGED <<registries, tokens>>
  BY <1>1, <1>2
<1>3. CASE (op = "register" /\ Register(who)) \/ (op = "claim" /\ Claim(who))
  <2> DEFINE r == registries[Uses.ir]
  <2>1. Uses.ir \in DOMAIN registries /\ UNCHANGED tokens /\ r \in RegistryState
    BY <1>3 DEF Register, Claim, HasRegistry, ChainOK
  <2>2. \/ /\ r.bound
           /\ registries' = [registries EXCEPT ![Uses.ir].registered = @ \cup {who}]
        \/ /\ r.trusted /\ who \in r.registered
           /\ registries' = [registries EXCEPT ![Uses.ir].verified = @ \cup {who}]
    BY <1>3 DEF Register, Claim, Registry
  <2> HIDE DEF Uses
  <2>3. Grown(registries[Uses.ir], registries'[Uses.ir])
    BY <2>1, <2>2 DEF Grown, RegistryState
  <2>4. /\ DOMAIN registries' = DOMAIN registries
        /\ \A a \in DOMAIN registries : a # Uses.ir => registries'[a] = registries[a]
    BY <2>1, <2>2
  <2> QED
    BY <1>1, <2>1, <2>3, <2>4
<1>4. CASE op = "mint" /\ Mint(who, by)
  <2>1. Uses.token \in DOMAIN tokens /\ UNCHANGED registries
        /\ tokens' = [tokens EXCEPT ![Uses.token].minted[by] = @ + 1]
    BY <1>4 DEF Mint, HasToken
  <2>2. tokens[Uses.token] \in [registry : DOMAIN registries, minted : [Minter -> Nat]]
    BY <2>1 DEF ChainOK
  <2> HIDE DEF Uses
  <2>3. /\ DOMAIN tokens' = DOMAIN tokens
        /\ \A a \in DOMAIN tokens : a # Uses.token => tokens'[a] = tokens[a]
        /\ tokens'[Uses.token].minted = [tokens[Uses.token].minted EXCEPT ![by] = @ + 1]
    BY <2>1, <2>2
  <2>4. /\ tokens'[Uses.token].minted["seed"] >= tokens[Uses.token].minted["seed"]
        /\ by = "page" => tokens'[Uses.token].minted["seed"] = tokens[Uses.token].minted["seed"]
    BY <2>1, <2>2, <2>3 DEF Minter
  <2> QED
    BY <1>1, <1>4, <2>1, <2>3, <2>4
<1> QED
  BY <1>2, <1>3, <1>4 DEF Accepts, Refuses, Executes, chainVars

\* What a call leaves of the invariant, whoever makes it.
LEMMA CallsHonest ==
  ASSUME FileInv, OnboardedOK, UsesOK, UNCHANGED <<mode, held>>,
         NEW op, NEW who \in Person, NEW by \in Minter,
         Accepts(op, who, by) \/ Refuses(op, who)
  PROVE  /\ OnboardedOK' /\ UsesOK'
         /\ Uses' = Uses
         /\ HasRegistry => HasRegistry' /\ Registry.verified \subseteq Registry'.verified
<1>1. ChainOK /\ Keeps
  BY TypeParts, CallsKeep DEF FileInv, CallKeeps
<1>2. Uses' = Uses
  BY DEF Uses, Signer
<1>3. /\ DOMAIN registries' = DOMAIN registries
      /\ \A a \in DOMAIN registries : registries'[a] = registries[a]
                                      \/ (a = Uses.ir /\ Grown(registries[a], registries'[a]))
  BY <1>1, CallEffect
<1>4. OnboardedOK'
  <2> SUFFICES ASSUME NEW a \in DOMAIN registries
               PROVE  /\ registries'[a].registered # {} => registries'[a].bound
                      /\ registries'[a].verified # {} =>
                           registries'[a].trusted /\ registries'[a].registered # {}
    BY <1>3 DEF OnboardedOK
  <2>1. /\ registries[a].registered # {} => registries[a].bound
        /\ registries[a].verified # {} => registries[a].trusted /\ registries[a].registered # {}
    BY DEF OnboardedOK
  <2> QED
    BY <1>3, <2>1 DEF Grown
<1>5. UsesOK'
  <2>1. CASE IsSuite(Uses)
    <3>1. IsSuite(Uses)'
      BY <1>1, <1>2, <2>1 DEF Keeps, IsSuite
    <3> QED
      BY <3>1 DEF UsesOK
  <2>2. CASE \A a \in DOMAIN registries : registries[a].verified # {} => a = Uses.ir
    <3>1. \A a \in DOMAIN registries' : registries'[a].verified # {} => a = Uses'.ir
      BY <1>2, <1>3, <2>2
    <3> QED
      BY <3>1 DEF UsesOK
  <2> QED
    BY <2>1, <2>2 DEF UsesOK
<1>6. HasRegistry => HasRegistry' /\ Registry.verified \subseteq Registry'.verified
  <2> SUFFICES ASSUME HasRegistry PROVE HasRegistry' /\ Registry.verified \subseteq Registry'.verified
    OBVIOUS
  <2>1. Uses.ir \in DOMAIN registries
    BY DEF HasRegistry
  <2>2. registries[Uses.ir].verified \subseteq registries'[Uses.ir].verified
    BY <1>3, <2>1 DEF Grown
  <2> QED
    BY <1>2, <1>3, <2>1, <2>2 DEF HasRegistry, Registry
<1> QED
  BY <1>2, <1>4, <1>5, <1>6

\* Verified in what the process uses, and the mint went through: it is a suite.
LEMMA MintedInASuite ==
  ASSUME ChainOK, OnboardedOK, UsesOK, HasToken, NEW who,
         who \in registries[tokens[Uses.token].registry].verified
  PROVE  IsSuite(Uses)
<1> SUFFICES ASSUME \A a \in DOMAIN registries : registries[a].verified # {} => a = Uses.ir
             PROVE  IsSuite(Uses)
  BY DEF UsesOK
<1> DEFINE a == tokens[Uses.token].registry
<1>1. Uses.token \in DOMAIN tokens /\ a \in DOMAIN registries
  BY DEF HasToken, ChainOK
<1>2. a = Uses.ir /\ registries[a].bound /\ registries[a].trusted
  BY <1>1 DEF OnboardedOK
<1> QED
  BY <1>1, <1>2 DEF IsSuite

\* A finished seed is not looked back at by a step that starts or fails one.
LEMMA HonestUnlessComplete == ASSUME outcome' # "complete" PROVE SeedIsHonest'
BY DEF SeedIsHonest

LEMMA UpHonest ==
  ASSUME HonestInv, ReseedInv', NEW m \in {"direct", "gateway"}, Up(m) PROVE HonestInv'
<1>1. /\ at = 0 /\ mode' = m /\ file' = Mount(file)
      /\ UNCHANGED <<nonce, created, registries, tokens, at, made, outcome, downs, faults>>
      /\ m = "direct" => mode = "down" /\ held'["backend"] = Read(file')
      /\ m = "gateway" => mode \in {"down", "direct"} /\ held'["gateway"] = Read(file')
  BY DEF Up, chainVars, seedVars, boundVars, Process
<1>2. RestOK /\ Read(file') = Read(file)
  BY <1>1, TypeParts DEF HonestInv, ReseedInv, FileInv, Mount, Read, Without
<1>3. mode' # "down" /\ OnboardedOK' /\ RunOK'
  BY <1>1 DEF HonestInv, OnboardedOK, RunOK
<1>4. mode' = "direct" => Suite(file)' \/ held'["backend"] = Read(file')
  BY <1>1
<1>5. Suite(file) => file' = file /\ Read(file') = file /\ IsSuite(file)'
  BY <1>1 DEF Suite, Mount, Read, IsSuite
<1>6. /\ m = "direct" => Uses' = held'["backend"]
      /\ m = "gateway" => Uses' = held'["gateway"]
      /\ mode = "direct" => Uses = held["backend"]
  BY <1>1 DEF Uses, Signer
<1>7. UsesOK'
  <2>1. CASE mode = "down"
    BY <1>1, <2>1 DEF HonestInv, UsesOK
  <2>2. CASE mode = "direct" /\ Suite(file)
    <3>1. Uses' = file' /\ IsSuite(file)'
      BY <1>1, <1>5, <1>6, <2>2
    <3> QED
      BY <3>1 DEF UsesOK, IsSuite
  <2>3. CASE mode = "direct" /\ held["backend"] = Read(file)
    <3>1. Uses' = Uses
      BY <1>1, <1>2, <1>6, <2>3
    <3>2. UsesOK
      BY <2>3 DEF HonestInv
    <3> QED
      BY <1>1, <3>1, <3>2 DEF UsesOK, IsSuite
  <2> QED
    BY <1>1, <2>1, <2>2, <2>3 DEF HonestInv
<1>8. SeedIsHonest'
  <2> SUFFICES ASSUME outcome = "complete", mode = "direct", m = "gateway", faults = 0
               PROVE  SeedIsHonest'
    BY <1>1 DEF HonestInv, ReseedInv, SeedIsHonest
  <2>1. /\ IsSuite(Uses) /\ Person \subseteq Registry.verified
        /\ tokens[Uses.token].minted["seed"] > 0 /\ Uses = file
    BY DEF HonestInv, SeedIsHonest
  <2>2. file.is = "addresses"
    <3>1. file \in Addresses \cup {Without("nothing"), Without("dead")}
      BY <1>2, <1>6, <2>1 DEF RestOK, Process
    <3> QED
      BY <1>2, <3>1 DEF RestOK, Addresses, Without
  <2>3. Uses' = Uses
    BY <1>1, <1>2, <1>6, <2>1, <2>2 DEF Read
  <2>4. mode' # "direct"
    BY <1>1
  <2> QED
    BY <1>1, <2>1, <2>3, <2>4 DEF SeedIsHonest, Registry, IsSuite
<1> QED
  BY <1>3, <1>4, <1>7, <1>8 DEF HonestInv

LEMMA UserHonest ==
  ASSUME HonestInv, ReseedInv', NEW op \in {"register", "claim", "mint"}, NEW who \in Person,
         UserCall(op, who)
  PROVE  HonestInv'
<1>1. /\ Accepts(op, who, "page") \/ Refuses(op, who)
      /\ mode # "down"
      /\ UNCHANGED <<mode, file, held, at, made, outcome, downs, faults>>
  BY DEF UserCall, BackendUp, seedVars
<1>2. ChainOK /\ FileInv /\ OnboardedOK /\ UsesOK /\ RunOK /\ at \in Nat
  BY <1>1, TypeParts DEF HonestInv, ReseedInv, FileInv, RestOK
<1>3. /\ OnboardedOK' /\ UsesOK' /\ Uses' = Uses
      /\ HasRegistry => HasRegistry' /\ Registry.verified \subseteq Registry'.verified
  BY <1>1, <1>2, CallsHonest DEF Minter
<1>4. Keeps
  BY <1>1, <1>2, CallsKeep DEF CallKeeps, Minter
<1>5. DOMAIN tokens' = DOMAIN tokens /\ \A a \in DOMAIN tokens : tokens'[a].minted["seed"] = tokens[a].minted["seed"]
  BY <1>1, <1>2, CallEffect DEF Minter
<1>6. Suite(file) => Suite(file)'
  BY <1>1, <1>4 DEF Suite, IsSuite, Keeps
<1>7. RunOK'
  BY <1>1, <1>2, <1>3, <1>5 DEF RunOK, FileInv, MadeOK
<1>8. SeedIsHonest'
  <2> SUFFICES ASSUME outcome = "complete", mode = "direct" \/ faults = 0
               PROVE  SeedIsHonest'
    BY <1>1 DEF SeedIsHonest
  <2>1. /\ IsSuite(Uses) /\ Person \subseteq Registry.verified
        /\ tokens[Uses.token].minted["seed"] > 0
        /\ mode = "direct" /\ faults = 0 =>
             /\ Uses = file /\ Uses.ir = made.ir /\ Uses.token = made.token
             /\ tokens[Uses.token].minted["seed"] = 1
    BY DEF HonestInv, SeedIsHonest
  <2>2. tokens'[Uses'.token].minted["seed"] = tokens[Uses.token].minted["seed"]
    BY <1>3, <1>5, <2>1 DEF IsSuite
  <2>3. IsSuite(Uses)'
    BY <1>3, <1>4, <2>1 DEF IsSuite, Keeps
  <2>4. Registry.verified \subseteq Registry'.verified
    <3>1. Uses.ir \in DOMAIN registries
      BY <2>1 DEF IsSuite
    <3>2. registries[Uses.ir].verified \subseteq registries'[Uses.ir].verified
      BY <1>1, <1>2, <3>1, OnboardingStays DEF ChainOK, Minter
    <3> QED
      BY <1>3, <3>2 DEF Registry
  <2> QED
    BY <1>1, <1>3, <2>1, <2>2, <2>3, <2>4 DEF SeedIsHonest
<1> QED
  BY <1>1, <1>3, <1>6, <1>7, <1>8 DEF HonestInv

LEMMA DeployHonest == ASSUME HonestInv, ReseedInv', Deploy PROVE HonestInv'
<1>1. /\ ChainOK /\ RestOK /\ MadeOK /\ Len(Plan) = 17 /\ at \in 1..9
      /\ UNCHANGED <<mode, file, held, cached, seeds, downs, mints, faults>>
      /\ outcome = "none" /\ mode # "down" /\ nonce \notin created
  <2>1. ChainOK /\ RestOK /\ MadeOK
    BY TypeParts DEF HonestInv, ReseedInv, FileInv
  <2>2. at \in 1..9
    BY <2>1, PlanLayout DEF Deploy, DeployStep, Doing, RestOK
  <2> QED
    BY <2>1, <2>2, PlanLayout DEF Deploy, boundVars, HonestInv, RunOK, ChainOK
<1>2. at' = at + 1 /\ outcome' = "none"
  BY <1>1 DEF Deploy, Advance
<1>3. /\ Plan[at].do = "registry" <=> at = 4
      /\ Plan[at].do = "bind" <=> at = 5
      /\ Plan[at].do = "trust" <=> at = 6
      /\ Plan[at].do = "token" <=> at = 8
  BY <1>1, PlanLayout
<1> DEFINE Like(old, new) == /\ old.bound => new.bound
                             /\ old.trusted => new.trusted
                             /\ new.registered = old.registered /\ new.verified = old.verified
<1>4. /\ \A a \in DOMAIN registries : a \in DOMAIN registries' /\ Like(registries[a], registries'[a])
      /\ \A a \in DOMAIN registries' \ DOMAIN registries :
           registries'[a].registered = {} /\ registries'[a].verified = {}
      /\ \A a \in DOMAIN tokens : a \in DOMAIN tokens' /\ tokens'[a] = tokens[a]
      /\ at = 8 => made'.token \in DOMAIN tokens' /\ tokens'[made'.token].minted["seed"] = 0
      /\ at # 8 => made'.token = made.token
  <2>1. CASE Doing("registry")
    <3>1. /\ registries' = With(registries, nonce, [bound |-> FALSE, trusted |-> FALSE,
                                                    registered |-> {}, verified |-> {}])
          /\ made' = [made EXCEPT !.ir = nonce] /\ UNCHANGED tokens /\ at = 4
      BY <1>3, <2>1 DEF Deploy, DeployStep, Doing
    <3> QED
      BY <1>1, <3>1 DEF With, ChainOK, RestOK
  <2>2. CASE Doing("bind") \/ Doing("trust")
    <3>1. /\ at \in {5, 6} /\ UNCHANGED <<tokens, made>>
          /\ \/ registries' = [registries EXCEPT ![made.ir].bound = TRUE]
             \/ registries' = [registries EXCEPT ![made.ir].trusted = TRUE]
      BY <1>3, <2>2 DEF Deploy, DeployStep, Doing
    <3>2. made.ir \in DOMAIN registries /\ registries[made.ir] \in RegistryState
      BY <1>1, <3>1 DEF MadeOK, ChainOK
    <3>3. DOMAIN registries' = DOMAIN registries
      BY <3>1
    <3>4. Like(registries[made.ir], registries'[made.ir])
      BY <3>1, <3>2 DEF RegistryState
    <3>5. \A a \in DOMAIN registries : a # made.ir => registries'[a] = registries[a]
      BY <3>1
    <3> QED
      BY <3>1, <3>3, <3>4, <3>5
  <2>3. CASE Doing("token")
    <3>1. /\ tokens' = With(tokens, nonce, NewToken)
          /\ made' = [made EXCEPT !.token = nonce] /\ UNCHANGED registries /\ at = 8
      BY <1>3, <2>3 DEF Deploy, DeployStep, Doing
    <3> QED
      BY <1>1, <3>1 DEF With, ChainOK, RestOK, NewToken, NoMints, Minter
  <2>4. CASE UNCHANGED <<registries, tokens, made>> /\ at # 8
    BY <2>4
  <2>5. \/ Doing("registry") \/ Doing("bind") \/ Doing("trust") \/ Doing("token")
        \/ UNCHANGED <<registries, tokens, made>> /\ at # 8
    BY <1>1, <1>3 DEF Deploy, DeployStep, Doing
  <2> QED
    BY <2>1, <2>2, <2>3, <2>4, <2>5
<1> HIDE DEF Like
<1>5. OnboardedOK'
  <2> SUFFICES ASSUME NEW a \in DOMAIN registries'
               PROVE  /\ registries'[a].registered # {} => registries'[a].bound
                      /\ registries'[a].verified # {} =>
                           registries'[a].trusted /\ registries'[a].registered # {}
    BY DEF OnboardedOK
  <2> QED
    BY <1>4 DEF Like, HonestInv, OnboardedOK
<1>6. ASSUME NEW f, IsSuite(f) PROVE IsSuite(f)'
  <2>1. registries'[f.ir].bound /\ registries'[f.ir].trusted /\ f.ir \in DOMAIN registries'
    BY <1>4, <1>6 DEF Like, IsSuite
  <2> QED
    BY <1>4, <1>6, <2>1 DEF IsSuite
<1>7. Uses' = Uses
  BY <1>1 DEF Uses, Signer
<1>8. UsesOK'
  <2>1. CASE IsSuite(Uses)
    <3>1. IsSuite(Uses)'
      <4> DEFINE u == Uses
      <4>1. u' = u
        BY <1>7
      <4> QED
        BY <1>6, <1>7, <2>1 DEF IsSuite
    <3> QED
      BY <3>1 DEF UsesOK
  <2>2. CASE \A a \in DOMAIN registries : registries[a].verified # {} => a = Uses.ir
    <3>1. \A a \in DOMAIN registries' : registries'[a].verified # {} => a = Uses'.ir
      BY <1>4, <1>7, <2>2 DEF Like
    <3> QED
      BY <3>1 DEF UsesOK
  <2> QED
    BY <1>1, <2>1, <2>2 DEF HonestInv, UsesOK
<1>9. mode' = "direct" => Suite(file)' \/ held'["backend"] = Read(file')
  <2>1. Suite(file) => Suite(file)'
    BY <1>1, <1>6 DEF Suite, IsSuite
  <2> QED
    BY <1>1, <2>1 DEF HonestInv
<1>10. RunOK'
  <2>1. at > 8 => tokens'[made'.token].minted["seed"] = 0
    BY <1>1, <1>4 DEF HonestInv, RunOK, MadeOK
  <2> QED
    BY <1>1, <1>2, <1>4, <2>1 DEF RunOK
<1> QED
  BY <1>1, <1>2, <1>5, <1>8, <1>9, <1>10, HonestUnlessComplete DEF HonestInv

\* From the save on the addresses are on disk, and name the suite just made.
LEMMA SaveHonest == ASSUME HonestInv, ReseedInv', SaveDeployedAddresses PROVE HonestInv'
<1>1. /\ at = 10 /\ MadeOK /\ RestOK /\ outcome = "none" /\ mode # "down"
      /\ UNCHANGED <<mode, nonce, created, registries, tokens, held, made, downs, faults>>
  <2>1. RestOK /\ MadeOK
    BY TypeParts DEF HonestInv, ReseedInv, FileInv
  <2>2. at = 10
    BY <2>1, PlanLayout DEF SaveDeployedAddresses, Doing, RestOK
  <2> QED
    BY <2>1, <2>2 DEF SaveDeployedAddresses, chainVars, boundVars, HonestInv, RunOK
<1>2. \/ file' = file /\ at' = 0 /\ outcome' = "failed"
      \/ /\ file' = [is |-> "addresses", ir |-> made.ir, token |-> made.token, chain |-> downs]
         /\ at' = 11 /\ outcome' = "none"
  BY <1>1, PlanLayout DEF SaveDeployedAddresses, Fail, Advance
<1>3. UsesOK' /\ OnboardedOK'
  BY <1>1 DEF HonestInv, UsesOK, OnboardedOK, Uses, Signer, IsSuite
<1>4. mode' = "direct" => Suite(file)' \/ held'["backend"] = Read(file')
  <2>1. CASE file' = file
    BY <1>1, <2>1 DEF HonestInv, Suite, IsSuite
  <2>2. CASE file' = [is |-> "addresses", ir |-> made.ir, token |-> made.token, chain |-> downs]
    BY <1>1, <2>2 DEF Suite, IsSuite, MadeOK
  <2> QED
    BY <1>2, <2>1, <2>2
<1>5. RunOK'
  BY <1>1, <1>2 DEF RunOK, HonestInv
<1> QED
  BY <1>1, <1>2, <1>3, <1>4, <1>5, HonestUnlessComplete DEF HonestInv

\* What a seed past its save relies on.
LEMMA SavedIsSuite == ASSUME HonestInv, at > 10 PROVE Suite(file) /\ file.chain = downs
BY DEF HonestInv, ReseedInv, FileInv, FileNamesASuite, RunOK, Suite

LEMMA RestartHonest == ASSUME HonestInv, ReseedInv', RestartBackend PROVE HonestInv'
<1>1. /\ at = 11 /\ RestOK /\ outcome = "none" /\ mode # "down"
      /\ UNCHANGED <<mode, nonce, created, registries, tokens, file, made, downs>>
      /\ at' = 12 /\ outcome' = "none"
  <2>1. RestOK
    BY TypeParts DEF HonestInv, ReseedInv, FileInv
  <2>2. at = 11
    BY <2>1, PlanLayout, PlanCalls DEF RestartBackend, Doing, Step, RestOK
  <2> QED
    BY <2>1, <2>2, PlanLayout DEF RestartBackend, Advance, chainVars, HonestInv, RunOK
<1>2. Suite(file)
  BY <1>1, SavedIsSuite
<1>3. held' = held \/ (held'["gateway"] = held["gateway"] /\ (mode = "direct" => held'["backend"] = file))
  BY <1>1, <1>2 DEF RestartBackend, Restarted, Read, Suite, RestOK, Process
<1>4. Uses' = Uses \/ Uses' = file
  BY <1>1, <1>3 DEF Uses, Signer, RestOK
<1>5. UsesOK'
  <2>1. CASE Uses' = file
    BY <1>1, <1>2, <2>1 DEF UsesOK, Suite, IsSuite
  <2>2. CASE Uses' = Uses
    BY <1>1, <2>2 DEF HonestInv, UsesOK, IsSuite
  <2> QED
    BY <1>4, <2>1, <2>2
<1>6. Suite(file)' /\ OnboardedOK' /\ RunOK'
  BY <1>1, <1>2 DEF Suite, IsSuite, HonestInv, OnboardedOK, RunOK
<1> QED
  BY <1>1, <1>5, <1>6, HonestUnlessComplete DEF HonestInv

\* Steps that touch neither the chain, nor the file, nor what the processes
\* hold, and do not complete a seed.
LEMMA QuietHonest ==
  ASSUME HonestInv, ReseedInv', UNCHANGED <<mode, registries, tokens, file, held>>,
         outcome' # "complete", RunOK'
  PROVE  HonestInv'
<1>1. (UsesOK' /\ OnboardedOK') \/ mode = "down"
  BY DEF HonestInv, UsesOK, OnboardedOK, Uses, Signer, IsSuite
<1>2. OnboardedOK'
  BY DEF HonestInv, OnboardedOK
<1>3. Suite(file) => Suite(file)'
  BY DEF Suite, IsSuite
<1> QED
  BY <1>1, <1>2, <1>3, HonestUnlessComplete DEF HonestInv

LEMMA AwaitHonest == ASSUME HonestInv, ReseedInv', WaitUntilOk PROVE HonestInv'
<1>1. /\ at = 12 /\ outcome = "none" /\ mode # "down"
      /\ UNCHANGED <<mode, nonce, created, registries, tokens, file, held, made, downs>>
      /\ (at' = 13 /\ outcome' = "none") \/ (at' = 0 /\ outcome' = "failed")
  <2>1. RestOK
    BY TypeParts DEF HonestInv, ReseedInv, FileInv
  <2>2. at = 12
    BY <2>1, PlanLayout, PlanCalls DEF WaitUntilOk, Doing, Step, RestOK
  <2> QED
    BY <2>2, PlanLayout DEF WaitUntilOk, Advance, Fail, chainVars, boundVars, HonestInv, RunOK
<1>2. RunOK'
  BY <1>1 DEF HonestInv, RunOK
<1> QED
  BY <1>1, <1>2, QuietHonest

LEMMA ApiHonest == ASSUME HonestInv, ReseedInv', Api PROVE HonestInv'
<1> DEFINE op == Plan[at].do
           who == Plan[at].who
<1>1. /\ at \in 13..17 /\ op \in {"register", "claim", "mint"} /\ who \in Person
      /\ UNCHANGED <<mode, file, held, made, downs, faults>>
      /\ (Accepts(op, who, "seed") /\ Advance) \/ (Refuses(op, who) /\ Fail)
  <2>1. at \in 1..17 /\ op \in {"register", "claim", "mint"}
    BY TypeParts, PlanLayout DEF Api, HonestInv, ReseedInv, FileInv, RestOK
  <2>2. at \in 13..17
    BY <2>1, PlanLayout, PlanCalls
  <2> QED
    BY <2>1, <2>2, PlanCalls DEF Api, Step, Person, boundVars
<1>2. /\ at = 13 => op = "register" /\ who = anson
      /\ at = 14 => op = "claim" /\ who = anson
      /\ at = 15 => op = "register" /\ who = beatrice
      /\ at = 16 => op = "claim" /\ who = beatrice
      /\ at = 17 => op = "mint" /\ who = anson
  BY PlanCalls DEF Step
<1> HIDE DEF op, who
<1>3. /\ ChainOK /\ FileInv /\ MadeOK /\ OnboardedOK /\ UsesOK /\ RunOK /\ outcome = "none"
      /\ mode # "down" /\ Suite(file)
  BY <1>1, TypeParts, SavedIsSuite DEF HonestInv, ReseedInv, FileInv, RunOK
<1>4. /\ OnboardedOK' /\ UsesOK' /\ Uses' = Uses
      /\ HasRegistry => HasRegistry' /\ Registry.verified \subseteq Registry'.verified
  BY <1>1, <1>3, CallsHonest DEF Minter
<1>5. Keeps
  BY <1>1, <1>3, CallsKeep DEF CallKeeps, Minter
<1>6. Suite(file)'
  BY <1>1, <1>3, <1>5 DEF Suite, IsSuite, Keeps
<1>7. CASE Refuses(op, who) /\ Fail
  <2>1. at' = 0 /\ outcome' = "failed"
    BY <1>7 DEF Fail
  <2>2. RunOK'
    BY <2>1 DEF RunOK
  <2> QED
    BY <1>1, <1>3, <1>4, <1>6, <2>1, <2>2, HonestUnlessComplete DEF HonestInv
<1>8. CASE Accepts(op, who, "seed") /\ Advance
  <2>1. op = "claim" => HasRegistry' /\ who \in Registry'.verified
    <3> SUFFICES ASSUME op = "claim" PROVE HasRegistry' /\ who \in Registry'.verified
      OBVIOUS
    <3>1. CASE AlreadyDone(op, who)
      <4>1. HasRegistry /\ who \in Registry.verified
        BY <3>1 DEF AlreadyDone
      <4> QED
        BY <1>4, <4>1
    <3>2. CASE Claim(who)
      <4>1. /\ HasRegistry /\ Uses.ir \in DOMAIN registries /\ registries[Uses.ir] \in RegistryState
            /\ registries' = [registries EXCEPT ![Uses.ir].verified = @ \cup {who}]
        BY <1>3, <3>2 DEF Claim, HasRegistry, ChainOK
      <4> HIDE DEF Uses
      <4>2. who \in registries'[Uses.ir].verified
        BY <4>1 DEF RegistryState
      <4>3. Registry' = registries'[Uses.ir]
        BY <1>4 DEF Registry
      <4> QED
        BY <1>4, <4>1, <4>2, <4>3
    <3> QED
      BY <1>8, <3>1, <3>2 DEF Accepts, Executes
  <2>2. /\ at > 14 => HasRegistry' /\ anson \in Registry'.verified
        /\ at > 16 => beatrice \in Registry'.verified
    BY <1>1, <1>3, <1>4 DEF RunOK
  <2>3. CASE at < 17
    <3>1. at' = at + 1 /\ outcome' = "none"
      BY <1>1, <1>3, <1>8, <2>3, PlanLayout DEF Advance
    <3>2. op # "mint"
      BY <1>1, <1>2, <2>3
    <3>3. /\ made.token \in DOMAIN tokens /\ tokens[made.token].minted["seed"] = 0
          /\ tokens'[made.token].minted["seed"] = tokens[made.token].minted["seed"]
      BY <1>1, <1>3, <1>8, <3>2, CallEffect DEF MadeOK, RunOK, Minter
    <3>4. RunOK'
      <4>1. /\ at' > 14 => HasRegistry' /\ anson \in Registry'.verified
            /\ at' > 16 => beatrice \in Registry'.verified
        BY <1>1, <1>2, <2>1, <2>2, <3>1
      <4>2. file' = [is |-> "addresses", ir |-> made'.ir, token |-> made'.token, chain |-> downs']
        BY <1>1, <1>3 DEF RunOK
      <4> QED
        BY <1>1, <1>3, <3>1, <3>3, <4>1, <4>2 DEF RunOK
    <3> QED
      BY <1>1, <1>3, <1>4, <1>6, <3>1, <3>4, HonestUnlessComplete DEF HonestInv
  <2>4. CASE at = 17
    <3>1. at' = 0
      BY <1>8, <2>4, PlanLayout DEF Advance
    <3>2. Mint(who, "seed") /\ HasToken
      BY <1>2, <1>8, <2>4 DEF Accepts, AlreadyDone, Executes, Mint
    <3>3. /\ Uses.token \in DOMAIN tokens
          /\ tokens[Uses.token] \in [registry : DOMAIN registries, minted : [Minter -> Nat]]
          /\ tokens' = [tokens EXCEPT ![Uses.token].minted["seed"] = @ + 1]
      BY <1>3, <3>2 DEF Mint, HasToken, ChainOK
    <3>4. tokens'[Uses'.token].minted["seed"] = tokens[Uses.token].minted["seed"] + 1
      <4>1. tokens'[Uses.token].minted = [tokens[Uses.token].minted EXCEPT !["seed"] = @ + 1]
        BY <3>3
      <4>2. tokens'[Uses.token].minted["seed"] = tokens[Uses.token].minted["seed"] + 1
        BY <3>3, <4>1 DEF Minter
      <4> QED
        BY <1>4, <4>2
    <3>5. IsSuite(Uses)'
      <4>1. IsSuite(Uses)
        BY <1>3, <3>2, MintedInASuite DEF Mint
      <4> QED
        BY <1>4, <1>5, <4>1 DEF IsSuite, Keeps
    <3>6. Person \subseteq Registry'.verified
      BY <2>2, <2>4 DEF Person
    <3>7. mode = "direct" /\ faults = 0 =>
            /\ Uses = file /\ Uses.ir = made.ir /\ Uses.token = made.token
            /\ tokens[Uses.token].minted["seed"] = 0
      <4> SUFFICES ASSUME mode = "direct", faults = 0
                   PROVE  /\ Uses = file /\ Uses.ir = made.ir /\ Uses.token = made.token
                          /\ tokens[Uses.token].minted["seed"] = 0
        OBVIOUS
      <4>1. Undisturbed
        BY <1>3 DEF Undisturbed, Suite
      <4>2. held["backend"] = file
        BY <2>4, <4>1 DEF HonestInv, ReseedInv, SeedOK
      <4>3. Uses = file /\ file.ir = made.ir /\ file.token = made.token
        BY <1>3, <2>4, <4>2 DEF Uses, Signer, RunOK
      <4> QED
        BY <1>3, <2>4, <4>3 DEF RunOK
    <3>8. SeedIsHonest'
      <4>1. tokens'[Uses'.token].minted["seed"] > 0
        BY <3>3, <3>4 DEF Minter
      <4>2. mode' = "direct" /\ faults' = 0 =>
              /\ Uses' = file' /\ Uses'.ir = made'.ir /\ Uses'.token = made'.token
              /\ tokens'[Uses'.token].minted["seed"] = 1
        BY <1>1, <1>4, <3>4, <3>7
      <4> QED
        BY <3>5, <3>6, <4>1, <4>2 DEF SeedIsHonest
    <3>9. RunOK'
      BY <3>1 DEF RunOK
    <3> QED
      BY <1>1, <1>3, <1>4, <1>6, <3>8, <3>9 DEF HonestInv
  <2> QED
    BY <1>1, <2>3, <2>4
<1> QED
  BY <1>1, <1>7, <1>8

LEMMA HonestStep == ASSUME HonestInv, [Next]_vars PROVE HonestInv'
<1>0. ReseedInv'
  BY ReseedStep DEF HonestInv
<1>1. CASE Down
  <2>1. registries' = NoContracts /\ mode' = "down" /\ outcome' = "none" /\ at' = 0
    BY <1>1 DEF Down
  <2>2. OnboardedOK' /\ RunOK' /\ DOMAIN registries' = {}
    BY <2>1 DEF OnboardedOK, RunOK, NoContracts
  <2> QED
    BY <1>0, <2>1, <2>2, HonestUnlessComplete DEF HonestInv
<1>2. CASE Seed
  <2>1. RunOK'
    BY <1>2 DEF Seed, RunOK
  <2> QED
    BY <1>0, <1>2, <2>1, QuietHonest DEF Seed, chainVars
<1>3. CASE SeedDies
  <2>1. RunOK'
    BY <1>3 DEF SeedDies, Fail, RunOK
  <2> QED
    BY <1>0, <1>3, <2>1, QuietHonest DEF SeedDies, Fail, chainVars
<1>4. CASE UNCHANGED vars
  <2>1. UsesOK' <=> UsesOK
    BY <1>4 DEF vars, chainVars, UsesOK, Uses, Signer, IsSuite
  <2>2. RunOK' /\ OnboardedOK' /\ SeedIsHonest'
    BY <1>4 DEF vars, chainVars, seedVars, boundVars, HonestInv, RunOK, HasRegistry, OnboardedOK, SeedIsHonest, Registry,
                Uses, Signer, IsSuite
  <2> QED
    BY <1>0, <1>4, <2>1, <2>2 DEF vars, chainVars, HonestInv, Suite, IsSuite
<1> QED
  BY <1>0, <1>1, <1>2, <1>3, <1>4, UpHonest, UserHonest, DeployHonest, SaveHonest, RestartHonest,
     AwaitHonest, ApiHonest DEF Next

(***************************************************************************)
(* When seed.js says it is complete, both identities are verified and the  *)
(* seed's mint is in the suite the signing process works on, whatever      *)
(* files were left from other chains, whatever seeds failed before and     *)
(* whoever registers, claims and mints with the page meanwhile; and with   *)
(* direct transport and no failing command it is the suite that this run   *)
(* has deployed, and no other seed has minted in it.                       *)
(***************************************************************************)
THEOREM SeedAlwaysHonest == Spec => []SeedIsHonest
<1>1. Init => ReseedInv
  BY FileInvInit DEF Init, ReseedInv, Undisturbed, SeedOK
<1>2. Init => HonestInv
  BY <1>1 DEF Init, NoContracts, HonestInv, OnboardedOK, RunOK, SeedIsHonest
<1>3. HonestInv => SeedIsHonest
  BY DEF HonestInv
<1> QED
  BY <1>2, <1>3, HonestStep, PTL DEF Spec
=============================================================================
