------------------------- MODULE BackendApi_proofs -------------------------
(***************************************************************************)
(* Proofs about the backend, from the chain upwards: the contracts of      *)
(* TRexSuite under any transactions, the same contracts under the          *)
(* transactions of the services, and what a caller of the HTTP API and a   *)
(* reader of its audit log can rely on.  All of it for any accounts,       *)
(* topics, issuers, requests, bodies, scripts and losses; the assumptions  *)
(* on the constants are those of the modules extended.                     *)
(***************************************************************************)
EXTENDS BackendApi, FiniteSetTheorems, TLAPS


-----------------------------------------------------------------------------
(* Facts about the array operations of ClaimTopicsRegistry *)

\* Pop-and-swap returns an array over the same elements: removeClaimTopic
\* never writes outside the array.
LEMMA SwapAndPopType ==
  ASSUME NEW S, NEW s \in Seq(S), NEW e
  PROVE  SwapAndPop(s, e) \in Seq(S)
<1>1. CASE e \notin Elements(s)
  BY <1>1 DEF SwapAndPop
<1>2. CASE e \in Elements(s)
  <2>1. Len(s) \in Nat /\ Len(s) # 0 /\ DOMAIN s = 1..Len(s)
    BY <1>2 DEF Elements
  <2>2. \A k \in 1..Len(s) : s[k] \in S
    OBVIOUS
  <2> DEFINE i == CHOOSE i \in DOMAIN s : s[i] = e /\ \A j \in 1..(i - 1) : s[j] # e
             r == [k \in 1..(Len(s) - 1) |-> IF k = i THEN s[Len(s)] ELSE s[k]]
  <2>3. r \in Seq(S)
    <3> HIDE DEF i
    <3>1. Len(s) - 1 \in Nat
      BY <2>1
    <3>2. \A k \in 1..(Len(s) - 1) : (IF k = i THEN s[Len(s)] ELSE s[k]) \in S
      BY <2>1, <2>2
    <3>3. r \in [1..(Len(s) - 1) -> S]
      BY <3>2
    <3> QED
      BY <3>1, <3>3
  <2> QED
    BY <1>2, <2>3 DEF SwapAndPop
<1> QED
  BY <1>1, <1>2

\* On an array without duplicates, pop-and-swap removes exactly e and leaves
\* no duplicate: the last element is not lost when it replaces e.
LEMMA SwapAndPopRemoves ==
  ASSUME NEW S, NEW s \in Seq(S), NEW e \in Elements(s), NoDuplicates(s)
  PROVE  /\ NoDuplicates(SwapAndPop(s, e))
         /\ Elements(SwapAndPop(s, e)) = Elements(s) \ {e}
<1>1. PICK n \in Nat \ {0} : n = Len(s) /\ DOMAIN s = 1..n
  BY DEF Elements
<1> DEFINE i == CHOOSE k \in DOMAIN s : s[k] = e /\ \A j \in 1..(k - 1) : s[j] # e
           r == [k \in 1..(n - 1) |-> IF k = i THEN s[n] ELSE s[k]]
<1>2. PICK p \in 1..n : s[p] = e
  BY <1>1 DEF Elements
<1>3. \A j \in 1..(p - 1) : s[j] # e
  BY <1>1, <1>2 DEF NoDuplicates
<1>4. i \in 1..n /\ s[i] = e
  BY <1>1, <1>2, <1>3
<1>5. SwapAndPop(s, e) = r
  BY <1>1 DEF SwapAndPop
<1> HIDE DEF i
<1>6. DOMAIN r = 1..(n - 1)
  OBVIOUS
<1>7. \A k \in 1..(n - 1) : r[k] = IF k = i THEN s[n] ELSE s[k]
  OBVIOUS
<1> HIDE DEF r
<1>8. NoDuplicates(r)
  <2> SUFFICES ASSUME NEW j \in 1..(n - 1), NEW k \in 1..(n - 1), r[j] = r[k]
               PROVE  j = k
    BY <1>6 DEF NoDuplicates
  <2> QED
    BY <1>1, <1>4, <1>7 DEF NoDuplicates
<1>9. ASSUME NEW x \in Elements(r)
      PROVE  x \in Elements(s) \ {e}
  <2>1. PICK k \in 1..(n - 1) : x = r[k]
    BY <1>6 DEF Elements
  <2> QED
    BY <1>1, <1>4, <1>7, <2>1 DEF Elements, NoDuplicates
<1>10. ASSUME NEW x \in Elements(s) \ {e}
       PROVE  x \in Elements(r)
  <2>1. PICK k \in 1..n : x = s[k]
    BY <1>1 DEF Elements
  <2>2. k # i
    BY <1>4, <2>1
  <2>3. \E j \in 1..(n - 1) : r[j] = x
    <3>1. CASE k < n
      BY <1>1, <1>7, <2>1, <2>2, <3>1
    <3>2. CASE k = n
      <4>1. i \in 1..(n - 1)
        BY <1>1, <1>4, <2>2, <3>2
      <4>2. r[i] = x
        BY <1>7, <2>1, <3>2, <4>1
      <4> QED
        BY <4>1, <4>2
    <3>3. k < n \/ k = n
      BY <1>1
    <3> QED
      BY <3>1, <3>2, <3>3
  <2> QED
    BY <1>6, <2>3 DEF Elements
<1> QED
  BY <1>5, <1>8, <1>9, <1>10

\* Appending an element that is not there yet keeps the array free of
\* duplicates and adds just that element.
LEMMA AppendFresh ==
  ASSUME NEW S, NEW s \in Seq(S), NEW e \in S, NoDuplicates(s), e \notin Elements(s)
  PROVE  /\ NoDuplicates(Append(s, e))
         /\ Elements(Append(s, e)) = Elements(s) \cup {e}
<1>1. Len(s) \in Nat /\ DOMAIN s = 1..Len(s)
  OBVIOUS
<1>2. DOMAIN Append(s, e) = 1..(Len(s) + 1)
  BY <1>1
<1>3. \A k \in 1..(Len(s) + 1) :
        Append(s, e)[k] = IF k = Len(s) + 1 THEN e ELSE s[k]
  BY <1>1
<1>4. NoDuplicates(Append(s, e))
  BY <1>1, <1>2, <1>3 DEF NoDuplicates, Elements
<1>5. Elements(Append(s, e)) = Elements(s) \cup {e}
  <2>1. ASSUME NEW x \in Elements(Append(s, e))
        PROVE  x \in Elements(s) \cup {e}
    BY <1>1, <1>2, <1>3 DEF Elements
  <2>2. ASSUME NEW x \in Elements(s)
        PROVE  x \in Elements(Append(s, e))
    <3>1. PICK k \in 1..Len(s) : x = s[k]
      BY <1>1 DEF Elements
    <3>2. k \in 1..(Len(s) + 1) /\ Append(s, e)[k] = x
      BY <1>1, <1>3, <3>1
    <3> QED
      BY <1>2, <3>2 DEF Elements
  <2>3. e \in Elements(Append(s, e))
    <3>1. Len(s) + 1 \in 1..(Len(s) + 1) /\ Append(s, e)[Len(s) + 1] = e
      BY <1>1, <1>3
    <3> QED
      BY <1>2, <3>1 DEF Elements
  <2> QED
    BY <2>1, <2>2, <2>3
<1> QED
  BY <1>4, <1>5

\* The array a constructor leaves, with its one element.
LEMMA Singleton ==
  ASSUME NEW e
  PROVE  NoDuplicates(<<e>>) /\ Elements(<<e>>) = {e}
<1>1. DOMAIN <<e>> = {1} /\ <<e>>[1] = e
  OBVIOUS
<1> QED
  BY <1>1 DEF NoDuplicates, Elements

-----------------------------------------------------------------------------
(* Type correctness, one lemma per component's transactions *)

LEMMA TopicsTyped == TopicsType /\ TopicsNext => TopicsType'
<1> SUFFICES ASSUME TopicsType, NEW sender \in Account, NEW t \in Topic,
                    AddClaimTopic(sender, t) \/ RemoveClaimTopic(sender, t)
             PROVE  TopicsType'
  BY DEF TopicsNext
<1>1. CASE AddClaimTopic(sender, t)
  BY <1>1 DEF AddClaimTopic, TopicsType
<1>2. CASE RemoveClaimTopic(sender, t)
  <2>1. SwapAndPop(topics, t) \in Seq(Topic)
    BY SwapAndPopType DEF TopicsType
  <2> QED
    BY <1>2, <2>1 DEF RemoveClaimTopic, TopicsType
<1> QED
  BY <1>1, <1>2

LEMMA IssuersTyped == IssuersType /\ IssuersNext => IssuersType'
<1> SUFFICES ASSUME IssuersType,
                    NEW sender \in Account, NEW a \in Issuer, NEW t \in Topic,
                    AddTrustedIssuer(sender, a, t) \/ RemoveTrustedIssuer(sender, a, t)
             PROVE  IssuersType'
  BY DEF IssuersNext
<1>1. CASE AddTrustedIssuer(sender, a, t)
  <2>1. issuerTopics' \in [Issuer -> SUBSET Topic]
    BY <1>1 DEF AddTrustedIssuer, IssuersType
  <2>2. isTrustedIssuer' \in [Issuer -> BOOLEAN]
    BY <1>1 DEF AddTrustedIssuer, IssuersType
  <2>3. issuers' \in Seq(Issuer)
    BY <1>1 DEF AddTrustedIssuer, IssuersType
  <2> QED
    BY <2>1, <2>2, <2>3 DEF IssuersType
<1>2. CASE RemoveTrustedIssuer(sender, a, t)
  BY <1>2 DEF RemoveTrustedIssuer, IssuersType
<1> QED
  BY <1>1, <1>2

\* Every step of the identity contracts is a rebinding or one of the three
\* storage operations, whoever the caller.
LEMMA IdentitySteps ==
  ASSUME IdentityNext
  PROVE  \/ UNCHANGED storageVars
         \/ \E sender \in Account, r \in BindTargets : BindIdentityRegistry(sender, r)
         \/ \E sender \in Account \cup {RegistryAddress}, w \in Wallet :
              \/ StorageRegister(sender, w)
              \/ StorageRemove(sender, w)
              \/ \E t \in Topic, issued \in BOOLEAN : StorageSetClaim(sender, w, t, issued)
<1> SUFFICES ASSUME NEW sender \in Account, NEW w \in Wallet,
                    \/ RegisterIdentity(sender, w)
                    \/ RemoveIdentity(sender, w)
                    \/ \E t \in Topic : IssueClaim(sender, w, t)
             PROVE  \/ UNCHANGED storageVars
                    \/ StorageRegister(RegistryAddress, w)
                    \/ StorageRemove(RegistryAddress, w)
                    \/ \E t \in Topic, issued \in BOOLEAN :
                         StorageSetClaim(RegistryAddress, w, t, issued)
  BY DEF IdentityNext
<1> QED
  BY DEF RegisterIdentity, RemoveIdentity, IssueClaim

LEMMA IdentityTyped == StorageType /\ IdentityNext => StorageType'
<1> SUFFICES ASSUME StorageType, IdentityNext
             PROVE  StorageType'
  OBVIOUS
<1>1. CASE UNCHANGED storageVars
  BY <1>1 DEF storageVars, StorageType
<1>2. ASSUME NEW sender \in Account, NEW r \in BindTargets,
             BindIdentityRegistry(sender, r)
      PROVE  StorageType'
  BY <1>2 DEF BindIdentityRegistry, StorageType
<1>3. ASSUME NEW sender, NEW w \in Wallet,
             StorageRegister(sender, w) \/ StorageRemove(sender, w)
      PROVE  StorageType'
  BY <1>3 DEF StorageRegister, StorageRemove, StorageType
<1>4. ASSUME NEW sender, NEW w \in Wallet, NEW t \in Topic, NEW issued \in BOOLEAN,
             StorageSetClaim(sender, w, t, issued)
      PROVE  StorageType'
  BY <1>4 DEF StorageSetClaim, StorageType
<1> QED
  BY <1>1, <1>2, <1>3, <1>4, IdentitySteps

LEMMA TokenTyped == TokenType /\ TokenNext => TokenType'
<1> SUFFICES ASSUME TokenType, TokenNext
             PROVE  TokenType'
  OBVIOUS
<1>1. ASSUME NEW sender \in Account, NEW to \in Account, NEW value \in 0..MaxUint,
             Mint(sender, to, value)
      PROVE  TokenType'
  BY <1>1, TokenAssumption DEF Mint, TokenType
<1>2. ASSUME NEW from \in Account, NEW to \in Account, NEW value \in 0..MaxUint,
             Update(from, to, value)
      PROVE  balances' \in [Account -> Nat] /\ totalSupply' \in 0..MaxUint
  <2>1. [balances EXCEPT ![from] = @ - value] \in [Account -> Nat]
    BY <1>2, TokenAssumption DEF Update, TokenType
  <2> QED
    BY <1>2, <2>1, TokenAssumption DEF Update, TokenType
<1>3. ASSUME NEW sender \in Account, NEW to \in Account, NEW value \in 0..MaxUint,
             Transfer(sender, to, value)
      PROVE  TokenType'
  BY <1>2, <1>3 DEF Transfer, TokenType
<1>4. ASSUME NEW sender \in Account, NEW spender \in Account, NEW value \in 0..MaxUint,
             Approve(sender, spender, value)
      PROVE  TokenType'
  BY <1>4 DEF Approve, TokenType
<1>5. ASSUME NEW sender \in Account, NEW from \in Account, NEW to \in Account,
             NEW value \in 0..MaxUint, TransferFrom(sender, from, to, value)
      PROVE  TokenType'
  <2>1. allowances' \in [Approvals -> 0..MaxUint]
    BY <1>5, TokenAssumption DEF TransferFrom, TokenType
  <2> QED
    BY <1>2, <1>5, <2>1 DEF TransferFrom, TokenType
<1> QED
  BY <1>1, <1>3, <1>4, <1>5 DEF TokenNext

LEMMA InitTyped == Init => TypeOK
<1> SUFFICES ASSUME Init
             PROVE  TypeOK
  OBVIOUS
<1>1. OwnerType
  BY AdminAssumption DEF Init, OwnerInit, OwnerType
<1>2. TopicsType
  BY TopicAssumption DEF Init, TopicsInit, TopicsType
<1>3. IssuersType
  BY IssuerAssumption, TopicAssumption DEF Init, IssuersInit, IssuersType
<1>4. StorageType
  BY RegistryAssumption DEF Init, StorageInit, StorageType
<1>5. TokenType
  BY TokenAssumption DEF Init, TokenInit, TokenType
<1> QED
  BY <1>1, <1>2, <1>3, <1>4, <1>5 DEF TypeOK

LEMMA NextTyped == TypeOK /\ [Next]_vars => TypeOK'
<1> SUFFICES ASSUME TypeOK, [Next]_vars
             PROVE  TypeOK'
  OBVIOUS
<1> USE DEF TypeOK
<1>1. CASE HandoverNext /\ UNCHANGED <<topicsVars, issuersVars, storageVars, tokenVars>>
  <2>1. OwnerType'
    BY <1>1, HandoverAssumption DEF HandoverNext, SetOwner, OwnerType
  <2> QED
    BY <1>1, <2>1 DEF topicsVars, issuersVars, storageVars, tokenVars,
                      TopicsType, IssuersType, StorageType, TokenType
<1>2. CASE TopicsNext /\ UNCHANGED <<owner, issuersVars, storageVars, tokenVars>>
  BY <1>2, TopicsTyped DEF issuersVars, storageVars, tokenVars,
                           OwnerType, IssuersType, StorageType, TokenType
<1>3. CASE IssuersNext /\ UNCHANGED <<owner, topicsVars, storageVars, tokenVars>>
  BY <1>3, IssuersTyped DEF topicsVars, storageVars, tokenVars,
                            OwnerType, TopicsType, StorageType, TokenType
<1>4. CASE IdentityNext /\ UNCHANGED <<owner, topicsVars, issuersVars, tokenVars>>
  BY <1>4, IdentityTyped DEF topicsVars, issuersVars, tokenVars,
                             OwnerType, TopicsType, IssuersType, TokenType
<1>5. CASE TokenNext /\ UNCHANGED <<owner, topicsVars, issuersVars, storageVars>>
  BY <1>5, TokenTyped DEF topicsVars, issuersVars, storageVars,
                          OwnerType, TopicsType, IssuersType, StorageType
<1>6. CASE UNCHANGED vars
  BY <1>6 DEF vars, topicsVars, issuersVars, storageVars, tokenVars,
              OwnerType, TopicsType, IssuersType, StorageType, TokenType
<1> QED
  BY <1>1, <1>2, <1>3, <1>4, <1>5, <1>6 DEF Next

(***************************************************************************)
(* The suite's state is well typed whatever accounts call: in particular   *)
(* no balance underflows (OpenZeppelin subtracts unchecked after its       *)
(* comparison) and the supply stays within uint256.                        *)
(***************************************************************************)
THEOREM TypeCorrect == Spec => []TypeOK
<1>1. Init => TypeOK
  BY InitTyped
<1>2. TypeOK /\ [Next]_vars => TypeOK'
  BY NextTyped
<1> QED
  BY <1>1, <1>2, PTL DEF Spec

-----------------------------------------------------------------------------
(* The registries' double bookkeeping *)

LEMMA TopicsStayInSync ==
  ASSUME TopicsType, TopicsInSync, TopicsNext
  PROVE  TopicsInSync'
<1> SUFFICES ASSUME NEW sender \in Account, NEW t \in Topic,
                    AddClaimTopic(sender, t) \/ RemoveClaimTopic(sender, t)
             PROVE  TopicsInSync'
  BY DEF TopicsNext
<1> USE DEF TopicsType, TopicsInSync
<1>1. CASE AddClaimTopic(sender, t)
  <2>1. t \notin Elements(topics)
    BY <1>1 DEF AddClaimTopic
  <2>2. /\ NoDuplicates(Append(topics, t))
        /\ Elements(Append(topics, t)) = Elements(topics) \cup {t}
    BY <2>1, AppendFresh
  <2>3. {u \in Topic : topicExists'[u]} = {u \in Topic : topicExists[u]} \cup {t}
    BY <1>1 DEF AddClaimTopic
  <2>4. NoDuplicates(topics') /\ Elements(topics') = Elements(topics) \cup {t}
    BY <1>1, <2>2 DEF AddClaimTopic
  <2> QED
    BY <2>3, <2>4 DEF NoDuplicates, Elements
<1>2. CASE RemoveClaimTopic(sender, t)
  <2>1. t \in Elements(topics)
    BY <1>2 DEF RemoveClaimTopic
  <2>2. /\ NoDuplicates(SwapAndPop(topics, t))
        /\ Elements(SwapAndPop(topics, t)) = Elements(topics) \ {t}
    BY <2>1, SwapAndPopRemoves
  <2>3. {u \in Topic : topicExists'[u]} = {u \in Topic : topicExists[u]} \ {t}
    BY <1>2 DEF RemoveClaimTopic
  <2>4. NoDuplicates(topics') /\ Elements(topics') = Elements(topics) \ {t}
    BY <1>2, <2>2 DEF RemoveClaimTopic
  <2> QED
    BY <2>3, <2>4 DEF NoDuplicates, Elements
<1> QED
  BY <1>1, <1>2

(***************************************************************************)
(* The array isVerified iterates and the mapping issueClaim consults agree *)
(* for any number of topics added and removed in any order.                *)
(***************************************************************************)
THEOREM TopicsAlwaysInSync == Spec => []TopicsInSync
<1>1. Init => TopicsInSync
  <2> SUFFICES ASSUME TopicsInit
               PROVE  TopicsInSync
    BY DEF Init
  <2>1. NoDuplicates(topics) /\ Elements(topics) = {KYC_TOPIC}
    BY Singleton DEF TopicsInit
  <2>2. {t \in Topic : topicExists[t]} = {KYC_TOPIC}
    BY TopicAssumption DEF TopicsInit
  <2> QED
    BY <2>1, <2>2 DEF TopicsInSync
<1>2. TypeOK /\ TopicsInSync /\ [Next]_vars => TopicsInSync'
  <2> SUFFICES ASSUME TypeOK, TopicsInSync, [Next]_vars
               PROVE  TopicsInSync'
    OBVIOUS
  <2>1. CASE TopicsNext
    BY <2>1, TopicsStayInSync DEF TypeOK
  <2>2. CASE UNCHANGED topicsVars
    BY <2>2 DEF topicsVars, TopicsInSync, NoDuplicates, Elements
  <2> QED
    BY <2>1, <2>2 DEF Next, vars
<1> QED
  BY <1>1, <1>2, TypeCorrect, PTL DEF Spec

LEMMA IssuersStayListed ==
  ASSUME IssuersType, IssuersListed, IssuersNext
  PROVE  IssuersListed'
<1> SUFFICES ASSUME NEW sender \in Account, NEW a \in Issuer, NEW t \in Topic,
                    AddTrustedIssuer(sender, a, t) \/ RemoveTrustedIssuer(sender, a, t)
             PROVE  IssuersListed'
  BY DEF IssuersNext
<1> USE DEF IssuersType, IssuersListed
<1>1. CASE AddTrustedIssuer(sender, a, t)
  <2>1. NoDuplicates(issuers') /\ Elements(issuers') = Elements(issuers) \cup {a}
    <3>1. CASE isTrustedIssuer[a]
      BY <1>1, <3>1 DEF AddTrustedIssuer
    <3>2. CASE ~isTrustedIssuer[a]
      <4>1. a \notin Elements(issuers)
        BY <3>2
      <4>2. /\ NoDuplicates(Append(issuers, a))
            /\ Elements(Append(issuers, a)) = Elements(issuers) \cup {a}
        BY <4>1, AppendFresh
      <4> QED
        BY <1>1, <3>2, <4>2 DEF AddTrustedIssuer
    <3> QED
      BY <3>1, <3>2
  <2>2. \A b \in Issuer : isTrustedIssuer'[b] <=> isTrustedIssuer[b] \/ b = a
    BY <1>1 DEF AddTrustedIssuer
  <2>3. \A b \in Issuer : issuerTopics'[b] # {} => issuerTopics[b] # {} \/ b = a
    BY <1>1 DEF AddTrustedIssuer
  <2>4. (NoDuplicates(issuers))' /\ (Elements(issuers))' = Elements(issuers) \cup {a}
    BY <2>1 DEF NoDuplicates, Elements
  <2> QED
    BY <2>2, <2>3, <2>4
<1>2. CASE RemoveTrustedIssuer(sender, a, t)
  <2>1. \A b \in Issuer : issuerTopics'[b] # {} => issuerTopics[b] # {}
    BY <1>2 DEF RemoveTrustedIssuer
  <2>2. (NoDuplicates(issuers))' /\ (Elements(issuers))' = Elements(issuers)
    BY <1>2 DEF RemoveTrustedIssuer, NoDuplicates, Elements
  <2> QED
    BY <1>2, <2>1, <2>2 DEF RemoveTrustedIssuer
<1> QED
  BY <1>1, <1>2

(***************************************************************************)
(* getTrustedIssuers lists every account trusted for a topic, once, after  *)
(* any sequence of additions and removals.                                 *)
(***************************************************************************)
THEOREM IssuersAlwaysListed == Spec => []IssuersListed
<1>1. Init => IssuersListed
  <2> SUFFICES ASSUME IssuersInit
               PROVE  IssuersListed
    BY DEF Init
  <2>1. NoDuplicates(issuers) /\ Elements(issuers) = {Admin}
    BY Singleton DEF IssuersInit
  <2> QED
    BY <2>1 DEF IssuersInit, IssuersListed
<1>2. TypeOK /\ IssuersListed /\ [Next]_vars => IssuersListed'
  <2> SUFFICES ASSUME TypeOK, IssuersListed, [Next]_vars
               PROVE  IssuersListed'
    OBVIOUS
  <2>1. CASE IssuersNext
    BY <2>1, IssuersStayListed DEF TypeOK
  <2>2. CASE UNCHANGED issuersVars
    BY <2>2 DEF issuersVars, IssuersListed, NoDuplicates, Elements
  <2> QED
    BY <2>1, <2>2 DEF Next, vars
<1> QED
  BY <1>1, <1>2, TypeCorrect, PTL DEF Spec

-----------------------------------------------------------------------------
(* The compliance boundary: TRexSuite implements CompliantLedger *)

LEMMA UpdateIsMove ==
  ASSUME TokenType, NEW from \in Account, NEW to \in Account, NEW value \in 0..MaxUint,
         Update(from, to, value), UNCHANGED <<topicsVars, storageVars>>
  PROVE  [Ledger!Next]_(Ledger!vars)
<1>1. Verified' = Verified
  BY DEF Verified, IsVerified, IsRegistered, topicsVars, storageVars
<1>2. CASE from = to
  <2>1. balances' = balances
    BY <1>2, TokenAssumption DEF Update, TokenType
  <2> QED
    BY <1>1, <2>1 DEF Update, Ledger!vars
<1>3. CASE from # to
  <2>1. balances' = [balances EXCEPT ![from] = @ - value, ![to] = @ + value]
    BY <1>3 DEF Update
  <2>2. Ledger!Move(from, to, value)
    BY <1>1, <1>3, <2>1, TokenAssumption DEF Update, Verified, TokenType, Ledger!Move
  <2> QED
    BY <2>2 DEF Ledger!Next
<1> QED
  BY <1>2, <1>3

LEMMA TokenStepIsLedgerStep ==
  ASSUME TokenType, TokenNext, UNCHANGED <<topicsVars, storageVars>>
  PROVE  [Ledger!Next]_(Ledger!vars)
<1>1. Verified' = Verified
  BY DEF Verified, IsVerified, IsRegistered, topicsVars, storageVars
<1>2. ASSUME NEW sender \in Account, NEW to \in Account, NEW value \in 0..MaxUint,
             Mint(sender, to, value)
      PROVE  [Ledger!Next]_(Ledger!vars)
  <2>1. Ledger!Issue(to, value)
    BY <1>1, <1>2 DEF Mint, Verified, Ledger!Issue
  <2> QED
    BY <2>1 DEF Ledger!Next
<1>3. ASSUME NEW sender \in Account, NEW to \in Account, NEW value \in 0..MaxUint,
             Transfer(sender, to, value)
      PROVE  [Ledger!Next]_(Ledger!vars)
  BY <1>3, UpdateIsMove DEF Transfer
<1>4. ASSUME NEW sender \in Account, NEW spender \in Account, NEW value \in 0..MaxUint,
             Approve(sender, spender, value)
      PROVE  [Ledger!Next]_(Ledger!vars)
  BY <1>1, <1>4 DEF Approve, Ledger!vars
<1>5. ASSUME NEW sender \in Account, NEW from \in Account, NEW to \in Account,
             NEW value \in 0..MaxUint, TransferFrom(sender, from, to, value)
      PROVE  [Ledger!Next]_(Ledger!vars)
  BY <1>5, UpdateIsMove DEF TransferFrom
<1> QED
  BY <1>2, <1>3, <1>4, <1>5 DEF TokenNext

(***************************************************************************)
(* Implementation: every transaction of any account is a step of the       *)
(* compliant ledger or leaves it alone.  Minting and both ways of          *)
(* transferring need the accounts verified at that moment; registering,    *)
(* removing, rebinding, changing topics or issuers only requalify.         *)
(***************************************************************************)
THEOREM ImplementsCompliantLedger == Spec => CompliantLedgerSpec
<1>1. Init => Ledger!Init
  BY DEF Init, TokenInit, Verified, Ledger!Init
<1>2. TypeOK /\ [Next]_vars => [Ledger!Next]_(Ledger!vars)
  <2> SUFFICES ASSUME TypeOK, [Next]_vars
               PROVE  [Ledger!Next]_(Ledger!vars)
    OBVIOUS
  <2>1. CASE TokenNext /\ UNCHANGED <<topicsVars, storageVars>>
    BY <2>1, TokenStepIsLedgerStep DEF TypeOK
  <2>2. CASE UNCHANGED tokenVars
    <3>1. Verified' \in SUBSET Account
      BY DEF Verified
    <3>2. Ledger!Requalify
      BY <2>2, <3>1 DEF tokenVars, Ledger!Requalify
    <3> QED
      BY <3>2 DEF Ledger!Next
  <2> QED
    BY <2>1, <2>2 DEF Next, vars
<1> QED
  BY <1>1, <1>2, TypeCorrect, PTL DEF Spec, CompliantLedgerSpec, Ledger!Spec

-----------------------------------------------------------------------------
(* Renouncing *)

(***************************************************************************)
(* Once the registry and its storage are both renounced with the registry  *)
(* bound, the set of registered wallets never changes again, for any       *)
(* accounts and any remaining powers of the other contracts' owners.       *)
(***************************************************************************)
THEOREM SealingIsFinal == Spec => SealedForGood
<1>1. TypeOK /\ [Next]_vars => [Sealed => Sealed' /\ UNCHANGED registered]_vars
  <2> SUFFICES ASSUME [Next]_vars, Sealed
               PROVE  Sealed' /\ UNCHANGED registered
    OBVIOUS
  <2> USE AdminAssumption, RegistryAssumption DEF Sealed
  <2>1. CASE HandoverNext /\ UNCHANGED storageVars
    <3>1. PICK sender \in Account, h \in Handovers : SetOwner(h[1], sender, h[2])
      BY <2>1 DEF HandoverNext
    <3>2. owner'["IdentityRegistry"] = ZeroAddress
          /\ owner'["IdentityRegistryStorage"] = ZeroAddress
      BY <3>1 DEF SetOwner, OnlyOwner
    <3> QED
      BY <2>1, <3>2 DEF storageVars
  <2>2. CASE IdentityNext /\ UNCHANGED owner
    <3>1. ~\E sender \in Account, r \in BindTargets : BindIdentityRegistry(sender, r)
      BY DEF BindIdentityRegistry, OnlyOwner
    <3>2. \A sender \in Account, w \in Wallet :
            /\ ~RemoveIdentity(sender, w)
            /\ ~RegisterIdentity(sender, w)
            /\ ~StorageRegister(sender, w)
            /\ ~StorageRemove(sender, w)
      BY DEF RemoveIdentity, RegisterIdentity, StorageRegister, StorageRemove,
             OnlyOwner, OnlyBoundRegistry
    <3>3. \E sender \in Account \cup {RegistryAddress}, w \in Wallet, t \in Topic,
             issued \in BOOLEAN : StorageSetClaim(sender, w, t, issued)
      BY <2>2, <3>1, <3>2 DEF IdentityNext, IssueClaim
    <3> QED
      BY <2>2, <3>3 DEF StorageSetClaim
  <2>3. CASE UNCHANGED <<owner, storageVars>>
    BY <2>3 DEF storageVars
  <2> QED
    BY <2>1, <2>2, <2>3 DEF Next, vars
<1> QED
  BY <1>1, TypeCorrect, PTL DEF Spec, SealedForGood

-----------------------------------------------------------------------------
(* The paths the services use *)

\* The services never touch ownership, topics or the binding, so the state
\* deploy.ts leaves there persists, and holders stay verified.
ServiceInv ==
  /\ TypeOK
  /\ topics = <<KYC_TOPIC>>
  /\ boundRegistry = RegistryAddress
  /\ HoldersVerified

\* A step of the services either writes the storage, where it only adds
\* registrations and claims, or moves tokens between verified accounts.
LEMMA ServiceSteps ==
  ASSUME ServiceInv, ServiceNext
  PROVE  /\ topics' = topics /\ boundRegistry' = boundRegistry
         /\ \A a \in Account : IsVerified(a) => IsVerified(a)'
         /\ \A a \in Account : balances'[a] > 0 => balances[a] > 0 \/ IsVerified(a)
<1>1. topics' = topics
  BY DEF ServiceNext, topicsVars
<1>2. ASSUME NEW w \in Wallet,
             RegisterIdentity(Admin, w) \/ IssueClaim(Admin, w, KYC_TOPIC),
             UNCHANGED tokenVars
      PROVE  /\ boundRegistry' = boundRegistry
             /\ balances' = balances
             /\ \A v \in Wallet : registered[v] => registered'[v]
             /\ \A v \in Wallet : claims[v] \subseteq claims'[v]
  <2> USE DEF ServiceInv, TypeOK, StorageType
  <2>1. CASE RegisterIdentity(Admin, w)
    BY <1>2, <2>1 DEF RegisterIdentity, StorageRegister, storageVars, tokenVars
  <2>2. CASE IssueClaim(Admin, w, KYC_TOPIC)
    BY <1>2, <2>2 DEF IssueClaim, StorageSetClaim, tokenVars
  <2> QED
    BY <1>2, <2>1, <2>2
<1>3. ASSUME NEW to \in Account, NEW value \in 0..MaxUint,
             Mint(Admin, to, value)
      PROVE  \A a \in Account : balances'[a] > 0 => balances[a] > 0 \/ IsVerified(a)
  BY <1>3 DEF Mint, ServiceInv, TypeOK, TokenType
<1>4. ASSUME NEW from \in Account, NEW to \in Account, NEW value \in 0..MaxUint,
             Transfer(from, to, value)
      PROVE  \A a \in Account : balances'[a] > 0 => balances[a] > 0 \/ IsVerified(a)
  <2> SUFFICES ASSUME NEW a \in Account, ~IsVerified(a)
               PROVE  balances'[a] = balances[a]
    BY DEF ServiceInv, TypeOK, TokenType
  <2>1. a # from /\ a # to
    BY <1>4 DEF Transfer, Update
  <2> QED
    BY <1>4, <2>1 DEF Transfer, Update, ServiceInv, TypeOK, TokenType
<1>5. CASE UNCHANGED storageVars
  <2>1. boundRegistry' = boundRegistry /\ \A a \in Account : IsVerified(a)' <=> IsVerified(a)
    BY <1>1, <1>5 DEF storageVars, IsVerified, IsRegistered
  <2>2. CASE UNCHANGED tokenVars
    BY <1>1, <2>1, <2>2 DEF tokenVars
  <2> QED
    BY <1>1, <1>2, <1>3, <1>4, <2>1, <2>2 DEF ServiceNext, tokenVars
<1>6. CASE \E w \in Wallet : /\ RegisterIdentity(Admin, w) \/ IssueClaim(Admin, w, KYC_TOPIC)
                             /\ UNCHANGED tokenVars
  <2>1. /\ boundRegistry' = boundRegistry
        /\ balances' = balances
        /\ \A v \in Wallet : registered[v] => registered'[v]
        /\ \A v \in Wallet : claims[v] \subseteq claims'[v]
    BY <1>2, <1>6
  <2>2. ASSUME NEW a \in Account, IsVerified(a)
        PROVE  IsVerified(a)'
    BY <1>1, <2>1, <2>2 DEF IsVerified, IsRegistered
  <2> QED
    BY <1>1, <2>1, <2>2
<1> QED
  BY <1>5, <1>6 DEF ServiceNext

LEMMA ServiceNextIsNext == ServiceNext => Next
<1> SUFFICES ASSUME ServiceNext
             PROVE  Next
  OBVIOUS
<1>1. Admin \in Account /\ KYC_TOPIC \in Topic
  BY AdminAssumption, TopicAssumption
<1>2. ASSUME NEW w \in Wallet,
             RegisterIdentity(Admin, w) \/ IssueClaim(Admin, w, KYC_TOPIC)
      PROVE  IdentityNext
  BY <1>1, <1>2 DEF IdentityNext
<1>3. ASSUME NEW to \in Account, NEW value \in 0..MaxUint,
             Mint(Admin, to, value) \/ \E from \in Account : Transfer(from, to, value)
      PROVE  TokenNext
  BY <1>1, <1>3 DEF TokenNext
<1> QED
  BY <1>2, <1>3 DEF ServiceNext, Next

LEMMA ServiceInit == Init => ServiceInv
BY InitTyped DEF Init, TopicsInit, StorageInit, TokenInit, ServiceInv, HoldersVerified

LEMMA ServiceStep ==
  ASSUME ServiceInv, [ServiceNext]_vars
  PROVE  ServiceInv'
<1>1. TypeOK'
  BY NextTyped, ServiceNextIsNext DEF ServiceInv
<1>2. CASE ServiceNext
  BY <1>1, <1>2, ServiceSteps DEF ServiceInv, HoldersVerified
<1>3. CASE UNCHANGED vars
  BY <1>1, <1>3 DEF vars, topicsVars, storageVars, tokenVars, ServiceInv,
                    HoldersVerified, IsVerified, IsRegistered
<1> QED
  BY <1>2, <1>3

LEMMA ServiceInvariance == ServiceSpec => []ServiceInv
BY ServiceInit, ServiceStep, PTL DEF ServiceSpec

(***************************************************************************)
(* As long as only the services and scripts transact, whoever holds tokens *)
(* is verified: no balance is ever stranded on a wallet that can neither   *)
(* send nor receive.                                                       *)
(***************************************************************************)
THEOREM ServicesKeepHoldersVerified == ServiceSpec => []HoldersVerified
<1>1. ServiceInv => HoldersVerified
  BY DEF ServiceInv
<1> QED
  BY <1>1, ServiceInvariance, PTL

(***************************************************************************)
(* And Verified is terminal on those paths, as the architecture's          *)
(* onboarding diagram has it.                                              *)
(***************************************************************************)
THEOREM ServicesNeverUnverify == ServiceSpec => VerifiedIsTerminal
<1>1. ServiceInv /\ [ServiceNext]_vars
        => [\A a \in Account : IsVerified(a) => IsVerified(a)']_vars
  BY ServiceSteps
<1> QED
  BY <1>1, ServiceInvariance, PTL DEF ServiceSpec, VerifiedIsTerminal

-----------------------------------------------------------------------------
(* Sums over finite sets.  What the library's SumFunctionOnSet computes is *)
(* a recursive function; its equations are derived by induction over the   *)
(* subsets of a finite set, where the induction hypothesis is a set: a     *)
(* smallest counterexample exists because strict inclusion is well founded.*)

\* Induction over the subsets of a finite set, without an operator parameter.
LEMMA SubsetInduction ==
  ASSUME NEW S, IsFiniteSet(S), NEW G,
         \A T \in SUBSET S : (\A U \in SUBSET T : U # T => U \in G) => T \in G
  PROVE  SUBSET S \subseteq G
<1> DEFINE R == StrictSubsetOrdering(S)
           B == (SUBSET S) \ G
<1>1. IsWellFoundedOn(R, SUBSET S)
  BY FS_StrictSubsetOrderingWellFounded, FS_FiniteSubsetsOfFinite
<1> SUFFICES ASSUME B # {} PROVE FALSE
  OBVIOUS
<1>2. B \subseteq SUBSET S
  OBVIOUS
<1>3. \E T \in B : \A U \in B : ~ (<<U, T>> \in R)
  <2> HIDE DEF B, R
  <2> QED BY <1>1, <1>2, WFMin
<1>4. PICK T \in B : \A U \in B : ~ (<<U, T>> \in R)
  BY <1>3
<1>5. \A U \in SUBSET T : U # T => U \in G
  BY <1>4 DEF StrictSubsetOrdering
<1> QED BY <1>4, <1>5

\* What the fold behind SumFunctionOnSet picks first of a set.
First(s) == CHOOSE x \in s : TRUE

Sums(f, S, g) ==
  g = [s \in SUBSET S |-> IF s = {} THEN 0 ELSE f[First(s)] + g[s \ {First(s)}]]

LEMMA SumIsFold ==
  ASSUME NEW f, NEW S
  PROVE  SumFunctionOnSet(f, S) = (CHOOSE g : Sums(f, S, g))[S]
BY DEF SumFunctionOnSet, FoldFunctionOnSet, MapThenFoldSet, Sums, First

LEMMA SumsAgree ==
  ASSUME NEW f, NEW S, NEW T, IsFiniteSet(S), T \subseteq S,
         NEW g, NEW h, Sums(f, S, g), Sums(f, T, h)
  PROVE  \A s \in SUBSET T : g[s] = h[s]
<1> DEFINE G == {s \in SUBSET T : g[s] = h[s]}
<1>1. IsFiniteSet(T)
  BY FS_Subset
<1>2. ASSUME NEW s \in SUBSET T, \A U \in SUBSET s : U # s => U \in G
      PROVE  s \in G
  <2>1. CASE s = {}
    BY <2>1 DEF Sums
  <2>2. CASE s # {}
    <3>1. First(s) \in s
      BY <2>2 DEF First
    <3>2. s \ {First(s)} \in G
      BY <1>2, <3>1
    <3>3. g[s \ {First(s)}] = h[s \ {First(s)}]
      BY <3>2
    <3>4. g[s] = f[First(s)] + g[s \ {First(s)}]
      BY <2>2 DEF Sums
    <3>5. h[s] = f[First(s)] + h[s \ {First(s)}]
      BY <2>2 DEF Sums
    <3> QED BY <3>3, <3>4, <3>5
  <2> QED BY <2>1, <2>2
<1>3. SUBSET T \subseteq G
  <2> HIDE DEF G
  <2> QED BY <1>1, <1>2, SubsetInduction
<1> QED BY <1>3

LEMMA SumsExist ==
  ASSUME NEW f, NEW S, IsFiniteSet(S)
  PROVE  \E g : Sums(f, S, g)
<1> DEFINE The(s) == CHOOSE g : Sums(f, s, g)
           V(s) == The(s)[s]
           G == {s \in SUBSET S : \E g : Sums(f, s, g)}
<1>1. ASSUME NEW T \in SUBSET S, \A U \in SUBSET T : U # T => U \in G
      PROVE  T \in G
  <2>1. ASSUME NEW s \in SUBSET T, s # T
        PROVE  V(s) = IF s = {} THEN 0 ELSE f[First(s)] + V(s \ {First(s)})
    <3>1. Sums(f, s, The(s))
      BY <1>1, <2>1
    <3>2. CASE s = {}
      BY <3>1, <3>2 DEF Sums
    <3>3. CASE s # {}
      <4>1. First(s) \in s
        BY <3>3 DEF First
      <4>2. s \ {First(s)} \in SUBSET T /\ s \ {First(s)} # T
        BY <2>1
      <4>3. Sums(f, s \ {First(s)}, The(s \ {First(s)}))
        BY <1>1, <4>2
      <4>4. V(s) = f[First(s)] + The(s)[s \ {First(s)}]
        BY <3>1, <3>3 DEF Sums
      <4>5. IsFiniteSet(s)
        BY FS_Subset
      <4> DEFINE rest == s \ {First(s)}
      <4> HIDE DEF The
      <4>6. rest \subseteq s /\ rest \in SUBSET rest
        OBVIOUS
      <4> HIDE DEF rest
      <4>7. \A u \in SUBSET rest : The(s)[u] = The(rest)[u]
        BY <3>1, <4>3, <4>5, <4>6, SumsAgree DEF rest
      <4>8. The(s)[rest] = The(rest)[rest]
        BY <4>6, <4>7
      <4> QED BY <3>3, <4>4, <4>8 DEF rest
    <3> QED BY <3>2, <3>3
  <2> HIDE DEF V
  <2> DEFINE h == [s \in SUBSET T |-> IF s # T THEN V(s)
                                      ELSE IF T = {} THEN 0 ELSE f[First(T)] + V(T \ {First(T)})]
  <2>2. ASSUME NEW s \in SUBSET T
        PROVE  h[s] = IF s = {} THEN 0 ELSE f[First(s)] + h[s \ {First(s)}]
    <3>1. CASE s = {}
      BY <3>1, <2>1
    <3>2. CASE s # {}
      <4>1. First(s) \in s
        BY <3>2 DEF First
      <4>2. s \ {First(s)} \in SUBSET T /\ s \ {First(s)} # T
        BY <4>1
      <4>3. h[s \ {First(s)}] = V(s \ {First(s)})
        BY <4>2
      <4>4. h[s] = f[First(s)] + V(s \ {First(s)})
        BY <3>2, <2>1
      <4> QED BY <3>2, <4>3, <4>4
    <3> QED BY <3>1, <3>2
  <2>3. Sums(f, T, h)
    BY <2>2 DEF Sums
  <2> QED BY <2>3
<1>2. SUBSET S \subseteq G
  <2> HIDE DEF G
  <2> QED BY <1>1, SubsetInduction
<1> QED BY <1>2

\* A set's sum is an element and the sum of the rest, as the fold takes it.
LEMMA SumUnfolds ==
  ASSUME NEW f, NEW T, IsFiniteSet(T)
  PROVE  SumFunctionOnSet(f, T) =
           IF T = {} THEN 0 ELSE f[First(T)] + SumFunctionOnSet(f, T \ {First(T)})
<1> DEFINE The(s) == CHOOSE g : Sums(f, s, g)
<1>1. \A s : IsFiniteSet(s) => Sums(f, s, The(s))
  BY SumsExist
<1>2. \A s : SumFunctionOnSet(f, s) = The(s)[s]
  BY SumIsFold
<1> HIDE DEF The
<1>3. CASE T = {}
  BY <1>1, <1>2, <1>3 DEF Sums
<1>4. CASE T # {}
  <2> DEFINE U == T \ {First(T)}
  <2>1. Sums(f, T, The(T)) /\ Sums(f, U, The(U))
    BY <1>1, FS_Subset
  <2>2. U \subseteq T /\ U \in SUBSET U
    OBVIOUS
  <2> HIDE DEF U
  <2>3. The(T)[U] = The(U)[U]
    <3>1. \A s \in SUBSET U : The(T)[s] = The(U)[s]
      BY <2>1, <2>2, SumsAgree
    <3> QED BY <2>2, <3>1
  <2>4. The(T)[T] = f[First(T)] + The(T)[U]
    BY <1>4, <2>1 DEF Sums, U
  <2> QED BY <1>2, <1>4, <2>3, <2>4 DEF U
<1> QED BY <1>3, <1>4

LEMMA SumType ==
  ASSUME NEW S, IsFiniteSet(S), NEW f \in [S -> Nat], NEW T \in SUBSET S
  PROVE  SumFunctionOnSet(f, T) \in Nat
<1>0. SumFunctionOnSet(f, {}) = 0
  BY SumUnfolds, FS_EmptySet
<1> DEFINE G == {s \in SUBSET S : SumFunctionOnSet(f, s) \in Nat}
<1>1. ASSUME NEW s \in SUBSET S, \A U \in SUBSET s : U # s => U \in G
      PROVE  s \in G
  <2>1. CASE s = {}
    BY <1>0, <2>1
  <2>2. CASE s # {}
    <3>1. First(s) \in s
      BY <2>2 DEF First
    <3>2. SumFunctionOnSet(f, s \ {First(s)}) \in Nat
      BY <1>1, <3>1
    <3>3. SumFunctionOnSet(f, s) = f[First(s)] + SumFunctionOnSet(f, s \ {First(s)})
      BY <2>2, SumUnfolds, FS_Subset
    <3> QED BY <3>1, <3>2, <3>3
  <2> QED BY <2>1, <2>2
<1>2. SUBSET S \subseteq G
  <2> HIDE DEF G
  <2> QED BY <1>1, SubsetInduction
<1> QED BY <1>2

\* Any element may be taken first.
LEMMA SumSplits ==
  ASSUME NEW S, IsFiniteSet(S), NEW f \in [S -> Nat], NEW T \in SUBSET S, NEW x \in T
  PROVE  SumFunctionOnSet(f, T) = f[x] + SumFunctionOnSet(f, T \ {x})
<1> DEFINE G == {s \in SUBSET S : \A y \in s : SumFunctionOnSet(f, s) = f[y] + SumFunctionOnSet(f, s \ {y})}
<1>1. ASSUME NEW s \in SUBSET S, \A U \in SUBSET s : U # s => U \in G
      PROVE  s \in G
  <2> SUFFICES ASSUME NEW y \in s
               PROVE  SumFunctionOnSet(f, s) = f[y] + SumFunctionOnSet(f, s \ {y})
    OBVIOUS
  <2> DEFINE p == First(s)
  <2>1. p \in s
    BY DEF First
  <2>2. SumFunctionOnSet(f, s) = f[p] + SumFunctionOnSet(f, s \ {p})
    BY SumUnfolds, FS_Subset
  <2> HIDE DEF p
  <2>3. CASE y = p
    BY <2>2, <2>3
  <2>4. CASE y # p
    <3>1. SumFunctionOnSet(f, s \ {p}) = f[y] + SumFunctionOnSet(f, (s \ {p}) \ {y})
      BY <1>1, <2>1, <2>4
    <3>2. SumFunctionOnSet(f, s \ {y}) = f[p] + SumFunctionOnSet(f, (s \ {y}) \ {p})
      BY <1>1, <2>1, <2>4
    <3>3. (s \ {p}) \ {y} = (s \ {y}) \ {p}
      OBVIOUS
    <3>4. PICK rest \in Nat : rest = SumFunctionOnSet(f, (s \ {y}) \ {p})
      BY SumType
    <3>5. f[y] \in Nat /\ f[p] \in Nat
      BY <2>1
    <3>6. f[p] + (f[y] + rest) = f[y] + (f[p] + rest)
      BY <3>5
    <3> QED BY <2>2, <3>1, <3>2, <3>3, <3>4, <3>6
  <2> QED BY <2>3, <2>4
<1>2. SUBSET S \subseteq G
  <2> HIDE DEF G
  <2> QED BY <1>1, SubsetInduction
<1> QED BY <1>2

\* A sum depends on the values at the elements alone.
LEMMA SumSame ==
  ASSUME NEW S, IsFiniteSet(S), NEW f, NEW g, \A x \in S : f[x] = g[x]
  PROVE  SumFunctionOnSet(f, S) = SumFunctionOnSet(g, S)
<1> DEFINE G == {s \in SUBSET S : SumFunctionOnSet(f, s) = SumFunctionOnSet(g, s)}
<1>1. ASSUME NEW s \in SUBSET S, \A U \in SUBSET s : U # s => U \in G
      PROVE  s \in G
  <2>1. CASE s = {}
    BY <2>1, SumUnfolds, FS_EmptySet
  <2>2. CASE s # {}
    <3>1. First(s) \in s
      BY <2>2 DEF First
    <3>2. SumFunctionOnSet(f, s \ {First(s)}) = SumFunctionOnSet(g, s \ {First(s)})
      BY <1>1, <3>1
    <3>3. SumFunctionOnSet(f, s) = f[First(s)] + SumFunctionOnSet(f, s \ {First(s)})
      BY <2>2, SumUnfolds, FS_Subset
    <3>4. SumFunctionOnSet(g, s) = g[First(s)] + SumFunctionOnSet(g, s \ {First(s)})
      BY <2>2, SumUnfolds, FS_Subset
    <3> QED BY <3>1, <3>2, <3>3, <3>4
  <2> QED BY <2>1, <2>2
<1>2. SUBSET S \subseteq G
  <2> HIDE DEF G
  <2> QED BY <1>1, SubsetInduction
<1> QED BY <1>2

\* One value changed.
LEMMA SumExcept ==
  ASSUME NEW S, IsFiniteSet(S), NEW f \in [S -> Nat], NEW x \in S, NEW v \in Nat
  PROVE  SumFunction([f EXCEPT ![x] = v]) = (SumFunction(f) - f[x]) + v
<1> DEFINE g == [f EXCEPT ![x] = v]
           R == S \ {x}
<1>1. g \in [S -> Nat] /\ DOMAIN f = S /\ DOMAIN g = S
  OBVIOUS
<1>2. SumFunctionOnSet(f, S) = f[x] + SumFunctionOnSet(f, R)
  BY SumSplits
<1>3. SumFunctionOnSet(g, S) = g[x] + SumFunctionOnSet(g, R)
  <2> HIDE DEF g
  <2> QED BY <1>1, SumSplits
<1>4. SumFunctionOnSet(f, R) = SumFunctionOnSet(g, R)
  <2>1. IsFiniteSet(R) /\ \A y \in R : f[y] = g[y]
    BY FS_Subset
  <2> HIDE DEF g, R
  <2> QED BY <2>1, SumSame
<1>5. SumFunctionOnSet(f, R) \in Nat
  BY SumType
<1>6. g[x] = v /\ f[x] \in Nat
  OBVIOUS
<1> QED BY <1>1, <1>2, <1>3, <1>4, <1>5, <1>6 DEF SumFunction

\* At the start no account holds anything.
LEMMA SumOfZeros ==
  ASSUME NEW S, IsFiniteSet(S)
  PROVE  SumFunction([a \in S |-> 0]) = 0
<1> DEFINE f == [a \in S |-> 0]
           G == {s \in SUBSET S : SumFunctionOnSet(f, s) = 0}
<1>1. ASSUME NEW s \in SUBSET S, \A U \in SUBSET s : U # s => U \in G
      PROVE  s \in G
  <2>1. IsFiniteSet(s)
    BY FS_Subset
  <2>2. CASE s = {}
    <3> HIDE DEF f
    <3>1. SumFunctionOnSet(f, s) = 0
      BY <2>1, <2>2, SumUnfolds
    <3> QED
      BY <3>1
  <2>3. CASE s # {}
    <3>1. First(s) \in s /\ f[First(s)] = 0
      BY <2>3 DEF First
    <3>2. SumFunctionOnSet(f, s \ {First(s)}) = 0
      BY <1>1, <3>1
    <3> HIDE DEF f
    <3>3. SumFunctionOnSet(f, s) = f[First(s)] + SumFunctionOnSet(f, s \ {First(s)})
      BY <2>1, <2>3, SumUnfolds
    <3> QED
      BY <3>1, <3>2, <3>3
  <2> QED
    BY <2>2, <2>3
<1>2. SUBSET S \subseteq G
  <2> HIDE DEF G
  <2> QED
    BY <1>1, SubsetInduction
<1>3. DOMAIN f = S /\ S \in SUBSET S
  OBVIOUS
<1> QED
  BY <1>2, <1>3 DEF SumFunction

\* No value exceeds the sum.
LEMMA SumBounds ==
  ASSUME NEW S, IsFiniteSet(S), NEW f \in [S -> Nat], NEW x \in S
  PROVE  f[x] <= SumFunction(f)
<1>1. DOMAIN f = S /\ f[x] \in Nat
  OBVIOUS
<1>2. SumFunctionOnSet(f, S) = f[x] + SumFunctionOnSet(f, S \ {x})
  BY SumSplits
<1>3. SumFunctionOnSet(f, S \ {x}) \in Nat
  BY SumType
<1> QED
  BY <1>1, <1>2, <1>3 DEF SumFunction

-----------------------------------------------------------------------------
(* The supply *)

\* Moving value between two accounts, or from one to itself, keeps the sum.
LEMMA UpdateKeepsSum ==
  ASSUME TokenType, NEW from \in Account, NEW to \in Account, NEW value \in 0..MaxUint,
         Update(from, to, value)
  PROVE  SumFunction(balances') = SumFunction(balances)
<1> DEFINE debited == [balances EXCEPT ![from] = balances[from] - value]
           held == balances[from] - value
           credit == debited[to] + value
<1>1. balances \in [Account -> Nat] /\ balances[from] \in Nat /\ value \in Nat
  BY TokenAssumption DEF TokenType
<1>2. held \in Nat /\ debited \in [Account -> Nat]
  BY <1>1 DEF Update
<1>3. debited[to] \in Nat /\ credit \in Nat
  BY <1>1, <1>2
<1>4. balances' = [debited EXCEPT ![to] = credit]
  BY DEF Update
<1>5. SumFunction(debited) = (SumFunction(balances) - balances[from]) + held
  <2>1. debited = [balances EXCEPT ![from] = held] /\ IsFiniteSet(Account)
    BY AdminAssumption
  <2> HIDE DEF debited
  <2>2. held \in Nat /\ balances \in [Account -> Nat] /\ IsFiniteSet(Account)
    BY <1>1, <1>2, AdminAssumption
  <2> HIDE DEF held
  <2>3. SumFunction([balances EXCEPT ![from] = held])
          = (SumFunction(balances) - balances[from]) + held
    BY <2>2, SumExcept
  <2> QED
    BY <2>1, <2>3
<1>6. SumFunction(balances') = (SumFunction(debited) - debited[to]) + credit
  <2> HIDE DEF debited, credit
  <2>1. SumFunction([debited EXCEPT ![to] = credit]) = (SumFunction(debited) - debited[to]) + credit
    BY <1>2, <1>3, AdminAssumption, SumExcept
  <2> QED
    BY <1>4, <2>1
<1>7. SumFunction(balances) \in Nat
  <2>1. DOMAIN balances = Account
    BY <1>1
  <2>2. SumFunctionOnSet(balances, Account) \in Nat
    BY <1>1, AdminAssumption, SumType
  <2> QED
    BY <2>1, <2>2 DEF SumFunction
<1>8. SumFunction(debited) = SumFunction(balances) - value
  BY <1>1, <1>5, <1>7
<1> HIDE DEF debited
<1> QED
  BY <1>1, <1>3, <1>6, <1>7, <1>8

LEMMA SupplyStep == TypeOK /\ SupplyIsBacked /\ [Next]_vars => SupplyIsBacked'
<1> SUFFICES ASSUME TypeOK, SupplyIsBacked, [Next]_vars
             PROVE  SupplyIsBacked'
  OBVIOUS
<1>1. CASE UNCHANGED tokenVars
  BY <1>1 DEF tokenVars, SupplyIsBacked
<1>2. CASE TokenNext
  <2>1. TokenType
    BY DEF TypeOK
  <2>2. ASSUME NEW sender, NEW to \in Account, NEW value \in 0..MaxUint, Mint(sender, to, value)
        PROVE  SupplyIsBacked'
    <3>1. /\ balances \in [Account -> Nat] /\ balances[to] \in Nat
          /\ value \in Nat /\ totalSupply \in Nat
      BY <2>1, TokenAssumption DEF TokenType
    <3>2. balances' = [balances EXCEPT ![to] = balances[to] + value]
      BY <2>2 DEF Mint
    <3>3. SumFunction(balances') = (SumFunction(balances) - balances[to]) + (balances[to] + value)
      <4> DEFINE credit == balances[to] + value
      <4>1. credit \in Nat /\ IsFiniteSet(Account)
        BY <3>1, AdminAssumption
      <4> HIDE DEF credit
      <4>2. SumFunction([balances EXCEPT ![to] = credit])
              = (SumFunction(balances) - balances[to]) + credit
        BY <3>1, <4>1, SumExcept
      <4> QED
        BY <3>2, <4>2 DEF credit
    <3>4. SumFunction(balances) = totalSupply /\ totalSupply' = totalSupply + value
      BY <2>2 DEF Mint, SupplyIsBacked
    <3> QED
      BY <3>1, <3>3, <3>4 DEF SupplyIsBacked
  <2>3. ASSUME NEW from \in Account, NEW to \in Account, NEW value \in 0..MaxUint,
               Update(from, to, value)
        PROVE  SupplyIsBacked'
    <3>1. totalSupply' = totalSupply
      BY <2>3 DEF Update
    <3> QED
      BY <2>1, <2>3, <3>1, UpdateKeepsSum DEF SupplyIsBacked
  <2>4. ASSUME NEW sender, NEW spender, NEW value, Approve(sender, spender, value)
        PROVE  SupplyIsBacked'
    BY <2>4 DEF Approve, SupplyIsBacked
  <2> QED
    BY <1>2, <2>2, <2>3, <2>4 DEF TokenNext, Transfer, TransferFrom
<1> QED
  BY <1>1, <1>2 DEF Next, vars

(***************************************************************************)
(* ERC20's bookkeeping under the token's own _update: whatever transactions*)
(* run, by whichever accounts and of whatever amounts, the balances of all *)
(* accounts add up to the supply.                                          *)
(***************************************************************************)
THEOREM SupplyAlwaysBacked == Spec => []SupplyIsBacked
<1>1. Init => SupplyIsBacked
  <2> SUFFICES ASSUME Init
               PROVE  SupplyIsBacked
    OBVIOUS
  <2>1. balances = [a \in Account |-> 0] /\ totalSupply = 0
    BY DEF Init, TokenInit
  <2> QED
    BY <2>1, AdminAssumption, SumOfZeros DEF SupplyIsBacked
<1>2. TypeOK /\ SupplyIsBacked /\ [Next]_vars => SupplyIsBacked'
  BY SupplyStep
<1> QED
  BY <1>1, <1>2, TypeCorrect, PTL DEF Spec

(***************************************************************************)
(* The additions of _update that OpenZeppelin leaves unchecked never wrap: *)
(* the model adds without a bound, and no balance ever leaves the word.    *)
(***************************************************************************)
THEOREM BalancesNeverWrap == Spec => [](balances \in [Account -> 0..MaxUint])
<1>1. TypeOK /\ SupplyIsBacked => balances \in [Account -> 0..MaxUint]
  <2> SUFFICES ASSUME TypeOK, SupplyIsBacked, NEW a \in Account
               PROVE  balances[a] \in 0..MaxUint
    BY DEF TypeOK, TokenType
  <2>1. balances \in [Account -> Nat] /\ totalSupply \in 0..MaxUint /\ balances[a] \in Nat
    BY DEF TypeOK, TokenType
  <2>2. balances[a] <= SumFunction(balances)
    BY <2>1, AdminAssumption, SumBounds
  <2> QED
    BY <2>1, <2>2, TokenAssumption DEF SupplyIsBacked
<1> QED
  BY <1>1, TypeCorrect, SupplyAlwaysBacked, PTL

-----------------------------------------------------------------------------
(* The HTTP API: its invariant *)

allVars == <<suiteVars, backendVars>>

Cutoffs == {"transport", "database", "crash"}
Refusals == {"request", "contract", "nonce"}

\* What the point a handler has reached says about its transaction: before
\* the send there is none, and a pooled one nobody waits for was cut off.
HandlersOK ==
  \A r \in Request :
    /\ pc[r] # "answered" => answer[r] = NoAnswer
    /\ pc[r] \in {"idle", "checking", "sending"} => fate[r] = "none"
    /\ pc[r] = "reading" => fate[r] = "executed"
    /\ fate[r] = "pooled" => pc[r] = "waiting" \/ answer[r].cause \in Cutoffs

\* A row is written after the wait and before the answer.
RowsOK ==
  \A r \in Request : r \in Elements(audit) => pc[r] \in {"reading", "answered"}

HandlerInv ==
  /\ BackendTypeOK
  /\ HandlersOK
  /\ RowsOK
  /\ AuditIsSound
  /\ UnloggedHasACause
  /\ RefusalsAreFinal

-----------------------------------------------------------------------------
(* Handlers and the log *)

\* Steps of one request r that leave the log alone: it is enough to look at
\* what becomes of r.
LEMMA OneRequest ==
  ASSUME HandlerInv, BackendTypeOK', UNCHANGED audit,
         NEW r \in Request,
         \A q \in Request \ {r} :
           body'[q] = body[q] /\ pc'[q] = pc[q] /\ fate'[q] = fate[q] /\ answer'[q] = answer[q],
         pc'[r] # "answered" => answer'[r] = NoAnswer,
         pc'[r] \in {"idle", "checking", "sending"} => fate'[r] = "none",
         pc'[r] = "reading" => fate'[r] = "executed",
         fate'[r] = "pooled" => pc'[r] = "waiting" \/ answer'[r].cause \in Cutoffs,
         answer'[r].cause \in Refusals => fate'[r] \notin {"pooled", "executed"},
         r \in Elements(audit) =>
           pc'[r] \in {"reading", "answered"} /\ fate'[r] = "executed" /\ body'[r] = body[r],
         answer'[r].status = 200 /\ body'[r].op = "transfer" => r \in Elements(audit),
         fate'[r] = "executed" /\ body'[r].op = "transfer" =>
           \/ r \in Elements(audit) \/ pc'[r] = "waiting" \/ answer'[r].cause \in Cutoffs
  PROVE  HandlerInv'
<1>1. Elements(audit)' = Elements(audit) /\ Elements(audit) \subseteq Request
  BY DEF HandlerInv, BackendTypeOK, Elements
<1>2. HandlersOK'
  BY DEF HandlerInv, HandlersOK
<1>3. RowsOK'
  BY <1>1 DEF HandlerInv, RowsOK
<1>4. AuditIsSound'
  <2>1. NoDuplicates(audit)'
    BY DEF HandlerInv, AuditIsSound, NoDuplicates
  <2>2. \A q \in Elements(audit)' : Executed(q, "transfer")'
    BY <1>1 DEF HandlerInv, AuditIsSound, Executed
  <2>3. \A q \in Request : Answered(q, "transfer")' => q \in Elements(audit)'
    BY <1>1 DEF HandlerInv, AuditIsSound, Answered
  <2> QED
    BY <2>1, <2>2, <2>3 DEF AuditIsSound
<1>5. UnloggedHasACause'
  BY <1>1 DEF HandlerInv, UnloggedHasACause, Executed, Cutoffs
<1>6. RefusalsAreFinal'
  BY DEF HandlerInv, RefusalsAreFinal, Refusals
<1> QED
  BY <1>2, <1>3, <1>4, <1>5, <1>6 DEF HandlerInv

\* Every reply a handler gives is a response.
LEMMA Replies ==
  ASSUME BackendTypeOK, NEW r \in Request,
         NEW status \in {0, 200, 400, 500},
         NEW cause \in {"none", "done", "request", "contract", "nonce",
                        "transport", "database", "crash"}
  PROVE  /\ Reply(r, status, cause) => pc' \in [Request -> Point] /\ answer' \in [Request -> Response]
         /\ \A where \in InFlight :
              Goto(r, where) => pc' \in [Request -> Point] /\ answer' \in [Request -> Response]
<1>1. [status |-> status, cause |-> cause] \in Response
  BY DEF Response
<1> HIDE DEF Response
<1>2. "answered" \in Point /\ InFlight \subseteq Point
  BY DEF Point
<1> QED
  BY <1>1, <1>2 DEF Reply, Goto, BackendTypeOK

LEMMA BackendTyped ==
  ASSUME BackendTypeOK, [BackendNext]_allVars
  PROVE  BackendTypeOK'
<1>1. CASE Script \/ UNCHANGED allVars
  BY <1>1 DEF Script, allVars, backendVars, requestVars, BackendTypeOK
<1>2. CASE Crash
  <2>1. pc' \in [Request -> Point]
    BY <1>2 DEF Crash, BackendTypeOK, Point
  <2>2. [status |-> 0, cause |-> "crash"] \in Response
    BY DEF Response
  <2>3. answer' \in [Request -> Response]
    BY <1>2, <2>2 DEF Crash, BackendTypeOK
  <2>4. losses' \in 0..MaxLosses
    BY <1>2, BackendAssumption DEF Crash, Lose, BackendTypeOK
  <2>5. fate' \in [Request -> Outcome]
    BY <1>2 DEF Crash, BackendTypeOK, Outcome
  <2> QED
    BY <1>2, <2>1, <2>3, <2>4, <2>5 DEF Crash, BackendTypeOK
<1>3. ASSUME NEW r \in Request,
             \/ \E b \in Body : Post(r, b)
             \/ Check(r) \/ Send(r) \/ Mine(r) \/ Refuse(r) \/ Confirm(r) \/ ReadBalances(r)
             \/ InsertFails(r) \/ LoseAnswer(r)
      PROVE  BackendTypeOK'
  <2>1. body' \in [Request -> Body \cup {NoBody}]
    BY <1>3 DEF Post, Check, Send, Mine, Refuse, Confirm, ReadBalances, InsertFails, LoseAnswer,
                BackendTypeOK
  <2>2. pc' \in [Request -> Point] /\ answer' \in [Request -> Response]
    <3>1. CASE UNCHANGED <<pc, answer>>
      BY <3>1 DEF BackendTypeOK
    <3>2. CASE \E where \in InFlight : Goto(r, where)
      BY <3>2, Replies
    <3>3. CASE \E status \in {200, 400, 500},
                  cause \in {"done", "request", "contract", "nonce", "transport", "database"} :
                 Reply(r, status, cause)
      BY <3>3, Replies
    <3> QED
      BY <1>3, <3>1, <3>2, <3>3 DEF Post, Check, Send, Mine, Refuse, Confirm, ReadBalances,
                                    InsertFails, LoseAnswer, InFlight
  <2>3. fate' \in [Request -> Outcome]
    <3>1. CASE UNCHANGED fate
      BY <3>1 DEF BackendTypeOK
    <3>2. CASE \E f \in Outcome : Fate(r, f)
      BY <3>2 DEF Fate, BackendTypeOK
    <3> QED
      BY <1>3, <3>1, <3>2 DEF Post, Check, Send, Mine, Refuse, Confirm, ReadBalances,
                              InsertFails, LoseAnswer, Outcome
  <2>4. audit' \in Seq(Request)
    BY <1>3 DEF Post, Check, Send, Mine, Refuse, Confirm, ReadBalances, InsertFails, LoseAnswer,
                BackendTypeOK
  <2>5. losses' \in 0..MaxLosses
    BY <1>3, BackendAssumption
       DEF Post, Check, Send, Mine, Refuse, Confirm, ReadBalances, InsertFails, LoseAnswer,
           Lose, BackendTypeOK
  <2> QED
    BY <2>1, <2>2, <2>3, <2>4, <2>5 DEF BackendTypeOK
<1> QED
  BY <1>1, <1>2, <1>3 DEF BackendNext

LEMMA HandlersStep ==
  ASSUME HandlerInv, [BackendNext]_allVars
  PROVE  HandlerInv'
<1>0. BackendTypeOK /\ BackendTypeOK'
  BY BackendTyped DEF HandlerInv
<1>1. CASE UNCHANGED <<body, pc, fate, answer, audit>>
  BY <1>0, <1>1 DEF HandlerInv, HandlersOK, RowsOK, AuditIsSound, UnloggedHasACause,
                    RefusalsAreFinal, Executed, Answered, Elements, NoDuplicates
<1>2. CASE Crash
  <2>1. Elements(audit)' = Elements(audit)
    BY <1>2 DEF Crash, Elements
  <2>2. \A r \in Request :
          /\ body'[r] = body[r]
          /\ fate'[r] = fate[r] \/ (pc[r] = "sending" /\ fate'[r] = "pooled")
          /\ \/ /\ pc[r] \in InFlight /\ pc'[r] = "answered"
                /\ answer'[r] = [status |-> 0, cause |-> "crash"]
             \/ pc[r] \notin InFlight /\ pc'[r] = pc[r] /\ answer'[r] = answer[r]
    BY <1>0, <1>2 DEF Crash, BackendTypeOK
  <2>3. HandlersOK'
    BY <2>2 DEF HandlerInv, HandlersOK, Cutoffs, InFlight
  <2>4. RowsOK'
    BY <2>1, <2>2 DEF HandlerInv, RowsOK
  <2>5. AuditIsSound'
    <3>1. NoDuplicates(audit)'
      BY <1>2 DEF Crash, HandlerInv, AuditIsSound, NoDuplicates
    <3>2. \A r \in Elements(audit)' : Executed(r, "transfer")'
      <4> SUFFICES ASSUME NEW r \in Elements(audit)
                   PROVE  Executed(r, "transfer")'
        BY <2>1
      <4>1. r \in Request
        BY <1>0 DEF Elements, BackendTypeOK
      <4>2. Executed(r, "transfer") /\ pc[r] # "sending"
        BY <4>1 DEF HandlerInv, RowsOK, AuditIsSound
      <4> QED
        BY <2>2, <4>1, <4>2 DEF HandlerInv, RowsOK, Executed
    <3>3. \A r \in Request : Answered(r, "transfer")' => r \in Elements(audit)'
      BY <2>1, <2>2 DEF HandlerInv, AuditIsSound, Answered
    <3> QED
      BY <3>1, <3>2, <3>3 DEF AuditIsSound
  <2>6. UnloggedHasACause'
    BY <2>1, <2>2 DEF HandlerInv, UnloggedHasACause, Executed
  <2>7. RefusalsAreFinal'
    BY <2>2 DEF HandlerInv, RefusalsAreFinal, InFlight
  <2> QED
    BY <1>0, <2>3, <2>4, <2>5, <2>6, <2>7 DEF HandlerInv
<1>3. ASSUME NEW r \in Request,
             \/ \E b \in Body : Post(r, b)
             \/ Check(r) \/ Send(r) \/ Mine(r) \/ Refuse(r) \/ ReadBalances(r)
             \/ InsertFails(r) \/ LoseAnswer(r)
      PROVE  HandlerInv'
  <2>1. /\ UNCHANGED audit
        /\ \A q \in Request \ {r} :
             body'[q] = body[q] /\ pc'[q] = pc[q] /\ fate'[q] = fate[q] /\ answer'[q] = answer[q]
    BY <1>0, <1>3 DEF Post, Check, Send, Mine, Refuse, ReadBalances, InsertFails, LoseAnswer,
                      Reply, Goto, Fate, BackendTypeOK
  <2>2. /\ pc[r] # "answered" => answer[r] = NoAnswer
        /\ pc[r] \in {"idle", "checking", "sending"} => fate[r] = "none"
        /\ pc[r] = "reading" => fate[r] = "executed"
        /\ fate[r] = "pooled" => pc[r] = "waiting" \/ answer[r].cause \in Cutoffs
        /\ answer[r].cause \in Refusals => fate[r] \notin {"pooled", "executed"}
        /\ r \in Elements(audit) =>
             pc[r] \in {"reading", "answered"} /\ fate[r] = "executed" /\ body[r].op = "transfer"
        /\ answer[r].status = 200 /\ body[r].op = "transfer" => r \in Elements(audit)
        /\ fate[r] = "executed" /\ body[r].op = "transfer" =>
             \/ r \in Elements(audit) \/ pc[r] = "waiting" \/ answer[r].cause \in Cutoffs
    BY DEF HandlerInv, HandlersOK, RowsOK, AuditIsSound, UnloggedHasACause, RefusalsAreFinal,
           Executed, Answered, Cutoffs, Refusals
  <2> USE DEF BackendTypeOK, NoAnswer, Cutoffs, Refusals
  <2>3. ASSUME NEW b \in Body, Post(r, b) PROVE HandlerInv'
    <3>1. /\ pc[r] = "idle" /\ body'[r] = b /\ fate'[r] = "none"
          /\ \/ pc'[r] = "answered" /\ answer'[r] = [status |-> 400, cause |-> "request"]
             \/ pc'[r] \in {"checking", "sending"} /\ answer'[r] = answer[r]
      BY <1>0, <2>2, <2>3 DEF Post, Reply, Goto
    <3> QED
      BY <1>0, <2>1, <2>2, <3>1, OneRequest
  <2>4. CASE Check(r)
    <3>1. /\ pc[r] = "checking" /\ body'[r] = body[r] /\ fate'[r] = "none"
          /\ \/ /\ body[r].op # "transfer"
                /\ pc'[r] = "answered" /\ answer'[r] = [status |-> 200, cause |-> "done"]
             \/ pc'[r] = "sending" /\ answer'[r] = answer[r]
      BY <1>0, <2>2, <2>4 DEF Check, AlreadyDone, Reply, Goto
    <3> QED
      BY <1>0, <2>1, <2>2, <3>1, OneRequest
  <2>5. CASE Send(r)
    <3>1. /\ pc[r] = "sending" /\ body'[r] = body[r]
          /\ \/ pc'[r] = "waiting" /\ fate'[r] = "pooled" /\ answer'[r] = answer[r]
             \/ /\ pc'[r] = "answered" /\ fate'[r] = "none"
                /\ answer'[r].status = 400 /\ answer'[r].cause \in Refusals
      BY <1>0, <2>2, <2>5 DEF Send, Reply, Goto, Fate
    <3> QED
      BY <1>0, <2>1, <2>2, <3>1, OneRequest
  <2>6. CASE Mine(r)
    <3>1. /\ fate[r] = "pooled" /\ fate'[r] \in {"executed", "reverted", "replaced"}
          /\ body'[r] = body[r] /\ pc'[r] = pc[r] /\ answer'[r] = answer[r]
      BY <1>0, <2>6 DEF Mine, Fate
    <3>2. pc[r] = "waiting" \/ answer[r].cause \in Cutoffs
      BY <2>2, <3>1
    <3>3. pc[r] \in {"waiting", "answered"}
      BY <1>0, <2>2, <3>1, <3>2 DEF InFlight
    <3>4. r \notin Elements(audit)
      BY <2>2, <3>1
    <3> QED
      BY <1>0, <2>1, <2>2, <3>1, <3>2, <3>3, <3>4, OneRequest
  <2>7. CASE Refuse(r)
    <3>1. /\ pc[r] = "waiting" /\ fate[r] \in {"reverted", "replaced"}
          /\ body'[r] = body[r] /\ fate'[r] = fate[r] /\ pc'[r] = "answered"
          /\ answer'[r].status = 400 /\ answer'[r].cause \in Refusals
      BY <1>0, <2>7 DEF Refuse, Reply
    <3> QED
      BY <1>0, <2>1, <2>2, <3>1, OneRequest
  <2>8. CASE ReadBalances(r)
    <3>1. /\ pc[r] = "reading" /\ body'[r] = body[r] /\ fate'[r] = fate[r]
          /\ pc'[r] = "answered" /\ answer'[r] = [status |-> 200, cause |-> "done"]
      BY <1>0, <2>8 DEF ReadBalances, Reply
    <3> QED
      BY <1>0, <2>1, <2>2, <3>1, OneRequest
  <2>9. CASE InsertFails(r)
    <3>1. /\ pc[r] = "waiting" /\ fate[r] = "executed"
          /\ body'[r] = body[r] /\ fate'[r] = fate[r]
          /\ pc'[r] = "answered" /\ answer'[r] = [status |-> 500, cause |-> "database"]
      BY <1>0, <2>9 DEF InsertFails, Reply
    <3> QED
      BY <1>0, <2>1, <2>2, <3>1, OneRequest
  <2>10. CASE LoseAnswer(r)
    <3>1. /\ pc[r] \in InFlight /\ body'[r] = body[r] /\ pc'[r] = "answered"
          /\ fate'[r] = fate[r] \/ (pc[r] = "sending" /\ fate'[r] = "pooled")
          /\ answer'[r].status # 200 /\ answer'[r].cause = "transport"
      BY <1>0, <2>10 DEF LoseAnswer, Reply, Fate
    <3> QED
      BY <1>0, <2>1, <2>2, <3>1, OneRequest DEF InFlight
  <2> QED
    BY <1>3, <2>3, <2>4, <2>5, <2>6, <2>7, <2>8, <2>9, <2>10
<1>4. ASSUME NEW r \in Request, Confirm(r) PROVE HandlerInv'
  <2>1. /\ pc[r] = "waiting" /\ fate[r] = "executed" /\ UNCHANGED <<body, fate>>
        /\ \A q \in Request \ {r} : pc'[q] = pc[q] /\ answer'[q] = answer[q]
    BY <1>0, <1>4 DEF Confirm, Reply, Goto, BackendTypeOK
  <2>2. answer[r] = NoAnswer /\ r \notin Elements(audit)
    BY <2>1 DEF HandlerInv, HandlersOK, RowsOK
  <2>3. CASE body[r].op # "transfer"
    <3>1. /\ UNCHANGED audit /\ body'[r] = body[r] /\ fate'[r] = "executed"
          /\ \/ pc'[r] = "answered" /\ answer'[r] = [status |-> 200, cause |-> "done"]
             \/ pc'[r] = "reading" /\ answer'[r] = NoAnswer
      BY <1>0, <1>4, <2>1, <2>2, <2>3 DEF Confirm, Reply, Goto, BackendTypeOK
    <3> QED
      BY <1>0, <2>1, <2>2, <2>3, <3>1, OneRequest DEF NoAnswer, Refusals, Cutoffs
  <2>4. CASE body[r].op = "transfer"
    <3>1. pc'[r] = "reading" /\ audit' = Append(audit, r) /\ UNCHANGED answer
      BY <1>0, <1>4, <2>4 DEF Confirm, Goto, BackendTypeOK
    <3>2. NoDuplicates(audit)' /\ Elements(audit)' = Elements(audit) \cup {r}
      <4>1. audit \in Seq(Request) /\ NoDuplicates(audit)
        BY <1>0 DEF HandlerInv, AuditIsSound, BackendTypeOK
      <4>2. NoDuplicates(Append(audit, r)) /\ Elements(Append(audit, r)) = Elements(audit) \cup {r}
        BY <2>2, <4>1, AppendFresh
      <4> QED
        BY <3>1, <4>2 DEF NoDuplicates, Elements
    <3>3. HandlersOK'
      BY <2>1, <2>2, <3>1 DEF HandlerInv, HandlersOK
    <3>4. RowsOK'
      BY <2>1, <3>1, <3>2 DEF HandlerInv, RowsOK
    <3>5. AuditIsSound'
      <4>1. \A q \in Elements(audit)' : Executed(q, "transfer")'
        BY <2>1, <2>4, <3>2 DEF HandlerInv, AuditIsSound, Executed
      <4>2. \A q \in Request : Answered(q, "transfer")' => q \in Elements(audit)'
        BY <2>1, <3>1, <3>2 DEF HandlerInv, AuditIsSound, Answered
      <4> QED
        BY <3>2, <4>1, <4>2 DEF AuditIsSound
    <3>6. UnloggedHasACause'
      BY <2>1, <3>1, <3>2 DEF HandlerInv, UnloggedHasACause, Executed
    <3>7. RefusalsAreFinal'
      BY <2>1, <3>1 DEF HandlerInv, RefusalsAreFinal
    <3> QED
      BY <1>0, <3>3, <3>4, <3>5, <3>6, <3>7 DEF HandlerInv
  <2> QED
    BY <2>3, <2>4
<1>5. CASE Script \/ UNCHANGED allVars
  BY <1>1, <1>5 DEF Script, allVars, backendVars, requestVars
<1> QED
  BY <1>2, <1>3, <1>4, <1>5 DEF BackendNext

LEMMA HandlersInit == BackendInit => HandlerInv
<1> SUFFICES ASSUME BackendInit PROVE HandlerInv
  OBVIOUS
<1>1. BackendTypeOK
  BY BackendAssumption DEF BackendInit, BackendTypeOK, NoAnswer, Response, Point, Outcome
<1>2. Elements(audit) = {} /\ NoDuplicates(audit)
  BY DEF BackendInit, Elements, NoDuplicates
<1> QED
  BY <1>1, <1>2 DEF BackendInit, HandlerInv, HandlersOK, RowsOK, AuditIsSound, UnloggedHasACause,
                    RefusalsAreFinal, Executed, Answered, NoAnswer

LEMMA HandlerInvariance == BackendSpec => []HandlerInv
<1>1. HandlerInv /\ [BackendNext]_<<suiteVars, backendVars>> => HandlerInv'
  BY HandlersStep DEF allVars
<1> QED
  BY <1>1, HandlersInit, PTL DEF BackendSpec

(***************************************************************************)
(* The audit log has only executed transfers, each once, and every one a   *)
(* caller was told of, however handlers, blocks and losses interleave.     *)
(***************************************************************************)
THEOREM AuditAlwaysSound == BackendSpec => []AuditIsSound
<1>1. HandlerInv => AuditIsSound
  BY DEF HandlerInv
<1> QED
  BY <1>1, HandlerInvariance, PTL

(***************************************************************************)
(* Only a handler cut off by a crash, a lost answer or a failed insert     *)
(* leaves an executed transfer without a row.                              *)
(***************************************************************************)
THEOREM UnloggedAlwaysHasACause == BackendSpec => []UnloggedHasACause
<1>1. HandlerInv => UnloggedHasACause
  BY DEF HandlerInv
<1> QED
  BY <1>1, HandlerInvariance, PTL

(***************************************************************************)
(* A refusal by the route, the contract or the nonce is final.             *)
(***************************************************************************)
THEOREM RefusalsAlwaysFinal == BackendSpec => []RefusalsAreFinal
<1>1. HandlerInv => RefusalsAreFinal
  BY DEF HandlerInv
<1> QED
  BY <1>1, HandlerInvariance, PTL

-----------------------------------------------------------------------------
(* The chain behind the API *)

\* What executes is one of the calls ServiceSpec allows, and has its effect.
LEMMA ExecutesServes ==
  ASSUME ServiceInv, NEW b \in Body \cup ScriptBody \cup {NoBody}, Executes(b)
  PROVE  /\ ServiceNext
         /\ b.op = "registerIdentity" => IsRegistered(b.to)'
         /\ b.op = "issueClaim" => IsVerified(b.to)'
<1>1. b # NoBody
  BY DEF Executes, NoBody
<1>2. /\ b.from \in Account /\ b.to \in Account /\ b.amount \in 0..MaxUint
      /\ b.op \in {"registerIdentity", "issueClaim"} => b.to \in Wallet
  BY <1>1, BackendAssumption
<1>3. UNCHANGED <<owner, topicsVars, issuersVars>>
  BY DEF Executes
<1>4. CASE b.op = "registerIdentity"
  <2>1. RegisterIdentity(Admin, b.to) /\ UNCHANGED tokenVars
    BY <1>4 DEF Executes
  <2>2. registered \in [Wallet -> BOOLEAN]
    BY DEF ServiceInv, TypeOK, StorageType
  <2>3. registered'[b.to]
    BY <1>2, <1>4, <2>1, <2>2 DEF RegisterIdentity, StorageRegister, storageVars
  <2> QED
    BY <1>2, <1>3, <1>4, <2>1, <2>3 DEF ServiceNext, IsRegistered
<1>5. CASE b.op = "issueClaim"
  <2>1. IssueClaim(Admin, b.to, KYC_TOPIC) /\ UNCHANGED tokenVars
    BY <1>5 DEF Executes
  <2>2. registered'[b.to] /\ KYC_TOPIC \in claims'[b.to]
    BY <1>2, <1>5, <2>1 DEF IssueClaim, StorageSetClaim, ServiceInv, TypeOK, StorageType
  <2>3. topics' = <<KYC_TOPIC>>
    BY <1>3 DEF ServiceInv, topicsVars
  <2> QED
    BY <1>2, <1>3, <1>5, <2>1, <2>2, <2>3 DEF ServiceNext, IsRegistered, IsVerified
<1>6. CASE b.op = "mint"
  BY <1>2, <1>3, <1>6 DEF Executes, ServiceNext
<1>7. CASE b.op = "transfer"
  BY <1>2, <1>3, <1>7 DEF Executes, ServiceNext
<1> QED
  BY <1>4, <1>5, <1>6, <1>7 DEF Executes

LEMMA BackendServes ==
  ASSUME ServiceInv, BackendTypeOK, [BackendNext]_allVars
  PROVE  [ServiceNext]_vars
<1>1. CASE Script
  BY <1>1, ExecutesServes DEF Script
<1>2. ASSUME NEW r \in Request, Mine(r)
      PROVE  [ServiceNext]_vars
  <2>1. body[r] \in Body \cup {NoBody}
    BY DEF BackendTypeOK
  <2> QED
    BY <1>2, <2>1, ExecutesServes DEF Mine, suiteVars
<1>3. CASE Crash \/ UNCHANGED allVars
  BY <1>3 DEF Crash, allVars, suiteVars
<1>4. ASSUME NEW r \in Request,
             \/ \E b \in Body : Post(r, b)
             \/ Check(r) \/ Send(r) \/ Refuse(r) \/ Confirm(r) \/ ReadBalances(r)
             \/ InsertFails(r) \/ LoseAnswer(r)
      PROVE  UNCHANGED vars
  BY <1>4 DEF Post, Check, Send, Refuse, Confirm, ReadBalances, InsertFails, LoseAnswer, suiteVars
<1> QED
  BY <1>1, <1>2, <1>3, <1>4 DEF BackendNext

\* Along the services' paths a registration is for good.
LEMMA RegistrationsStay ==
  ASSUME ServiceInv, [ServiceNext]_vars, NEW a, IsRegistered(a)
  PROVE  IsRegistered(a)'
<1>1. a \in Wallet /\ registered[a] /\ registered \in [Wallet -> BOOLEAN]
  BY DEF IsRegistered, ServiceInv, TypeOK, StorageType
<1>2. registered'[a]
  BY <1>1 DEF ServiceNext, RegisterIdentity, StorageRegister, IssueClaim, StorageSetClaim,
              storageVars, vars
<1> QED
  BY <1>1, <1>2 DEF IsRegistered

LEMMA VerificationsStay ==
  ASSUME ServiceInv, [ServiceNext]_vars, NEW a, IsVerified(a)
  PROVE  IsVerified(a)'
<1>1. a \in Account
  BY RegistryAssumption DEF IsVerified, IsRegistered
<1>2. CASE UNCHANGED vars
  BY <1>2 DEF vars, topicsVars, storageVars, IsVerified, IsRegistered
<1> QED
  BY <1>1, <1>2, ServiceSteps

\* An executed call has had its effect, whether or not its caller knows.
TruthInv ==
  /\ ServiceInv
  /\ HandlerInv
  /\ \A r \in Request :
       /\ Executed(r, "registerIdentity") => IsRegistered(body[r].to)
       /\ Executed(r, "issueClaim") => IsVerified(body[r].to)
  /\ AnswersAreTrue

LEMMA TruthStep ==
  ASSUME TruthInv, [BackendNext]_allVars
  PROVE  TruthInv'
<1>1. BackendTypeOK /\ HandlersOK /\ ServiceInv
  BY DEF TruthInv, HandlerInv
<1>2. [ServiceNext]_vars /\ HandlerInv'
  BY <1>1, BackendServes, HandlersStep DEF TruthInv
<1>3. ServiceInv'
  BY <1>1, <1>2, ServiceStep
<1>4. \A a : (IsRegistered(a) => IsRegistered(a)') /\ (IsVerified(a) => IsVerified(a)')
  BY <1>1, <1>2, RegistrationsStay, VerificationsStay
<1>5. ASSUME NEW r \in Request
      PROVE  /\ Executed(r, "registerIdentity")' => IsRegistered(body[r].to)'
             /\ Executed(r, "issueClaim")' => IsVerified(body[r].to)'
  <2>1. CASE body'[r] = body[r] /\ fate'[r] = fate[r]
    BY <1>4, <2>1 DEF TruthInv, Executed
  <2>2. CASE body'[r] # body[r]
    <3>1. PICK b \in Body : Post(r, b)
      BY <1>1, <2>2 DEF BackendNext, allVars, backendVars, requestVars, Script, Crash, Post, Check,
                  Send, Mine, Refuse, Confirm, ReadBalances, InsertFails, LoseAnswer, BackendTypeOK
    <3>2. fate'[r] = "none"
      BY <1>1, <3>1 DEF Post, HandlersOK
    <3> QED
      BY <3>2 DEF Executed
  <2>3. CASE body'[r] = body[r] /\ fate'[r] # fate[r]
    <3>1. CASE Mine(r) /\ fate'[r] = "executed"
      <4>1. Executes(body[r]) /\ body[r] \in Body \cup {NoBody}
        BY <1>1, <3>1 DEF Mine, Fate, BackendTypeOK
      <4> QED
        BY <1>1, <2>3, <4>1, ExecutesServes DEF Executed
    <3>2. CASE fate'[r] # "executed"
      BY <3>2 DEF Executed
    <3> QED
      BY <1>1, <2>3, <3>1, <3>2
         DEF BackendNext, allVars, backendVars, requestVars, Script, Crash, Post, Check, Send, Mine,
             Refuse, Confirm, ReadBalances, InsertFails, LoseAnswer, Fate, BackendTypeOK
  <2> QED
    BY <2>1, <2>2, <2>3
<1>6. ASSUME NEW r \in Request
      PROVE  /\ Answered(r, "registerIdentity")' => IsRegistered(body[r].to)'
             /\ Answered(r, "issueClaim")' => IsVerified(body[r].to)'
  <2>1. CASE answer'[r] = answer[r]
    <3>1. CASE body'[r] = body[r]
      BY <1>4, <2>1, <3>1 DEF TruthInv, AnswersAreTrue, Answered
    <3>2. CASE body'[r] # body[r]
      <4>1. pc[r] = "idle"
        BY <1>1, <3>2 DEF BackendNext, allVars, backendVars, requestVars, Script, Crash, Post, Check,
                    Send, Mine, Refuse, Confirm, ReadBalances, InsertFails, LoseAnswer, BackendTypeOK
      <4>2. answer'[r].status = 0
        BY <1>1, <2>1, <4>1 DEF HandlersOK, NoAnswer
      <4> QED
        BY <4>2 DEF Answered
    <3> QED
      BY <3>1, <3>2
  <2>2. CASE answer'[r] # answer[r] /\ answer'[r].status = 200
    <3>1. body'[r] = body[r] /\ (Check(r) \/ Confirm(r) \/ ReadBalances(r))
      BY <1>1, <2>2 DEF BackendNext, allVars, backendVars, requestVars, Script, Crash, Post, Check,
                  Send, Mine, Refuse, Confirm, ReadBalances, InsertFails, LoseAnswer, Reply, Goto,
                  BackendTypeOK
    <3>2. CASE Check(r)
      <4>1. AlreadyDone(body[r])
        BY <2>2, <3>2 DEF Check, Goto
      <4> QED
        BY <1>4, <3>1, <4>1 DEF AlreadyDone, Answered
    <3>3. CASE Confirm(r) \/ ReadBalances(r)
      <4>1. fate[r] = "executed"
        BY <1>1, <3>3 DEF Confirm, ReadBalances, HandlersOK
      <4> QED
        BY <1>4, <3>1, <4>1 DEF TruthInv, Executed, Answered
    <3> QED
      BY <3>1, <3>2, <3>3
  <2> QED
    BY <2>1, <2>2 DEF Answered
<1> QED
  BY <1>2, <1>3, <1>5, <1>6 DEF TruthInv, AnswersAreTrue

LEMMA TruthInvariance == BackendSpec => []TruthInv
<1>1. BackendInit => TruthInv
  BY HandlersInit, ServiceInit
     DEF BackendInit, TruthInv, AnswersAreTrue, Executed, Answered, NoAnswer
<1>2. TruthInv /\ [BackendNext]_<<suiteVars, backendVars>> => TruthInv'
  BY TruthStep DEF allVars
<1> QED
  BY <1>1, <1>2, PTL DEF BackendSpec

(***************************************************************************)
(* The routes, the services and the scripts drive the chain along          *)
(* ServiceSpec, so every theorem about ServiceSpec is one about the API.   *)
(***************************************************************************)
THEOREM ApiRefinesServices == BackendSpec => ChainSeesServices
<1>1. BackendInit => Init
  BY DEF BackendInit
<1>2. TruthInv /\ [BackendNext]_<<suiteVars, backendVars>> => [ServiceNext]_vars
  BY BackendServes DEF TruthInv, HandlerInv, allVars
<1> QED
  BY <1>1, <1>2, TruthInvariance, PTL DEF BackendSpec, ChainSeesServices, ServiceSpec

(***************************************************************************)
(* A 200 of the onboarding routes tells the truth about the chain, then    *)
(* and in every later state.                                               *)
(***************************************************************************)
THEOREM AnswersAlwaysTrue == BackendSpec => []AnswersAreTrue
<1>1. TruthInv => AnswersAreTrue
  BY DEF TruthInv
<1> QED
  BY <1>1, TruthInvariance, PTL

-----------------------------------------------------------------------------
(* The log and the balances *)

\* One element more; the function need not be known elsewhere.
LEMMA SumAdds ==
  ASSUME NEW T, IsFiniteSet(T), NEW x, x \notin T, NEW f, \A y \in T \cup {x} : f[y] \in Nat
  PROVE  /\ SumFunctionOnSet(f, T \cup {x}) = f[x] + SumFunctionOnSet(f, T)
         /\ SumFunctionOnSet(f, T) \in Nat
<1> DEFINE U == T \cup {x}
           g == [y \in U |-> f[y]]
<1>1. IsFiniteSet(U) /\ T \in SUBSET U /\ U \in SUBSET U /\ x \in U /\ U \ {x} = T
  BY FS_AddElement
<1>2. g \in [U -> Nat] /\ \A y \in U : g[y] = f[y]
  OBVIOUS
<1> HIDE DEF g, U
<1>3. SumFunctionOnSet(g, U) = g[x] + SumFunctionOnSet(g, T)
  BY <1>1, <1>2, SumSplits
<1>4. SumFunctionOnSet(g, U) = SumFunctionOnSet(f, U)
  BY <1>1, <1>2, SumSame
<1>5. SumFunctionOnSet(g, T) = SumFunctionOnSet(f, T)
  BY <1>1, <1>2, SumSame
<1>6. SumFunctionOnSet(g, T) \in Nat
  BY <1>1, <1>2, SumType
<1> QED
  BY <1>1, <1>2, <1>3, <1>4, <1>5, <1>6 DEF U

LEMMA UpdateMoves ==
  ASSUME TokenType, NEW from \in Account, NEW to \in Account, NEW value \in 0..MaxUint,
         Update(from, to, value), NEW a \in Account
  PROVE  /\ balances'[a] + (IF a = from THEN value ELSE 0) = balances[a] + (IF a = to THEN value ELSE 0)
         /\ balances'[a] \in Nat
<1>1. balances \in [Account -> Nat] /\ value \in Nat /\ balances[a] \in Nat /\ balances[from] \in Nat
  BY TokenAssumption DEF TokenType
<1> QED
  BY <1>1 DEF Update

\* What executed moves: the transfers out of an account, those into it, and
\* the mints to it.
Sent(a) == {r \in Request : Executed(r, "transfer") /\ body[r].from = a}
Received(a) == {r \in Request : Executed(r, "transfer") /\ body[r].to = a}
Minted(a) == {r \in Request : Executed(r, "mint") /\ body[r].to = a}

LedgerOK ==
  \A a \in Account : balances[a] + AmountOf(Sent(a)) = AmountOf(Received(a)) + AmountOf(Minted(a))

\* What a reply tells of the call.
RepliesOK ==
  \A r \in Request :
    /\ pc[r] = "answered" => answer[r].cause # "none"
    /\ answer[r].cause = "done" <=> answer[r].status = 200
    /\ answer[r].cause = "done" /\ body[r].op \in {"mint", "transfer"} => fate[r] = "executed"
    /\ losses = 0 => answer[r].cause \notin Cutoffs

Started == {r \in Request : pc[r] # "idle"}

LedgerInv ==
  /\ TruthInv
  /\ IsFiniteSet(Started)
  /\ RepliesOK
  /\ ScriptsOnboard => LedgerOK

LEMMA AmountTypes ==
  ASSUME BackendTypeOK, NEW r \in Request
  PROVE  body[r].amount \in Nat /\ body[r].amount \in 0..MaxUint /\ body[r].from \in Account /\ body[r].to \in Account
BY BackendAssumption, TokenAssumption, AdminAssumption DEF BackendTypeOK, NoBody

LEMMA ExecutedAreFinite ==
  ASSUME HandlersOK, IsFiniteSet(Started), NEW a
  PROVE  IsFiniteSet(Sent(a)) /\ IsFiniteSet(Received(a)) /\ IsFiniteSet(Minted(a))
<1>1. Sent(a) \subseteq Started /\ Received(a) \subseteq Started /\ Minted(a) \subseteq Started
  BY DEF Sent, Received, Minted, Started, Executed, HandlersOK
<1> QED
  BY <1>1, FS_Subset

\* Who has executed what stays the same unless a block takes something up.
LEMMA LedgerStays ==
  ASSUME HandlersOK, BackendTypeOK, BackendTypeOK', IsFiniteSet(Started), LedgerOK,
         UNCHANGED balances,
         \A r \in Request : /\ fate'[r] = "executed" <=> fate[r] = "executed"
                            /\ fate[r] = "executed" => body'[r] = body[r]
  PROVE  LedgerOK'
<1> SUFFICES ASSUME NEW a \in Account
             PROVE  balances[a] + AmountOf(Sent(a))' = AmountOf(Received(a))' + AmountOf(Minted(a))'
  BY DEF LedgerOK
<1>1. Sent(a)' = Sent(a) /\ Received(a)' = Received(a) /\ Minted(a)' = Minted(a)
  BY DEF Sent, Received, Minted, Executed
<1>2. ASSUME NEW R \in {Sent(a), Received(a), Minted(a)}
      PROVE  SumFunctionOnSet([r \in Request |-> body'[r].amount], R) = AmountOf(R)
  <2> DEFINE f == [r \in Request |-> body'[r].amount]
             g == [r \in Request |-> body[r].amount]
  <2>1. IsFiniteSet(R)
    BY ExecutedAreFinite
  <2>2. \A r \in R : f[r] = g[r]
    BY DEF Sent, Received, Minted, Executed
  <2> HIDE DEF f, g
  <2>3. SumFunctionOnSet(f, R) = SumFunctionOnSet(g, R)
    BY <2>1, <2>2, SumSame
  <2> QED
    BY <2>3 DEF f, g, AmountOf
<1>3. /\ AmountOf(Sent(a))' = AmountOf(Sent(a))
      /\ AmountOf(Received(a))' = AmountOf(Received(a))
      /\ AmountOf(Minted(a))' = AmountOf(Minted(a))
  BY <1>1, <1>2 DEF AmountOf
<1> QED
  BY <1>3 DEF LedgerOK

\* A block executes the call of r: what it moves is added to both sides.
LEMMA LedgerMoves ==
  ASSUME TruthInv, BackendTypeOK', IsFiniteSet(Started), LedgerOK, NEW r \in Request,
         fate[r] = "pooled", Executes(body[r]), Fate(r, "executed"), UNCHANGED body
  PROVE  LedgerOK'
<1> SUFFICES ASSUME NEW a \in Account
             PROVE  balances'[a] + AmountOf(Sent(a))' = AmountOf(Received(a))' + AmountOf(Minted(a))'
  BY DEF LedgerOK
<1> DEFINE f == [q \in Request |-> body[q].amount]
           b == body[r]
<1>1. BackendTypeOK /\ HandlersOK /\ TokenType
  BY DEF TruthInv, HandlerInv, ServiceInv, TypeOK
<1>2. /\ b.from \in Account /\ b.to \in Account /\ b.amount \in 0..MaxUint
      /\ \A q \in Request : f[q] \in Nat
  BY <1>1, AmountTypes
<1>3. /\ IsFiniteSet(Sent(a)) /\ IsFiniteSet(Received(a)) /\ IsFiniteSet(Minted(a))
      /\ Sent(a) \subseteq Request /\ Received(a) \subseteq Request /\ Minted(a) \subseteq Request
      /\ r \notin Sent(a) /\ r \notin Received(a) /\ r \notin Minted(a)
  BY <1>1, ExecutedAreFinite DEF Sent, Received, Minted, Executed
<1>4. fate'[r] = "executed" /\ \A q \in Request : q # r => fate'[q] = fate[q]
  BY <1>1 DEF Fate, BackendTypeOK
<1>5. /\ Sent(a)' = IF b.op = "transfer" /\ b.from = a THEN Sent(a) \cup {r} ELSE Sent(a)
      /\ Received(a)' = IF b.op = "transfer" /\ b.to = a THEN Received(a) \cup {r} ELSE Received(a)
      /\ Minted(a)' = IF b.op = "mint" /\ b.to = a THEN Minted(a) \cup {r} ELSE Minted(a)
  BY <1>3, <1>4 DEF Sent, Received, Minted, Executed
<1>6. f[r] = b.amount
  OBVIOUS
<1>7. /\ AmountOf(Sent(a)) = SumFunctionOnSet(f, Sent(a))
      /\ AmountOf(Received(a)) = SumFunctionOnSet(f, Received(a))
      /\ AmountOf(Minted(a)) = SumFunctionOnSet(f, Minted(a))
      /\ AmountOf(Sent(a))' = SumFunctionOnSet(f, Sent(a)')
      /\ AmountOf(Received(a))' = SumFunctionOnSet(f, Received(a)')
      /\ AmountOf(Minted(a))' = SumFunctionOnSet(f, Minted(a)')
  BY DEF AmountOf
<1> HIDE DEF f, b
<1>8. ASSUME NEW R \in {Sent(a), Received(a), Minted(a)}
      PROVE  /\ SumFunctionOnSet(f, R \cup {r}) = b.amount + SumFunctionOnSet(f, R)
             /\ SumFunctionOnSet(f, R) \in Nat
  <2>1. IsFiniteSet(R) /\ r \notin R /\ \A q \in R \cup {r} : f[q] \in Nat
    BY <1>2, <1>3
  <2> QED
    BY <1>6, <2>1, SumAdds
<1> DEFINE s == SumFunctionOnSet(f, Sent(a))
           c == SumFunctionOnSet(f, Received(a))
           m == SumFunctionOnSet(f, Minted(a))
<1>9. s \in Nat /\ c \in Nat /\ m \in Nat
  BY <1>8
<1>10. balances[a] + s = c + m
  BY <1>7 DEF LedgerOK
<1>11. balances[a] \in Nat /\ b.amount \in Nat
  BY <1>1, <1>2, TokenAssumption DEF TokenType
<1>12. CASE b.op \in {"registerIdentity", "issueClaim"}
  <2>1. UNCHANGED balances
    BY <1>12 DEF Executes, tokenVars, b
  <2> QED
    BY <1>5, <1>7, <1>10, <1>12, <2>1
<1>13. CASE b.op = "mint"
  <2>1. Mint(Admin, b.to, b.amount)
    BY <1>13 DEF Executes, b
  <2>2. balances'[a] = balances[a] + (IF b.to = a THEN b.amount ELSE 0)
    BY <1>1, <1>2, <1>11, <2>1 DEF Mint, TokenType
  <2>3. /\ AmountOf(Sent(a))' = s /\ AmountOf(Received(a))' = c
        /\ AmountOf(Minted(a))' = m + (IF b.to = a THEN b.amount ELSE 0)
    <3>1. SumFunctionOnSet(f, Minted(a) \cup {r}) = b.amount + m
      BY <1>8
    <3> HIDE DEF s, c, m
    <3>2. b.amount + m = m + b.amount /\ m + 0 = m
      BY <1>9, <1>11
    <3> QED
      BY <1>5, <1>7, <1>13, <3>1, <3>2 DEF s, c, m
  <2> HIDE DEF s, c, m
  <2> QED
    BY <1>9, <1>10, <1>11, <2>2, <2>3
<1>14. CASE b.op = "transfer"
  <2>1. Update(b.from, b.to, b.amount)
    BY <1>14 DEF Executes, Transfer, b
  <2>2. balances'[a] + (IF a = b.from THEN b.amount ELSE 0)
          = balances[a] + (IF a = b.to THEN b.amount ELSE 0)
       /\ balances'[a] \in Nat
    BY <1>1, <1>2, <2>1, UpdateMoves
  <2>3. /\ AmountOf(Sent(a))' = s + (IF a = b.from THEN b.amount ELSE 0)
        /\ AmountOf(Received(a))' = c + (IF a = b.to THEN b.amount ELSE 0)
        /\ AmountOf(Minted(a))' = m
    <3>1. /\ SumFunctionOnSet(f, Sent(a) \cup {r}) = b.amount + s
          /\ SumFunctionOnSet(f, Received(a) \cup {r}) = b.amount + c
      BY <1>8
    <3> HIDE DEF s, c, m
    <3>2. b.amount + s = s + b.amount /\ s + 0 = s /\ b.amount + c = c + b.amount /\ c + 0 = c
      BY <1>9, <1>11
    <3> QED
      BY <1>5, <1>7, <1>14, <3>1, <3>2 DEF s, c, m
  <2> HIDE DEF s, c, m
  <2> QED
    BY <1>9, <1>10, <1>11, <2>2, <2>3
<1> QED
  BY <1>12, <1>13, <1>14 DEF Executes, b

LEMMA LedgerStep ==
  ASSUME LedgerInv, ScriptsOnboard, [BackendNext]_allVars
  PROVE  LedgerOK'
<1>1. BackendTypeOK /\ HandlersOK /\ TruthInv /\ IsFiniteSet(Started) /\ LedgerOK
  BY DEF LedgerInv, TruthInv, HandlerInv
<1>2. BackendTypeOK'
  BY <1>1, BackendTyped
<1>3. CASE Script
  <2>1. UNCHANGED <<balances, body, fate>>
    BY <1>3 DEF Script, ScriptsOnboard, Executes, tokenVars, backendVars, requestVars
  <2> QED
    BY <1>1, <1>2, <2>1, LedgerStays
<1>4. CASE Crash \/ UNCHANGED allVars
  <2>1. UNCHANGED <<balances, body>>
    BY <1>4 DEF Crash, allVars, suiteVars, vars, tokenVars, backendVars, requestVars
  <2>2. \A r \in Request : fate'[r] = "executed" <=> fate[r] = "executed"
    BY <1>1, <1>4 DEF Crash, HandlersOK, allVars, backendVars, requestVars, BackendTypeOK
  <2> QED
    BY <1>1, <1>2, <2>1, <2>2, LedgerStays
<1>5. ASSUME NEW r \in Request,
             \/ \E b \in Body : Post(r, b)
             \/ Check(r) \/ Send(r) \/ Refuse(r) \/ Confirm(r) \/ ReadBalances(r)
             \/ InsertFails(r) \/ LoseAnswer(r)
      PROVE  LedgerOK'
  <2>1. UNCHANGED balances
    BY <1>5 DEF Post, Check, Send, Refuse, Confirm, ReadBalances, InsertFails, LoseAnswer, suiteVars,
                vars, tokenVars
  <2>2. \A q \in Request : q # r => fate'[q] = fate[q] /\ body'[q] = body[q]
    BY <1>1, <1>5 DEF Post, Check, Send, Refuse, Confirm, ReadBalances, InsertFails, LoseAnswer, Fate,
                      BackendTypeOK
  <2>3. /\ fate'[r] = "executed" <=> fate[r] = "executed"
        /\ fate[r] = "executed" => body'[r] = body[r]
    BY <1>1, <1>5 DEF Post, Check, Send, Refuse, Confirm, ReadBalances, InsertFails, LoseAnswer, Fate,
                      BackendTypeOK, HandlersOK, InFlight
  <2> QED
    BY <1>1, <1>2, <2>1, <2>2, <2>3, LedgerStays
<1>6. ASSUME NEW r \in Request, Mine(r)
      PROVE  LedgerOK'
  <2>1. fate[r] = "pooled" /\ UNCHANGED body
    BY <1>6 DEF Mine
  <2>2. CASE Executes(body[r]) /\ Fate(r, "executed")
    BY <1>1, <1>2, <2>1, <2>2, LedgerMoves
  <2>3. CASE UNCHANGED suiteVars /\ (Fate(r, "reverted") \/ Fate(r, "replaced"))
    <3>1. UNCHANGED balances /\ \A q \in Request : fate'[q] = "executed" <=> fate[q] = "executed"
      BY <1>1, <2>1, <2>3 DEF Fate, BackendTypeOK, suiteVars, vars, tokenVars
    <3> QED
      BY <1>1, <1>2, <2>1, <3>1, LedgerStays
  <2> QED
    BY <1>6, <2>2, <2>3 DEF Mine
<1> QED
  BY <1>3, <1>4, <1>5, <1>6 DEF BackendNext

LEMMA RepliesStep ==
  ASSUME BackendTypeOK, HandlersOK, RepliesOK, [BackendNext]_allVars
  PROVE  RepliesOK'
<1> USE DEF BackendTypeOK
<1>0. losses \in Nat /\ (losses' = 0 => losses = 0 /\ losses' = losses)
  BY BackendAssumption DEF BackendNext, Script, Crash, Post, Check, Send, Mine, Refuse, Confirm,
     ReadBalances, InsertFails, LoseAnswer, Lose, allVars, backendVars
<1>1. CASE UNCHANGED <<body, pc, answer, fate>>
  BY <1>0, <1>1 DEF RepliesOK
<1>2. CASE Crash
  <2>1. losses' # 0
    BY <1>2, <1>0 DEF Crash, Lose
  <2>2. \A r \in Request :
          /\ body'[r] = body[r]
          /\ fate[r] = "executed" => fate'[r] = "executed"
          /\ \/ pc'[r] = "answered" /\ answer'[r] = [status |-> 0, cause |-> "crash"]
             \/ pc'[r] = pc[r] /\ answer'[r] = answer[r]
    BY <1>2 DEF Crash, HandlersOK
  <2> QED
    BY <2>1, <2>2 DEF RepliesOK
<1>3. ASSUME NEW r \in Request,
             \/ \E b \in Body : Post(r, b)
             \/ Check(r) \/ Send(r) \/ Mine(r) \/ Refuse(r) \/ Confirm(r) \/ ReadBalances(r)
             \/ InsertFails(r) \/ LoseAnswer(r)
      PROVE  RepliesOK'
  <2>1. \A q \in Request \ {r} :
          body'[q] = body[q] /\ pc'[q] = pc[q] /\ fate'[q] = fate[q] /\ answer'[q] = answer[q]
    BY <1>3 DEF Post, Check, Send, Mine, Refuse, Confirm, ReadBalances, InsertFails, LoseAnswer,
                Reply, Goto, Fate
  <2>2. \/ /\ answer'[r] = answer[r] /\ (pc'[r] = "answered" => pc[r] = "answered")
           /\ body'[r] = body[r] \/ answer[r] = NoAnswer
           /\ fate[r] = "executed" => fate'[r] = "executed"
        \/ /\ answer'[r] = [status |-> 200, cause |-> "done"]
           /\ body'[r].op \in {"mint", "transfer"} => fate'[r] = "executed"
        \/ answer'[r].status # 200 /\ answer'[r].cause \in Refusals
        \/ losses' # 0 /\ answer'[r].status # 200 /\ answer'[r].cause \in {"transport", "database"}
    <3>1. ASSUME NEW b \in Body, Post(r, b)
          PROVE  \/ answer'[r] = NoAnswer /\ answer[r] = NoAnswer /\ pc'[r] # "answered" /\ fate[r] = "none"
                 \/ answer'[r].status # 200 /\ answer'[r].cause \in Refusals
      BY <3>1 DEF Post, Reply, Goto, HandlersOK, Refusals
    <3>2. CASE Check(r)
      BY <3>2 DEF Check, AlreadyDone, Reply, Goto
    <3>3. CASE Send(r)
      BY <3>3 DEF Send, Reply, Goto, Fate, Refusals, HandlersOK
    <3>4. CASE Mine(r)
      BY <3>4 DEF Mine, Fate
    <3>5. CASE Refuse(r)
      BY <3>5 DEF Refuse, Reply, Refusals
    <3>6. CASE Confirm(r)
      BY <3>6 DEF Confirm, Reply, Goto
    <3>7. CASE ReadBalances(r)
      BY <3>7 DEF ReadBalances, Reply, HandlersOK
    <3>8. CASE InsertFails(r)
      BY <1>0, <3>8 DEF InsertFails, Lose, Reply
    <3>9. CASE LoseAnswer(r)
      BY <1>0, <3>9 DEF LoseAnswer, Lose, Reply
    <3> QED
      BY <1>3, <3>1, <3>2, <3>3, <3>4, <3>5, <3>6, <3>7, <3>8, <3>9
  <2> QED
    BY <1>0, <2>1, <2>2 DEF RepliesOK, Refusals, Cutoffs, NoAnswer
<1> QED
  BY <1>1, <1>2, <1>3 DEF BackendNext, Script, allVars, backendVars, requestVars

LEMMA StartedStep ==
  ASSUME BackendTypeOK, IsFiniteSet(Started), [BackendNext]_allVars
  PROVE  IsFiniteSet(Started)'
<1> DEFINE started == {r \in Request : pc'[r] # "idle"}
<1>1. started \subseteq Started \/ \E r \in Request : started \subseteq Started \cup {r}
  <2>1. CASE UNCHANGED pc
    BY <2>1 DEF Started
  <2>2. CASE Crash
    BY <2>2 DEF Crash, Started, InFlight
  <2>3. ASSUME NEW r \in Request, \A q \in Request : q # r => pc'[q] = pc[q]
        PROVE  started \subseteq Started \cup {r}
    BY <2>3 DEF Started
  <2> QED
    BY <2>1, <2>2, <2>3 DEF BackendNext, Script, Post, Check, Send, Mine, Refuse, Confirm, ReadBalances,
       InsertFails, LoseAnswer, Reply, Goto, allVars, backendVars, requestVars, BackendTypeOK
<1>2. IsFiniteSet(started)
  BY <1>1, FS_AddElement, FS_Subset
<1> QED
  BY <1>2 DEF Started

LEMMA LedgerInvariance == BackendSpec => []LedgerInv
<1>1. BackendInit => LedgerInv
  <2> SUFFICES ASSUME BackendInit
               PROVE  LedgerInv
    OBVIOUS
  <2>1. TruthInv
    BY HandlersInit, ServiceInit DEF BackendInit, TruthInv, AnswersAreTrue, Executed, Answered, NoAnswer
  <2>2. Started = {}
    BY DEF BackendInit, Started
  <2>3. RepliesOK
    BY DEF BackendInit, RepliesOK, NoAnswer, Cutoffs
  <2>4. LedgerOK
    <3> SUFFICES ASSUME NEW a \in Account
                 PROVE  balances[a] + AmountOf(Sent(a)) = AmountOf(Received(a)) + AmountOf(Minted(a))
      BY DEF LedgerOK
    <3>1. Sent(a) = {} /\ Received(a) = {} /\ Minted(a) = {}
      BY DEF BackendInit, Sent, Received, Minted, Executed
    <3>2. AmountOf({}) = 0
      BY SumUnfolds, FS_EmptySet DEF AmountOf
    <3>3. balances[a] = 0
      BY DEF BackendInit, Init, TokenInit
    <3> QED
      BY <3>1, <3>2, <3>3
  <2> QED
    BY <2>1, <2>2, <2>3, <2>4, FS_EmptySet DEF LedgerInv
<1>2. LedgerInv /\ [BackendNext]_<<suiteVars, backendVars>> => LedgerInv'
  <2> SUFFICES ASSUME LedgerInv, [BackendNext]_allVars
               PROVE  LedgerInv'
    BY DEF allVars
  <2>1. BackendTypeOK /\ HandlersOK /\ TruthInv /\ IsFiniteSet(Started) /\ RepliesOK
    BY DEF LedgerInv, TruthInv, HandlerInv
  <2>2. IsFiniteSet(Started)' /\ RepliesOK' /\ TruthInv'
    BY <2>1, StartedStep, RepliesStep, TruthStep
  <2>3. ScriptsOnboard => LedgerOK'
    BY LedgerStep
  <2> QED
    BY <2>2, <2>3 DEF LedgerInv
<1> QED
  BY <1>1, <1>2, PTL DEF BackendSpec

(***************************************************************************)
(* Replaying the log gives what the chain shows: between requests, with    *)
(* nothing lost and scripts that move no tokens, the rows of TransferLog   *)
(* and the answered mints account for every balance, for any accounts,     *)
(* amounts and number of requests.                                         *)
(***************************************************************************)
THEOREM LogAlwaysReconciles == BackendSpec => []LogReconciles
<1>1. LedgerInv => LogReconciles
  <2> SUFFICES ASSUME LedgerInv, ScriptsOnboard, losses = 0, \A r \in Request : pc[r] \notin InFlight,
                      NEW a \in Account
               PROVE  balances[a] + AmountOf({r \in Logged : body[r].from = a}) =
                        AmountOf({r \in Logged : body[r].to = a})
                        + AmountOf({r \in Request : Answered(r, "mint") /\ body[r].to = a})
    BY DEF LogReconciles
  <2>1. HandlerInv /\ RepliesOK /\ LedgerOK
    BY DEF LedgerInv, TruthInv
  <2>2. \A r \in Request : r \in Logged <=> Executed(r, "transfer")
    BY <2>1 DEF HandlerInv, AuditIsSound, UnloggedHasACause, RepliesOK, Logged, InFlight, Cutoffs
  <2>3. \A r \in Request : Answered(r, "mint") <=> Executed(r, "mint")
    <3> SUFFICES ASSUME NEW r \in Request
                 PROVE  Answered(r, "mint") <=> Executed(r, "mint")
      OBVIOUS
    <3>1. Answered(r, "mint") => Executed(r, "mint")
      BY <2>1 DEF RepliesOK, Answered, Executed
    <3>2. ASSUME Executed(r, "mint")
          PROVE  Answered(r, "mint")
      <4>1. pc[r] = "answered"
        BY <2>1, <3>2 DEF HandlerInv, HandlersOK, BackendTypeOK, Point, Executed
      <4>2. answer[r].cause \notin Refusals \cup Cutoffs \cup {"none"}
        BY <2>1, <3>2, <4>1 DEF HandlerInv, RefusalsAreFinal, RepliesOK, Refusals, Executed
      <4>3. answer[r].cause = "done"
        BY <2>1, <4>2 DEF HandlerInv, BackendTypeOK, Response, Refusals, Cutoffs
      <4> QED
        BY <2>1, <3>2, <4>3 DEF RepliesOK, Answered, Executed
    <3> QED
      BY <3>1, <3>2
  <2>4. Logged \subseteq Request
    BY <2>1 DEF HandlerInv, BackendTypeOK, Logged, Elements
  <2>5. /\ {r \in Logged : body[r].from = a} = Sent(a)
        /\ {r \in Logged : body[r].to = a} = Received(a)
        /\ {r \in Request : Answered(r, "mint") /\ body[r].to = a} = Minted(a)
    BY <2>2, <2>3, <2>4 DEF Sent, Received, Minted
  <2> QED
    BY <2>1, <2>5 DEF LedgerOK
<1> QED
  BY <1>1, LedgerInvariance, PTL
=============================================================================
