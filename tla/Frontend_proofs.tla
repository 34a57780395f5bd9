-------------------------- MODULE Frontend_proofs ---------------------------
(***************************************************************************)
(* The page, for any amounts and any number of requests and failures: no   *)
(* transfer to oneself, busy exactly while an answer is awaited, and a     *)
(* quiet dashboard that shows what is so.                                  *)
(***************************************************************************)
EXTENDS Frontend, SequenceTheorems, FiniteSetTheorems, TLAPS

\* Only transfers and mints reach the chain, and no answer about the log is
\* ahead of it.
AnswerOK(r, rows) ==
  /\ r.stage = "executed" => r.kind \in {"transfer", "mint"}
  /\ r.kind \in {"history", "refresh"} => r.result <= rows
AnswersOK == \A i \in DOMAIN requests : AnswerOK(requests[i], log)

TypeInv == TypeOK /\ AnswersOK

\* Sender and recipient on the screen differ before they do in a request.
SelfInv == screen.recipient # screen.actingAs /\ NeverToSelf

\* BusyIsExact by its sets: at most the one request, and which kind it is of.
Holds(busy, out) == IF busy THEN \E i : out = {i} ELSE out = {}
BusyInv ==
  /\ \A a \in Actor : Holds(cards[a].busy, LiveOut(AdminKind, {a}))
  /\ Holds(screen.busy, LiveOut(SendKind, Identity))

USE FrontendAssumption DEF Null, Blank

-----------------------------------------------------------------------------
(* The list of requests *)

\* The list after request i has become r.
LEMMA Put ==
  ASSUME TypeOK, NEW i \in DOMAIN requests, NEW r \in Requests,
         requests' = [requests EXCEPT ![i] = r]
  PROVE  /\ requests' \in Seq(Requests)
         /\ DOMAIN requests' = DOMAIN requests
         /\ requests'[i] = r
         /\ \A j \in DOMAIN requests \ {i} : requests'[j] = requests[j]
<1>1. requests \in Seq(Requests)
  BY DEF TypeOK
<1>2. DOMAIN requests = 1..Len(requests)
  BY <1>1
<1> QED
  BY <1>1, <1>2, ExceptSeq

\* The list after rs has been asked for: old ones keep their place.
LEMMA Add ==
  ASSUME NEW old \in Seq(Requests), NEW rs \in Seq(Requests), requests' = old \o rs
  PROVE  /\ requests' \in Seq(Requests)
         /\ DOMAIN requests' = 1..(Len(old) + Len(rs))
         /\ \A j \in DOMAIN old : requests'[j] = old[j]
         /\ \A j \in DOMAIN rs : requests'[Len(old) + j] = rs[j]
         /\ \A j \in DOMAIN requests' \ DOMAIN old : \E k \in DOMAIN rs : j = Len(old) + k
<1>1. requests' \in Seq(Requests) /\ Len(requests') = Len(old) + Len(rs)
  BY ConcatProperties
<1>2. \A j \in 1..(Len(old) + Len(rs)) :
        requests'[j] = IF j <= Len(old) THEN old[j] ELSE rs[j - Len(old)]
  BY ConcatProperties
<1>3. \A j \in DOMAIN requests' \ DOMAIN old : j - Len(old) \in DOMAIN rs
  BY <1>1
<1> QED
  BY <1>1, <1>2, <1>3

\* What one request makes of the list, as the actions say it.
Staged(r, stage, result) == [r EXCEPT !.stage = stage, !.result = result]

LEMMA StagesIsPut ==
  ASSUME TypeOK, NEW i \in DOMAIN requests, NEW stage \in Stage,
         NEW result \in Nat \cup {Null}, Stages(i, stage, result)
  PROVE  /\ Staged(requests[i], stage, result) \in Requests
         /\ requests' = [requests EXCEPT ![i] = Staged(requests[i], stage, result)]
<1>1. requests[i] \in Requests
  BY DEF TypeOK
<1>2. Staged(requests[i], stage, result) \in Requests
  BY <1>1 DEF Requests, Staged
<1>3. requests' = [requests EXCEPT ![i] = Staged(requests[i], stage, result)]
  BY DEF Stages, Staged
<1> QED
  BY <1>2, <1>3

LEMMA RequestType ==
  ASSUME NEW kind \in Kind, NEW who \in Identity, NEW to \in Identity, NEW n \in 0..MaxAmount
  PROVE  Request(kind, who, to, n) \in Requests
BY DEF Request, Requests, Stage

LEMMA AskedType == GetTransfers \in Requests /\ \A a \in Actor : GetBalance(a) \in Requests
<1>1. GetTransfers \in Requests
  BY RequestType DEF GetTransfers, Kind, Identity
<1>2. ASSUME NEW a \in Actor PROVE GetBalance(a) \in Requests
  BY RequestType DEF GetBalance, Kind, Actor, Identity
<1> QED
  BY <1>1, <1>2

LEMMA OrphanedType == ASSUME TypeOK PROVE Orphaned \in Seq(Requests) /\ Len(Orphaned) = Len(requests)
<1>1. requests \in Seq(Requests)
  BY DEF TypeOK
<1>2. \A i \in 1..Len(requests) : [requests[i] EXCEPT !.live = FALSE] \in Requests
  <2> SUFFICES ASSUME NEW i \in 1..Len(requests)
               PROVE  [requests[i] EXCEPT !.live = FALSE] \in Requests
    OBVIOUS
  <2>1. requests[i] \in Requests
    BY <1>1
  <2> QED
    BY <2>1 DEF Requests
<1>3. Orphaned = [i \in 1..Len(requests) |-> [requests[i] EXCEPT !.live = FALSE]]
  BY <1>1 DEF Orphaned
<1>4. Len(requests) \in Nat
  BY <1>1
<1> QED
  BY <1>2, <1>3, <1>4

\* What the rest of a handler makes of the request it ends.
AfterDelivery(r) ==
  IF r.live /\ r.kind = "transfer" /\ r.result # Null
  THEN Request("refresh", admin, admin, 0)
  ELSE [r EXCEPT !.stage = "over", !.result = Null]

LEMMA DeliverIsPut ==
  ASSUME TypeOK, NEW i \in DOMAIN requests, Deliver(i)
  PROVE  /\ AfterDelivery(requests[i]) \in Requests
         /\ requests' = [requests EXCEPT ![i] = AfterDelivery(requests[i])]
<1>1. requests[i] \in Requests
  BY DEF TypeOK
<1>2. Request("refresh", admin, admin, 0) \in Requests
  BY RequestType DEF Kind, SendKind, Identity
<1>3. [requests[i] EXCEPT !.stage = "over", !.result = Null] \in Requests
  BY <1>1 DEF Requests, Stage
<1>4. requests' = [requests EXCEPT ![i] = AfterDelivery(requests[i])]
  BY DEF Deliver, AfterDelivery
<1> QED
  BY <1>2, <1>3, <1>4 DEF AfterDelivery

\* The actions of the chain, the backend and the network on one request.
ServerStep(i) == Execute(i) \/ Answer(i) \/ RequestFails(i)

\* They move its stage and leave the page alone.
LEMMA ServerIsPut ==
  ASSUME TypeInv, NEW i \in DOMAIN requests, ServerStep(i)
  PROVE  /\ UNCHANGED <<tab, cards, screen>>
         /\ requests[i].stage # "over"
         /\ \E stage \in {"executed", "answered"}, result \in Nat \cup {Null} :
              /\ Stages(i, stage, result)
              /\ stage = "executed" => requests[i].kind \in {"transfer", "mint"}
              /\ requests[i].kind \in {"history", "refresh"} => result <= log
<1>1. requests[i] \in Requests /\ log \in Nat /\ ledger \in [Identity -> Nat]
  BY DEF TypeInv, TypeOK
<1>3. ledger[requests[i].who] \in Nat
  BY <1>1 DEF Requests
<1>4. requests[i].kind \in {"history", "refresh"} => requests[i].stage # "executed" /\ requests[i].kind # "balance"
  BY DEF TypeInv, AnswersOK, AnswerOK
<1>5. CASE Execute(i)
  BY <1>1, <1>5 DEF Execute
<1>6. CASE Answer(i)
  BY <1>1, <1>3, <1>4, <1>6 DEF Answer
<1>7. CASE RequestFails(i)
  BY <1>1, <1>7 DEF RequestFails
<1> QED
  BY <1>5, <1>6, <1>7 DEF ServerStep

-----------------------------------------------------------------------------
(* Types *)

\* A new request is right whatever the log holds.
LEMMA NewIsOK ==
  ASSUME NEW kind, NEW who, NEW to, NEW n, NEW rows \in Nat
  PROVE  AnswerOK(Request(kind, who, to, n), rows)
BY DEF Request, AnswerOK

\* The parts of the type that a step of the page changes.
PageType ==
  /\ tab \in {"admin", "transfer"}
  /\ cards \in [Actor -> [busy : BOOLEAN, message : {"none", "done", "error"},
                          balance : Nat \cup {Null}]]
  /\ screen \in [actingAs : Actor, recipient : Identity,
                 amount : 0..MaxAmount \cup {Blank}, balance : Nat \cup {Null},
                 history : 0..log, message : {"none", "sent", "error", "invalid"},
                 busy : BOOLEAN]
ListType == requests \in Seq(Requests) /\ AnswersOK
RestType == ledger \in [Identity -> Nat] /\ log \in Nat /\ faults \in 0..MaxFaults /\ disturbed \in BOOLEAN

LEMMA TypeParts == TypeInv <=> PageType /\ ListType /\ RestType
BY DEF TypeInv, TypeOK, PageType, ListType, RestType

LEMMA TypePartsNext == TypeInv' <=> PageType' /\ ListType' /\ RestType'
BY DEF TypeInv, TypeOK, PageType, ListType, RestType

LEMMA PutList ==
  ASSUME TypeInv, NEW i \in DOMAIN requests, NEW r \in Requests,
         requests' = [requests EXCEPT ![i] = r], log' \in Nat, log' >= log,
         AnswerOK(r, log')
  PROVE  ListType'
<1>1. /\ requests' \in Seq(Requests)
      /\ DOMAIN requests' = DOMAIN requests
      /\ requests'[i] = r
      /\ \A j \in DOMAIN requests \ {i} : requests'[j] = requests[j]
  BY Put DEF TypeInv
<1>2. ASSUME NEW j \in DOMAIN requests' PROVE AnswerOK(requests'[j], log')
  <2>1. AnswerOK(requests[j], log) /\ requests[j] \in Requests /\ log \in Nat
    BY <1>1, <1>2 DEF TypeInv, TypeOK, AnswersOK
  <2>2. AnswerOK(requests[j], log')
    BY <2>1 DEF AnswerOK, Requests
  <2> QED
    BY <1>1, <1>2, <2>2
<1> QED
  BY <1>1, <1>2 DEF ListType, AnswersOK

LEMMA AddList ==
  ASSUME TypeInv, NEW old \in Seq(Requests), NEW rs \in Seq(Requests), requests' = old \o rs,
         \A j \in DOMAIN old : AnswerOK(old[j], log),
         \A j \in DOMAIN rs : AnswerOK(rs[j], log), log' = log
  PROVE  ListType'
<1>1. /\ requests' \in Seq(Requests)
      /\ \A j \in DOMAIN old : requests'[j] = old[j]
      /\ \A j \in DOMAIN rs : requests'[Len(old) + j] = rs[j]
      /\ \A j \in DOMAIN requests' \ DOMAIN old : \E k \in DOMAIN rs : j = Len(old) + k
  BY Add
<1>2. \A j \in DOMAIN requests' : AnswerOK(requests'[j], log)
  BY <1>1
<1> QED
  BY <1>1, <1>2 DEF ListType, AnswersOK

\* One request is asked for.
LEMMA IssueList ==
  ASSUME TypeInv, NEW kind \in Kind, NEW who \in Identity, NEW to \in Identity,
         NEW n \in 0..MaxAmount, Issue(<<Request(kind, who, to, n)>>), log' = log
  PROVE  ListType'
<1> DEFINE r == Request(kind, who, to, n)
<1>1. requests \in Seq(Requests) /\ <<r>> \in Seq(Requests) /\ requests' = requests \o <<r>>
  BY RequestType DEF TypeInv, TypeOK, Issue
<1>2. AnswerOK(r, log)
  BY NewIsOK DEF TypeInv, TypeOK
<1>3. \A j \in DOMAIN requests : AnswerOK(requests[j], log)
  BY DEF TypeInv, AnswersOK
<1>4. \A j \in DOMAIN <<r>> : AnswerOK(<<r>>[j], log)
  BY <1>2
<1> HIDE DEF r
<1> QED
  BY <1>1, <1>3, <1>4, AddList

LEMMA ServerType == ASSUME TypeInv, NEW i \in DOMAIN requests, ServerStep(i) PROVE TypeInv'
<1>1. PICK stage \in {"executed", "answered"}, result \in Nat \cup {Null} :
        /\ Stages(i, stage, result)
        /\ stage = "executed" => requests[i].kind \in {"transfer", "mint"}
        /\ requests[i].kind \in {"history", "refresh"} => result <= log
  BY ServerIsPut
<1>2. requests[i] \in Requests /\ ledger \in [Identity -> Nat] /\ log \in Nat /\ faults \in 0..MaxFaults
  BY DEF TypeInv, TypeOK
<1>3. RestType' /\ log' \in Nat /\ log' >= log
  <2>1. CASE Execute(i)
    <3> DEFINE r == requests[i]
    <3>1. r.who \in Identity /\ r.to \in Identity /\ r.amount \in Nat
      BY <1>2 DEF Requests
    <3> HIDE DEF r
    <3>2. \/ /\ r.amount <= ledger[r.who] /\ log' = log + 1
             /\ ledger' = [ledger EXCEPT ![r.who] = @ - r.amount, ![r.to] = @ + r.amount]
          \/ ledger' = [ledger EXCEPT ![r.who] = @ + r.amount] /\ log' = log
      BY <2>1 DEF Execute, r
    <3>3. ledger' \in [Identity -> Nat]
      BY <1>2, <3>1, <3>2
    <3> QED
      BY <1>2, <2>1, <3>2, <3>3 DEF Execute, RestType, TypeInv, TypeOK
  <2>2. CASE Answer(i)
    BY <1>2, <2>2 DEF Answer, serverVars, RestType, TypeInv, TypeOK
  <2>3. CASE RequestFails(i)
    BY <1>2, <2>3 DEF RequestFails, serverVars, RestType, TypeInv, TypeOK
  <2> QED
    BY <2>1, <2>2, <2>3 DEF ServerStep
<1>4. PageType'
  BY <1>2, <1>3, ServerIsPut DEF TypeInv, TypeOK, PageType
<1>5. ListType'
  <2> DEFINE r == Staged(requests[i], stage, result)
  <2>1. stage \in Stage /\ TypeOK /\ Stages(i, stage, result)
    BY <1>1 DEF Stage, TypeInv
  <2>2. r \in Requests /\ requests' = [requests EXCEPT ![i] = r]
    BY <2>1, StagesIsPut
  <2>3. AnswerOK(r, log')
    BY <1>1, <1>2, <1>3 DEF AnswerOK, Requests, Staged
  <2> HIDE DEF r
  <2> QED
    BY <1>3, <2>2, <2>3, PutList
<1> QED
  BY <1>3, <1>4, <1>5, TypePartsNext

LEMMA DeliverType == ASSUME TypeInv, NEW i \in DOMAIN requests, Deliver(i) PROVE TypeInv'
<1> DEFINE r == requests[i]
<1>1. r \in Requests /\ log \in Nat /\ AnswerOK(r, log) /\ TypeOK
  BY DEF TypeInv, TypeOK, AnswersOK
<1>2. RestType'
  BY DEF Deliver, serverVars, TypeInv, TypeOK, RestType
<1>3. UNCHANGED <<tab, log>>
  BY DEF Deliver, serverVars
<1>4. ListType'
  <2>1. AfterDelivery(r) \in Requests /\ requests' = [requests EXCEPT ![i] = AfterDelivery(r)]
    BY <1>1, DeliverIsPut
  <2>2. AnswerOK(AfterDelivery(r), log')
    <3>1. AnswerOK(Request("refresh", admin, admin, 0), log)
      BY <1>1, NewIsOK
    <3>2. AnswerOK([r EXCEPT !.stage = "over", !.result = Null], log)
      BY <1>1 DEF AnswerOK, Requests
    <3> QED
      BY <1>3, <3>1, <3>2 DEF AfterDelivery
  <2>3. log' \in Nat /\ log' >= log
    BY <1>1, <1>3
  <2> QED
    BY <2>1, <2>2, <2>3, PutList
<1>5. PageType'
  <2> HIDE DEF r
  <2>1. \/ UNCHANGED <<cards, screen>>
        \/ PatchCard(r)
        \/ (FinishSend(r) \/ ShowRead(r)) /\ UNCHANGED cards
    BY DEF Deliver, r
  <2>2. CASE UNCHANGED <<cards, screen>>
    BY <1>1, <1>3, <2>2 DEF TypeOK, PageType
  <2>3. CASE PatchCard(r)
    BY <1>1, <1>3, <2>3 DEF PatchCard, TypeOK, PageType, Requests
  <2>4. CASE FinishSend(r) /\ UNCHANGED cards
    <3>1. r.kind = "refresh" /\ r.result # Null => r.result \in 0..log
      BY <1>1 DEF AnswerOK, Requests
    <3> QED
      BY <1>1, <1>3, <2>4, <3>1 DEF FinishSend, Sent, Refreshed, SendError, TypeOK, PageType, Requests
  <2>5. CASE ShowRead(r) /\ UNCHANGED cards
    <3>1. r.kind = "history" => (IF r.result = Null THEN 0 ELSE r.result) \in 0..log
      BY <1>1 DEF AnswerOK, Requests
    <3> QED
      BY <1>1, <1>3, <2>5, <3>1 DEF ShowRead, TypeOK, PageType, Requests
  <2> QED
    BY <2>1, <2>2, <2>3, <2>4, <2>5
<1> QED
  BY <1>2, <1>4, <1>5, TypePartsNext

LEMMA OpenTabType == ASSUME TypeInv, NEW t \in {"admin", "transfer"}, OpenTab(t) PROVE TypeInv'
<1>1. TypeOK /\ log \in Nat
  BY DEF TypeInv, TypeOK
<1>2. RestType'
  BY <1>1 DEF OpenTab, serverVars, TypeOK, RestType, Quiet, Out
<1>3. PageType'
  BY <1>1 DEF OpenTab, serverVars, PageType, FreshCards, FreshScreen, Actor, Identity
<1>4. PICK asked \in {<<>>, <<GetBalance(anson), GetTransfers>>} : requests' = Orphaned \o asked
  BY DEF OpenTab
<1>5. Orphaned \in Seq(Requests) /\ asked \in Seq(Requests)
  <2>1. GetBalance(anson) \in Requests /\ GetTransfers \in Requests
    BY AskedType DEF Actor
  <2>2. <<GetBalance(anson), GetTransfers>> \in Seq(Requests) /\ <<>> \in Seq(Requests)
    BY <2>1
  <2> QED
    BY <1>1, <1>4, <2>2, OrphanedType
<1>6. \A j \in DOMAIN Orphaned : AnswerOK(Orphaned[j], log)
  <2> SUFFICES ASSUME NEW j \in DOMAIN requests PROVE AnswerOK(Orphaned[j], log)
    BY DEF Orphaned
  <2>1. AnswerOK(requests[j], log) /\ requests[j] \in Requests
    BY <1>1 DEF TypeInv, AnswersOK, TypeOK
  <2> QED
    BY <2>1 DEF Orphaned, AnswerOK, Requests
<1>7. \A j \in DOMAIN asked : AnswerOK(asked[j], log)
  <2>1. AnswerOK(GetBalance(anson), log) /\ AnswerOK(GetTransfers, log)
    BY <1>1, NewIsOK DEF GetBalance, GetTransfers
  <2> QED
    BY <1>4, <2>1
<1>8. ListType'
  <2>1. log' = log
    BY DEF OpenTab, serverVars
  <2> QED
    BY <1>4, <1>5, <1>6, <1>7, <2>1, AddList
<1> QED
  BY <1>2, <1>3, <1>8, TypePartsNext

LEMMA OtherIsOther == \A a \in Actor : FirstOther(a) \in Identity /\ FirstOther(a) # a
<1> SUFFICES ASSUME NEW a \in Actor PROVE FirstOther(a) \in Identity /\ FirstOther(a) # a
  OBVIOUS
<1> DEFINE others == {i \in 1..3 : Recipients[i] # a}
<1>1. \E i \in others : \A j \in others : i <= j
  <2>1. 1 \in others \/ (2 \in others /\ 1 \notin others)
    BY DEF Recipients, Actor
  <2> QED
    BY <2>1
<1>2. PICK i \in others : FirstOther(a) = Recipients[i]
  BY <1>1 DEF FirstOther, Recipients
<1> QED
  BY <1>2 DEF Recipients, Identity

\* What the user does on an open tab.
PageStep ==
  \/ Edit \/ HandleSend
  \/ \E a \in Actor : SwitchActor(a)
  \/ \E a \in Actor, kind \in AdminKind, n \in 0..MaxAmount : Run(kind, a, n)

LEMMA PageStepType == ASSUME TypeInv, PageStep PROVE TypeInv'
<1>1. TypeOK /\ AnswersOK
  BY DEF TypeInv
<1>2. RestType'
  BY <1>1 DEF PageStep, Edit, HandleSend, SwitchActor, Run, serverVars, Overlap, Quiet, Out, TypeOK, RestType
<1>3. UNCHANGED log
  BY DEF PageStep, Edit, HandleSend, SwitchActor, Run, serverVars
<1>4. CASE Edit
  <2>1. PageType'
    BY <1>1, <1>3, <1>4 DEF Edit, TypeOK, PageType
  <2>2. ListType'
    BY <1>1, <1>3, <1>4 DEF Edit, TypeOK, ListType, AnswersOK
  <2> QED
    BY <1>2, <2>1, <2>2, TypePartsNext
<1>5. CASE HandleSend
  <2>1. PageType'
    BY <1>1, <1>3, <1>5 DEF HandleSend, TypeOK, PageType
  <2>2. ListType'
    <3>1. CASE UNCHANGED requests
      BY <1>1, <1>3, <3>1 DEF TypeOK, ListType, AnswersOK
    <3>2. CASE screen.amount > 0 /\ Issue(<<Request("transfer", screen.actingAs, screen.recipient, screen.amount)>>)
      <4>1. /\ screen.actingAs \in Identity /\ screen.recipient \in Identity
            /\ screen.amount \in 0..MaxAmount /\ "transfer" \in Kind
        BY <1>1, <1>5, <3>2 DEF TypeOK, Actor, Identity, Kind, SendKind
      <4> QED
        BY <1>3, <3>2, <4>1, IssueList
    <3> QED
      BY <1>5, <3>1, <3>2 DEF HandleSend
  <2> QED
    BY <1>2, <2>1, <2>2, TypePartsNext
<1>6. ASSUME NEW a \in Actor, SwitchActor(a) PROVE TypeInv'
  <2>1. PageType'
    BY <1>1, <1>3, <1>6, OtherIsOther DEF SwitchActor, TypeOK, PageType
  <2>2. ListType'
    BY <1>3, <1>6, IssueList DEF SwitchActor, GetBalance, Actor, Identity, Kind
  <2> QED
    BY <1>2, <2>1, <2>2, TypePartsNext
<1>7. ASSUME NEW a \in Actor, NEW kind \in AdminKind, NEW n \in 0..MaxAmount, Run(kind, a, n)
      PROVE  TypeInv'
  <2>1. PageType'
    <3> DEFINE card == [cards[a] EXCEPT !.busy = TRUE, !.message = "none"]
    <3> DEFINE Card == [busy : BOOLEAN, message : {"none", "done", "error"}, balance : Nat \cup {Null}]
    <3>1. cards \in [Actor -> Card] /\ cards[a] \in Card
      BY <1>1 DEF TypeOK
    <3>2. card \in Card
      BY <3>1
    <3>3. cards' = [cards EXCEPT ![a] = card]
      BY <1>7 DEF Run
    <3> HIDE DEF card, Card
    <3>4. cards' \in [Actor -> Card]
      BY <3>1, <3>2, <3>3
    <3>5. UNCHANGED <<tab, screen>>
      BY <1>7 DEF Run
    <3> QED
      BY <1>1, <1>3, <3>4, <3>5 DEF TypeOK, PageType, Card
  <2>2. ListType'
    BY <1>3, <1>7, IssueList DEF Run, Actor, Identity, Kind
  <2> QED
    BY <1>2, <2>1, <2>2, TypePartsNext
<1> QED
  BY <1>4, <1>5, <1>6, <1>7 DEF PageStep

\* Next, by who acts.
LEMMA NextSplits ==
  [Next]_vars => \/ \E t \in {"admin", "transfer"} : OpenTab(t)
                 \/ PageStep
                 \/ \E i \in DOMAIN requests : ServerStep(i) \/ Deliver(i)
                 \/ UNCHANGED vars
BY DEF Next, ServerStep, PageStep, AdminKind

LEMMA TypeStep == TypeInv /\ [Next]_vars => TypeInv'
<1> SUFFICES ASSUME TypeInv, [Next]_vars PROVE TypeInv'
  OBVIOUS
<1>1. CASE UNCHANGED vars
  BY <1>1 DEF vars, serverVars, TypeInv, TypeOK, AnswersOK
<1> QED
  BY <1>1, NextSplits, OpenTabType, PageStepType, ServerType, DeliverType

LEMMA TypeInit == Init => TypeInv
<1> SUFFICES ASSUME Init PROVE TypeInv
  OBVIOUS
<1>1. PageType
  <2>1. screen = FreshScreen /\ log = 0 /\ cards = FreshCards /\ tab = "admin"
    BY DEF Init
  <2> QED
    BY <2>1 DEF PageType, FreshCards, FreshScreen, Actor, Identity
<1>3. RestType
  <2>1. ledger = [i \in Identity |-> IF i = anson THEN MaxAmount ELSE 0]
    BY DEF Init
  <2>2. ledger \in [Identity -> Nat]
    BY <2>1
  <2>3. log = 0 /\ faults = 0 /\ log \in Nat /\ faults \in 0..MaxFaults
    BY DEF Init
  <2>4. disturbed \in BOOLEAN
    BY DEF Init
  <2> QED
    BY <2>2, <2>3, <2>4 DEF RestType
<1>2. ListType
  BY DEF Init, ListType, AnswersOK
<1> QED
  BY <1>1, <1>2, <1>3, TypeParts

(***************************************************************************)
(* The page stays within its type: selectors, cards, answers on their way  *)
(* and the log, whatever order the requests end in.                        *)
(***************************************************************************)
THEOREM TypesAlwaysOK == Spec => []TypeOK
<1>1. TypeInv => TypeOK
  BY DEF TypeInv
<1> QED
  BY <1>1, TypeInit, TypeStep, PTL DEF Spec

-----------------------------------------------------------------------------
(* No transfer to oneself *)

Honest(r) == r.kind = "transfer" => r.who # r.to

LEMMA SelfStep == TypeInv /\ SelfInv /\ [Next]_vars => SelfInv'
<1> SUFFICES ASSUME TypeInv, SelfInv, [Next]_vars PROVE SelfInv'
  OBVIOUS
<1>1. TypeOK /\ requests \in Seq(Requests) /\ \A i \in DOMAIN requests : Honest(requests[i])
  BY DEF TypeInv, TypeOK, SelfInv, NeverToSelf, Honest
<1>2. SUFFICES (screen.recipient # screen.actingAs)' /\ \A i \in DOMAIN requests' : Honest(requests'[i])
  BY DEF SelfInv, NeverToSelf, Honest
<1>3. ASSUME NEW kind \in Kind, NEW who \in Identity, NEW to \in Identity, NEW n \in 0..MaxAmount,
             Issue(<<Request(kind, who, to, n)>>), kind = "transfer" => who # to
      PROVE  \A i \in DOMAIN requests' : Honest(requests'[i])
  <2> DEFINE r == Request(kind, who, to, n)
  <2>1. r \in Requests /\ <<r>> \in Seq(Requests) /\ Honest(r) /\ requests' = requests \o <<r>>
    BY <1>3, RequestType DEF Issue, Request, Honest
  <2> HIDE DEF r
  <2>2. \A j \in DOMAIN <<r>> : Honest(<<r>>[j])
    BY <2>1
  <2> QED
    BY <1>1, <2>1, <2>2, Add
<1>4. CASE \E t \in {"admin", "transfer"} : OpenTab(t)
  <2>1. PICK asked \in {<<>>, <<GetBalance(anson), GetTransfers>>} : requests' = Orphaned \o asked
    BY <1>4 DEF OpenTab
  <2>2. GetBalance(anson) \in Requests /\ GetTransfers \in Requests
    BY AskedType DEF Actor
  <2>3. asked \in Seq(Requests) /\ Orphaned \in Seq(Requests)
    <3>1. <<GetBalance(anson), GetTransfers>> \in Seq(Requests) /\ <<>> \in Seq(Requests)
      BY <2>2
    <3> QED
      BY <1>1, <2>1, <3>1, OrphanedType
  <2>4. \A j \in DOMAIN asked : Honest(asked[j])
    <3>1. Honest(GetBalance(anson)) /\ Honest(GetTransfers)
      BY DEF Honest, GetBalance, GetTransfers, Request
    <3> QED
      BY <2>1, <3>1
  <2>5. \A j \in DOMAIN Orphaned : Honest(Orphaned[j])
    <3> SUFFICES ASSUME NEW j \in DOMAIN requests PROVE Honest(Orphaned[j])
      BY DEF Orphaned
    <3>1. requests[j] \in Requests /\ Honest(requests[j])
      BY <1>1
    <3> QED
      BY <3>1 DEF Orphaned, Honest, Requests
  <2>6. screen'.recipient # screen'.actingAs
    BY <1>4 DEF OpenTab, FreshScreen
  <2> QED
    BY <2>1, <2>3, <2>4, <2>5, <2>6, Add
<1>5. CASE PageStep
  <2>1. CASE Edit
    BY <1>1, <2>1 DEF Edit, TypeOK, SelfInv
  <2>2. CASE HandleSend
    <3>1. (screen.recipient # screen.actingAs)'
      BY <1>1, <2>2 DEF HandleSend, TypeOK, SelfInv
    <3>2. CASE UNCHANGED requests
      BY <1>1, <3>1, <3>2
    <3>3. CASE screen.amount > 0 /\ Issue(<<Request("transfer", screen.actingAs, screen.recipient, screen.amount)>>)
      <4>1. /\ screen.actingAs \in Identity /\ screen.recipient \in Identity
            /\ screen.amount \in 0..MaxAmount /\ "transfer" \in Kind
            /\ screen.actingAs # screen.recipient
        BY <1>1, <3>3 DEF TypeOK, Actor, Identity, Kind, SendKind, SelfInv
      <4> QED
        BY <1>3, <3>1, <3>3, <4>1
    <3> QED
      BY <2>2, <3>2, <3>3 DEF HandleSend
  <2>3. ASSUME NEW a \in Actor, SwitchActor(a)
        PROVE  (screen.recipient # screen.actingAs)' /\ \A i \in DOMAIN requests' : Honest(requests'[i])
    <3>1. (screen.recipient # screen.actingAs)'
      BY <1>1, <2>3, OtherIsOther DEF SwitchActor, TypeOK
    <3>2. Issue(<<Request("balance", a, a, 0)>>) /\ "balance" \in Kind /\ a \in Identity
      BY <2>3 DEF SwitchActor, GetBalance, Kind, Actor, Identity
    <3> QED
      BY <1>3, <3>1, <3>2
  <2>4. ASSUME NEW a \in Actor, NEW kind \in AdminKind, NEW n \in 0..MaxAmount, Run(kind, a, n)
        PROVE  (screen.recipient # screen.actingAs)' /\ \A i \in DOMAIN requests' : Honest(requests'[i])
    <3>1. (screen.recipient # screen.actingAs)'
      BY <2>4 DEF Run, SelfInv
    <3>2. Issue(<<Request(kind, a, a, n)>>) /\ kind \in Kind /\ kind # "transfer" /\ a \in Identity
      BY <2>4 DEF Run, Kind, AdminKind, Actor, Identity
    <3> QED
      BY <1>3, <3>1, <3>2
  <2> QED
    BY <1>5, <2>1, <2>2, <2>3, <2>4 DEF PageStep
<1>6. ASSUME NEW i \in DOMAIN requests, NEW r \in Requests, Honest(r),
             requests' = [requests EXCEPT ![i] = r]
      PROVE  \A j \in DOMAIN requests' : Honest(requests'[j])
  BY <1>1, <1>6, Put
<1>7. ASSUME NEW i \in DOMAIN requests, ServerStep(i)
      PROVE  (screen.recipient # screen.actingAs)' /\ \A j \in DOMAIN requests' : Honest(requests'[j])
  <2>1. PICK stage \in Stage, result \in Nat \cup {Null} : Stages(i, stage, result)
    BY <1>7, ServerIsPut DEF Stage
  <2> DEFINE r == Staged(requests[i], stage, result)
  <2>2. r \in Requests /\ requests' = [requests EXCEPT ![i] = r]
    BY <1>1, <2>1, StagesIsPut
  <2>3. Honest(r)
    BY <1>1 DEF Staged, Honest, Requests
  <2>4. UNCHANGED screen
    BY <1>7, ServerIsPut
  <2> HIDE DEF r
  <2> QED
    BY <1>6, <2>2, <2>3, <2>4 DEF SelfInv
<1>8. ASSUME NEW i \in DOMAIN requests, Deliver(i)
      PROVE  (screen.recipient # screen.actingAs)' /\ \A j \in DOMAIN requests' : Honest(requests'[j])
  <2> DEFINE r == AfterDelivery(requests[i])
  <2>1. r \in Requests /\ requests' = [requests EXCEPT ![i] = r]
    BY <1>1, <1>8, DeliverIsPut
  <2>2. Honest(r)
    BY <1>1 DEF AfterDelivery, Honest, Request, Requests
  <2>3. (screen.recipient # screen.actingAs)'
    BY <1>1, <1>8 DEF Deliver, PatchCard, FinishSend, Sent, Refreshed, SendError, ShowRead, TypeOK, SelfInv
  <2> HIDE DEF r
  <2> QED
    BY <1>6, <2>1, <2>2, <2>3
<1>9. CASE UNCHANGED vars
  BY <1>1, <1>9 DEF vars, SelfInv
<1> QED
  BY <1>4, <1>5, <1>7, <1>8, <1>9, NextSplits

(***************************************************************************)
(* Whatever is selected while answers are out, no transfer leaves the page *)
(* whose sender is its recipient.                                          *)
(***************************************************************************)
THEOREM NoTransferToSelf == Spec => []NeverToSelf
<1>1. Init => SelfInv
  BY DEF Init, FreshScreen, SelfInv, NeverToSelf
<1>2. SelfInv => NeverToSelf
  BY DEF SelfInv
<1> QED
  BY <1>1, <1>2, TypeInit, TypeStep, SelfStep, PTL DEF Spec

-----------------------------------------------------------------------------
(* Busy *)

\* The request is one of those in LiveOut(kinds, whos).
Counts(r, kinds, whos) == r.stage # "over" /\ r.live /\ r.kind \in kinds /\ r.who \in whos

LEMMA LiveOutByCounts ==
  ASSUME NEW kinds, NEW whos
  PROVE  /\ LiveOut(kinds, whos) = {i \in DOMAIN requests : Counts(requests[i], kinds, whos)}
         /\ LiveOut(kinds, whos)' = {i \in DOMAIN requests' : Counts(requests'[i], kinds, whos)}
BY DEF LiveOut, Out, Counts

\* What becoming r does to the requests out: i is out or not, others stay.
Becomes(i, r) == requests' = [requests EXCEPT ![i] = r]

LEMMA PutLive ==
  ASSUME TypeOK, NEW i \in DOMAIN requests, NEW r \in Requests, Becomes(i, r),
         NEW kinds, NEW whos
  PROVE  LiveOut(kinds, whos)' =
           IF Counts(r, kinds, whos) THEN LiveOut(kinds, whos) \cup {i}
           ELSE LiveOut(kinds, whos) \ {i}
BY Put, LiveOutByCounts DEF Becomes

LEMMA IssueLive ==
  ASSUME TypeOK, NEW kind \in Kind, NEW who \in Identity, NEW to \in Identity,
         NEW n \in 0..MaxAmount, Issue(<<Request(kind, who, to, n)>>), NEW kinds, NEW whos
  PROVE  LiveOut(kinds, whos)' =
           IF kind \in kinds /\ who \in whos THEN LiveOut(kinds, whos) \cup {Len(requests) + 1}
           ELSE LiveOut(kinds, whos)
<1> DEFINE r == Request(kind, who, to, n)
<1>1. requests \in Seq(Requests) /\ <<r>> \in Seq(Requests) /\ requests' = requests \o <<r>>
  BY RequestType DEF TypeOK, Issue
<1>2. Counts(r, kinds, whos) <=> kind \in kinds /\ who \in whos
  BY DEF Counts, Request
<1> HIDE DEF r
<1>3. /\ DOMAIN requests' = 1..(Len(requests) + 1)
      /\ \A j \in DOMAIN requests : requests'[j] = requests[j]
      /\ requests'[Len(requests) + 1] = r
      /\ DOMAIN requests = 1..Len(requests)
  <2>1. Len(<<r>>) = 1 /\ 1 \in DOMAIN <<r>> /\ <<r>>[1] = r
    OBVIOUS
  <2> QED
    BY <1>1, <2>1, Add
<1>4. Len(requests) \in Nat
  BY <1>1
<1>5. DOMAIN requests' = DOMAIN requests \cup {Len(requests) + 1}
  BY <1>3, <1>4
<1>6. /\ LiveOut(kinds, whos) = {i \in DOMAIN requests : Counts(requests[i], kinds, whos)}
      /\ LiveOut(kinds, whos)' = {i \in DOMAIN requests' : Counts(requests'[i], kinds, whos)}
  BY LiveOutByCounts
<1>7. \A i : i \in LiveOut(kinds, whos)' <=>
               i \in LiveOut(kinds, whos) \/ (i = Len(requests) + 1 /\ Counts(r, kinds, whos))
  BY <1>3, <1>5, <1>6
<1> QED
  BY <1>2, <1>7

\* The three kinds of request are apart.
LEMMA KindsApart ==
  /\ AdminKind \cap SendKind = {}
  /\ {"balance", "history"} \cap (AdminKind \cup SendKind) = {}
  /\ AdminKind \subseteq Kind /\ SendKind \subseteq Kind
BY DEF AdminKind, SendKind, Kind

LEMMA BusyServer ==
  ASSUME TypeInv, BusyInv, NEW i \in DOMAIN requests, ServerStep(i) PROVE BusyInv'
<1>1. PICK stage \in {"executed", "answered"}, result \in Nat \cup {Null} : Stages(i, stage, result)
  BY ServerIsPut
<1>2. TypeOK /\ requests[i] \in Requests /\ stage \in Stage
  BY DEF TypeInv, TypeOK, Stage
<1> DEFINE r == Staged(requests[i], stage, result)
<1>3. r \in Requests /\ Becomes(i, r)
  BY <1>1, <1>2, StagesIsPut DEF Becomes
<1>4. ASSUME NEW kinds, NEW whos PROVE Counts(r, kinds, whos) <=> Counts(requests[i], kinds, whos)
  BY <1>2, ServerIsPut DEF Staged, Counts, Requests
<1> HIDE DEF r
<1>5. ASSUME NEW kinds, NEW whos PROVE LiveOut(kinds, whos)' = LiveOut(kinds, whos)
  <2>1. i \in LiveOut(kinds, whos) <=> Counts(r, kinds, whos)
    <3>1. LiveOut(kinds, whos) = {j \in DOMAIN requests : Counts(requests[j], kinds, whos)}
      BY LiveOutByCounts
    <3>2. Counts(r, kinds, whos) <=> Counts(requests[i], kinds, whos)
      BY <1>4
    <3> QED
      BY <3>1, <3>2
  <2>2. LiveOut(kinds, whos)' = IF Counts(r, kinds, whos) THEN LiveOut(kinds, whos) \cup {i}
                                 ELSE LiveOut(kinds, whos) \ {i}
    BY <1>2, <1>3, PutLive
  <2> QED
    BY <2>1, <2>2
<1>6. UNCHANGED <<cards, screen>>
  BY ServerIsPut
<1> QED
  BY <1>5, <1>6 DEF BusyInv

LEMMA BusyOpenTab ==
  ASSUME TypeInv, NEW t \in {"admin", "transfer"}, OpenTab(t) PROVE BusyInv'
<1>1. TypeOK /\ requests \in Seq(Requests)
  BY DEF TypeInv, TypeOK
<1>2. PICK asked \in {<<>>, <<GetBalance(anson), GetTransfers>>} : requests' = Orphaned \o asked
  BY DEF OpenTab
<1>3. GetBalance(anson) \in Requests /\ GetTransfers \in Requests
  BY AskedType DEF Actor
<1>4. asked \in Seq(Requests) /\ Orphaned \in Seq(Requests)
  <2>1. <<GetBalance(anson), GetTransfers>> \in Seq(Requests) /\ <<>> \in Seq(Requests)
    BY <1>3
  <2> QED
    BY <1>1, <1>2, <2>1, OrphanedType
<1>5. ASSUME NEW kinds \in {AdminKind, SendKind}, NEW whos PROVE LiveOut(kinds, whos)' = {}
  <2>1. \A j \in DOMAIN asked : ~Counts(asked[j], kinds, whos)
    <3>1. ~Counts(GetBalance(anson), kinds, whos) /\ ~Counts(GetTransfers, kinds, whos)
      BY KindsApart DEF Counts, GetBalance, GetTransfers, Request
    <3> QED
      BY <1>2, <3>1
  <2>2. \A j \in DOMAIN Orphaned : ~Counts(Orphaned[j], kinds, whos)
    <3> SUFFICES ASSUME NEW j \in DOMAIN requests PROVE ~Counts(Orphaned[j], kinds, whos)
      BY DEF Orphaned
    <3>1. requests[j] \in Requests
      BY <1>1
    <3> QED
      BY <3>1 DEF Orphaned, Counts, Requests
  <2>3. \A j \in DOMAIN requests' : ~Counts(requests'[j], kinds, whos)
    BY <1>2, <1>4, <2>1, <2>2, Add
  <2> QED
    BY <2>3, LiveOutByCounts
<1>6. cards' = FreshCards /\ screen' = FreshScreen
  BY DEF OpenTab
<1> QED
  BY <1>5, <1>6 DEF BusyInv, Holds, FreshCards, FreshScreen

LEMMA BusyPage == ASSUME TypeInv, BusyInv, PageStep PROVE BusyInv'
<1>1. TypeOK
  BY DEF TypeInv
<1>2. CASE Edit
  <2>1. UNCHANGED <<cards, requests>> /\ screen'.busy = screen.busy
    BY <1>1, <1>2 DEF Edit, TypeOK
  <2> QED
    BY <2>1 DEF BusyInv, LiveOut, Out
<1>3. CASE HandleSend
  <2>1. UNCHANGED cards
    BY <1>3 DEF HandleSend
  <2>2. CASE screen' = [screen EXCEPT !.message = "invalid"] /\ UNCHANGED requests
    <3>1. screen'.busy = screen.busy
      BY <1>1, <2>2 DEF TypeOK
    <3> QED
      BY <2>1, <2>2, <3>1 DEF BusyInv, LiveOut, Out
  <2>3. CASE /\ screen.amount > 0 /\ screen' = [screen EXCEPT !.busy = TRUE, !.message = "none"]
             /\ Issue(<<Request("transfer", screen.actingAs, screen.recipient, screen.amount)>>)
    <3>1. /\ screen.actingAs \in Identity /\ screen.recipient \in Identity
          /\ screen.amount \in 0..MaxAmount /\ "transfer" \in Kind
          /\ screen'.busy /\ ~screen.busy
      BY <1>1, <1>3, <2>3 DEF HandleSend, TypeOK, Actor, Identity, Kind, SendKind
    <3>2. LiveOut(SendKind, Identity)' = LiveOut(SendKind, Identity) \cup {Len(requests) + 1}
      BY <1>1, <2>3, <3>1, IssueLive DEF SendKind
    <3>3. ASSUME NEW a \in Actor PROVE LiveOut(AdminKind, {a})' = LiveOut(AdminKind, {a})
      BY <1>1, <2>3, <3>1, IssueLive DEF AdminKind
    <3>4. LiveOut(SendKind, Identity) = {}
      BY <3>1 DEF BusyInv, Holds
    <3> QED
      BY <2>1, <3>1, <3>2, <3>3, <3>4 DEF BusyInv, Holds
  <2> QED
    BY <1>3, <2>2, <2>3 DEF HandleSend
<1>4. ASSUME NEW a \in Actor, SwitchActor(a) PROVE BusyInv'
  <2>1. /\ Issue(<<Request("balance", a, a, 0)>>) /\ "balance" \in Kind /\ a \in Identity
        /\ UNCHANGED cards /\ screen'.busy = screen.busy
    BY <1>1, <1>4 DEF SwitchActor, GetBalance, Kind, Actor, Identity, TypeOK
  <2>2. ASSUME NEW kinds \in {AdminKind, SendKind}, NEW whos
        PROVE  LiveOut(kinds, whos)' = LiveOut(kinds, whos)
    BY <1>1, <2>1, IssueLive, KindsApart
  <2> QED
    BY <2>1, <2>2 DEF BusyInv
<1>5. ASSUME NEW a \in Actor, NEW kind \in AdminKind, NEW n \in 0..MaxAmount, Run(kind, a, n)
      PROVE  BusyInv'
  <2>1. /\ Issue(<<Request(kind, a, a, n)>>) /\ kind \in Kind /\ a \in Identity
        /\ ~cards[a].busy /\ UNCHANGED screen
    BY <1>5 DEF Run, Kind, Actor, Identity
  <2>2. ASSUME NEW whos PROVE LiveOut(SendKind, whos)' = LiveOut(SendKind, whos)
    BY <1>1, <2>1, IssueLive, KindsApart
  <2>3. ASSUME NEW b \in Actor
        PROVE  Holds(cards'[b].busy, LiveOut(AdminKind, {b})')
    <3>1. CASE b = a
      <4>1. LiveOut(AdminKind, {b})' = LiveOut(AdminKind, {b}) \cup {Len(requests) + 1}
        BY <1>1, <2>1, <3>1, IssueLive
      <4>2. LiveOut(AdminKind, {b}) = {}
        BY <2>1, <3>1 DEF BusyInv, Holds
      <4>3. cards'[b].busy
        BY <1>1, <1>5, <3>1 DEF Run, TypeOK
      <4> QED
        BY <4>1, <4>2, <4>3 DEF Holds
    <3>2. CASE b # a
      <4>1. LiveOut(AdminKind, {b})' = LiveOut(AdminKind, {b})
        BY <1>1, <2>1, <3>2, IssueLive
      <4>2. cards'[b] = cards[b]
        BY <1>1, <1>5, <3>2 DEF Run, TypeOK
      <4> QED
        BY <4>1, <4>2 DEF BusyInv
    <3> QED
      BY <3>1, <3>2
  <2> QED
    BY <2>1, <2>2, <2>3 DEF BusyInv
<1> QED
  BY <1>2, <1>3, <1>4, <1>5 DEF PageStep

LEMMA BusyDeliver ==
  ASSUME TypeInv, BusyInv, NEW i \in DOMAIN requests, Deliver(i) PROVE BusyInv'
<1> DEFINE r == requests[i]
<1> DEFINE s == AfterDelivery(r)
<1>1. TypeOK /\ r \in Requests /\ r.stage = "answered"
  BY DEF TypeInv, TypeOK, Deliver
<1>2. s \in Requests /\ Becomes(i, s)
  BY <1>1, DeliverIsPut DEF Becomes
<1>3. ASSUME NEW kinds, NEW whos
      PROVE  /\ LiveOut(kinds, whos)' = IF Counts(s, kinds, whos) THEN LiveOut(kinds, whos) \cup {i}
                                        ELSE LiveOut(kinds, whos) \ {i}
             /\ i \in LiveOut(kinds, whos) <=> Counts(r, kinds, whos)
  <2>1. LiveOut(kinds, whos)' = IF Counts(s, kinds, whos) THEN LiveOut(kinds, whos) \cup {i}
                                ELSE LiveOut(kinds, whos) \ {i}
    BY <1>1, <1>2, PutLive
  <2>2. LiveOut(kinds, whos) = {j \in DOMAIN requests : Counts(requests[j], kinds, whos)}
    BY LiveOutByCounts
  <2> QED
    BY <2>1, <2>2
<1>4. \/ ~r.live /\ UNCHANGED <<cards, screen>>
      \/ r.live /\ PatchCard(r)
      \/ r.live /\ (FinishSend(r) \/ ShowRead(r)) /\ UNCHANGED cards
  BY DEF Deliver
<1> DEFINE ends == ~(r.live /\ r.kind = "transfer" /\ r.result # Null)
<1>5. ends => \A kinds, whos : ~Counts(s, kinds, whos)
  BY <1>1 DEF AfterDelivery, Counts, Requests
<1>6. ~ends => /\ ~Counts(s, AdminKind, {r.who}) /\ Counts(s, SendKind, Identity)
               /\ \A a \in Actor : ~Counts(s, AdminKind, {a})
  BY DEF AfterDelivery, Request, Counts, AdminKind, SendKind, Identity
<1> HIDE DEF r, s, ends
<1>7. CASE ~r.live /\ UNCHANGED <<cards, screen>>
  <2>1. ends
    BY <1>7 DEF ends
  <2>2. ASSUME NEW kinds, NEW whos PROVE LiveOut(kinds, whos)' = LiveOut(kinds, whos)
    <3>1. ~Counts(s, kinds, whos) /\ ~Counts(r, kinds, whos)
      BY <1>5, <1>7, <2>1 DEF Counts
    <3> QED
      BY <1>3, <3>1
  <2> QED
    BY <1>7, <2>2 DEF BusyInv
<1>8. CASE r.live /\ PatchCard(r)
  <2>1. ends /\ r.kind \in AdminKind /\ r.kind \notin SendKind /\ UNCHANGED screen
    BY <1>8, KindsApart DEF PatchCard, ends, AdminKind, SendKind
  <2>2. ASSUME NEW whos PROVE LiveOut(SendKind, whos)' = LiveOut(SendKind, whos)
    <3>1. ~Counts(s, SendKind, whos) /\ ~Counts(r, SendKind, whos)
      BY <1>5, <2>1 DEF Counts
    <3> QED
      BY <1>3, <3>1
  <2>3. ASSUME NEW a \in Actor
        PROVE  Holds(cards'[a].busy, LiveOut(AdminKind, {a})')
    <3>1. ~Counts(s, AdminKind, {a})
      BY <1>5, <2>1
    <3>2. CASE r.who = a
      <4>1. Counts(r, AdminKind, {a})
        BY <1>1, <1>8, <2>1, <3>2 DEF Counts
      <4>2. i \in LiveOut(AdminKind, {a}) /\ LiveOut(AdminKind, {a})' = LiveOut(AdminKind, {a}) \ {i}
        BY <1>3, <3>1, <4>1
      <4>3. LiveOut(AdminKind, {a})' = {}
        BY <4>2 DEF BusyInv, Holds
      <4>4. cards'[a].busy = FALSE
        BY <1>1, <1>8, <3>2 DEF PatchCard, TypeOK
      <4> QED
        BY <4>3, <4>4 DEF Holds
    <3>3. CASE r.who # a
      <4>1. ~Counts(r, AdminKind, {a})
        BY <3>3 DEF Counts
      <4>2. LiveOut(AdminKind, {a})' = LiveOut(AdminKind, {a})
        BY <1>3, <3>1, <4>1
      <4>3. cards'[a] = cards[a]
        BY <1>1, <1>8, <3>3 DEF PatchCard, TypeOK
      <4> QED
        BY <4>2, <4>3 DEF BusyInv
    <3> QED
      BY <3>2, <3>3
  <2> QED
    BY <2>1, <2>2, <2>3 DEF BusyInv
<1>9. CASE r.live /\ (FinishSend(r) \/ ShowRead(r)) /\ UNCHANGED cards
  <2>1. r.kind \notin AdminKind
    BY <1>9 DEF FinishSend, ShowRead, AdminKind, SendKind
  <2>2. ASSUME NEW a \in Actor PROVE LiveOut(AdminKind, {a})' = LiveOut(AdminKind, {a})
    <3>1. ~Counts(s, AdminKind, {a}) /\ ~Counts(r, AdminKind, {a})
      BY <1>5, <1>6, <2>1 DEF Counts
    <3> QED
      BY <1>3, <3>1
  <2>3. Holds(screen'.busy, LiveOut(SendKind, Identity)')
    <3>1. CASE r.kind \notin SendKind
      <4>1. ends /\ screen'.busy = screen.busy
        BY <1>1, <1>9, <3>1 DEF ends, FinishSend, ShowRead, SendKind, TypeOK
      <4>2. LiveOut(SendKind, Identity)' = LiveOut(SendKind, Identity)
        <5>1. ~Counts(s, SendKind, Identity) /\ ~Counts(r, SendKind, Identity)
          BY <1>5, <3>1, <4>1 DEF Counts
        <5> QED
          BY <1>3, <5>1
      <4> QED
        BY <4>1, <4>2 DEF BusyInv
    <3>2. CASE r.kind \in SendKind
      <4>1. i \in LiveOut(SendKind, Identity)
        <5>1. Counts(r, SendKind, Identity)
          BY <1>1, <1>9, <3>2 DEF Counts, Requests
        <5> QED
          BY <1>3, <5>1
      <4>2. LiveOut(SendKind, Identity) = {i} /\ screen.busy
        BY <4>1 DEF BusyInv, Holds
      <4>3. CASE ends
        <5>1. LiveOut(SendKind, Identity)' = {}
          <6>1. ~Counts(s, SendKind, Identity)
            BY <1>5, <4>3
          <6> QED
            BY <1>3, <4>2, <6>1
        <5>2. screen'.busy = FALSE
          BY <1>1, <1>9, <3>2, <4>3 DEF ends, FinishSend, ShowRead, SendKind, Refreshed, SendError, TypeOK
        <5> QED
          BY <5>1, <5>2 DEF Holds
      <4>4. CASE ~ends
        <5>1. LiveOut(SendKind, Identity)' = {i}
          BY <1>3, <1>6, <4>2, <4>4
        <5>2. screen'.busy = screen.busy
          BY <1>1, <1>9, <4>4 DEF ends, FinishSend, ShowRead, Sent, TypeOK
        <5> QED
          BY <4>2, <5>1, <5>2 DEF Holds
      <4> QED
        BY <4>3, <4>4
    <3> QED
      BY <3>1, <3>2
  <2> QED
    BY <1>9, <2>2, <2>3 DEF BusyInv
<1> QED
  BY <1>4, <1>7, <1>8, <1>9

LEMMA BusyStep == TypeInv /\ BusyInv /\ [Next]_vars => BusyInv'
<1> SUFFICES ASSUME TypeInv, BusyInv, [Next]_vars PROVE BusyInv'
  OBVIOUS
<1>1. CASE UNCHANGED vars
  BY <1>1 DEF vars, BusyInv, LiveOut, Out
<1> QED
  BY <1>1, NextSplits, BusyOpenTab, BusyPage, BusyServer, BusyDeliver

(***************************************************************************)
(* A card, or the dashboard, is busy exactly while its one send is out, in *)
(* whatever order answers come in and tabs are opened.                     *)
(***************************************************************************)
THEOREM BusyAlwaysExact == Spec => []BusyIsExact
<1>1. Init => BusyInv
  BY DEF Init, FreshCards, FreshScreen, BusyInv, Holds, LiveOut
<1>2. BusyInv => BusyIsExact
  <2>1. ASSUME NEW busy, NEW out, Holds(busy, out)
        PROVE  Cardinality(out) = IF busy THEN 1 ELSE 0
    BY <2>1, FS_EmptySet, FS_Singleton DEF Holds
  <2> QED
    BY <2>1 DEF BusyInv, BusyIsExact
<1> QED
  BY <1>1, <1>2, TypeInit, TypeStep, BusyStep, PTL DEF Spec

-----------------------------------------------------------------------------
(* The dashboard shows what is so *)

BalanceShown(s, balances) == s.balance = balances[s.actingAs]
LogShown(s, rows) == s.history = rows

\* A read that is out, and the send, at each of their stages.  A send that was
\* refused has changed nothing; between its execution and its answer the page
\* is behind in both.
ReadOK(r, s, balances, rows) ==
  /\ r.live /\ r.stage \in {"sent", "answered"}
  /\ \/ /\ r.kind = "balance" /\ r.who = s.actingAs
        /\ r.stage = "answered" => r.result = balances[s.actingAs]
     \/ r.kind = "history" /\ (r.stage = "answered" => r.result = rows)

TransferOK(r, s, balances, rows) ==
  /\ r.kind = "transfer" /\ r.who = s.actingAs
  /\ \/ /\ r.stage = "sent" \/ (r.stage = "answered" /\ r.result = Null)
        /\ BalanceShown(s, balances) /\ LogShown(s, rows)
     \/ r.stage = "executed"
     \/ r.stage = "answered" /\ r.result = balances[s.actingAs]

RefreshOK(r, s, balances, rows) ==
  /\ r.kind = "refresh" /\ BalanceShown(s, balances)
  /\ r.stage = "sent" \/ (r.stage = "answered" /\ r.result = rows)

SendOK(r, s, balances, rows) ==
  r.live /\ (TransferOK(r, s, balances, rows) \/ RefreshOK(r, s, balances, rows))

\* Either reads are out, and each of the two values is shown or being read; or
\* one send is, and nothing else.
Awaited(kind) == \E i \in DOMAIN requests : Out(i) /\ requests[i].kind = kind
Reading ==
  /\ \A i \in DOMAIN requests : Out(i) => ReadOK(requests[i], screen, ledger, log)
  /\ BalanceShown(screen, ledger) \/ Awaited("balance")
  /\ LogShown(screen, log) \/ Awaited("history")
Sending ==
  \E i \in DOMAIN requests :
    /\ Out(i) /\ SendOK(requests[i], screen, ledger, log)
    /\ \A j \in DOMAIN requests \ {i} : ~Out(j)

Settled == tab = "transfer" /\ ~disturbed
CurrentInv == Settled => Reading \/ Sending

LEMMA CurrentSuffices == TypeInv /\ CurrentInv => ScreenIsCurrent
<1> SUFFICES ASSUME TypeInv, Settled, Quiet, Reading \/ Sending
             PROVE  BalanceShown(screen, ledger) /\ LogShown(screen, log)
  BY DEF CurrentInv, Settled, ScreenIsCurrent, BalanceShown, LogShown
<1>1. ~Sending /\ ~Awaited("balance") /\ ~Awaited("history")
  BY DEF Quiet, Sending, Awaited
<1> QED
  BY <1>1 DEF Reading

\* A settled user acts only on a quiet page, which shows what is so.
LEMMA QuietShows ==
  ASSUME TypeInv, CurrentInv, Settled, Quiet
  PROVE  BalanceShown(screen, ledger) /\ LogShown(screen, log)
BY CurrentSuffices DEF Settled, ScreenIsCurrent, BalanceShown, LogShown

\* One request is asked for on a quiet page.
LEMMA AskedAlone ==
  ASSUME TypeOK, Quiet, NEW kind \in Kind, NEW who \in Identity, NEW to \in Identity,
         NEW n \in 0..MaxAmount, Issue(<<Request(kind, who, to, n)>>)
  PROVE  \E i \in DOMAIN requests' :
           /\ requests'[i] = Request(kind, who, to, n)
           /\ \A j \in DOMAIN requests' \ {i} : ~Out(j)'
<1> DEFINE r == Request(kind, who, to, n)
<1>1. requests \in Seq(Requests) /\ <<r>> \in Seq(Requests) /\ requests' = requests \o <<r>>
  BY RequestType DEF TypeOK, Issue
<1> HIDE DEF r
<1>2. Len(<<r>>) = 1 /\ DOMAIN <<r>> = {1} /\ <<r>>[1] = r
  OBVIOUS
<1>3. /\ DOMAIN requests' = 1..(Len(requests) + 1)
      /\ \A j \in DOMAIN requests : requests'[j] = requests[j]
      /\ requests'[Len(requests) + 1] = r
      /\ DOMAIN requests = 1..Len(requests)
  BY <1>1, <1>2, Add
<1>4. Len(requests) + 1 \in DOMAIN requests'
  BY <1>1, <1>3
<1>5. ASSUME NEW j \in DOMAIN requests' \ {Len(requests) + 1} PROVE ~Out(j)'
  <2>1. j \in DOMAIN requests
    BY <1>1, <1>3, <1>5
  <2> QED
    BY <1>3, <2>1 DEF Quiet, Out
<1> QED
  BY <1>3, <1>4, <1>5 DEF r

LEMMA CurrentOpenTab ==
  ASSUME TypeInv, NEW t \in {"admin", "transfer"}, OpenTab(t) PROVE CurrentInv'
<1> SUFFICES ASSUME Settled' PROVE Reading'
  BY DEF CurrentInv
<1>1. Quiet /\ t = "transfer"
  BY DEF OpenTab, Settled
<1>2. screen' = FreshScreen /\ UNCHANGED <<ledger, log>>
  BY DEF OpenTab, serverVars
<1> DEFINE asked == <<GetBalance(anson), GetTransfers>>
<1>3. Orphaned \in Seq(Requests) /\ asked \in Seq(Requests) /\ requests' = Orphaned \o asked
  <2>1. GetBalance(anson) \in Requests /\ GetTransfers \in Requests
    BY AskedType DEF Actor
  <2> QED
    BY <1>1, <2>1, OrphanedType DEF OpenTab, TypeInv
<1>4. Len(asked) = 2 /\ DOMAIN asked = {1, 2} /\ asked[1] = GetBalance(anson) /\ asked[2] = GetTransfers
  OBVIOUS
<1>5. \A j \in DOMAIN Orphaned : Orphaned[j].stage = "over"
  <2> SUFFICES ASSUME NEW j \in DOMAIN requests PROVE Orphaned[j].stage = "over"
    BY DEF Orphaned
  <2>1. requests[j] \in Requests /\ requests[j].stage = "over"
    BY <1>1 DEF TypeInv, TypeOK, Quiet, Out
  <2> QED
    BY <2>1 DEF Orphaned, Requests
<1> HIDE DEF asked
<1> DEFINE n == Len(Orphaned)
<1>6. /\ n \in Nat /\ DOMAIN requests' = 1..(n + 2)
      /\ requests'[n + 1] = GetBalance(anson) /\ requests'[n + 2] = GetTransfers
      /\ \A j \in DOMAIN requests' \ {n + 1, n + 2} : requests'[j].stage = "over"
  <2>1. n \in Nat /\ DOMAIN Orphaned = 1..n
    BY <1>3
  <2>2. /\ DOMAIN requests' = 1..(n + 2)
        /\ \A j \in DOMAIN Orphaned : requests'[j] = Orphaned[j]
        /\ requests'[n + 1] = asked[1] /\ requests'[n + 2] = asked[2]
    <3>1. /\ DOMAIN requests' = 1..(Len(Orphaned) + Len(asked))
          /\ \A j \in DOMAIN Orphaned : requests'[j] = Orphaned[j]
          /\ \A j \in DOMAIN asked : requests'[Len(Orphaned) + j] = asked[j]
      BY <1>3, Add
    <3> QED
      BY <1>4, <3>1
  <2> QED
    BY <1>4, <1>5, <2>1, <2>2
<1> HIDE DEF n
<1>7. ReadOK(GetBalance(anson), screen', ledger', log') /\ ReadOK(GetTransfers, screen', ledger', log')
  BY <1>2 DEF ReadOK, GetBalance, GetTransfers, Request, FreshScreen
<1>8. /\ GetBalance(anson).kind = "balance" /\ GetBalance(anson).stage = "sent"
      /\ GetTransfers.kind = "history" /\ GetTransfers.stage = "sent"
  BY DEF GetBalance, GetTransfers, Request
<1>9. Awaited("balance")'
  <2>1. n + 1 \in DOMAIN requests' /\ requests'[n + 1].kind = "balance" /\ requests'[n + 1].stage = "sent"
    BY <1>6, <1>8
  <2> QED
    BY <2>1 DEF Awaited, Out
<1>10. Awaited("history")'
  <2>1. n + 2 \in DOMAIN requests' /\ requests'[n + 2].kind = "history" /\ requests'[n + 2].stage = "sent"
    BY <1>6, <1>8
  <2> QED
    BY <2>1 DEF Awaited, Out
<1>11. \A i \in DOMAIN requests' : requests'[i].stage # "over" => ReadOK(requests'[i], screen', ledger', log')
  BY <1>6, <1>7
<1> QED
  BY <1>9, <1>10, <1>11 DEF Reading, Out

\* Nothing the invariant reads has changed.
LEMMA CurrentSame ==
  ASSUME CurrentInv, UNCHANGED <<tab, requests, ledger, log, faults, disturbed>>,
         screen'.actingAs = screen.actingAs, screen'.balance = screen.balance,
         screen'.history = screen.history
  PROVE  CurrentInv'
BY DEF CurrentInv, Settled, Reading, Sending, Awaited, Out, ReadOK, SendOK, TransferOK, RefreshOK,
       BalanceShown, LogShown

LEMMA CurrentPage == ASSUME TypeInv, CurrentInv, PageStep PROVE CurrentInv'
<1>1. TypeOK
  BY DEF TypeInv
<1>2. ASSUME Settled', Overlap, UNCHANGED <<tab, faults>>
      PROVE  Settled /\ Quiet /\ BalanceShown(screen, ledger) /\ LogShown(screen, log)
  <2>1. Settled /\ Quiet
    BY <1>2 DEF Settled, Overlap
  <2> QED
    BY <2>1, QuietShows
<1>3. CASE Edit
  <2>1. /\ UNCHANGED <<tab, requests, ledger, log, faults, disturbed>>
        /\ screen'.actingAs = screen.actingAs /\ screen'.balance = screen.balance
        /\ screen'.history = screen.history
    BY <1>1, <1>3 DEF Edit, serverVars, TypeOK
  <2> QED
    BY <2>1, CurrentSame
<1>4. CASE HandleSend
  <2>1. UNCHANGED <<tab, ledger, log, faults>>
    BY <1>4 DEF HandleSend, serverVars
  <2>2. CASE screen' = [screen EXCEPT !.message = "invalid"] /\ UNCHANGED <<requests, disturbed>>
    <3>1. /\ screen'.actingAs = screen.actingAs /\ screen'.balance = screen.balance
          /\ screen'.history = screen.history
      BY <1>1, <2>2 DEF TypeOK
    <3> QED
      BY <2>1, <2>2, <3>1, CurrentSame
  <2>3. CASE /\ screen.amount > 0 /\ screen' = [screen EXCEPT !.busy = TRUE, !.message = "none"]
             /\ Issue(<<Request("transfer", screen.actingAs, screen.recipient, screen.amount)>>)
             /\ Overlap
    <3> SUFFICES ASSUME Settled' PROVE Sending'
      BY DEF CurrentInv
    <3> DEFINE r == Request("transfer", screen.actingAs, screen.recipient, screen.amount)
    <3>1. Quiet /\ BalanceShown(screen, ledger) /\ LogShown(screen, log)
      BY <1>2, <2>1, <2>3
    <3>2. /\ screen.actingAs \in Identity /\ screen.recipient \in Identity
          /\ screen.amount \in 0..MaxAmount /\ "transfer" \in Kind
          /\ screen'.actingAs = screen.actingAs /\ screen'.balance = screen.balance
          /\ screen'.history = screen.history
      BY <1>1, <2>3 DEF TypeOK, Actor, Identity, Kind, SendKind
    <3>3. PICK i \in DOMAIN requests' : /\ requests'[i] = r
                                        /\ \A j \in DOMAIN requests' \ {i} : ~Out(j)'
      BY <1>1, <2>3, <3>1, <3>2, AskedAlone
    <3>4. SendOK(r, screen', ledger', log') /\ r.stage = "sent"
      BY <2>1, <3>1, <3>2 DEF SendOK, TransferOK, BalanceShown, LogShown, Request
    <3> HIDE DEF r
    <3>5. SendOK(requests'[i], screen', ledger', log') /\ requests'[i].stage # "over"
      BY <3>3, <3>4
    <3> QED
      BY <3>3, <3>5 DEF Sending, Out
  <2> QED
    BY <1>4, <2>2, <2>3 DEF HandleSend
<1>5. ASSUME NEW a \in Actor, SwitchActor(a) PROVE CurrentInv'
  <2> SUFFICES ASSUME Settled' PROVE Reading'
    BY DEF CurrentInv
  <2>1. Overlap /\ UNCHANGED <<tab, ledger, log, faults>> /\ Issue(<<GetBalance(a)>>)
    BY <1>5 DEF SwitchActor, serverVars
  <2>2. Quiet /\ LogShown(screen, log)
    BY <1>2, <2>1
  <2>3. screen'.actingAs = a /\ screen'.history = screen.history
    BY <1>1, <1>5 DEF SwitchActor, TypeOK
  <2>4. PICK i \in DOMAIN requests' : /\ requests'[i] = GetBalance(a)
                                      /\ \A j \in DOMAIN requests' \ {i} : ~Out(j)'
    BY <1>1, <2>1, <2>2, AskedAlone DEF GetBalance, Kind, Actor, Identity
  <2>5. /\ ReadOK(GetBalance(a), screen', ledger', log')
        /\ GetBalance(a).kind = "balance" /\ GetBalance(a).stage # "over"
    BY <2>3 DEF ReadOK, GetBalance, Request
  <2>6. Awaited("balance")'
    BY <2>4, <2>5 DEF Awaited, Out
  <2>7. LogShown(screen', log')
    BY <2>1, <2>2, <2>3 DEF LogShown
  <2> QED
    BY <2>4, <2>5, <2>6, <2>7 DEF Reading, Out
<1>6. ASSUME NEW a \in Actor, NEW kind \in AdminKind, NEW n \in 0..MaxAmount, Run(kind, a, n)
      PROVE  CurrentInv'
  BY <1>6 DEF Run, CurrentInv, Settled
<1> QED
  BY <1>3, <1>4, <1>5, <1>6 DEF PageStep

LEMMA CurrentServer ==
  ASSUME TypeInv, CurrentInv, NEW i \in DOMAIN requests, ServerStep(i) PROVE CurrentInv'
<1> SUFFICES ASSUME Settled' PROVE Reading' \/ Sending'
  BY DEF CurrentInv
<1>1. TypeOK /\ requests[i] \in Requests /\ ledger \in [Identity -> Nat] /\ log \in Nat /\ faults \in Nat
  BY DEF TypeInv, TypeOK
<1>2. ~RequestFails(i)
  BY <1>1 DEF RequestFails, Settled
<1>3. UNCHANGED <<tab, screen>> /\ requests[i].stage # "over"
  BY ServerIsPut
<1>4. (Execute(i) \/ Answer(i)) /\ UNCHANGED <<faults, disturbed>>
  BY <1>2 DEF ServerStep, Execute, Answer
<1>5. Settled
  BY <1>3, <1>4 DEF Settled
<1>6. PICK stage \in {"executed", "answered"}, result \in Nat \cup {Null} :
        Stages(i, stage, result)
  BY ServerIsPut
<1> DEFINE r == Staged(requests[i], stage, result)
<1>7. r \in Requests /\ requests' = [requests EXCEPT ![i] = r]
  BY <1>1, <1>6, StagesIsPut DEF Stage
<1>8. /\ DOMAIN requests' = DOMAIN requests /\ requests'[i] = r
      /\ \A j \in DOMAIN requests \ {i} : requests'[j] = requests[j]
  <2> HIDE DEF r
  <2> QED
    BY <1>1, <1>7, Put
<1>9. /\ r.kind = requests[i].kind /\ r.who = requests[i].who /\ r.live = requests[i].live
      /\ r.stage = stage /\ r.result = result
  BY <1>1 DEF Staged, Requests
<1> HIDE DEF r
<1>10. ASSUME NEW s, NEW n, Stages(i, s, n) PROVE s = r.stage /\ n = r.result
  <2>1. requests'[i] = [requests[i] EXCEPT !.stage = s, !.result = n]
    BY <1>10 DEF Stages
  <2> QED
    BY <1>1, <1>8, <2>1 DEF Requests
<1>11. CASE Reading
  <2>1. ReadOK(requests[i], screen, ledger, log)
    BY <1>3, <1>11 DEF Reading, Out
  <2>2. Answer(i)
    BY <1>4, <2>1 DEF Execute, ReadOK
  <2>3. UNCHANGED <<ledger, log>>
    BY <2>2 DEF Answer, serverVars
  <2>4. ReadOK(r, screen, ledger, log) /\ r.stage = "answered"
    <3>1. CASE requests[i].kind = "balance"
      <4>1. Stages(i, "answered", ledger[requests[i].who])
        BY <2>1, <2>2, <3>1 DEF Answer, ReadOK, AdminKind
      <4>2. r.stage = "answered" /\ r.result = ledger[requests[i].who]
        BY <4>1, <1>10
      <4> QED
        BY <1>9, <2>1, <3>1, <4>2 DEF ReadOK
    <3>2. CASE requests[i].kind = "history"
      <4>1. Stages(i, "answered", log)
        BY <2>1, <2>2, <3>2 DEF Answer, ReadOK, AdminKind
      <4>2. r.stage = "answered" /\ r.result = log
        BY <4>1, <1>10
      <4> QED
        BY <1>9, <2>1, <3>2, <4>2 DEF ReadOK
    <3> QED
      BY <2>1, <3>1, <3>2 DEF ReadOK
  <2>5. \A j \in DOMAIN requests' : Out(j)' => ReadOK(requests'[j], screen', ledger', log')
    BY <1>3, <1>8, <1>11, <2>3, <2>4 DEF Reading, Out
  <2>6. ASSUME NEW kind, Awaited(kind) PROVE Awaited(kind)'
    <3>1. PICK j \in DOMAIN requests : Out(j) /\ requests[j].kind = kind
      BY <2>6 DEF Awaited
    <3>2. Out(j)' /\ requests'[j].kind = kind /\ j \in DOMAIN requests'
      BY <1>8, <1>9, <2>4, <3>1 DEF Out
    <3> QED
      BY <3>2 DEF Awaited
  <2>7. /\ BalanceShown(screen', ledger') \/ Awaited("balance")'
        /\ LogShown(screen', log') \/ Awaited("history")'
    BY <1>3, <1>11, <2>3, <2>6 DEF Reading
  <2> QED
    BY <2>5, <2>7 DEF Reading
<1>12. CASE Sending
  <2>1. /\ SendOK(requests[i], screen, ledger, log)
        /\ \A j \in DOMAIN requests \ {i} : ~Out(j)
    <3>1. Out(i)
      BY <1>3 DEF Out
    <3> QED
      BY <1>12, <3>1 DEF Sending
  <2>2. SendOK(r, screen, ledger', log')
    <3>1. CASE Execute(i)
      <4>1. requests[i].kind = "transfer"
        BY <2>1, <3>1 DEF Execute, SendOK, TransferOK, RefreshOK
      <4>2. Stages(i, "executed", Null)
        BY <3>1 DEF Execute
      <4>3. r.stage = "executed"
        BY <4>2, <1>10
      <4> QED
        BY <1>9, <2>1, <4>1, <4>3 DEF SendOK, TransferOK, RefreshOK
    <3>2. CASE Answer(i) /\ requests[i].kind = "transfer"
      <4>1. UNCHANGED <<ledger, log>>
        BY <3>2 DEF Answer, serverVars
      <4>2. \/ Stages(i, "answered", ledger[requests[i].who])
            \/ requests[i].stage = "sent" /\ Stages(i, "answered", Null)
        BY <3>2 DEF Answer, AdminKind
      <4>3. /\ r.stage = "answered"
            /\ \/ r.result = ledger[requests[i].who]
               \/ requests[i].stage = "sent" /\ r.result = Null
        BY <4>2, <1>10
      <4> QED
        BY <1>9, <2>1, <3>2, <4>1, <4>3 DEF SendOK, TransferOK, RefreshOK
    <3>3. CASE Answer(i) /\ requests[i].kind = "refresh"
      <4>1. UNCHANGED <<ledger, log>>
        BY <3>3 DEF Answer, serverVars
      <4>2. requests[i].stage # "executed"
        BY <2>1, <3>3 DEF SendOK, TransferOK, RefreshOK
      <4>3. Stages(i, "answered", log)
        BY <3>3, <4>2 DEF Answer, AdminKind
      <4>4. r.stage = "answered" /\ r.result = log
        BY <4>3, <1>10
      <4> QED
        BY <1>9, <2>1, <3>3, <4>1, <4>4 DEF SendOK, TransferOK, RefreshOK
    <3> QED
      BY <1>4, <2>1, <3>1, <3>2, <3>3 DEF SendOK, TransferOK, RefreshOK
  <2>3. r.stage # "over"
    BY <1>9
  <2> QED
    BY <1>3, <1>8, <2>1, <2>2, <2>3 DEF Sending, Out
<1> QED
  BY <1>5, <1>11, <1>12 DEF CurrentInv

LEMMA CurrentDeliver ==
  ASSUME TypeInv, CurrentInv, NEW i \in DOMAIN requests, Deliver(i) PROVE CurrentInv'
<1> SUFFICES ASSUME Settled' PROVE Reading' \/ Sending'
  BY DEF CurrentInv
<1> DEFINE r == requests[i]
<1> DEFINE s == AfterDelivery(r)
<1>1. TypeOK /\ r \in Requests /\ r.stage = "answered" /\ ledger \in [Identity -> Nat]
  BY DEF TypeInv, TypeOK, Deliver
<1>2. UNCHANGED <<tab, ledger, log, faults, disturbed>> /\ Settled
  BY DEF Deliver, serverVars, Settled
<1>3. s \in Requests /\ requests' = [requests EXCEPT ![i] = s]
  BY <1>1, DeliverIsPut
<1>4. \/ ~r.live \/ PatchCard(r) \/ FinishSend(r) \/ ShowRead(r)
  BY DEF Deliver
<1>5. s.stage = "over" \/ (s = Request("refresh", admin, admin, 0) /\ r.kind = "transfer" /\ r.result # Null)
  BY <1>1 DEF AfterDelivery, Requests
<1>6. r.kind # "transfer" \/ r.result = Null => s.stage = "over"
  BY <1>5
<1>7. /\ DOMAIN requests' = DOMAIN requests /\ requests'[i] = s
      /\ \A j \in DOMAIN requests \ {i} : requests'[j] = requests[j]
  <2> HIDE DEF s
  <2> QED
    BY <1>1, <1>3, Put
<1>8. Out(i)
  BY <1>1 DEF Out
<1> HIDE DEF r, s
<1>9. CASE Reading
  <2>1. ReadOK(r, screen, ledger, log) /\ s.stage = "over"
    BY <1>6, <1>8, <1>9 DEF Reading, ReadOK, r
  <2>2. ShowRead(r)
    BY <1>4, <2>1 DEF ReadOK, PatchCard, FinishSend, AdminKind, SendKind
  <2>3. screen'.actingAs = screen.actingAs
    BY <1>1, <2>2 DEF ShowRead, TypeOK
  <2>4. \A j \in DOMAIN requests' : Out(j)' => j # i /\ Out(j) /\ requests'[j] = requests[j]
    BY <1>7, <2>1 DEF Out
  <2>5. \A j \in DOMAIN requests' : Out(j)' => ReadOK(requests'[j], screen', ledger', log')
    BY <1>2, <1>7, <1>9, <2>3, <2>4 DEF Reading, ReadOK
  <2>6. ASSUME NEW kind, Awaited(kind), kind # r.kind PROVE Awaited(kind)'
    <3>1. PICK j \in DOMAIN requests : Out(j) /\ requests[j].kind = kind
      BY <2>6 DEF Awaited
    <3>2. j # i /\ Out(j)' /\ requests'[j].kind = kind /\ j \in DOMAIN requests'
      BY <1>7, <2>6, <3>1 DEF Out, r
    <3> QED
      BY <3>2 DEF Awaited
  <2>7. CASE r.kind = "balance"
    <3>1. screen'.balance = r.result /\ screen'.history = screen.history
      BY <1>1, <2>2, <2>7 DEF ShowRead, TypeOK
    <3>2. r.result = ledger[screen.actingAs]
      BY <1>1, <2>1, <2>7 DEF ReadOK
    <3>3. BalanceShown(screen', ledger')
      BY <1>2, <2>3, <3>1, <3>2 DEF BalanceShown
    <3>4. LogShown(screen', log') \/ Awaited("history")'
      BY <1>2, <1>9, <2>6, <2>7, <3>1 DEF Reading, LogShown
    <3> QED
      BY <2>5, <3>3, <3>4 DEF Reading
  <2>8. CASE r.kind = "history"
    <3>1. r.result = log /\ log # Null
      BY <1>1, <2>1, <2>8 DEF ReadOK, TypeOK
    <3>2. screen'.history = log /\ screen'.balance = screen.balance
      BY <1>1, <2>2, <2>8, <3>1 DEF ShowRead, TypeOK
    <3>3. LogShown(screen', log')
      BY <1>2, <3>2 DEF LogShown
    <3>4. BalanceShown(screen', ledger') \/ Awaited("balance")'
      BY <1>2, <1>9, <2>3, <2>6, <2>8, <3>2 DEF Reading, BalanceShown
    <3> QED
      BY <2>5, <3>3, <3>4 DEF Reading
  <2> QED
    BY <2>1, <2>7, <2>8 DEF ReadOK
<1>10. CASE Sending
  <2>1. SendOK(r, screen, ledger, log) /\ \A j \in DOMAIN requests \ {i} : ~Out(j)
    BY <1>8, <1>10 DEF Sending, r
  <2>2. FinishSend(r)
    BY <1>4, <2>1 DEF SendOK, TransferOK, RefreshOK, PatchCard, ShowRead, AdminKind
  <2>3. \A j \in DOMAIN requests' \ {i} : ~Out(j)'
    BY <1>7, <2>1 DEF Out
  <2>4. ASSUME s.stage = "over", BalanceShown(screen', ledger'), LogShown(screen', log') PROVE Reading'
    <3>1. \A j \in DOMAIN requests' : ~Out(j)'
      BY <1>7, <2>3, <2>4 DEF Out
    <3> QED
      BY <2>4, <3>1 DEF Reading
  <2>5. CASE r.kind = "transfer" /\ r.result # Null
    <3>1. screen' = Sent(r)
      BY <2>2, <2>5 DEF FinishSend, SendKind
    <3>2. screen'.actingAs = screen.actingAs /\ screen'.balance = r.result
      BY <1>1, <3>1 DEF Sent, TypeOK
    <3>3. r.result = ledger[screen.actingAs]
      BY <1>1, <2>1, <2>5 DEF SendOK, TransferOK, RefreshOK
    <3>4. BalanceShown(screen', ledger')
      BY <1>2, <3>2, <3>3 DEF BalanceShown
    <3>5. s = Request("refresh", admin, admin, 0)
      <4>1. r.live
        BY <2>1 DEF SendOK
      <4> QED
        BY <2>5, <4>1 DEF AfterDelivery, s
    <3>6. SendOK(s, screen', ledger', log') /\ s.stage # "over"
      BY <3>4, <3>5 DEF SendOK, RefreshOK, Request
    <3> QED
      BY <1>7, <2>3, <3>6 DEF Sending, Out
  <2>6. CASE r.kind = "transfer" /\ r.result = Null
    <3>1. screen' = SendError
      BY <2>2, <2>6 DEF FinishSend, SendKind
    <3>2. /\ screen'.actingAs = screen.actingAs /\ screen'.balance = screen.balance
          /\ screen'.history = screen.history
      BY <1>1, <3>1 DEF SendError, TypeOK
    <3>3. ledger[screen.actingAs] # Null
      BY <1>1 DEF TypeOK, Actor, Identity
    <3>4. BalanceShown(screen, ledger) /\ LogShown(screen, log)
      BY <1>1, <2>1, <2>6, <3>3 DEF SendOK, TransferOK, RefreshOK
    <3> QED
      BY <1>2, <1>6, <2>4, <2>6, <3>2, <3>4 DEF BalanceShown, LogShown
  <2>7. CASE r.kind = "refresh"
    <3>1. r.result = log /\ log # Null /\ BalanceShown(screen, ledger)
      BY <1>1, <2>1, <2>7 DEF SendOK, TransferOK, RefreshOK, TypeOK
    <3>2. screen' = Refreshed(r)
      BY <2>2, <2>7, <3>1 DEF FinishSend, SendKind
    <3>3. /\ screen'.actingAs = screen.actingAs /\ screen'.balance = screen.balance
          /\ screen'.history = log
      BY <1>1, <3>1, <3>2 DEF Refreshed, TypeOK
    <3> QED
      BY <1>2, <1>6, <2>4, <2>7, <3>1, <3>3 DEF BalanceShown, LogShown
  <2> QED
    BY <2>1, <2>5, <2>6, <2>7 DEF SendOK, TransferOK, RefreshOK
<1> QED
  BY <1>2, <1>9, <1>10 DEF CurrentInv

LEMMA CurrentStep == TypeInv /\ CurrentInv /\ [Next]_vars => CurrentInv'
<1> SUFFICES ASSUME TypeInv, CurrentInv, [Next]_vars PROVE CurrentInv'
  OBVIOUS
<1>1. CASE UNCHANGED vars
  BY <1>1, CurrentSame DEF vars, serverVars
<1> QED
  BY <1>1, NextSplits, CurrentOpenTab, CurrentPage, CurrentServer, CurrentDeliver

(***************************************************************************)
(* Once a settled page is quiet and nothing has failed, the dashboard      *)
(* shows the acting identity's balance and the whole log.                  *)
(***************************************************************************)
THEOREM ScreenAlwaysCurrent == Spec => []ScreenIsCurrent
<1>1. Init => CurrentInv
  BY DEF Init, CurrentInv, Settled
<1> QED
  BY <1>1, TypeInit, TypeStep, CurrentStep, CurrentSuffices, PTL DEF Spec
=============================================================================
