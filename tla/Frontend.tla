------------------------------ MODULE Frontend ------------------------------
(***************************************************************************)
(* The page: App.tsx's two tabs, AdminPanel.tsx and TransferDashboard.tsx. *)
(* Requests run in the background and their answers come back in any       *)
(* order; each continuation writes the component state it finds, with the  *)
(* values it captured when it started.  Leaving a tab unmounts it: its     *)
(* state is gone and its late answers go nowhere.                          *)
(*                                                                         *)
(* The server side is BackendApi's subject: here it may execute, refuse or *)
(* fail, and reads what is so at that moment.                              *)
(***************************************************************************)
EXTENDS Integers, Sequences, FiniteSets

CONSTANTS
  anson, beatrice, admin,
  MaxAmount,      \* bound: the amounts typed
  MaxRequests,    \* bound: requests of a behaviour
  MaxFaults       \* bound: requests that fail or whose answer is lost

ASSUME FrontendAssumption ==
  /\ anson # beatrice /\ admin \notin {anson, beatrice}
  /\ MaxAmount \in Nat \ {0}
  /\ MaxRequests \in Nat
  /\ MaxFaults \in Nat

Actor == {anson, beatrice}
Recipients == <<anson, beatrice, admin>>   \* RECIPIENTS, in display order
Identity == {anson, beatrice, admin}

VARIABLES
  tab,          \* App's tab
  cards,        \* AdminPanel's state per identity
  screen,       \* TransferDashboard's state, one field per useState
  requests,     \* every request so far, in the order they were made
  ledger,       \* balances on chain
  log,          \* rows of the audit log
  faults,       \* failed requests so far
  disturbed     \* history variable: since the tab was opened on a quiet page,
                \* the user acted while a request was out, or a request failed

serverVars == <<ledger, log>>
vars == <<tab, cards, screen, requests, serverVars, faults, disturbed>>

Null == -1      \* no balance; also the result of a request that failed
Blank == -1     \* an empty amount field

AdminKind == {"onboard", "mint"}
SendKind == {"transfer", "refresh"}
Kind == AdminKind \cup SendKind \cup {"balance", "history"}

\* executed: the chain has it, the answer is not out yet.
Stage == {"sent", "executed", "answered", "over"}

Requests == [kind : Kind, who : Identity, to : Identity, amount : 0..MaxAmount,
             stage : Stage, result : Nat \cup {Null}, live : BOOLEAN]

TypeOK ==
  /\ tab \in {"admin", "transfer"}
  /\ cards \in [Actor -> [busy : BOOLEAN, message : {"none", "done", "error"},
                          balance : Nat \cup {Null}]]
  /\ screen \in [actingAs : Actor, recipient : Identity,
                 amount : 0..MaxAmount \cup {Blank}, balance : Nat \cup {Null},
                 history : 0..log, message : {"none", "sent", "error", "invalid"},
                 busy : BOOLEAN]
  /\ requests \in Seq(Requests)
  /\ ledger \in [Identity -> Nat]
  /\ log \in Nat
  /\ faults \in 0..MaxFaults
  /\ disturbed \in BOOLEAN

\* The initial states of the two components.
FreshCards == [a \in Actor |-> [busy |-> FALSE, message |-> "none", balance |-> Null]]

FreshScreen ==
  [actingAs |-> anson, recipient |-> beatrice, amount |-> Blank, balance |-> Null,
   history |-> 0, message |-> "none", busy |-> FALSE]

Init ==
  /\ tab = "admin"
  /\ cards = FreshCards
  /\ screen = FreshScreen
  /\ requests = <<>>
  /\ ledger = [i \in Identity |-> IF i = anson THEN MaxAmount ELSE 0]
  /\ log = 0
  /\ faults = 0
  /\ disturbed = FALSE

-----------------------------------------------------------------------------
(* Requests *)

Request(kind, who, to, n) ==
  [kind |-> kind, who |-> who, to |-> to, amount |-> n,
   stage |-> "sent", result |-> Null, live |-> TRUE]

GetBalance(who) == Request("balance", who, who, 0)
GetTransfers == Request("history", admin, admin, 0)

Issue(rs) ==
  /\ Len(requests) + Len(rs) <= MaxRequests
  /\ requests' = requests \o rs

Out(i) == requests[i].stage # "over"
Quiet == \A i \in DOMAIN requests : ~Out(i)
Overlap == disturbed' = (disturbed \/ ~Quiet)

Stages(i, stage, result) ==
  requests' = [requests EXCEPT ![i].stage = stage, ![i].result = result]

\* The chain takes up a transfer or a mint; the answer is still to come.
Execute(i) ==
  LET r == requests[i] IN
  /\ r.stage = "sent"
  /\ \/ /\ r.kind = "transfer" /\ r.amount <= ledger[r.who]
        /\ ledger' = [ledger EXCEPT ![r.who] = @ - r.amount, ![r.to] = @ + r.amount]
        /\ log' = log + 1
     \/ /\ r.kind = "mint"
        /\ ledger' = [ledger EXCEPT ![r.who] = @ + r.amount]
        /\ UNCHANGED log
  /\ Stages(i, "executed", Null)
  /\ UNCHANGED <<tab, cards, screen, faults, disturbed>>

\* A read, or the balance read that ends a transfer or a mint, or a refusal.
Answer(i) ==
  LET r == requests[i] IN
  /\ \/ /\ r.stage = "executed" \/ (r.stage = "sent" /\ r.kind = "balance")
        /\ Stages(i, "answered", ledger[r.who])
     \/ r.stage = "sent" /\ r.kind \in {"history", "refresh"} /\ Stages(i, "answered", log)
     \/ r.stage = "sent" /\ r.kind = "onboard" /\ Stages(i, "answered", 0)
     \/ /\ r.stage = "sent" /\ r.kind \in AdminKind \cup {"transfer"}
        /\ Stages(i, "answered", Null)
  /\ UNCHANGED <<tab, cards, screen, serverVars, faults, disturbed>>

\* The backend is unreachable or fails, before or after it did its work.
RequestFails(i) ==
  /\ faults < MaxFaults
  /\ requests[i].stage \in {"sent", "executed"}
  /\ Stages(i, "answered", Null)
  /\ faults' = faults + 1
  /\ disturbed' = TRUE
  /\ UNCHANGED <<tab, cards, screen, serverVars>>

-----------------------------------------------------------------------------
(* App *)

\* Unmounting leaves the requests out but cuts them from the page.
Orphaned == [i \in DOMAIN requests |-> [requests[i] EXCEPT !.live = FALSE]]

\* The other tab's component mounts with fresh state; the dashboard's effects
\* ask for anson's balance and the log.
OpenTab(t) ==
  LET asked == IF t = "transfer" THEN <<GetBalance(anson), GetTransfers>> ELSE <<>> IN
  /\ t # tab
  /\ tab' = t
  /\ cards' = FreshCards
  /\ screen' = FreshScreen
  /\ Len(requests) + Len(asked) <= MaxRequests
  /\ requests' = Orphaned \o asked
  /\ disturbed' = ~Quiet
  /\ UNCHANGED <<serverVars, faults>>

-----------------------------------------------------------------------------
(* AdminPanel *)

\* run(id, action), up to its await.
Run(kind, a, n) ==
  /\ tab = "admin"
  /\ ~cards[a].busy
  /\ cards' = [cards EXCEPT ![a].busy = TRUE, ![a].message = "none"]
  /\ Issue(<<Request(kind, a, a, n)>>)
  /\ Overlap
  /\ UNCHANGED <<tab, screen, serverVars, faults>>

\* The rest of run: a failed action leaves the balance shown.
PatchCard(r) ==
  /\ r.kind \in AdminKind
  /\ cards' = [cards EXCEPT ![r.who] =
                 [busy |-> FALSE,
                  message |-> IF r.result = Null THEN "error" ELSE "done",
                  balance |-> IF r.kind = "mint" /\ r.result # Null THEN r.result
                              ELSE @.balance]]
  /\ UNCHANGED screen

-----------------------------------------------------------------------------
(* TransferDashboard *)

\* The first recipient that is not a.
FirstOther(a) ==
  LET others == {i \in DOMAIN Recipients : Recipients[i] # a}
  IN Recipients[CHOOSE i \in others : \A j \in others : i <= j]

\* Mutant: the effect leaves the recipient alone.
SwitchActorOnly(a) ==
  /\ tab = "transfer"
  /\ a # screen.actingAs
  /\ screen' = [screen EXCEPT !.actingAs = a]
  /\ Issue(<<GetBalance(a)>>)
  /\ Overlap
  /\ UNCHANGED <<tab, cards, serverVars, faults>>

\* The selector is never disabled; the effect on actingAs follows.
SwitchActor(a) ==
  /\ tab = "transfer"
  /\ a # screen.actingAs
  /\ screen' = [screen EXCEPT !.actingAs = a,
                              !.recipient = IF @ = a THEN FirstOther(a) ELSE @]
  /\ Issue(<<GetBalance(a)>>)
  /\ Overlap
  /\ UNCHANGED <<tab, cards, serverVars, faults>>

\* The recipient selector offers everybody but the sender; the amount field
\* takes anything.
Edit ==
  /\ tab = "transfer"
  /\ \/ \E to \in Identity \ {screen.actingAs} : screen' = [screen EXCEPT !.recipient = to]
     \/ \E n \in 0..MaxAmount \cup {Blank} : screen' = [screen EXCEPT !.amount = n]
  /\ UNCHANGED <<tab, cards, requests, serverVars, faults, disturbed>>

\* handleSend up to its await; the button is disabled while busy or blank.
HandleSend ==
  /\ tab = "transfer"
  /\ ~screen.busy /\ screen.amount # Blank
  /\ \/ /\ screen.amount = 0
        /\ screen' = [screen EXCEPT !.message = "invalid"]
        /\ UNCHANGED <<requests, disturbed>>
     \/ /\ screen.amount > 0
        /\ screen' = [screen EXCEPT !.busy = TRUE, !.message = "none"]
        /\ Issue(<<Request("transfer", screen.actingAs, screen.recipient, screen.amount)>>)
        /\ Overlap
  /\ UNCHANGED <<tab, cards, serverVars, faults>>

Sent(r) == [screen EXCEPT !.balance = r.result, !.message = "sent", !.amount = Blank]
Refreshed(r) == [screen EXCEPT !.history = r.result, !.busy = FALSE]
SendError == [screen EXCEPT !.message = "error", !.busy = FALSE]

\* Mutant: busy ends with the transfer, before the refresh.
FinishSendEarly(r) ==
  \/ r.kind = "transfer" /\ r.result # Null /\ screen' = [Sent(r) EXCEPT !.busy = FALSE]
  \/ r.kind = "refresh" /\ r.result # Null /\ screen' = Refreshed(r)
  \/ r.kind \in SendKind /\ r.result = Null /\ screen' = SendError

\* Mutant: the balances of the answer are not used.
FinishSendBlindly(r) ==
  \/ /\ r.kind = "transfer" /\ r.result # Null
     /\ screen' = [Sent(r) EXCEPT !.balance = screen.balance]
  \/ r.kind = "refresh" /\ r.result # Null /\ screen' = Refreshed(r)
  \/ r.kind \in SendKind /\ r.result = Null /\ screen' = SendError

\* The rest of handleSend: the sender's balance out of the answer, then the
\* history; whatever throws on the way shows an error, and busy ends.
FinishSend(r) ==
  \/ r.kind = "transfer" /\ r.result # Null /\ screen' = Sent(r)
  \/ r.kind = "refresh" /\ r.result # Null /\ screen' = Refreshed(r)
  \/ r.kind \in SendKind /\ r.result = Null /\ screen' = SendError

\* refreshBalance and the first refreshHistory; a failed read shows nothing.
ShowRead(r) ==
  \/ r.kind = "balance" /\ screen' = [screen EXCEPT !.balance = r.result]
  \/ /\ r.kind = "history"
     /\ screen' = [screen EXCEPT !.history = IF r.result = Null THEN 0 ELSE r.result]

\* The continuation of request i.  A transfer that went through goes on to
\* refresh the history; answers for an unmounted component change nothing.
Deliver(i) ==
  LET r == requests[i] IN
  /\ r.stage = "answered"
  /\ \/ ~r.live /\ UNCHANGED <<cards, screen>>
     \/ r.live /\ PatchCard(r)
     \/ r.live /\ (FinishSend(r) \/ ShowRead(r)) /\ UNCHANGED cards
  /\ requests' = [requests EXCEPT ![i] =
                    IF r.live /\ r.kind = "transfer" /\ r.result # Null
                    THEN Request("refresh", admin, admin, 0)
                    ELSE [@ EXCEPT !.stage = "over", !.result = Null]]
  /\ UNCHANGED <<tab, serverVars, faults, disturbed>>

Next ==
  \/ \E t \in {"admin", "transfer"} : OpenTab(t)
  \/ \E a \in Actor :
       \/ SwitchActor(a)
       \/ Run("onboard", a, 0)
       \/ \E n \in 1..MaxAmount : Run("mint", a, n)
  \/ Edit
  \/ HandleSend
  \/ \E i \in DOMAIN requests : Execute(i) \/ Answer(i) \/ RequestFails(i) \/ Deliver(i)

Spec == Init /\ [][Next]_vars

-----------------------------------------------------------------------------
LiveOut(kinds, whos) ==
  {i \in DOMAIN requests : /\ Out(i) /\ requests[i].live
                           /\ requests[i].kind \in kinds /\ requests[i].who \in whos}

(***************************************************************************)
(* busy is what keeps a second click from paying twice: a card is busy     *)
(* exactly while its one request is out, the dashboard exactly while its   *)
(* one send or the refresh after it is, in whatever order answers of other *)
(* cards and reads come in.                                                *)
(***************************************************************************)
BusyIsExact ==
  /\ \A a \in Actor :
       Cardinality(LiveOut(AdminKind, {a})) = IF cards[a].busy THEN 1 ELSE 0
  /\ Cardinality(LiveOut(SendKind, Identity)) = IF screen.busy THEN 1 ELSE 0

(***************************************************************************)
(* No transfer to oneself leaves the page, although sender and recipient   *)
(* are chosen independently and either may change while a send is out.     *)
(***************************************************************************)
NeverToSelf ==
  \A i \in DOMAIN requests :
    requests[i].kind = "transfer" => requests[i].who # requests[i].to

(***************************************************************************)
(* The dashboard shows the truth once it is quiet, the acting identity's   *)
(* balance and the whole log, unless something failed or was overlapped    *)
(* since it was opened on a quiet page.  Whatever went wrong before,       *)
(* opening the tab again repairs what is shown.                            *)
(***************************************************************************)
ScreenIsCurrent ==
  tab = "transfer" /\ Quiet /\ ~disturbed =>
    screen.balance = ledger[screen.actingAs] /\ screen.history = log
=============================================================================
