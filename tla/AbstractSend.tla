---------------------------- MODULE AbstractSend ----------------------------
(***************************************************************************)
(* What ComplianceAdminService and TransferService rely on when they write *)
(* `tx = await contract.method(...); await tx.wait()': the call executes   *)
(* on chain at most once; the promise resolves only after it has executed; *)
(* a rejection means it never did and never will; after a transport fault  *)
(* nothing is known.  Nothing here says that a call must finish.           *)
(***************************************************************************)
CONSTANT Call

VARIABLES
  state,    \* state[c]: what the service sees of call c
  effect    \* the calls that have executed on chain

vars == <<state, effect>>

States == {"idle", "pending", "resolved", "rejected", "unknown"}

Init ==
  /\ state = [c \in Call |-> "idle"]
  /\ effect = {}

\* State change of one call, as the caller sees it.
Become(c, from, to) ==
  /\ state[c] = from
  /\ state' = [state EXCEPT ![c] = to]

Begin(c) == Become(c, "idle", "pending") /\ UNCHANGED effect

Execute(c) ==
  /\ state[c] \in {"pending", "unknown"}
  /\ c \notin effect
  /\ effect' = effect \cup {c}
  /\ UNCHANGED state

Resolve(c) ==
  /\ c \in effect
  /\ Become(c, "pending", "resolved")
  /\ UNCHANGED effect

Reject(c) ==
  /\ c \notin effect
  /\ Become(c, "pending", "rejected")
  /\ UNCHANGED effect

\* One call whose answer is lost, or all of a process that dies.
LoseTrack(C) ==
  /\ \A c \in C : state[c] = "pending"
  /\ state' = [c \in Call |-> IF c \in C THEN "unknown" ELSE state[c]]
  /\ UNCHANGED effect

Next ==
  \/ \E c \in Call : Begin(c) \/ Execute(c) \/ Resolve(c) \/ Reject(c)
  \/ \E C \in SUBSET Call : LoseTrack(C)

Spec == Init /\ [][Next]_vars
=============================================================================
