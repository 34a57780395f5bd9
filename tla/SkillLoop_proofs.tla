-------------------------- MODULE SkillLoop_proofs --------------------------
(***************************************************************************)
(* The description loop, for any eval sets, holdout, pool size, number of  *)
(* runs, rounds and faults: the command directory holds only files that    *)
(* somebody answers for, the improver never sees what is held out, what is *)
(* shipped is what scored best, and verdicts are earned.                   *)
(***************************************************************************)
EXTENDS SkillPackage, FiniteSetTheorems, SequenceTheorems, WellFoundedInduction, TLAPS

\* Between batches there are no tasks; every task has its state.
TasksOK ==
  /\ pc # "eval" => tasks = <<>>
  /\ \A k \in DOMAIN tasks : "at" \in DOMAIN tasks[k]

\* A command file is known by its round and its task.
NamesOK == \A c \in commands : c = <<c[1], c[2]>>

FilesInv == TasksOK /\ NamesOK /\ FilesAreOwned

\* An entry has its train results, and they are about train queries.
EntryOK(e, items) ==
  /\ "train_results" \in DOMAIN e
  /\ \A r \in e.train_results : r.query \in Queries(items)

HistoryOK ==
  /\ history \in Seq({history[i] : i \in DOMAIN history})
  /\ \A i \in DOMAIN history : EntryOK(history[i], train)
  /\ pc = "start" => history = <<>> /\ shown = {}
  /\ pc = "improve" => history # <<>>

UnseenInv == HistoryOK /\ TestStaysUnseen

-----------------------------------------------------------------------------
(* The command files *)

\* The files are still owned when only tasks that are not at work change, or
\* when one task's file goes with the task.
LEMMA SameActive ==
  ASSUME FilesAreOwned, NamesOK, Active' = Active, UNCHANGED <<commands, round, broken>>
  PROVE  FilesAreOwned' /\ NamesOK'
BY DEF FilesAreOwned, NamesOK

LEMMA ReturnFiles ==
  ASSUME FilesInv, pc = "eval", UNCHANGED pc,
         NEW k \in DOMAIN tasks, NEW v, NEW c, Return(k, v, c)
  PROVE  FilesInv'
<1>1. /\ tasks' = [tasks EXCEPT ![k] = Returned(k, v, c)]
      /\ commands' = commands \ {<<round, k>>}
      /\ UNCHANGED <<round, broken>>
  BY DEF Return
<1>2. Returned(k, v, c).at = "done" /\ "at" \in DOMAIN Returned(k, v, c)
  BY DEF Returned, Blank
<1>3. TasksOK'
  BY <1>1, <1>2 DEF FilesInv, TasksOK
<1>4. Active' = Active \ {k}
  BY <1>1, <1>2 DEF Active
<1>5. NamesOK'
  BY <1>1 DEF FilesInv, NamesOK
<1>6. FilesAreOwned'
  BY <1>1, <1>4 DEF FilesInv, NamesOK, FilesAreOwned
<1> QED
  BY <1>3, <1>5, <1>6 DEF FilesInv

\* A step of a task, of its claude, or the end of the pool.
LEMMA BatchFiles ==
  ASSUME FilesInv, pc = "eval", BatchNext, UNCHANGED pc
  PROVE  FilesInv'
<1> USE DEF FilesInv
<1>1. ASSUME NEW k \in DOMAIN tasks, NEW t,
             tasks' = [tasks EXCEPT ![k] = t], "at" \in DOMAIN t,
             t.at = tasks[k].at \/ (tasks[k].at = "running" /\ t.at = "stuck"),
             UNCHANGED <<commands, round, broken>>
      PROVE  FilesInv'
  <2>1. TasksOK' /\ Active' = Active
    BY <1>1 DEF TasksOK, Active
  <2> QED
    BY <1>1, <2>1, SameActive
<1>2. ASSUME NEW k \in DOMAIN tasks, Launch(k) PROVE FilesInv'
  <2>1. CASE Return(k, FALSE, FALSE)
    BY <2>1, ReturnFiles
  <2>2. CASE /\ commands' = commands \cup {<<round, k>>}
             /\ tasks' = [tasks EXCEPT ![k].at = "running"]
             /\ UNCHANGED <<round, broken>>
    <3>1. TasksOK' /\ Active' = Active \cup {k}
      BY <2>2 DEF TasksOK, Active
    <3>2. NamesOK'
      BY <2>2 DEF NamesOK
    <3>3. FilesAreOwned'
      BY <2>2, <3>1 DEF FilesAreOwned
    <3> QED
      BY <3>1, <3>2, <3>3
  <2> QED
    BY <1>2, <2>1, <2>2 DEF Launch
<1>3. ASSUME NEW k \in DOMAIN tasks, SeeExit(k) PROVE FilesInv'
  <2>1. CASE Return(k, FALSE, Unread(k))
    BY <2>1, ReturnFiles
  <2>2. CASE Running(k) /\ tasks' = [tasks EXCEPT ![k].at = "stuck"] /\ UNCHANGED <<commands, round, broken>>
    <3>1. tasks' = [tasks EXCEPT ![k] = [tasks[k] EXCEPT !.at = "stuck"]]
      BY <2>2
    <3> QED
      BY <1>1, <2>2, <3>1 DEF Running, TasksOK
  <2> QED
    BY <1>3, <2>1, <2>2 DEF SeeExit
<1>4. ASSUME NEW k \in DOMAIN tasks, ReadChunk(k) PROVE FilesInv'
  <2>1. PICK n, p : \/ Return(k, p.out = "true", FALSE)
                    \/ /\ tasks' = [tasks EXCEPT ![k].read = n, ![k].parse = p]
                       /\ UNCHANGED <<commands, round, broken>>
    BY <1>4 DEF ReadChunk
  <2>2. CASE Return(k, p.out = "true", FALSE)
    BY <2>2, ReturnFiles
  <2>3. CASE tasks' = [tasks EXCEPT ![k].read = n, ![k].parse = p] /\ UNCHANGED <<commands, round, broken>>
    <3>1. tasks' = [tasks EXCEPT ![k] = [tasks[k] EXCEPT !.read = n, !.parse = p]]
      BY <2>3
    <3> QED
      BY <1>1, <2>3, <3>1 DEF TasksOK
  <2> QED
    BY <2>1, <2>2, <2>3
<1>5. ASSUME NEW k \in DOMAIN tasks, TimeOut(k) PROVE FilesInv'
  BY <1>5, ReturnFiles DEF TimeOut
<1>6. ASSUME NEW k \in DOMAIN tasks, Emit(k) PROVE FilesInv'
  <2>1. PICK e : tasks' = [tasks EXCEPT ![k].sent = Append(@, e)]
    BY <1>6 DEF Emit
  <2>2. tasks' = [tasks EXCEPT ![k] = [tasks[k] EXCEPT !.sent = Append(tasks[k].sent, e)]]
    BY <2>1
  <2> QED
    BY <1>1, <1>6, <2>2 DEF Emit, TasksOK
<1>7. ASSUME NEW k \in DOMAIN tasks, Exit(k) PROVE FilesInv'
  <2>1. PICK how : tasks' = [tasks EXCEPT ![k].exited = how]
    BY <1>7 DEF Exit
  <2>2. tasks' = [tasks EXCEPT ![k] = [tasks[k] EXCEPT !.exited = how]]
    BY <2>1
  <2> QED
    BY <1>1, <1>7, <2>2 DEF Exit, TasksOK
<1>8. CASE WorkerDies
  <2>1. /\ broken' = broken \cup {round}
        /\ tasks' = [k \in DOMAIN tasks |-> IF tasks[k].at = "done" THEN tasks[k]
                                            ELSE Returned(k, FALSE, Unread(k))]
        /\ UNCHANGED <<commands, round>>
    BY <1>8 DEF WorkerDies
  <2>2. \A k \in DOMAIN tasks : "at" \in DOMAIN tasks'[k] /\ tasks'[k].at = "done"
    BY <2>1 DEF Returned, Blank, TasksOK
  <2>3. TasksOK' /\ Active' = {}
    BY <2>1, <2>2 DEF TasksOK, Active
  <2> QED
    BY <2>1, <2>3 DEF NamesOK, FilesAreOwned
<1> QED
  BY <1>2, <1>3, <1>4, <1>5, <1>6, <1>7, <1>8 DEF BatchNext, WorkNext, Work

\* A batch begins when none is at work: nothing new, and nobody's file is of it.
LEMMA StartFiles ==
  ASSUME FilesInv, tasks = <<>>, NEW items, StartBatch(items), pc' = "eval",
         UNCHANGED <<commands, broken>>
  PROVE  FilesInv'
<1>1. Active = {} /\ Active' = {} /\ TasksOK'
  BY DEF StartBatch, Active, Blank, TasksOK
<1> QED
  BY <1>1 DEF FilesInv, NamesOK, FilesAreOwned

LEMMA FilesStep == FilesInv /\ [Next]_vars => FilesInv'
<1> SUFFICES ASSUME FilesInv, [Next]_vars PROVE FilesInv'
  OBVIOUS
<1>1. ASSUME pc # "eval", pc' # "eval", UNCHANGED <<tasks, commands, round, broken>>
      PROVE  FilesInv'
  BY <1>1 DEF FilesInv, TasksOK, NamesOK, FilesAreOwned, Active
<1>2. CASE Begin
  <2>1. CASE pc' = "failed" /\ UNCHANGED evalVars
    BY <1>1, <1>2, <2>1 DEF Begin, evalVars
  <2>2. CASE StartBatch(train' \o test') /\ pc' = "eval" /\ UNCHANGED <<commands, broken>>
    <3>1. tasks = <<>>
      BY <1>2 DEF Begin, FilesInv, TasksOK
    <3> QED
      BY <2>2, <3>1, StartFiles
  <2> QED
    BY <1>2, <2>1, <2>2 DEF Begin
<1>3. CASE Score
  <2>1. /\ tasks' = <<>> /\ UNCHANGED <<commands, round, broken>>
        /\ \A k \in DOMAIN tasks : tasks[k].at = "done"
    BY <1>3 DEF Score, BatchOver
  <2>2. Active = {} /\ Active' = {} /\ TasksOK'
    BY <2>1 DEF Active, TasksOK
  <2> QED
    BY <2>1, <2>2 DEF FilesInv, NamesOK, FilesAreOwned
<1>4. ASSUME pc # "eval", NEW d, NextRound(d) PROVE FilesInv'
  <2>1. tasks = <<>>
    BY <1>4 DEF FilesInv, TasksOK
  <2> QED
    BY <1>4, <2>1, StartFiles DEF NextRound
<1>5. CASE Improve
  <2>1. pc = "improve"
    BY <1>5 DEF Improve
  <2>2. CASE CallFails
    BY <1>1, <2>1, <2>2 DEF CallFails, evalVars
  <2>3. CASE \E kind \in Kinds : Answer([from |-> Len(history), kind |-> kind])
    <3>1. PICK d : Answer(d)
      BY <2>3
    <3> QED
      BY <1>1, <1>4, <2>1, <3>1 DEF Answer, evalVars
  <2> QED
    BY <1>5, <2>2, <2>3 DEF Improve
<1>6. CASE Shorten
  BY <1>1, <1>4, <1>6 DEF Shorten, CallFails, evalVars
<1>7. CASE Conclude
  BY <1>1, <1>7 DEF Conclude, evalVars
<1>8. CASE pc = "eval" /\ BatchNext /\ UNCHANGED loopVars
  BY <1>8, BatchFiles DEF loopVars
<1>9. CASE Apply
  BY <1>1, <1>9 DEF Apply, evalVars
<1>10. CASE Package
  BY <1>1, <1>10 DEF Package
<1>11. CASE UNCHANGED vars
  BY <1>11 DEF vars, evalVars, loopVars, FilesInv, TasksOK, NamesOK, FilesAreOwned, Active
<1> QED
  BY <1>2, <1>3, <1>5, <1>6, <1>7, <1>8, <1>9, <1>10, <1>11 DEF Next, LoopNext, LoopStep

(***************************************************************************)
(* Every command file is that of a task at work, or was left by a pool     *)
(* that broke.                                                             *)
(***************************************************************************)
THEOREM FilesAlwaysOwned == Spec => []FilesAreOwned
<1>1. Init => FilesInv
  BY DEF Init, LoopInit, FilesInv, TasksOK, NamesOK, FilesAreOwned, Active
<1>2. FilesInv => FilesAreOwned
  BY DEF FilesInv
<1> QED
  BY <1>1, <1>2, FilesStep, PTL DEF Spec

-----------------------------------------------------------------------------
(* What the improver sees *)

\* A sequence of anything is one of its own elements.
LEMMA OwnElements ==
  ASSUME NEW S, NEW s \in Seq(S)
  PROVE  s \in Seq({s[i] : i \in DOMAIN s})
<1>1. Len(s) \in Nat /\ DOMAIN s = 1..Len(s) /\ s = [i \in 1..Len(s) |-> s[i]]
  OBVIOUS
<1> DEFINE T == {s[i] : i \in DOMAIN s}
<1>2. \A i \in 1..Len(s) : s[i] \in T
  BY <1>1
<1> HIDE DEF T
<1>3. [i \in 1..Len(s) |-> s[i]] \in Seq(T)
  BY <1>1, <1>2
<1> QED
  BY <1>1, <1>3 DEF T

\* The results of a round are split by train's queries, so that its entry has
\* only those.
LEMMA EntryIsOK ==
  ASSUME NEW i, NEW results PROVE EntryOK(Entry(i, results), train)
BY DEF Entry, EntryOK

\* What a fact of a prompt is about.
LEMMA PromptTells ==
  ASSUME NEW results, NEW hist, NEW fact \in Prompt(results, hist)
  PROVE  \/ \E r \in results : fact = <<"query", r.query>>
         \/ \E i \in DOMAIN hist : \E r \in hist[i].train_results : fact = <<"query", r.query>>
         \/ \E i \in DOMAIN hist : "test_passed" \in DOMAIN hist[i]
<1>1. CASE fact \in {<<"query", r.query>> : r \in {x \in results : ~x.pass}}
  BY <1>1
<1>2. CASE \E i \in DOMAIN hist : fact \in {<<"query", r.query>> : r \in hist[i].train_results}
  BY <1>2
<1>3. CASE fact \in {<<"test score">> : i \in {j \in DOMAIN hist : "test_passed" \in DOMAIN hist[j]}}
  BY <1>3
<1>4. \/ fact \in UNION {{<<"query", r.query>> : r \in hist[i].train_results} : i \in DOMAIN hist}
      \/ fact \in {<<"query", r.query>> : r \in {x \in results : ~x.pass}}
      \/ fact \in {<<"test score">> : i \in {j \in DOMAIN hist : "test_passed" \in DOMAIN hist[j]}}
  BY Zenon DEF Prompt
<1> DEFINE T(i) == {<<"query", r.query>> : r \in hist[i].train_results}
<1>5. fact \in UNION {T(i) : i \in DOMAIN hist} => \E i \in DOMAIN hist : fact \in T(i)
  <2> HIDE DEF T
  <2> QED
    OBVIOUS
<1> QED
  BY <1>1, <1>2, <1>3, <1>4, <1>5

\* A prompt tells the train queries of the entries and nothing else.
LEMMA PromptIsBlind ==
  ASSUME HistoryOK, history # <<>>,
         NEW fact \in Prompt(history[Len(history)].train_results,
                             [i \in DOMAIN history |-> Blind(history[i])])
  PROVE  \E q \in Queries(train) : fact = <<"query", q>>
<1> DEFINE hist == [i \in DOMAIN history |-> Blind(history[i])]
<1>1. Len(history) \in DOMAIN history
  BY DEF HistoryOK
<1>2. ASSUME NEW i \in DOMAIN history
      PROVE  /\ "test_passed" \notin DOMAIN hist[i]
             /\ hist[i].train_results = history[i].train_results
             /\ \A r \in history[i].train_results : r.query \in Queries(train)
  BY DEF HistoryOK, EntryOK, Blind, TestFields
<1>3. \/ \E r \in history[Len(history)].train_results : fact = <<"query", r.query>>
      \/ \E i \in DOMAIN hist : \E r \in hist[i].train_results : fact = <<"query", r.query>>
      \/ \E i \in DOMAIN hist : "test_passed" \in DOMAIN hist[i]
  BY PromptTells
<1>4. DOMAIN hist = DOMAIN history
  OBVIOUS
<1> HIDE DEF hist
<1> QED
  BY <1>1, <1>2, <1>3, <1>4

LEMMA UnseenStep == UnseenInv /\ [Next]_vars => UnseenInv'
<1> SUFFICES ASSUME UnseenInv, [Next]_vars PROVE UnseenInv'
  OBVIOUS
<1>1. ASSUME UNCHANGED <<train, history, shown>>, pc' \notin {"start", "improve"} \/ UNCHANGED pc
      PROVE  UnseenInv'
  BY <1>1 DEF UnseenInv, HistoryOK, TestStaysUnseen
<1>2. CASE Begin
  <2>1. history = <<>> /\ shown = {} /\ UNCHANGED <<history, shown>> /\ pc' \in {"failed", "eval"}
    BY <1>2 DEF Begin, UnseenInv, HistoryOK
  <2> QED
    BY <2>1 DEF UnseenInv, HistoryOK, TestStaysUnseen
<1>3. CASE Score
  <2>1. PICK e : history' = Append(history, e) /\ EntryOK(e, train)
    BY <1>3, EntryIsOK DEF Score
  <2>2. UNCHANGED <<train, shown>> /\ pc' # "start"
    BY <1>3 DEF Score, splitVars
  <2> DEFINE S == {history[i] : i \in DOMAIN history} \cup {e}
  <2>3. history \in Seq({history[i] : i \in DOMAIN history})
    BY DEF UnseenInv, HistoryOK
  <2>4. history \in Seq(S) /\ e \in S
    BY <2>3
  <2> HIDE DEF S
  <2>5. history' \in Seq(S) /\ history' # <<>>
    BY <2>1, <2>4, AppendProperties
  <2>6. history' \in Seq({history'[i] : i \in DOMAIN history'})
    BY <2>5, OwnElements
  <2>7. \A i \in DOMAIN history' : history'[i] = e \/ (i \in DOMAIN history /\ history'[i] = history[i])
    BY <2>1, <2>4, AppendProperties
  <2>8. \A i \in DOMAIN history' : EntryOK(history'[i], train)
    BY <2>1, <2>7 DEF UnseenInv, HistoryOK
  <2> QED
    BY <2>2, <2>5, <2>6, <2>8 DEF UnseenInv, HistoryOK, TestStaysUnseen
<1>4. CASE Improve
  <2>1. /\ shown' = shown \cup Prompt(history[Len(history)].train_results,
                                      [i \in DOMAIN history |-> Blind(history[i])])
        /\ UNCHANGED <<train, history>>
        /\ pc = "improve" /\ pc' \in {"failed", "eval", "shorten"}
    BY <1>4 DEF Improve, splitVars, CallFails, Answer, NextRound
  <2>2. HistoryOK'
    BY <2>1 DEF UnseenInv, HistoryOK
  <2>3. history # <<>>
    BY <2>1 DEF UnseenInv, HistoryOK
  <2>4. TestStaysUnseen'
    BY <2>1, <2>3, PromptIsBlind DEF UnseenInv, TestStaysUnseen
  <2> QED
    BY <2>2, <2>4 DEF UnseenInv
<1>5. CASE Shorten \/ Conclude
  BY <1>1, <1>5 DEF Shorten, CallFails, NextRound, Conclude, splitVars
<1>6. CASE pc = "eval" /\ BatchNext /\ UNCHANGED loopVars
  BY <1>1, <1>6 DEF loopVars, splitVars
<1>7. CASE Apply \/ Package
  BY <1>1, <1>7 DEF Apply, Package, splitVars
<1>8. CASE UNCHANGED vars
  BY <1>1, <1>8 DEF vars, loopVars, splitVars
<1> QED
  BY <1>2, <1>3, <1>4, <1>5, <1>6, <1>7, <1>8 DEF Next, LoopNext, LoopStep

(***************************************************************************)
(* Over all rounds the improver is shown neither a query that only the     *)
(* test set has nor a test score.                                          *)
(***************************************************************************)
THEOREM TestAlwaysUnseen == Spec => []TestStaysUnseen
<1>1. Init => UnseenInv
  BY DEF Init, LoopInit, UnseenInv, HistoryOK, TestStaysUnseen
<1>2. UnseenInv => TestStaysUnseen
  BY DEF UnseenInv
<1> QED
  BY <1>1, <1>2, UnseenStep, PTL DEF Spec
-----------------------------------------------------------------------------
(* Sequences, folds and maxima *)

LEMMA LeastExists ==
  ASSUME NEW S \in SUBSET Nat, S # {}
  PROVE  \E x \in S : \A y \in S : x <= y
<1> DEFINE R == OpToRel(<, Nat)
<1>1. IsWellFoundedOn(R, Nat)
  BY NatLessThanWellFounded
<1>2. \E x \in S : \A y \in S : ~(<<y, x>> \in R)
  <2> HIDE DEF R
  <2> QED
    BY <1>1, WFMin
<1>3. \A x, y \in Nat : ~(<<y, x>> \in R) => x <= y
  BY DEF OpToRel
<1> QED
  BY <1>2, <1>3

\* Sets of indices of a sequence.
Indices(S) == \E n \in Nat : S \subseteq 1..n

LEMMA IndicesFinite ==
  ASSUME NEW S, Indices(S), NEW T \in SUBSET S
  PROVE  Indices(T) /\ IsFiniteSet(T)
<1>1. PICK n \in Nat : S \subseteq 1..n
  BY DEF Indices
<1>2. IsFiniteSet(1..n) /\ T \in SUBSET (1..n)
  BY <1>1, FS_Interval
<1> QED
  BY <1>2, FS_Subset DEF Indices

LEMMA MaxIsGreatest ==
  ASSUME NEW S, Indices(S), S # {}
  PROVE  Max(S) \in S /\ \A y \in S : Max(S) >= y
<1> PICK n \in Nat : S \subseteq 1..n
  BY DEF Indices
<1> DEFINE T == {n - y : y \in S}
<1>0. \A y \in S : n - y \in Nat
  OBVIOUS
<1>1. T \in SUBSET Nat /\ T # {}
  BY <1>0
<1>2. PICK t \in T : \A u \in T : t <= u
  <2> HIDE DEF T
  <2> QED
    BY <1>1, LeastExists
<1>3. PICK x \in S : t = n - x
  BY <1>2
<1>4. \A y \in S : x >= y
  <2> SUFFICES ASSUME NEW y \in S PROVE x >= y
    OBVIOUS
  <2>1. t <= n - y
    BY <1>2
  <2> QED
    BY <1>3, <2>1
<1> QED
  BY <1>4 DEF Max

\* Induction over the subsets of a finite set, without an operator parameter.
LEMMA SubsetInduction ==
  ASSUME NEW S, IsFiniteSet(S), NEW G,
         \A T \in SUBSET S : (\A U \in SUBSET T : U # T => U \in G) => T \in G
  PROVE  SUBSET S \subseteq G
<1> DEFINE R == StrictSubsetOrdering(S)
           B == (SUBSET S) \ G
<1>1. IsWellFoundedOn(R, SUBSET S)
  BY FS_StrictSubsetOrderingWellFounded, FS_FiniteSubsetsOfFinite
<1> SUFFICES ASSUME B # {} PROVE FALSE
  OBVIOUS
<1>2. B \subseteq SUBSET S
  OBVIOUS
<1>3. \E T \in B : \A U \in B : ~ (<<U, T>> \in R)
  <2> HIDE DEF B, R
  <2> QED BY <1>1, <1>2, WFMin
<1>4. PICK T \in B : \A U \in B : ~ (<<U, T>> \in R)
  BY <1>3
<1>5. \A U \in SUBSET T : U # T => U \in G
  BY <1>4 DEF StrictSubsetOrdering
<1> QED BY <1>4, <1>5

\* Folding a sequence from the left: what is known at the start, and stays so
\* when one more element is folded in, is known of the result.  The fold is a
\* recursive function on the sets of indices; n is how far it has gone.
Strata(items, should, S, g) ==
  g = [t \in SUBSET S |->
         IF t = {} THEN <<>>
         ELSE IF items[Max(t)].should = should THEN Append(g[t \ {Max(t)}], items[Max(t)])
              ELSE g[t \ {Max(t)}]]

LEMMA StratumIsFold ==
  ASSUME NEW items, NEW should
  PROVE  Stratum(items, should) = (CHOOSE g : Strata(items, should, DOMAIN items, g))[DOMAIN items]
BY DEF Stratum, FoldLeft, MapThenFoldSet, Strata

LEMMA StrataAgree ==
  ASSUME NEW items, NEW should, NEW S, Indices(S), NEW T \in SUBSET S,
         NEW g, NEW h, Strata(items, should, S, g), Strata(items, should, T, h)
  PROVE  \A t \in SUBSET T : g[t] = h[t]
<1> DEFINE G == {t \in SUBSET T : g[t] = h[t]}
<1>1. IsFiniteSet(T)
  BY IndicesFinite
<1>2. ASSUME NEW t \in SUBSET T, \A U \in SUBSET t : U # t => U \in G
      PROVE  t \in G
  <2>1. CASE t = {}
    BY <2>1 DEF Strata
  <2>2. CASE t # {}
    <3>1. Max(t) \in t
      BY <2>2, IndicesFinite, MaxIsGreatest
    <3> DEFINE rest == t \ {Max(t)}
    <3>2. g[rest] = h[rest]
      BY <1>2, <3>1
    <3>3. g[t] = IF items[Max(t)].should = should THEN Append(g[rest], items[Max(t)]) ELSE g[rest]
      BY <2>2 DEF Strata
    <3>4. h[t] = IF items[Max(t)].should = should THEN Append(h[rest], items[Max(t)]) ELSE h[rest]
      BY <2>2 DEF Strata
    <3> QED
      BY <3>2, <3>3, <3>4
  <2> QED
    BY <2>1, <2>2
<1>3. SUBSET T \subseteq G
  <2> HIDE DEF G
  <2> QED
    BY <1>1, <1>2, SubsetInduction
<1> QED
  BY <1>3

LEMMA StrataExist ==
  ASSUME NEW items, NEW should, NEW S, Indices(S)
  PROVE  \E g : Strata(items, should, S, g)
<1> DEFINE Fold(acc, i) == IF items[i].should = should THEN Append(acc, items[i]) ELSE acc
           The(t) == CHOOSE g : Strata(items, should, t, g)
           V(t) == The(t)[t]
           G == {t \in SUBSET S : \E g : Strata(items, should, t, g)}
<1>0. IsFiniteSet(S)
  BY IndicesFinite
<1>1. ASSUME NEW T \in SUBSET S, \A U \in SUBSET T : U # T => U \in G
      PROVE  T \in G
  <2>1. ASSUME NEW t \in SUBSET T, t # T
        PROVE  V(t) = IF t = {} THEN <<>> ELSE Fold(V(t \ {Max(t)}), Max(t))
    <3>1. Strata(items, should, t, The(t))
      BY <1>1, <2>1
    <3>2. CASE t = {}
      BY <3>1, <3>2 DEF Strata
    <3>3. CASE t # {}
      <4>1. Max(t) \in t
        BY <3>3, IndicesFinite, MaxIsGreatest
      <4> DEFINE rest == t \ {Max(t)}
      <4>2. rest \in SUBSET T /\ rest # T
        BY <2>1
      <4>3. Strata(items, should, rest, The(rest))
        BY <1>1, <4>2
      <4>4. V(t) = Fold(The(t)[rest], Max(t))
        BY <3>1, <3>3 DEF Strata
      <4> HIDE DEF The
      <4>5. rest \in SUBSET t /\ rest \in SUBSET rest /\ Indices(t)
        BY IndicesFinite
      <4> HIDE DEF rest
      <4>6. \A u \in SUBSET rest : The(t)[u] = The(rest)[u]
        BY <3>1, <4>3, <4>5, StrataAgree DEF rest
      <4>7. The(t)[rest] = The(rest)[rest]
        BY <4>5, <4>6
      <4> HIDE DEF Fold
      <4> QED
        BY <3>3, <4>4, <4>7 DEF rest
    <3> QED
      BY <3>2, <3>3
  <2> HIDE DEF V
  <2> DEFINE h == [t \in SUBSET T |->
                     IF t # T THEN V(t)
                     ELSE IF T = {} THEN <<>> ELSE Fold(V(T \ {Max(T)}), Max(T))]
  <2>2. ASSUME NEW t \in SUBSET T
        PROVE  h[t] = IF t = {} THEN <<>> ELSE Fold(h[t \ {Max(t)}], Max(t))
    <3> HIDE DEF Fold
    <3>1. CASE t = {}
      BY <3>1, <2>1
    <3>2. CASE t # {}
      <4>1. Max(t) \in t
        BY <3>2, IndicesFinite, MaxIsGreatest
      <4>2. t \ {Max(t)} \in SUBSET T /\ t \ {Max(t)} # T
        BY <4>1
      <4>3. h[t \ {Max(t)}] = V(t \ {Max(t)})
        BY <4>2
      <4>4. h[t] = Fold(V(t \ {Max(t)}), Max(t))
        BY <3>2, <2>1
      <4> QED
        BY <3>2, <4>3, <4>4
    <3> QED
      BY <3>1, <3>2
  <2>3. h = [t \in SUBSET T |-> h[t]]
    OBVIOUS
  <2>4. \E f : Strata(items, should, T, f)
    <3> HIDE DEF h
    <3>1. [t \in SUBSET T |-> h[t]]
            = [t \in SUBSET T |-> IF t = {} THEN <<>> ELSE Fold(h[t \ {Max(t)}], Max(t))]
      BY <2>2
    <3> QED
      BY <2>3, <3>1 DEF Strata
  <2> QED
    BY <2>4
<1>2. SUBSET S \subseteq G
  <2> HIDE DEF G
  <2> QED
    BY <1>0, <1>1, SubsetInduction
<1> QED
  BY <1>2

\* A stratum is a sequence of items.
LEMMA StratumType ==
  ASSUME NEW E, NEW items \in Seq(E), NEW should
  PROVE  Stratum(items, should) \in Seq(E)
<1> DEFINE S == DOMAIN items
           g == CHOOSE x : Strata(items, should, S, x)
           G == {t \in SUBSET S : g[t] \in Seq(E)}
<1>1. S = 1..Len(items) /\ Indices(S)
  BY LenProperties DEF Indices
<1>2. Strata(items, should, S, g)
  BY <1>1, StrataExist
<1> HIDE DEF g
<1>3. ASSUME NEW t \in SUBSET S, \A U \in SUBSET t : U # t => U \in G
      PROVE  t \in G
  <2>1. CASE t = {}
    BY <1>2, <2>1, EmptySeq DEF Strata
  <2>2. CASE t # {}
    <3>1. Max(t) \in t
      BY <1>1, <2>2, IndicesFinite, MaxIsGreatest
    <3>2. g[t \ {Max(t)}] \in Seq(E) /\ items[Max(t)] \in E
      BY <1>1, <1>3, <3>1, ElementOfSeq
    <3>3. \/ g[t] = Append(g[t \ {Max(t)}], items[Max(t)])
          \/ g[t] = g[t \ {Max(t)}]
      BY <1>2, <2>2 DEF Strata
    <3>4. Append(g[t \ {Max(t)}], items[Max(t)]) \in Seq(E)
      BY <3>2, AppendProperties
    <3> QED
      BY <3>2, <3>3, <3>4
  <2> QED
    BY <2>1, <2>2
<1>4. SUBSET S \subseteq G
  <2>1. IsFiniteSet(S)
    BY <1>1, IndicesFinite
  <2> HIDE DEF G
  <2> QED
    BY <1>3, <2>1, SubsetInduction
<1> QED
  BY <1>4, StratumIsFold DEF g

LEMMA FirstBestExists ==
  ASSUME NEW n \in Nat \ {0}, NEW f \in [1..n -> Nat]
  PROVE  \E i \in 1..n : /\ \A j \in 1..n : f[j] <= f[i]
                         /\ \A j \in 1..(i - 1) : f[j] < f[i]
<1> DEFINE Leads(m, i) == /\ \A j \in 1..m : f[j] <= f[i]
                          /\ \A j \in 1..(i - 1) : f[j] < f[i]
           Bad == {m \in 1..n : ~\E i \in 1..m : Leads(m, i)}
<1>1. Bad = {}
  <2> SUFFICES ASSUME Bad # {} PROVE FALSE
    OBVIOUS
  <2>1. PICK m \in Bad : \A k \in Bad : m <= k
    <3>1. Bad \in SUBSET Nat
      OBVIOUS
    <3> HIDE DEF Bad
    <3> QED
      BY <3>1, LeastExists
  <2>2. m \in 1..n /\ ~\E i \in 1..m : Leads(m, i)
    BY <2>1
  <2>3. CASE m = 1
    <3>1. Leads(1, 1)
      OBVIOUS
    <3> QED
      BY <2>2, <2>3, <3>1
  <2>4. CASE m # 1
    <3>0. m - 1 \in Bad => m <= m - 1
      <4> HIDE DEF Bad
      <4> QED
        BY <2>1
    <3>1. m - 1 \in 1..n /\ m - 1 \notin Bad
      <4>1. m - 1 \in 1..n /\ ~(m <= m - 1)
        BY <2>2, <2>4
      <4> QED
        BY <3>0, <4>1
    <3>2. PICK i \in 1..(m - 1) : Leads(m - 1, i)
      BY <3>1
    <3>3. CASE f[m] <= f[i]
      <4>1. Leads(m, i)
        BY <2>2, <3>2, <3>3
      <4>2. i \in 1..m
        BY <2>2, <3>2
      <4> HIDE DEF Leads
      <4> QED
        BY <2>2, <4>1, <4>2
    <3>4. CASE ~(f[m] <= f[i])
      <4>1. \A j \in 1..(m - 1) : f[j] < f[m]
        BY <2>2, <3>2, <3>4
      <4>2. Leads(m, m)
        BY <2>2, <4>1
      <4>3. m \in 1..m
        BY <2>2
      <4> HIDE DEF Leads
      <4> QED
        BY <2>2, <4>2, <4>3
    <3> QED
      BY <3>3, <3>4
  <2> QED
    BY <2>3, <2>4
<1>2. n \in 1..n
  OBVIOUS
<1> QED
  BY <1>1, <1>2

-----------------------------------------------------------------------------
(* What is shipped *)

\* The split and the batch that is evaluated.
SplitOK ==
  /\ train \in Seq(Item) /\ test \in Seq(Item) /\ batch \in Seq(Item)
  /\ pc = "eval" => batch = train \o test

\* What a round found: counts, and a result per held-out query that train
\* does not have.
Counted(e) ==
  /\ e.train_passed \in Nat /\ e.test_passed \in Nat
  /\ test # <<>> /\ ~NothingHeldOut => e.test_results # {}

\* Once a round is over and the loop alive, there is a history, and whoever
\* wants reports has held something out.
RoundsOK ==
  /\ \A i \in DOMAIN history : Counted(history[i])
  /\ pc \in {"improve", "shorten", "conclude", "ended", "applied", "packaged", "refused"} =>
       history # <<>> /\ (wanted => test # <<>>)

\* What the end of the loop and the author made of it.
OutcomeOK ==
  /\ pc \in {"ended", "applied", "packaged", "refused"} =>
       /\ output.best = Best(history)
       /\ report = ReportOf(history, "final")
  /\ "desc" \in DOMAIN skill
  /\ pc = "applied" => skill.desc = history[output.best].desc
  /\ pc = "packaged" => package.desc = history[output.best].desc

ShipInv == SplitOK /\ RoundsOK /\ OutcomeOK

\* The split of an eval set gives two sequences of items.
LEMMA SplitTypes ==
  ASSUME NEW items \in EvalSets, Split(items)
  PROVE  train' \in Seq(Item) /\ test' \in Seq(Item)
<1> DEFINE yes == Stratum(items, TRUE)
           no == Stratum(items, FALSE)
<1>1. items \in Seq(Item) /\ Holdout \in 0..100
  BY LoopAssumption
<1>2. yes \in Seq(Item) /\ no \in Seq(Item)
  BY <1>1, StratumType
<1>3. ASSUME NEW s \in Seq(Item)
      PROVE  /\ FrontPart(s, TestShare(Len(s))) \in Seq(Item)
             /\ BackPart(s, TestShare(Len(s))) \in Seq(Item)
  <2>1. Len(s) \in Nat
    BY LenProperties
  <2>2. PICK n \in Nat : n = TestShare(Len(s))
    <3>1. (Len(s) * Holdout) \div 100 \in Int
      BY <1>1, <2>1
    <3> QED
      BY <3>1 DEF TestShare
  <2>3. \A i \in 1..Len(s) : s[i] \in Item
    BY ElementOfSeq
  <2>4. SubSeq(s, n + 1, Len(s)) \in Seq(Item)
    <3>1. \A i \in (n + 1)..Len(s) : s[i] \in Item
      BY <2>1, <2>2, <2>3
    <3> QED
      BY <2>1, <3>1, SubSeqProperties
  <2>5. PICK m \in Nat : m = (IF n < Len(s) THEN n ELSE Len(s)) /\ m <= Len(s)
    BY <2>1
  <2>6. SubSeq(s, 1, m) \in Seq(Item)
    <3>1. \A i \in 1..m : s[i] \in Item
      BY <2>1, <2>3, <2>5
    <3> QED
      BY <3>1, SubSeqProperties
  <2> QED
    BY <2>2, <2>4, <2>5, <2>6 DEF FrontPart, BackPart
<1>4. CASE Holdout = 0
  BY <1>1, <1>4, EmptySeq DEF Split
<1>5. CASE Holdout # 0
  <2>1. /\ train' = BackPart(yes, TestShare(Len(yes))) \o BackPart(no, TestShare(Len(no)))
        /\ test' = FrontPart(yes, TestShare(Len(yes))) \o FrontPart(no, TestShare(Len(no)))
    BY <1>5 DEF Split
  <2> HIDE DEF yes, no
  <2> QED
    BY <1>2, <1>3, <2>1, ConcatProperties
<1> QED
  BY <1>4, <1>5

\* The result sets are finite, so counting them gives numbers.
LEMMA PassedIsNat ==
  ASSUME NEW results, IsFiniteSet(results)
  PROVE  PassedIn(results) \in Nat
<1>1. IsFiniteSet({r \in results : r.pass})
  BY FS_Subset
<1> QED
  BY <1>1, FS_CardinalityType DEF PassedIn

LEMMA ResultsFinite ==
  ASSUME SplitOK, NEW last \in LastChoices
  PROVE  /\ IsFiniteSet(ResultsWith(last))
         /\ \A q \in Queries(batch) : \E r \in ResultsWith(last) : r.query = q
<1> DEFINE R(q) == LET ks == {k \in DOMAIN tasks : ItemOf(k).query = q}
                       hits == TriggersOf(ks)
                   IN [query |-> q, should |-> last[q].should, hits |-> hits, runs |-> Cardinality(ks),
                       pass |-> Passes(last[q].should, hits, Cardinality(ks))]
           Q == Queries(batch)
           D == DOMAIN batch
<1>1. DOMAIN last = Q
  BY DEF LastChoices
<1>2. ResultsWith(last) = {R(q) : q \in Q}
  BY <1>1 DEF ResultsWith
<1>3. \A q \in Q : R(q).query = q
  OBVIOUS
<1>4. IsFiniteSet(D)
  <2>1. D = 1..Len(batch) /\ Len(batch) \in Nat
    BY LenProperties DEF SplitOK
  <2> QED
    BY <2>1, FS_Interval
<1> HIDE DEF R, D
<1>5. IsFiniteSet({R(q) : q \in Q})
  <2> DEFINE T == {R(q) : q \in Q}
             f == [i \in D |-> R(batch[i].query)]
  <2>1. Q = {batch[i].query : i \in D}
    BY DEF Queries, D
  <2>2. f \in Surjection(D, T)
    <3>1. f \in [D -> T]
      BY <2>1
    <3>2. \A t \in T : \E i \in D : f[i] = t
      BY <2>1
    <3> QED
      BY <3>1, <3>2 DEF Surjection
  <2> HIDE DEF T, f
  <2> QED
    BY <1>4, <2>2, FS_Surjection DEF T
<1> QED
  BY <1>2, <1>3, <1>5

\* The entry of a round over train and test together is counted.
LEMMA EntryCounted ==
  ASSUME SplitOK, pc = "eval", NEW last \in LastChoices, NEW i
  PROVE  Counted(Entry(i, ResultsWith(last)))
<1> DEFINE res == ResultsWith(last)
           tr == {r \in res : r.query \in Queries(train)}
           te == {r \in res : r.query \notin Queries(train)}
           e == Entry(i, res)
<1>1. IsFiniteSet(res) /\ \A q \in Queries(batch) : \E r \in res : r.query = q
  BY ResultsFinite
<1>2. e.train_passed = PassedIn(tr) /\ e.test_passed = PassedIn(te) /\ e.test_results = te
  BY DEF Entry
<1>3. Queries(test) \subseteq Queries(batch)
  <2>1. train \in Seq(Item) /\ test \in Seq(Item) /\ batch = train \o test
    BY DEF SplitOK
  <2> SUFFICES ASSUME NEW j \in DOMAIN test PROVE test[j].query \in Queries(batch)
    BY DEF Queries
  <2> DEFINE k == Len(train) + j
  <2>2. k \in DOMAIN batch /\ batch[k] = test[j]
    BY <2>1, ConcatProperties, LenProperties
  <2> QED
    BY <2>2 DEF Queries
<1> HIDE DEF res, e
<1>4. e.train_passed \in Nat /\ e.test_passed \in Nat
  <2>1. IsFiniteSet(tr) /\ IsFiniteSet(te)
    BY <1>1, FS_Subset
  <2> QED
    BY <1>2, <2>1, PassedIsNat
<1>5. ASSUME test # <<>>, ~NothingHeldOut PROVE te # {}
  <2>1. PICK q \in Queries(test) : q \notin Queries(train)
    BY <1>5 DEF NothingHeldOut
  <2> QED
    BY <1>1, <1>3, <2>1
<1> QED
  BY <1>2, <1>4, <1>5 DEF Counted, e, res

\* Python's max: the first of the best exists, whatever the score.
LEMMA BestIsBest ==
  ASSUME HistoryOK, RoundsOK, history # <<>>, NEW score \in {"train_passed", "test_passed"}
  PROVE  \A i \in DOMAIN history : history[i][score] <= history[FirstBest(history, score)][score]
<1> DEFINE n == Len(history)
           f == [i \in 1..n |-> history[i][score]]
<1>1. n \in Nat \ {0} /\ DOMAIN history = 1..n
  <2>1. history \in Seq({history[i] : i \in DOMAIN history})
    BY DEF HistoryOK
  <2> QED
    BY <2>1, LenProperties, EmptySeq
<1>2. f \in [1..n -> Nat]
  <2>1. \A i \in 1..n : history[i][score] \in Nat
    BY <1>1 DEF RoundsOK, Counted
  <2> QED
    BY <2>1
<1>3. \E i \in 1..n : /\ \A j \in 1..n : f[j] <= f[i]
                      /\ \A j \in 1..(i - 1) : f[j] < f[i]
  <2> HIDE DEF f, n
  <2> QED
    BY <1>1, <1>2, FirstBestExists
<1>4. \E i \in DOMAIN history : /\ \A j \in DOMAIN history : history[j][score] <= history[i][score]
                                /\ \A j \in 1..(i - 1) : history[j][score] < history[i][score]
  <2>1. \A j \in 1..n : f[j] = history[j][score]
    OBVIOUS
  <2> HIDE DEF f
  <2>2. PICK i \in 1..n : /\ \A j \in 1..n : f[j] <= f[i]
                          /\ \A j \in 1..(i - 1) : f[j] < f[i]
    BY <1>3
  <2>3. \A j \in 1..(i - 1) : j \in 1..n
    BY <1>1, <2>2
  <2> QED
    BY <1>1, <2>1, <2>2, <2>3
<1> QED
  BY <1>4 DEF FirstBest

LEMMA ShipSuffices == HistoryOK /\ ShipInv => BestIsShipped
<1> SUFFICES ASSUME HistoryOK, ShipInv, pc \in {"ended", "applied", "packaged", "refused"}, ~NothingHeldOut
             PROVE  LET score == IF test = <<>> THEN "train_passed" ELSE "test_passed"
                    IN /\ \A i \in DOMAIN history : history[i][score] <= history[output.best][score]
                       /\ wanted => report = [kind |-> "final", best |-> output.best]
                       /\ pc = "packaged" => package.desc = history[output.best].desc
  BY DEF BestIsShipped
<1> DEFINE score == IF test = <<>> THEN "train_passed" ELSE "test_passed"
<1>1. history # <<>> /\ output.best = FirstBest(history, score) /\ (wanted => test # <<>>)
  BY DEF ShipInv, RoundsOK, OutcomeOK, Best
<1>2. \A i \in DOMAIN history : history[i][score] <= history[output.best][score]
  BY <1>1, BestIsBest DEF ShipInv
<1>3. ASSUME wanted PROVE report = [kind |-> "final", best |-> output.best]
  <2>1. history[1].test_results # {}
    <3>1. 1 \in DOMAIN history
      <4>1. history \in Seq({history[i] : i \in DOMAIN history})
        BY DEF HistoryOK
      <4> QED
        BY <1>1, <4>1, LenProperties, EmptySeq
    <3> QED
      BY <1>1, <1>3, <3>1 DEF ShipInv, RoundsOK, Counted
  <2>2. ReportBest(history) = output.best
    BY <1>1, <1>3, <2>1 DEF ReportBest
  <2> QED
    BY <1>3, <2>2 DEF ShipInv, OutcomeOK, ReportOf
<1> QED
  BY <1>2, <1>3 DEF ShipInv, OutcomeOK


\* A step that leaves split, batch and history alone, and the outcome.
LEMMA ShipStays ==
  ASSUME ShipInv, UNCHANGED <<train, test, wanted, history>>,
         batch' = batch \/ (batch' = train \o test),
         pc' = "eval" => batch' = train \o test,
         pc' \in {"improve", "shorten", "conclude", "ended", "applied", "packaged", "refused"} =>
           pc \in {"improve", "shorten", "conclude", "ended", "applied", "packaged", "refused"},
         OutcomeOK'
  PROVE  ShipInv'
<1>1. SplitOK'
  <2>1. train \o test \in Seq(Item)
    BY ConcatProperties DEF ShipInv, SplitOK
  <2> QED
    BY <2>1 DEF ShipInv, SplitOK
<1>2. \A i \in DOMAIN history : Counted(history[i])' <=> Counted(history[i])
  BY DEF Counted, NothingHeldOut, Queries
<1>3. RoundsOK'
  BY <1>2 DEF ShipInv, RoundsOK
<1> QED
  BY <1>1, <1>3 DEF ShipInv

LEMMA BatchKept ==
  ASSUME BatchNext PROVE UNCHANGED batch
BY DEF BatchNext, WorkNext, Work, Launch, SeeExit, ReadChunk, TimeOut, Return, Emit, Exit, WorkerDies

LEMMA ShipStep == HistoryOK /\ HistoryOK' /\ ShipInv /\ [Next]_vars => ShipInv'
<1> SUFFICES ASSUME HistoryOK, HistoryOK', ShipInv, [Next]_vars PROVE ShipInv'
  OBVIOUS
<1> DEFINE Over == {"ended", "applied", "packaged", "refused"}
<1>1. CASE Begin
  <2>1. CASE pc' = "failed" /\ UNCHANGED <<evalVars, splitVars>>
    <3>1. OutcomeOK'
      BY <1>1, <2>1 DEF Begin, ShipInv, OutcomeOK
    <3> QED
      BY <1>1, <2>1, <3>1, ShipStays DEF Begin, evalVars, splitVars
  <2>2. CASE /\ \E items \in EvalSets : Split(items)
             /\ StartBatch(train' \o test') /\ pc' = "eval"
    <3>1. train' \in Seq(Item) /\ test' \in Seq(Item)
      BY <2>2, SplitTypes
    <3>2. SplitOK'
      BY <2>2, <3>1, ConcatProperties DEF StartBatch, SplitOK
    <3>3. history' = <<>>
      BY <1>1 DEF Begin, HistoryOK
    <3> QED
      BY <1>1, <2>2, <3>2, <3>3 DEF Begin, ShipInv, RoundsOK, OutcomeOK
  <2> QED
    BY <1>1, <2>1, <2>2 DEF Begin
<1>2. CASE Score
  <2>1. PICK last \in LastChoices :
          history' = Append(history, Entry(Len(history) + 1, ResultsWith(last)))
    BY <1>2 DEF Score
  <2> DEFINE e == Entry(Len(history) + 1, ResultsWith(last))
  <2>2. Counted(e) /\ UNCHANGED <<train, test, wanted>> /\ batch' = <<>>
    BY <1>2, EntryCounted DEF Score, splitVars, ShipInv
  <2> HIDE DEF e
  <2>3. SplitOK'
    <3>1. <<>> \in Seq(Item)
      BY EmptySeq
    <3> QED
      BY <1>2, <2>2, <3>1 DEF Score, ShipInv, SplitOK
  <2>4. \A i \in DOMAIN history' : Counted(history'[i])
    <3> DEFINE S == {history[i] : i \in DOMAIN history} \cup {e}
    <3>1. history \in Seq(S) /\ e \in S
      BY DEF HistoryOK
    <3> HIDE DEF S
    <3>2. \A i \in DOMAIN history' : history'[i] = e \/ (i \in DOMAIN history /\ history'[i] = history[i])
      BY <2>1, <3>1, AppendProperties DEF e
    <3> QED
      BY <2>2, <3>2 DEF ShipInv, RoundsOK
  <2>5. \A i \in DOMAIN history' : Counted(history'[i]) => Counted(history[i])'
    BY <2>2 DEF Counted, NothingHeldOut, Queries
  <2>6. history' # <<>>
    <3> DEFINE S == {history[i] : i \in DOMAIN history} \cup {e}
    <3>1. history \in Seq(S) /\ e \in S
      BY DEF HistoryOK
    <3> HIDE DEF S
    <3> QED
      BY <2>1, <3>1, AppendProperties, EmptySeq DEF e
  <2>7. pc' \in {"failed", "conclude", "improve"} /\ (pc' # "failed" => (wanted' => test' # <<>>))
    BY <1>2, <2>2 DEF Score, ReportFails
  <2>8. RoundsOK'
    BY <2>4, <2>5, <2>6, <2>7 DEF RoundsOK
  <2>9. OutcomeOK'
    BY <1>2, <2>7 DEF Score, ShipInv, OutcomeOK
  <2> QED
    BY <2>3, <2>8, <2>9 DEF ShipInv
<1>3. ASSUME pc \in {"improve", "shorten"}, NEW d, NextRound(d), UNCHANGED <<splitVars, history, skill>>
      PROVE  ShipInv'
  <2>1. batch' = train \o test /\ pc' = "eval"
    BY <1>3 DEF NextRound, StartBatch
  <2>2. OutcomeOK'
    BY <1>3, <2>1 DEF ShipInv, OutcomeOK
  <2> QED
    BY <1>3, <2>1, <2>2, ShipStays DEF splitVars
<1>4. ASSUME pc \in {"improve", "shorten"}, UNCHANGED <<evalVars, splitVars, history, skill>>,
             pc' \in {"failed", "shorten"}
      PROVE  ShipInv'
  <2>1. OutcomeOK'
    BY <1>4 DEF ShipInv, OutcomeOK
  <2> QED
    BY <1>4, <2>1, ShipStays DEF splitVars, evalVars
<1>5. CASE Improve
  <2>1. pc = "improve" /\ UNCHANGED <<splitVars, history, skill>>
    BY <1>5 DEF Improve
  <2>2. CASE CallFails
    BY <1>4, <2>1, <2>2 DEF CallFails
  <2>3. CASE \E kind \in Kinds : Answer([from |-> Len(history), kind |-> kind])
    BY <1>3, <1>4, <2>1, <2>3 DEF Answer
  <2> QED
    BY <1>5, <2>2, <2>3 DEF Improve
<1>6. CASE Shorten
  BY <1>3, <1>4, <1>6 DEF Shorten, CallFails
<1>7. CASE Conclude
  <2>1. pc = "conclude" /\ pc' = "ended" /\ UNCHANGED <<evalVars, splitVars, history, skill>>
    BY <1>7 DEF Conclude
  <2>2. output'.best = Best(history) /\ report' = ReportOf(history, "final")
    BY <1>7 DEF Conclude
  <2>3. OutcomeOK'
    BY <2>1, <2>2 DEF ShipInv, OutcomeOK, Best, ReportOf, ReportBest, splitVars
  <2> QED
    BY <2>1, <2>3, ShipStays DEF splitVars, evalVars
<1>8. CASE pc = "eval" /\ BatchNext /\ UNCHANGED loopVars
  <2>1. UNCHANGED batch
    BY <1>8, BatchKept
  <2>2. OutcomeOK'
    BY <1>8 DEF loopVars, ShipInv, OutcomeOK
  <2> QED
    BY <1>8, <2>1, <2>2, ShipStays DEF loopVars, splitVars, ShipInv, SplitOK
<1>9. ASSUME UNCHANGED <<batch, train, test, wanted, history, report, output>>, pc \in Over, pc' \in Over,
             "desc" \in DOMAIN skill',
             pc' = "applied" => skill'.desc = history[output.best].desc,
             pc' = "packaged" => package'.desc = history[output.best].desc
      PROVE  ShipInv'
  <2>1. OutcomeOK'
    BY <1>9 DEF ShipInv, OutcomeOK, Best, ReportOf, ReportBest
  <2> QED
    BY <1>9, <2>1, ShipStays
<1>10. CASE Apply
  <2>1. "desc" \in DOMAIN skill
    BY DEF ShipInv, OutcomeOK
  <2> QED
    BY <1>9, <1>10, <2>1 DEF Apply, evalVars, splitVars
<1>11. CASE Package
  <2>1. pc' = "packaged" => package'.desc = skill.desc
    BY <1>11 DEF Package
  <2> QED
    BY <1>9, <1>11, <2>1 DEF Package, splitVars, ShipInv, OutcomeOK
<1>12. CASE UNCHANGED vars
  <2>1. OutcomeOK'
    BY <1>12 DEF vars, evalVars, loopVars, splitVars, ShipInv, OutcomeOK, Best, ReportOf, ReportBest
  <2> QED
    BY <1>12, <2>1, ShipStays DEF vars, evalVars, loopVars, splitVars, ShipInv, SplitOK
<1> QED
  BY <1>1, <1>2, <1>5, <1>6, <1>7, <1>8, <1>10, <1>11, <1>12 DEF Next, LoopNext, LoopStep

(***************************************************************************)
(* The description that ends up in the .skill file is the one that scored  *)
(* best over all rounds, and the final report marks the same iteration.    *)
(***************************************************************************)
THEOREM BestAlwaysShipped == Spec => []BestIsShipped
<1>1. Init => ShipInv
  <2>1. <<>> \in Seq(Item)
    BY EmptySeq
  <2> QED
    BY <2>1 DEF Init, LoopInit, ShipInv, SplitOK, RoundsOK, OutcomeOK
<1>2. Init => UnseenInv
  BY DEF Init, LoopInit, UnseenInv, HistoryOK, TestStaysUnseen
<1>3. UnseenInv => HistoryOK
  BY DEF UnseenInv
<1> QED
  BY <1>1, <1>2, <1>3, UnseenStep, ShipStep, ShipSuffices, PTL DEF Spec
-----------------------------------------------------------------------------
(* Verdicts *)

\* What claude has sent so far: a beginning of one of its streams.
Sent ==
  { <<>>, <<"skill">>, <<"skill", "own">>, <<"skill", "stop">>, <<"asst_own">>, <<"miss">> }

\* The parser after the start of a Skill or Read call.
CallOpen == [tool |-> TRUE, out |-> "none"]

\* A task at work has parsed nothing yet, or the start of such a call.
Watched ==
  {t \in [at : {"running", "stuck"}, sent : Sent, read : {0, 1}, exited : {"no", "yes", "held"},
          parse : {NewParse, CallOpen}, own : BOOLEAN, cut : BOOLEAN, verdict : BOOLEAN] :
     \/ t.read = 0 /\ t.parse = NewParse
     \/ t.read = 1 /\ t.parse = CallOpen /\ t.sent # <<>> /\ t.sent[1] = "skill"}

Earned(t) ==
  /\ t.at = "done"
  /\ t.verdict => t.own
  /\ t.own => t.verdict \/ t.cut

TaskOK(t) == t = Blank \/ t \in Watched \/ Earned(t)

VerdictInv == \A k \in DOMAIN tasks : TaskOK(tasks[k])

\* The fold of the parser over one line and over two.
Parsed(p, l, S, g) ==
  g = [s \in SUBSET S |-> IF s = {} THEN p ELSE ParseEvent(g[s \ {Max(s)}], l[Max(s)])]

LEMMA ParseIsFold ==
  ASSUME NEW p, NEW l
  PROVE  Parse(p, l) = (CHOOSE g : Parsed(p, l, DOMAIN l, g))[DOMAIN l]
BY DEF Parse, FoldLeft, MapThenFoldSet, Parsed

LEMMA MaxOfFew == Max({1}) = 1 /\ Max({1, 2}) = 2 /\ Max({2}) = 2
BY DEF Max

LEMMA ParseOne ==
  ASSUME NEW p, NEW l, DOMAIN l = {1}
  PROVE  Parse(p, l) = ParseEvent(p, l[1])
<1> DEFINE h == [s \in SUBSET {1} |-> IF s = {} THEN p ELSE ParseEvent(p, l[1])]
<1>1. \A s \in SUBSET {1} : s = {} \/ s = {1}
  OBVIOUS
<1>2. {1} \ {1} = {} /\ {1} # {}
  OBVIOUS
<1>3. h = [s \in SUBSET {1} |-> IF s = {} THEN p ELSE ParseEvent(h[s \ {Max(s)}], l[Max(s)])]
  <2>1. ASSUME NEW s \in SUBSET {1}
        PROVE  h[s] = IF s = {} THEN p ELSE ParseEvent(h[s \ {Max(s)}], l[Max(s)])
    <3>1. CASE s = {}
      BY <3>1
    <3>2. CASE s = {1}
      <4>1. h[s] = ParseEvent(p, l[1]) /\ h[{}] = p
        BY <3>2
      <4> HIDE DEF h
      <4> QED
        BY <1>2, <3>2, <4>1, MaxOfFew
    <3> QED
      BY <1>1, <3>1, <3>2
  <2>2. h = [s \in SUBSET {1} |-> h[s]]
    OBVIOUS
  <2> HIDE DEF h
  <2>3. [s \in SUBSET {1} |-> h[s]]
          = [s \in SUBSET {1} |-> IF s = {} THEN p ELSE ParseEvent(h[s \ {Max(s)}], l[Max(s)])]
    BY <2>1
  <2> QED
    BY <2>2, <2>3
<1>4. \E g : Parsed(p, l, {1}, g)
  <2> HIDE DEF h
  <2> QED
    BY <1>3 DEF Parsed
<1>5. PICK g : g = (CHOOSE x : Parsed(p, l, {1}, x))
  OBVIOUS
<1>6. Parsed(p, l, {1}, g)
  BY <1>4, <1>5
<1>7. g[{}] = p /\ g[{1}] = ParseEvent(g[{1} \ {Max({1})}], l[Max({1})])
  BY <1>2, <1>6 DEF Parsed
<1> QED
  BY <1>2, <1>5, <1>7, ParseIsFold, MaxOfFew

LEMMA ParseTwo ==
  ASSUME NEW p, NEW l, DOMAIN l = {1, 2}
  PROVE  Parse(p, l) = ParseEvent(ParseEvent(p, l[1]), l[2])
<1> DEFINE D == {1, 2}
           one == ParseEvent(p, l[1])
           h == [s \in SUBSET D |-> IF s = {} THEN p
                                    ELSE IF s = {1} THEN one
                                    ELSE IF s = {2} THEN ParseEvent(p, l[2])
                                    ELSE ParseEvent(one, l[2])]
<1>1. \A s \in SUBSET D : s \in {{}, {1}, {2}, D}
  OBVIOUS
<1>2. /\ {1} \ {1} = {} /\ {2} \ {2} = {} /\ D \ {2} = {1}
      /\ {1} # {} /\ {2} # {} /\ D # {} /\ {1} # {2} /\ D # {1} /\ D # {2}
      /\ {} \in SUBSET D /\ {1} \in SUBSET D /\ {2} \in SUBSET D /\ D \in SUBSET D
  OBVIOUS
<1>3. Max({1}) = 1 /\ Max({2}) = 2 /\ Max(D) = 2
  BY MaxOfFew
<1>4. h[{}] = p /\ h[{1}] = one /\ h[{2}] = ParseEvent(p, l[2]) /\ h[D] = ParseEvent(one, l[2])
  <2> HIDE DEF D, one
  <2> QED
    BY <1>2
<1>5. h = [s \in SUBSET D |-> h[s]]
  OBVIOUS
<1> HIDE DEF h, D
<1>6. ASSUME NEW s \in SUBSET D
      PROVE  h[s] = IF s = {} THEN p ELSE ParseEvent(h[s \ {Max(s)}], l[Max(s)])
  BY <1>1, <1>2, <1>3, <1>4
<1>7. [s \in SUBSET D |-> h[s]]
        = [s \in SUBSET D |-> IF s = {} THEN p ELSE ParseEvent(h[s \ {Max(s)}], l[Max(s)])]
  BY <1>6
<1>8. \E g : Parsed(p, l, D, g)
  BY <1>5, <1>7 DEF Parsed
<1>9. PICK g : g = (CHOOSE x : Parsed(p, l, D, x))
  OBVIOUS
<1>10. Parsed(p, l, D, g)
  BY <1>8, <1>9
<1>11. /\ g[{}] = p
       /\ g[{1}] = ParseEvent(g[{1} \ {Max({1})}], l[Max({1})])
       /\ g[D] = ParseEvent(g[D \ {Max(D)}], l[Max(D)])
  BY <1>2, <1>10 DEF Parsed
<1>12. g[D] = ParseEvent(one, l[2])
  BY <1>2, <1>3, <1>11
<1> QED
  BY <1>9, <1>12, ParseIsFold DEF D

\* Beginnings of streams grow into such, and say whether the own file was chosen.
LEMMA ShortLists ==
  ASSUME NEW E
  PROVE  /\ <<>> \in Seq(E) /\ Len(<<>>) = 0
         /\ \A a \in E : /\ <<a>> \in Seq(E) /\ Len(<<a>>) = 1 /\ <<a>>[1] = a
                         /\ Append(<<>>, a) = <<a>>
         /\ \A a, b \in E : /\ <<a, b>> \in Seq(E) /\ Len(<<a, b>>) = 2
                            /\ <<a, b>>[1] = a /\ <<a, b>>[2] = b
                            /\ Append(<<a>>, b) = <<a, b>>
<1>1. <<>> \in Seq(E) /\ Len(<<>>) = 0
  OBVIOUS
<1>2. ASSUME NEW a \in E
      PROVE  <<a>> \in Seq(E) /\ Len(<<a>>) = 1 /\ <<a>>[1] = a /\ Append(<<>>, a) = <<a>>
  OBVIOUS
<1>3. ASSUME NEW a \in E, NEW b \in E
      PROVE  /\ <<a, b>> \in Seq(E) /\ Len(<<a, b>>) = 2
             /\ <<a, b>>[1] = a /\ <<a, b>>[2] = b
  OBVIOUS
<1>4. ASSUME NEW a \in E, NEW b \in E
      PROVE  Append(<<a>>, b) = <<a, b>>
  <2> DEFINE s == Append(<<a>>, b)
  <2>1. s \in Seq(E) /\ Len(s) = 2 /\ s[1] = a /\ s[2] = b
    BY <1>2, AppendProperties
  <2>2. s = [i \in 1..2 |-> IF i = 1 THEN a ELSE b]
    <3> HIDE DEF s
    <3> QED
      BY <2>1
  <2>3. <<a, b>> = [i \in 1..2 |-> IF i = 1 THEN a ELSE b]
    OBVIOUS
  <2> QED
    BY <2>2, <2>3
<1> QED
  BY <1>1, <1>2, <1>3, <1>4

\* The events claude sends.
Event == {"skill", "own", "stop", "asst_own", "miss"}

LEMMA SentFacts ==
  /\ \A s \in Sent : s \in Seq(Event) /\ Len(s) \in {0, 1, 2} /\ DOMAIN s = 1..Len(s)
  /\ \A s \in Sent : Len(s) = 2 => s[1] = "skill" /\ s[2] \in {"own", "stop"}
  /\ \A s \in Sent : Len(s) = 1 => s[1] \in {"skill", "asst_own", "miss"}
  /\ \A s \in Sent : ChoosesOwn(s) <=> \/ Len(s) = 2 /\ s[2] = "own"
                                       \/ Len(s) = 1 /\ s[1] = "asst_own"
<1>1. \A s \in Sent : s \in Seq(Event) /\ Len(s) \in {0, 1, 2} /\ DOMAIN s = 1..Len(s)
  <2>1. \A a \in {"skill", "own", "stop", "asst_own", "miss"} : a \in Event
    BY DEF Event
  <2>2. \A s \in Sent : s \in Seq(Event) /\ Len(s) \in {0, 1, 2}
    <3>1. <<>> \in Seq(Event) /\ Len(<<>>) = 0
      BY ShortLists
    <3>2. \A a \in Event : <<a>> \in Seq(Event) /\ Len(<<a>>) = 1
      BY ShortLists
    <3>3. \A a, b \in Event : <<a, b>> \in Seq(Event) /\ Len(<<a, b>>) = 2
      BY ShortLists
    <3>4. \A s \in Sent : \/ s = <<>>
                           \/ \E a \in Event : s = <<a>>
                           \/ \E b, c \in Event : s = <<b, c>>
      BY <2>1 DEF Sent
    <3> QED
      BY <3>1, <3>2, <3>3, <3>4
  <2> QED
    BY <2>2, LenProperties
<1>2. \A s \in Sent : Len(s) = 2 => s[1] = "skill" /\ s[2] \in {"own", "stop"}
  BY ShortLists DEF Sent
<1>3. \A s \in Sent : Len(s) = 1 => s[1] \in {"skill", "asst_own", "miss"}
  BY ShortLists DEF Sent
<1>4. ASSUME NEW s \in Sent
      PROVE  ChoosesOwn(s) <=> \/ Len(s) = 2 /\ s[2] = "own"
                               \/ Len(s) = 1 /\ s[1] = "asst_own"
  <2>1. ChoosesOwn(s) <=> \E i \in DOMAIN s : s[i] \in {"own", "asst_own"}
    BY DEF ChoosesOwn, ToSet
  <2>2. CASE Len(s) = 0
    BY <1>1, <2>1, <2>2
  <2>3. CASE Len(s) = 1
    BY <1>1, <1>3, <2>1, <2>3
  <2>4. CASE Len(s) = 2
    BY <1>1, <1>2, <2>1, <2>4
  <2> QED
    BY <1>1, <2>2, <2>3, <2>4
<1> QED
  BY <1>1, <1>2, <1>3, <1>4

LEMMA SentGrows ==
  ASSUME NEW s \in Sent, NEW e \in Continuations(s)
  PROVE  Append(s, e) \in Sent /\ (Len(s) > 0 => Append(s, e)[1] = s[1])
<1>1. PICK x \in Streams : Len(x) > Len(s) /\ IsPrefix(s, x) /\ e = x[Len(s) + 1]
  BY DEF Continuations
<1>2. Len(x) \in {1, 2} /\ x \in Sent /\ x \in Seq(Event)
  <2>1. x \in Sent /\ x # <<>>
    BY DEF Streams, Sent
  <2> QED
    BY <2>1, SentFacts
<1>3. s \in Seq(Event) /\ Len(s) \in {0, 1, 2}
  BY SentFacts
<1>4. CASE Len(s) = 0
  <2>1. s = <<>> /\ e = x[1]
    BY <1>1, <1>3, <1>4
  <2>2. x[1] \in {"skill", "asst_own", "miss"}
    BY DEF Streams
  <2>3. Append(<<>>, x[1]) = <<x[1]>>
    OBVIOUS
  <2> QED
    BY <1>4, <2>1, <2>2, <2>3 DEF Sent
<1>5. CASE Len(s) = 1
  <2>1. Len(x) = 2 /\ x[1] = "skill" /\ x[2] \in {"own", "stop"} /\ e = x[2]
    BY <1>1, <1>2, <1>5, SentFacts
  <2>2. s[1] = x[1]
    <3>1. SubSeq(s, 1, 1) = SubSeq(x, 1, 1)
      BY <1>1, <1>5 DEF IsPrefix
    <3>2. SubSeq(s, 1, 1)[1] = s[1] /\ SubSeq(x, 1, 1)[1] = x[1]
      BY <1>2, <1>3, <1>5, <2>1
    <3> QED
      BY <3>1, <3>2
  <2>3. s = <<"skill">>
    BY <1>3, <1>5, <2>1, <2>2
  <2>4. Append(<<"skill">>, e) = <<"skill", e>>
    <3>1. "skill" \in Event /\ e \in Event
      BY <2>1 DEF Event
    <3> QED
      BY <3>1, ShortLists
  <2> QED
    BY <2>1, <2>3, <2>4 DEF Sent
<1>6. CASE Len(s) = 2
  BY <1>1, <1>2, <1>6
<1> QED
  BY <1>3, <1>4, <1>5, <1>6

LEMMA ChunkBounds ==
  ASSUME NEW r \in {0, 1}, NEW m \in {0, 1, 2}, NEW n \in (r + 1)..m
  PROVE  (r = 0 /\ n = 1) \/ (r = 0 /\ n = 2 /\ m = 2) \/ (r = 1 /\ n = 2 /\ m = 2)
OBVIOUS

\* A chunk decides exactly when the whole stream is known, and as it says.
LEMMA ChunkTells ==
  ASSUME NEW t \in Watched, NEW n \in (t.read + 1)..Len(t.sent), NEW p,
         p = Parse(t.parse, SubSeq(t.sent, t.read + 1, n))
  PROVE  /\ p.out # "none" => (p.out = "true" <=> ChoosesOwn(t.sent))
         /\ p.out = "none" => n = 1 /\ p = CallOpen /\ t.sent # <<>> /\ t.sent[1] = "skill"
<1> DEFINE s == t.sent
           l == SubSeq(s, t.read + 1, n)
<1>1. s \in Sent /\ t.read \in {0, 1}
  BY DEF Watched
<1>2. s \in Seq(Event) /\ Len(s) \in {0, 1, 2} /\ s # <<>>
  <2>1. s \in Seq(Event) /\ Len(s) \in {0, 1, 2}
    BY <1>1, SentFacts
  <2>2. Len(s) # 0
    BY <1>1, <2>1
  <2> QED
    BY <2>1, <2>2
<1>3. /\ Len(s) = 2 => s[1] = "skill" /\ s[2] \in {"own", "stop"}
      /\ Len(s) = 1 => s[1] \in {"skill", "asst_own", "miss"}
      /\ ChoosesOwn(s) <=> \/ Len(s) = 2 /\ s[2] = "own"
                           \/ Len(s) = 1 /\ s[1] = "asst_own"
  BY <1>1, SentFacts
<1>0. \/ t.read = 0 /\ n = 1
      \/ t.read = 0 /\ n = 2 /\ Len(s) = 2
      \/ t.read = 1 /\ n = 2 /\ Len(s) = 2
  BY <1>1, <1>2, ChunkBounds
<1>4. CASE t.read = 0 /\ n = 1
  <2>1. DOMAIN l = {1} /\ l[1] = s[1] /\ t.parse = NewParse
    BY <1>2, <1>4 DEF Watched
  <2>2. p = ParseEvent(NewParse, s[1])
    BY <2>1, ParseOne
  <2>3. \/ s[1] = "skill" /\ p = CallOpen
        \/ s[1] = "asst_own" /\ p.out = "true" /\ Len(s) = 1
        \/ s[1] = "miss" /\ p.out = "false" /\ Len(s) = 1
    <3>1. s[1] \in {"skill", "asst_own", "miss"} /\ (s[1] # "skill" => Len(s) = 1)
      BY <1>2, <1>3
    <3>2. NewParse.out = "none" /\ ParseEvent(NewParse, "skill") = CallOpen
      BY DEF ParseEvent, NewParse, CallOpen
    <3>3. ParseEvent(NewParse, "asst_own").out = "true"
      BY DEF ParseEvent, NewParse
    <3>4. ParseEvent(NewParse, "miss").out = "false"
      BY DEF ParseEvent, NewParse
    <3> QED
      BY <2>2, <3>1, <3>2, <3>3, <3>4
  <2>4. CallOpen.out = "none"
    BY DEF CallOpen
  <2> HIDE DEF s, l
  <2> QED
    BY <1>2, <1>3, <1>4, <2>3, <2>4 DEF s
<1>5. CASE t.read = 0 /\ n = 2 /\ Len(s) = 2
  <2>0. Len(s) = 2
    BY <1>5
  <2>1. DOMAIN l = {1, 2} /\ l[1] = s[1] /\ l[2] = s[2] /\ t.parse = NewParse
    BY <1>2, <1>5, <2>0 DEF Watched
  <2>2. p = ParseEvent(ParseEvent(NewParse, s[1]), s[2])
    BY <2>1, ParseTwo
  <2>3. ParseEvent(NewParse, s[1]) = CallOpen
    BY <1>3, <2>0 DEF ParseEvent, NewParse, CallOpen
  <2>4. p.out = IF s[2] = "own" THEN "true" ELSE "false"
    BY <1>3, <2>0, <2>2, <2>3 DEF ParseEvent, CallOpen
  <2> QED
    BY <1>3, <2>0, <2>4
<1>6. CASE t.read = 1 /\ n = 2 /\ Len(s) = 2
  <2>0. Len(s) = 2
    BY <1>6
  <2>1. DOMAIN l = {1} /\ l[1] = s[2] /\ t.parse = CallOpen
    BY <1>2, <1>6, <2>0 DEF Watched
  <2>2. p = ParseEvent(CallOpen, s[2])
    BY <2>1, ParseOne
  <2>4. p.out = IF s[2] = "own" THEN "true" ELSE "false"
    BY <1>3, <2>0, <2>2 DEF ParseEvent, CallOpen
  <2> QED
    BY <1>3, <2>0, <2>4
<1> QED
  BY <1>0, <1>4, <1>5, <1>6

\* What chose the own file has sent something that is not parsed yet.
LEMMA OwnUnread ==
  ASSUME NEW t \in Watched, ChoosesOwn(t.sent)
  PROVE  t.read < Len(t.sent)
<1> DEFINE s == t.sent
<1>1. s \in Sent /\ (t.read = 0 \/ (t.read = 1 /\ s[1] = "skill"))
  BY DEF Watched
<1>2. Len(s) = 2 \/ (Len(s) = 1 /\ s[1] = "asst_own")
  BY <1>1, SentFacts
<1>3. t.read = 0 \/ (t.read = 1 /\ Len(s) = 2)
  BY <1>1, <1>2
<1> QED
  BY <1>2, <1>3

LEMMA WatchedFields ==
  ASSUME NEW t \in Watched
  PROVE  /\ t.at \in {"running", "stuck"}
         /\ \A e \in Continuations(t.sent) : [t EXCEPT !.sent = Append(t.sent, e)] \in Watched
         /\ \A how \in {"yes", "held"} : [t EXCEPT !.exited = how] \in Watched
         /\ [t EXCEPT !.at = "stuck"] \in Watched
         /\ t.sent # <<>> /\ t.sent[1] = "skill" => [t EXCEPT !.read = 1, !.parse = CallOpen] \in Watched
<1>1. t.at \in {"running", "stuck"} /\ t.sent \in Sent
  BY DEF Watched
<1>2. ASSUME NEW e \in Continuations(t.sent)
      PROVE  [t EXCEPT !.sent = Append(t.sent, e)] \in Watched
  <2> DEFINE u == [t EXCEPT !.sent = Append(t.sent, e)]
  <2>1. Append(t.sent, e) \in Sent /\ (Len(t.sent) > 0 => Append(t.sent, e)[1] = t.sent[1])
    BY <1>1, SentGrows
  <2>2. t.sent # <<>> => Len(t.sent) > 0
    BY <1>1, SentFacts
  <2>3. Append(t.sent, e) # <<>>
    <3>1. e \in Event /\ t.sent \in Seq(Event)
      <4>1. t.sent \in Seq(Event) /\ Len(t.sent) \in Nat
        BY <1>1, SentFacts
      <4>2. PICK x \in Sent : Len(x) > Len(t.sent) /\ e = x[Len(t.sent) + 1]
        BY DEF Continuations, Streams, Sent
      <4>3. x \in Seq(Event) /\ Len(x) \in Nat
        BY SentFacts
      <4> QED
        BY <4>1, <4>2, <4>3, ElementOfSeq
    <3> QED
      BY <3>1, AppendProperties, EmptySeq
  <2>4. /\ u.sent = Append(t.sent, e) /\ u.read = t.read /\ u.parse = t.parse
        /\ u \in [at : {"running", "stuck"}, sent : Sent, read : {0, 1}, exited : {"no", "yes", "held"},
                  parse : {NewParse, CallOpen}, own : BOOLEAN, cut : BOOLEAN, verdict : BOOLEAN]
    BY <2>1 DEF Watched
  <2> HIDE DEF u
  <2> QED
    BY <2>1, <2>2, <2>3, <2>4 DEF Watched
<1>3. ASSUME NEW how \in {"yes", "held"}
      PROVE  [t EXCEPT !.exited = how] \in Watched
  BY DEF Watched
<1>4. [t EXCEPT !.at = "stuck"] \in Watched
  BY DEF Watched
<1>5. ASSUME t.sent # <<>>, t.sent[1] = "skill"
      PROVE  [t EXCEPT !.read = 1, !.parse = CallOpen] \in Watched
  BY <1>5 DEF Watched
<1> QED
  BY <1>1, <1>2, <1>3, <1>4, <1>5

LEMMA VerdictBatch ==
  ASSUME VerdictInv, BatchNext PROVE VerdictInv'
<1>1. ASSUME NEW k \in DOMAIN tasks, NEW t, tasks' = [tasks EXCEPT ![k] = t], TaskOK(t)
      PROVE  VerdictInv'
  BY <1>1 DEF VerdictInv, TaskOK, Earned
<1>2. ASSUME NEW k \in DOMAIN tasks, Running(k)
      PROVE  tasks[k] \in Watched
  BY <1>2 DEF VerdictInv, TaskOK, Earned, Blank, Running
<1>3. ASSUME NEW k \in DOMAIN tasks, NEW v \in BOOLEAN, NEW c \in BOOLEAN, Return(k, v, c),
             v => ChoosesOwn(tasks[k].sent),
             ChoosesOwn(tasks[k].sent) => v \/ c
      PROVE  VerdictInv'
  <2>1. Earned(Returned(k, v, c))
    BY <1>3 DEF Earned, Returned, Blank
  <2> QED
    BY <1>1, <1>3, <2>1 DEF Return, TaskOK
<1>4. ASSUME NEW k \in DOMAIN tasks, Running(k)
      PROVE  ChoosesOwn(tasks[k].sent) => Unread(k)
  BY <1>2, <1>4, OwnUnread DEF Unread
<1>5. ~ChoosesOwn(Blank.sent)
  BY DEF ChoosesOwn, ToSet, Blank
<1>6. ASSUME NEW k \in DOMAIN tasks, Launch(k) PROVE VerdictInv'
  <2>1. tasks[k] = Blank
    <3>1. tasks[k].at = "queued" /\ TaskOK(tasks[k])
      BY <1>6 DEF Launch, VerdictInv
    <3> QED
      BY <3>1 DEF TaskOK, Watched, Earned
  <2>2. CASE tasks' = [tasks EXCEPT ![k].at = "running"]
    <3>1. tasks' = [tasks EXCEPT ![k] = [Blank EXCEPT !.at = "running"]]
      BY <2>1, <2>2
    <3>2. [Blank EXCEPT !.at = "running"] \in Watched
      BY DEF Blank, Watched, Sent
    <3> QED
      BY <1>1, <3>1, <3>2 DEF TaskOK
  <2>3. CASE Return(k, FALSE, FALSE)
    BY <1>3, <1>5, <2>1, <2>3
  <2> QED
    BY <1>6, <2>2, <2>3 DEF Launch
<1>7. ASSUME NEW k \in DOMAIN tasks, Emit(k) PROVE VerdictInv'
  <2>1. tasks[k] \in Watched
    BY <1>2, <1>7 DEF Emit
  <2>2. PICK e \in Continuations(tasks[k].sent) : tasks' = [tasks EXCEPT ![k].sent = Append(@, e)]
    BY <1>7 DEF Emit
  <2>3. tasks' = [tasks EXCEPT ![k] = [tasks[k] EXCEPT !.sent = Append(tasks[k].sent, e)]]
    BY <2>2
  <2>4. [tasks[k] EXCEPT !.sent = Append(tasks[k].sent, e)] \in Watched
    BY <2>1, <2>2, WatchedFields
  <2> QED
    BY <1>1, <2>3, <2>4 DEF TaskOK
<1>8. ASSUME NEW k \in DOMAIN tasks, Exit(k) PROVE VerdictInv'
  <2>1. tasks[k] \in Watched
    BY <1>2, <1>8 DEF Exit
  <2>2. PICK how \in {"yes", "held"} : tasks' = [tasks EXCEPT ![k].exited = how]
    BY <1>8 DEF Exit
  <2>3. tasks' = [tasks EXCEPT ![k] = [tasks[k] EXCEPT !.exited = how]]
    BY <2>2
  <2>4. [tasks[k] EXCEPT !.exited = how] \in Watched
    BY <2>1, WatchedFields
  <2> QED
    BY <1>1, <2>3, <2>4 DEF TaskOK
<1>9. ASSUME NEW k \in DOMAIN tasks, SeeExit(k) PROVE VerdictInv'
  <2>1. Running(k) /\ tasks[k] \in Watched
    BY <1>2, <1>9 DEF SeeExit
  <2>2. CASE Return(k, FALSE, Unread(k))
    <3>1. Unread(k) \in BOOLEAN
      BY DEF Unread
    <3> QED
      BY <1>3, <1>4, <2>1, <2>2, <3>1
  <2>3. CASE tasks' = [tasks EXCEPT ![k].at = "stuck"]
    <3>1. tasks' = [tasks EXCEPT ![k] = [tasks[k] EXCEPT !.at = "stuck"]]
      BY <2>3
    <3> QED
      BY <1>1, <2>1, <3>1, WatchedFields DEF TaskOK
  <2> QED
    BY <1>9, <2>2, <2>3 DEF SeeExit
<1>10. ASSUME NEW k \in DOMAIN tasks, ReadChunk(k) PROVE VerdictInv'
  <2>1. tasks[k] \in Watched
    BY <1>2, <1>10 DEF ReadChunk
  <2>0. PICK n \in (tasks[k].read + 1)..Len(tasks[k].sent) :
          LET p == Parse(tasks[k].parse, SubSeq(tasks[k].sent, tasks[k].read + 1, n))
          IN \/ p.out # "none" /\ Return(k, p.out = "true", FALSE)
             \/ p.out = "none" /\ tasks' = [tasks EXCEPT ![k].read = n, ![k].parse = p]
    BY <1>10 DEF ReadChunk
  <2>2. PICK p :
          /\ p = Parse(tasks[k].parse, SubSeq(tasks[k].sent, tasks[k].read + 1, n))
          /\ \/ p.out # "none" /\ Return(k, p.out = "true", FALSE)
             \/ p.out = "none" /\ tasks' = [tasks EXCEPT ![k].read = n, ![k].parse = p]
    BY <2>0
  <2>3. /\ p.out # "none" => (p.out = "true" <=> ChoosesOwn(tasks[k].sent))
        /\ p.out = "none" => n = 1 /\ p = CallOpen /\ tasks[k].sent # <<>> /\ tasks[k].sent[1] = "skill"
    BY <2>1, <2>2, ChunkTells
  <2>4. CASE p.out # "none" /\ Return(k, p.out = "true", FALSE)
    <3>1. (p.out = "true") \in BOOLEAN
      OBVIOUS
    <3> QED
      BY <1>3, <2>3, <2>4, <3>1
  <2>5. CASE p.out = "none" /\ tasks' = [tasks EXCEPT ![k].read = n, ![k].parse = p]
    <3>1. tasks' = [tasks EXCEPT ![k] = [tasks[k] EXCEPT !.read = 1, !.parse = CallOpen]]
      BY <2>3, <2>5
    <3>2. [tasks[k] EXCEPT !.read = 1, !.parse = CallOpen] \in Watched
      BY <2>1, <2>3, <2>5, WatchedFields
    <3> QED
      BY <1>1, <3>1, <3>2 DEF TaskOK
  <2> QED
    BY <2>2, <2>4, <2>5
<1>11. ASSUME NEW k \in DOMAIN tasks, TimeOut(k) PROVE VerdictInv'
  <2>1. Unread(k) \in BOOLEAN
    BY DEF Unread
  <2> QED
    BY <1>3, <1>4, <1>11, <2>1 DEF TimeOut
<1>12. CASE WorkerDies
  <2> SUFFICES ASSUME NEW k \in DOMAIN tasks PROVE TaskOK(tasks'[k])
    BY <1>12 DEF WorkerDies, VerdictInv, TaskOK, Earned
  <2>1. tasks'[k] = IF tasks[k].at = "done" THEN tasks[k] ELSE Returned(k, FALSE, Unread(k))
    BY <1>12 DEF WorkerDies
  <2>2. CASE tasks[k].at = "done"
    BY <2>1, <2>2 DEF VerdictInv
  <2>3. CASE tasks[k].at # "done"
    <3>1. ChoosesOwn(tasks[k].sent) => Unread(k)
      <4>1. tasks[k] = Blank \/ tasks[k] \in Watched
        BY <2>3 DEF VerdictInv, TaskOK, Earned
      <4> QED
        BY <1>5, <4>1, OwnUnread DEF Unread
    <3>2. Earned(Returned(k, FALSE, Unread(k)))
      BY <3>1 DEF Earned, Returned, Blank
    <3> QED
      BY <2>1, <2>3, <3>2 DEF TaskOK
  <2> QED
    BY <2>2, <2>3
<1> QED
  BY <1>6, <1>7, <1>8, <1>9, <1>10, <1>11, <1>12 DEF BatchNext, WorkNext, Work

LEMMA VerdictStep == VerdictInv /\ [Next]_vars => VerdictInv'
<1> SUFFICES ASSUME VerdictInv, [Next]_vars PROVE VerdictInv'
  OBVIOUS
<1>1. ASSUME UNCHANGED tasks PROVE VerdictInv'
  BY <1>1 DEF VerdictInv, TaskOK, Earned
<1>2. ASSUME NEW items, StartBatch(items) PROVE VerdictInv'
  BY <1>2 DEF StartBatch, VerdictInv, TaskOK
<1>3. CASE Begin
  BY <1>1, <1>2, <1>3 DEF Begin, evalVars
<1>4. CASE Score
  BY <1>4 DEF Score, VerdictInv
<1>5. CASE Improve
  BY <1>1, <1>2, <1>5 DEF Improve, CallFails, Answer, NextRound, evalVars
<1>6. CASE Shorten
  BY <1>1, <1>2, <1>6 DEF Shorten, CallFails, NextRound, evalVars
<1>7. CASE Conclude \/ Apply \/ Package \/ UNCHANGED vars
  BY <1>1, <1>7 DEF Conclude, Apply, Package, vars, evalVars
<1>8. CASE BatchNext
  BY <1>8, VerdictBatch
<1> QED
  BY <1>3, <1>4, <1>5, <1>6, <1>7, <1>8 DEF Next, LoopNext, LoopStep

(***************************************************************************)
(* run_single_query answers True only for a claude that reached for the    *)
(* task's own file first, and a False to such a claude is one cut short.   *)
(***************************************************************************)
THEOREM VerdictsAlwaysEarned == Spec => []VerdictsAreEarned
<1>1. Init => VerdictInv
  BY DEF Init, LoopInit, VerdictInv
<1>2. VerdictInv => VerdictsAreEarned
  BY DEF VerdictInv, VerdictsAreEarned, TaskOK, Earned, Watched, Blank
<1> QED
  BY <1>1, <1>2, VerdictStep, PTL DEF Spec
=============================================================================
