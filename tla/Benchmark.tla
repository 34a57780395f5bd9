----------------------------- MODULE Benchmark -----------------------------
(***************************************************************************)
(* aggregate_benchmark.py: the grades that grader agents write under       *)
(* eval-*/<config>/run-*/ are read one after the other, while graders may  *)
(* still be writing, and become benchmark.json.                            *)
(***************************************************************************)
EXTENDS Integers, FiniteSets, Sequences, SequencesExt

CONSTANTS
  Evals,         \* the eval-* directories, numbers in the order of their names
  NumConfigs,    \* the configuration directories, numbered in the order of their names
  RunNumbers,    \* the run-* directories
  Rates,         \* bound: pass rates, in units of the smallest step
  MaxRegrades    \* bound: gradings started again

ASSUME BenchmarkAssumption ==
  /\ Evals \subseteq Nat /\ IsFiniteSet(Evals)
  /\ NumConfigs \in Nat /\ NumConfigs >= 2
  /\ RunNumbers \subseteq Nat /\ IsFiniteSet(RunNumbers)
  /\ Rates \subseteq Nat
  /\ MaxRegrades \in Nat

VARIABLES
  tree,        \* per run directory: absent, ungraded, torn, or its rate
  todo,        \* the set of run directories load_run_results may have yet to visit
  opened,      \* the directories it has listed: <<eval, 0>> and <<eval, configuration>>
  order,       \* the configurations in the order of results' keys
  results,     \* what was loaded: configuration, eval, run, rate
  benchmark,   \* benchmark.json
  regrades

benchVars == <<tree, todo, opened, order, results, benchmark, regrades>>

Slots == Evals \X (1..NumConfigs) \X RunNumbers

\* What a run directory may hold, and what counts as a grade.
Graded(content) == content[1] = "rate"
Absent == <<"absent">>
Ungraded == <<"ungraded">>
Torn == <<"torn">>
Rate(n) == <<"rate", n>>

\* sorted(): by eval, then configuration, then run.  The first of a set of
\* run directories is the one the loops come to next.
Before(s, t) ==
  \/ s[1] < t[1]
  \/ s[1] = t[1] /\ s[2] < t[2]
  \/ s[1] = t[1] /\ s[2] = t[2] /\ s[3] < t[3]
Foremost(slots) == CHOOSE s \in slots : \A t \in slots : t = s \/ Before(s, t)

NoBenchmark == [state |-> "none"]

-----------------------------------------------------------------------------
(* Executors and graders, external *)

\* Bound: a directory the script has passed stays as it was found, and one
\* that it has missed is not made, since nothing would read it.
Becomes(slot, content) ==
  /\ benchmark.state = "none" \/ slot \in todo
  /\ tree' = [tree EXCEPT ![slot] = content]
  /\ UNCHANGED <<todo, opened, order, results, benchmark>>

\* A run directory appears; its grading.json is opened; and written whole.
Executed(slot) == tree[slot] = Absent /\ Becomes(slot, Ungraded) /\ UNCHANGED regrades
GradingOpened(slot) ==
  \/ tree[slot] = Ungraded /\ Becomes(slot, Torn) /\ UNCHANGED regrades
  \/ /\ Graded(tree[slot]) /\ regrades < MaxRegrades
     /\ Becomes(slot, Torn)
     /\ regrades' = regrades + 1
GradingWritten(slot) ==
  /\ tree[slot] = Torn
  /\ \E n \in Rates : Becomes(slot, Rate(n))
  /\ UNCHANGED regrades

-----------------------------------------------------------------------------
(* The script *)

\* load_run_results lists the eval directories there are: those with a run,
\* and any that is still empty.
StartLoading ==
  /\ benchmark.state = "none"
  /\ \E evals \in SUBSET Evals :
       /\ \A s \in Slots : tree[s] # Absent => s[1] \in evals
       /\ todo' = {s \in Slots : s[1] \in evals}
  /\ benchmark' = [state |-> "loading"]
  /\ UNCHANGED <<tree, opened, order, results, regrades>>

Loading == benchmark.state = "loading" /\ todo # {}
Turn == Foremost(todo)

\* At an eval's turn: what has a run by then, and what is empty yet, is listed.
OpenEval ==
  /\ Loading
  /\ <<Turn[1], 0>> \notin opened
  /\ opened' = opened \cup {<<Turn[1], 0>>}
  /\ \E configs \in SUBSET (1..NumConfigs) :
       /\ \A s \in Slots : s[1] = Turn[1] /\ tree[s] # Absent => s[2] \in configs
       /\ todo' = {s \in todo : s[1] = Turn[1] => s[2] \in configs}
  /\ UNCHANGED <<tree, order, results, benchmark, regrades>>

\* At a configuration's turn its run-* directories are listed; without one it
\* is passed over.
OpenConfig ==
  /\ Loading
  /\ <<Turn[1], 0>> \in opened /\ <<Turn[1], Turn[2]>> \notin opened
  /\ opened' = opened \cup {<<Turn[1], Turn[2]>>}
  /\ todo' = {s \in todo : s[1] = Turn[1] /\ s[2] = Turn[2] => tree[s] # Absent}
  /\ UNCHANGED <<tree, order, results, benchmark, regrades>>

\* Mutant: an ungraded run ends the loop where it should be passed over.
LoadRunOrStop ==
  /\ Loading
  /\ <<Turn[1], Turn[2]>> \in opened
  /\ order' = IF Turn[2] \in ToSet(order) THEN order ELSE Append(order, Turn[2])
  /\ results' = IF Graded(tree[Turn])
                THEN Append(results, [slot |-> Turn, rate |-> tree[Turn][2]]) ELSE results
  /\ todo' = IF tree[Turn] = Ungraded THEN {} ELSE todo \ {Turn}
  /\ UNCHANGED <<tree, opened, benchmark, regrades>>

\* One run directory of the list: a configuration enters the results with its
\* first, graded or not; a missing or torn grading.json is skipped.
LoadRun ==
  /\ Loading
  /\ <<Turn[1], Turn[2]>> \in opened
  /\ order' = IF Turn[2] \in ToSet(order) THEN order ELSE Append(order, Turn[2])
  /\ results' = IF Graded(tree[Turn])
                THEN Append(results, [slot |-> Turn, rate |-> tree[Turn][2]]) ELSE results
  /\ todo' = todo \ {Turn}
  /\ UNCHANGED <<tree, opened, benchmark, regrades>>

\* The rates of one configuration, by their places in results.
RatesOf(config) ==
  [i \in {j \in DOMAIN results : results[j].slot[2] = config} |-> results[i].rate]

\* calculate_stats, unrounded: the mean as sum and count, an empty list as 0
\* of 1; the sample variance as a numerator over n * (n - 1).
calculate_stats(values) ==
  LET n == Cardinality(DOMAIN values)
      sum == SumFunction(values)
      squares == SumFunction([i \in DOMAIN values |-> values[i] * values[i]])
  IN IF DOMAIN values = {} THEN [sum |-> 0, n |-> 1, spread |-> 0, min |-> 0, max |-> 0]
     ELSE [sum |-> sum, n |-> n, spread |-> n * squares - sum * sum,
           min |-> CHOOSE v \in Range(values) : \A w \in Range(values) : v <= w,
           max |-> CHOOSE v \in Range(values) : \A w \in Range(values) : v >= w]

\* The difference of two means over the product of their counts.
Difference(a, b) == [over |-> a.n * b.n, diff |-> a.sum * b.n - b.sum * a.n]

NoStats == calculate_stats(<<>>)

\* aggregate_results: the delta is the first configuration minus the second,
\* in the order in which they entered the results.
Summary ==
  LET stats == [i \in 1..Len(order) |-> calculate_stats(RatesOf(order[i]))]
      At(i) == IF i <= Len(order) THEN stats[i] ELSE NoStats
  IN [stats |-> [c \in ToSet(order) |-> stats[CHOOSE i \in DOMAIN order : order[i] = c]],
      delta |-> Difference(At(1), At(2))]

\* generate_benchmark, and main's write: opened, and then whole.
OpenBenchmark ==
  /\ benchmark.state = "loading" /\ todo = {}
  /\ benchmark' = [state |-> "torn"]
  /\ UNCHANGED <<tree, todo, opened, order, results, regrades>>

WriteBenchmark ==
  /\ benchmark.state = "torn"
  /\ benchmark' = [state |-> "whole", runs |-> results, summary |-> Summary]
  /\ UNCHANGED <<tree, todo, opened, order, results, regrades>>

BenchInit ==
  /\ tree = [s \in Slots |-> Absent]
  /\ todo = {} /\ opened = {} /\ order = <<>> /\ results = <<>>
  /\ benchmark = NoBenchmark
  /\ regrades = 0

BenchNext ==
  \/ \E s \in Slots : Executed(s) \/ GradingOpened(s) \/ GradingWritten(s)
  \/ StartLoading \/ OpenEval \/ OpenConfig \/ LoadRun \/ OpenBenchmark \/ WriteBenchmark

BenchSpec == BenchInit /\ [][BenchNext]_benchVars

-----------------------------------------------------------------------------
\* Both configurations had a run in the first eval when they were listed.
BothFromTheStart ==
  \E e \in Evals :
    /\ \A c \in 1..2 : \E s \in Slots : s[1] = e /\ s[2] = c /\ tree[s] # Absent
    /\ \A s \in Slots : tree[s] # Absent => s[1] >= e

(***************************************************************************)
(* The benchmark counts every grade that stood whole when its directory's  *)
(* turn came, once and with its rate, and nothing else, whatever other     *)
(* runs were missing, half written, graded again, or made after the        *)
(* directory above them had been listed.  Its delta is the mean of the     *)
(* first configuration by name minus that of the second, unless the first  *)
(* eval lacked one of them, or one has no grade: the sign then goes by who *)
(* came first, and no grade counts as 0.                                   *)
(***************************************************************************)
NumbersAreHonest ==
  benchmark.state = "whole" =>
    LET counted == {s \in Slots : Graded(tree[s])}
        of(c) == {s \in counted : s[2] = c}
        sum(c) == SumFunction([s \in of(c) |-> tree[s][2]])
        n(c) == Cardinality(of(c))
        delta == benchmark.summary.delta
    IN /\ Len(benchmark.runs) = Cardinality(counted)
       /\ \A s \in counted : [slot |-> s, rate |-> tree[s][2]] \in ToSet(benchmark.runs)
       /\ BothFromTheStart /\ n(1) > 0 /\ n(2) > 0 =>
            delta.diff * n(1) * n(2) = (sum(1) * n(2) - sum(2) * n(1)) * delta.over
=============================================================================
