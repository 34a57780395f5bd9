--------------------------- MODULE MCSkillReview ---------------------------
(***************************************************************************)
(* The aggregator and the viewer in one run, one after the other.          *)
(***************************************************************************)
EXTENDS Benchmark, Review

vars == <<benchVars, reviewVars>>

Init == BenchInit /\ ReviewInit

\* Bound: the two share benchmark.json alone, which a page reads whole or not
\* at all, so either all graders and the aggregator move or the viewer does.
Next ==
  \/ BenchNext /\ launches = 0 /\ UNCHANGED reviewVars
  \/ ReviewNext /\ regrades = 0 /\ \A s \in Slots : tree[s] = Absent /\ benchmark = NoBenchmark
     /\ UNCHANGED benchVars

Spec == Init /\ [][Next]_vars
=============================================================================
