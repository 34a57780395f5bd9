---------------------------- MODULE ImproveLoop ----------------------------
(***************************************************************************)
(* run_loop.py: evaluate a skill's description on train and test queries   *)
(* together, show the train results to an improver, try its answer, and    *)
(* keep the description with the best test score.  With it                 *)
(* improve_description.py, the reports of generate_report.py, and what the *)
(* skill's author does with the result: edit SKILL.md, check and package.  *)
(***************************************************************************)
EXTENDS EvalQuery

CONSTANTS
  Query,           \* query texts
  EvalSets,        \* the eval sets a run tries, sequences of items
  Holdout,         \* --holdout, in percent
  MaxIterations,   \* --max-iterations
  Reports          \* bound: values of `--report is not none'

Item == [query : Query, should : BOOLEAN]

ASSUME LoopAssumption ==
  /\ EvalSets \subseteq Seq(Item)
  /\ Holdout \in 0..100
  /\ MaxIterations \in Nat \ {0}
  /\ Reports \subseteq BOOLEAN

VARIABLES
  pc,           \* where the loop is
  train, test,  \* the split, sequences of items
  wanted,       \* a report was asked for
  desc,         \* current_description
  draft,        \* the improver's first answer while it is being shortened
  history,
  shown,        \* what the improver was shown so far: queries and scores
  report,       \* the report file
  output,       \* the JSON on standard output
  skill         \* SKILL.md: its form, and the description in it

splitVars == <<train, test, wanted>>
loopVars == <<pc, splitVars, desc, draft, history, shown, report, output, skill>>

\* A description is known by the iteration it is from, 0 for the original,
\* and by whether it is over the 1024 characters of the validator.
Kinds == {"plain", "long"}
Original == [from |-> 0, kind |-> "plain"]

\* Forms of SKILL.md, by what the two readers make of it: broken is no file
\* or no frontmatter, loose a closing line that only begins with ---, and
\* irregular a key nobody allows, or no name or no description.
Forms == {"good", "broken", "loose", "irregular"}

\* parse_skill_md: wants a line that is --- and takes missing keys for empty.
Parses(form) == form \in {"good", "irregular"}

NoReport == [kind |-> "none", best |-> 0]
NoOutput == [exit |-> "none", best |-> 0]

-----------------------------------------------------------------------------
(* The split *)

Stratum(items, should) ==
  FoldLeft(LAMBDA kept, e : IF e.should = should THEN Append(kept, e) ELSE kept, <<>>, items)

\* max(1, int(n * holdout)): a stratum of one item is all test.
TestShare(n) == LET share == (n * Holdout) \div 100 IN IF share < 1 THEN 1 ELSE share

FrontPart(s, n) == SubSeq(s, 1, IF n < Len(s) THEN n ELSE Len(s))
BackPart(s, n) == SubSeq(s, n + 1, Len(s))

\* split_eval_set, or everything in train when nothing is held out.  The seed
\* is fixed, so the shuffle is one permutation per length: the eval sets of a
\* run are written down shuffled.
Split(items) ==
  LET yes == Stratum(items, TRUE)
      no == Stratum(items, FALSE)
      ny == TestShare(Len(yes))
      nn == TestShare(Len(no))
  IN /\ train' = IF Holdout = 0 THEN items ELSE BackPart(yes, ny) \o BackPart(no, nn)
     /\ test' = IF Holdout = 0 THEN <<>> ELSE FrontPart(yes, ny) \o FrontPart(no, nn)

-----------------------------------------------------------------------------
(* History *)

PassedIn(results) == Cardinality({r \in results : r.pass})

\* The results of one iteration: train by query text, the rest is test.
Entry(i, results) ==
  LET tr == {r \in results : r.query \in Queries(train)}
      te == {r \in results : r.query \notin Queries(train)}
  IN [iteration |-> i, desc |-> desc, train_results |-> tr, train_passed |-> PassedIn(tr),
      test_results |-> te, test_passed |-> PassedIn(te)]

TestFields == {"test_results", "test_passed"}

\* Mutant: the history is handed on as it is.
BlindNothing(h) == h

\* blinded_history: the fields whose names start with test_ are dropped.
Blind(h) == [f \in DOMAIN h \ TestFields |-> h[f]]

\* The iteration Python's max picks: the first with the highest score.
FirstBest(h, score) ==
  CHOOSE i \in DOMAIN h :
    /\ \A j \in DOMAIN h : h[j][score] <= h[i][score]
    /\ \A j \in 1..(i - 1) : h[j][score] < h[i][score]

\* Mutant: the best description is the last one tried.
TakeLast(h) == Len(h)

\* run_loop goes by whether anything was held out.
Best(h) == FirstBest(h, IF test # <<>> THEN "test_passed" ELSE "train_passed")

\* generate_html goes by whether the first iteration has test results.
ReportBest(h) ==
  FirstBest(h, IF h[1].test_results # {} THEN "test_passed" ELSE "train_passed")

\* Without a holdout the history stores None under test_results, and
\* generate_html iterates over it: a TypeError.
ReportFails == wanted /\ test = <<>>

ReportOf(h, kind) ==
  IF wanted THEN [kind |-> kind, best |-> ReportBest(h)] ELSE NoReport

-----------------------------------------------------------------------------
(* The loop *)

LoopInit ==
  /\ batch = <<>> /\ tasks = <<>> /\ commands = {} /\ round = 0 /\ broken = {} /\ faults = 0
  /\ pc = "start"
  /\ train = <<>> /\ test = <<>>
  /\ wanted \in Reports
  /\ desc = Original /\ draft = Original
  /\ history = <<>>
  /\ shown = {}
  /\ report = NoReport
  /\ output = NoOutput
  /\ skill \in [form : Forms, desc : {Original}]

\* main and the head of run_loop.  A SKILL.md that is missing or cannot be
\* parsed ends the script before the report file is begun.
Begin ==
  /\ pc = "start"
  /\ \/ /\ ~Parses(skill.form)
        /\ pc' = "failed"
        /\ UNCHANGED <<evalVars, splitVars, desc, report>>
     \/ /\ Parses(skill.form)
        /\ \E items \in EvalSets : Split(items)
        /\ desc' = skill.desc
        /\ report' = IF wanted THEN [kind |-> "live", best |-> 0] ELSE NoReport
        /\ StartBatch(train' \o test')
        /\ pc' = "eval"
        /\ UNCHANGED <<commands, broken, faults, wanted>>
  /\ UNCHANGED <<draft, history, shown, output, skill>>

\* run_eval has returned: split the results, extend the history, write the
\* live report, and stop when no train query failed or the rounds are used up.
Score ==
  /\ pc = "eval" /\ BatchOver
  /\ batch' = <<>> /\ tasks' = <<>>
  /\ \E last \in LastChoices :
       history' = Append(history, Entry(Len(history) + 1, ResultsWith(last)))
  /\ LET now == history'[Len(history')]
     IN IF ReportFails
        THEN pc' = "failed" /\ UNCHANGED report
        ELSE /\ report' = ReportOf(history', "live")
             /\ pc' = IF \/ now.train_passed = Cardinality(now.train_results)
                         \/ Len(history') = MaxIterations
                      THEN "conclude" ELSE "improve"
  /\ UNCHANGED <<commands, round, broken, faults, splitVars, desc, draft, shown, output, skill>>

\* What a prompt tells: the failed queries of this round, every train query
\* of the history, and a test score where an entry still has one.
Prompt(results, hist) ==
  {<<"query", r.query>> : r \in {x \in results : ~x.pass}}
    \cup (UNION {{<<"query", r.query>> : r \in hist[i].train_results} : i \in DOMAIN hist})
    \cup {<<"test score">> : i \in {j \in DOMAIN hist : "test_passed" \in DOMAIN hist[j]}}

NextRound(d) ==
  /\ desc' = d
  /\ draft' = Original
  /\ StartBatch(train \o test)
  /\ pc' = "eval"
  /\ UNCHANGED <<commands, broken, faults>>

\* _call_claude raises on a bad exit or after its time limit, and nothing up
\* to main catches it: the history is lost.
CallFails ==
  /\ pc' = "failed"
  /\ UNCHANGED <<evalVars, desc, draft>>

\* improve_description's first call.  An answer over the limit is kept for a
\* second call, any other becomes the description of the next round.
Answer(d) ==
  \/ d.kind # "long" /\ NextRound(d)
  \/ /\ d.kind = "long"
     /\ draft' = d
     /\ pc' = "shorten"
     /\ UNCHANGED <<evalVars, desc>>

Improve ==
  /\ pc = "improve"
  /\ shown' = shown \cup Prompt(history[Len(history)].train_results,
                                [i \in DOMAIN history |-> Blind(history[i])])
  /\ \/ CallFails
     \/ \E kind \in Kinds : Answer([from |-> Len(history), kind |-> kind])
  /\ UNCHANGED <<splitVars, history, report, output, skill>>

\* The second call asks for a shorter text and takes what comes.
Shorten ==
  /\ pc = "shorten"
  /\ \/ CallFails
     \/ \E kind \in Kinds : NextRound([draft EXCEPT !.kind = kind])
  /\ UNCHANGED <<splitVars, history, shown, report, output, skill>>

\* The tail of run_loop and of main: the best entry, the JSON, the report
\* without refresh.
Conclude ==
  /\ pc = "conclude"
  /\ LET now == history[Len(history)]
     IN output' = [exit |-> IF now.train_passed = Cardinality(now.train_results)
                            THEN "all_passed" ELSE "max_iterations",
                   best |-> Best(history)]
  /\ report' = ReportOf(history, "final")
  /\ pc' = "ended"
  /\ UNCHANGED <<evalVars, splitVars, desc, draft, history, shown, skill>>

LoopStep == Begin \/ Score \/ Improve \/ Shorten \/ Conclude

LoopNext ==
  \/ LoopStep
  \/ pc = "eval" /\ BatchNext /\ UNCHANGED loopVars
=============================================================================
