---------------------------- MODULE SkillPackage ----------------------------
(***************************************************************************)
(* From the loop's answer to a .skill file: the author writes              *)
(* best_description into SKILL.md, quick_validate.py checks it and         *)
(* package_skill.py zips the folder.                                       *)
(***************************************************************************)
EXTENDS ImproveLoop

CONSTANT
  Folder      \* bound: the files of the skill folder, paths from its parent

ASSUME FolderAssumption == \A p \in Folder : p \in Seq(STRING) /\ p # <<>>

VARIABLE package   \* the .skill file: the description and the files in it

vars == <<evalVars, loopVars, package>>

NoPackage == [desc |-> Original, files |-> {}]

\* validate_skill: frontmatter that a --- at the start of some later line
\* ends, both keys and no unknown one, a description within its limits.
Validates(s) == s.form \in {"good", "loose"} /\ s.desc.kind = "plain"

ExcludeDirs == {"__pycache__", "node_modules"}

\* should_exclude: build directories anywhere, evals only at the skill's root,
\* compiled and Finder files by name.
ShouldExclude(path) ==
  \/ \E i \in DOMAIN path : path[i] \in ExcludeDirs
  \/ Len(path) > 1 /\ path[2] = "evals"
  \/ path[Len(path)] \in {".DS_Store", "module.pyc"}

\* The author, by SKILL.md's step 4.
Apply ==
  /\ pc = "ended"
  /\ skill' = [skill EXCEPT !.desc = history[output.best].desc]
  /\ pc' = "applied"
  /\ UNCHANGED <<evalVars, splitVars, desc, draft, history, shown, report, output, package>>

\* package_skill.  A refusal leaves no file; an error while zipping leaves the
\* files added so far, and says so.
Package ==
  /\ pc = "applied"
  /\ \/ /\ ~Validates(skill)
        /\ pc' = "refused"
        /\ UNCHANGED <<package, faults>>
     \/ /\ Validates(skill)
        /\ package' = [desc |-> skill.desc, files |-> {p \in Folder : ~ShouldExclude(p)}]
        /\ pc' = "packaged"
        /\ UNCHANGED faults
     \/ /\ Validates(skill) /\ Fault
        /\ \E part \in SUBSET {p \in Folder : ~ShouldExclude(p)} :
             package' = [desc |-> skill.desc, files |-> part]
        /\ pc' = "refused"
  /\ UNCHANGED <<batch, tasks, commands, round, broken>>
  /\ UNCHANGED <<splitVars, desc, draft, history, shown, report, output, skill>>

Init == LoopInit /\ package = NoPackage

Next ==
  \/ LoopNext /\ UNCHANGED package
  \/ Apply
  \/ Package

Spec == Init /\ [][Next]_vars

\* Some script step that can happen does, clocks run out included; claude
\* owes nothing.
FairSpec ==
  /\ Spec
  /\ WF_vars(LoopStep /\ UNCHANGED package)
  /\ WF_vars(pc = "eval" /\ WorkNext /\ UNCHANGED <<loopVars, package>>)

-----------------------------------------------------------------------------
\* Held-out queries that are in train word for word have no results of
\* their own: run_loop then scores every iteration 0 of 0.
NothingHeldOut == test # <<>> /\ Queries(test) \subseteq Queries(train)

(***************************************************************************)
(* The held-out queries stay held out: over all rounds the improver is     *)
(* shown neither a query that only the test set has nor a test score.      *)
(***************************************************************************)
TestStaysUnseen ==
  \A fact \in shown : \E q \in Queries(train) : fact = <<"query", q>>

(***************************************************************************)
(* The description that ends up in the .skill file is the one that scored  *)
(* best, by test where something was really held out, and the final report *)
(* marks the iteration that the JSON names.                                *)
(***************************************************************************)
BestIsShipped ==
  pc \in {"ended", "applied", "packaged", "refused"} /\ ~NothingHeldOut =>
    LET score == IF test = <<>> THEN "train_passed" ELSE "test_passed"
    IN /\ \A i \in DOMAIN history : history[i][score] <= history[output.best][score]
       /\ wanted => report = [kind |-> "final", best |-> output.best]
       /\ pc = "packaged" => package.desc = history[output.best].desc

(***************************************************************************)
(* A loop ends whatever claude does, silent, slow or dead: the one thing   *)
(* that can hold it is a pipe that a child of claude keeps open.           *)
(***************************************************************************)
LoopEnds ==
  <>(\/ pc \in {"ended", "applied", "packaged", "refused", "failed"}
     \/ \E k \in DOMAIN tasks : tasks[k].at = "stuck")

(***************************************************************************)
(* The help text of --holdout offers 0 to disable the split: such a loop   *)
(* fails for its improver or its SKILL.md, never for its own report.       *)
(***************************************************************************)
NoReportFailure == ~(pc = "failed" /\ history # <<>> /\ shown = {})
=============================================================================
