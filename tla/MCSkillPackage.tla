--------------------------- MODULE MCSkillPackage ---------------------------
(***************************************************************************)
(* TLC instances of SkillPackage: eval sets and a skill folder.            *)
(***************************************************************************)
EXTENDS SkillPackage

CONSTANTS q1, q2, n1

Wanted(q) == [query |-> q, should |-> TRUE]
Unwanted(q) == [query |-> q, should |-> FALSE]

\* Two wanted queries and an unwanted one; the same query twice, so that the
\* test set repeats the train set; a query that is wanted and unwanted.
MCEvalSets ==
  { <<Wanted(q1), Wanted(q2), Unwanted(n1)>>,
    <<Wanted(q1), Wanted(q1)>>,
    <<Wanted(q1), Unwanted(q1)>> }

MCFolder ==
  { <<"s", "SKILL.md">>, <<"s", "evals", "evals.json">>, <<"s", "docs", "evals", "notes.md">>,
    <<"s", "scripts", "__pycache__", "module.pyc">>, <<"s", ".DS_Store">> }
=============================================================================
