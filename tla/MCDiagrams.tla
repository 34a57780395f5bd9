----------------------------- MODULE MCDiagrams -----------------------------
(***************************************************************************)
(* TLC instance of Diagrams: three diagrams and three guides.              *)
(***************************************************************************)
EXTENDS Diagrams, TLC

CONSTANTS flow, fixed, chart

MCCodes == {flow, fixed, chart}

\* flow is a flowchart with a reserved word in it, fixed is it repaired, and
\* mmdc has no words of the guide for what it dislikes in chart.
MCRefused == flow :> {"parse", "reserved", "end"} @@ chart :> {"boom"}
MCKind == [c \in MCCodes |-> IF c = chart THEN "gantt" ELSE "flowchart"]

\* Two titles that agree in their first twenty characters.
MCTitles == {"long title 1", "long title 2"}
MCShort == [t \in MCTitles |-> "long title"]

Entry(number, known, kinds, problem, title) ==
  [number |-> number, known |-> known, all |-> kinds = {"all"}, kinds |-> kinds,
   problem |-> problem, title |-> title, correct |-> number \notin {0, 4}]

\* Like the guide of the skill: an entry for all diagrams.  The best match of
\* flow comes late, and two in front of it tie.
Shipped ==
  << Entry(1, {{"parse", "error"}}, {}, {}, {}),
     Entry(2, {}, {"all"}, {}, {"end", "timed"}),
     Entry(3, {}, {}, {"reserved"}, {"parse"}),
     Entry(4, {{"not", "created"}}, {"flowchart"}, {}, {"file"}),
     Entry(5, {{"parse"}}, {"flowchart"}, {"reserved"}, {"reserved"}) >>

\* None found; the shipped one; one of the author's own.
MCGuides == {<<>>, Shipped, <<Entry(0, {{"parse"}}, {}, {}, {})>>}
=============================================================================
