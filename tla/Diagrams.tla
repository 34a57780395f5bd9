------------------------------ MODULE Diagrams ------------------------------
(***************************************************************************)
(* The three diagram scripts on one directory: extract_mermaid.py takes    *)
(* the blocks of a document apart, mermaid_to_image.py renders every .mmd  *)
(* file, extract_mermaid.py puts references to the images in place of the  *)
(* blocks, and resilient_diagram.py saves and renders single diagrams.     *)
(* The author edits the document meanwhile.  mmdc, the renderer, is        *)
(* external: it may refuse, hang, or end well and write nothing.           *)
(***************************************************************************)
EXTENDS Integers, FiniteSets, Sequences, SequencesExt, FiniteSetsExt, Functions

CONSTANTS
  Codes,        \* bound: diagrams a block may hold
  Refused,      \* those mmdc refuses, with the words it says of each
  Kind,         \* the kind detect_diagram_type finds in each
  Blocks,       \* bound: blocks of the document
  Names,        \* bound: values of --prefix; replace_with_images knows the default
  Titles,       \* bound: values of --title
  Short,        \* a title as generate_filename leaves it, 20 characters
  Guides,       \* troubleshooting guides the script may be given, entry by entry
  TopMatches,   \* bound: how many entries search returns, 5 in the code
  MaxRuns,      \* bound: scripts run
  MaxFaults     \* bound: mmdc misbehaving

ASSUME DiagramsAssumption ==
  /\ DOMAIN Refused \subseteq Codes /\ DOMAIN Kind = Codes
  /\ DOMAIN Short = Titles
  /\ "diagram" \in Names
  /\ {Blocks, TopMatches, MaxRuns, MaxFaults} \subseteq Nat /\ TopMatches > 0
  /\ \A g \in Guides :
       /\ Len(g) \in Nat /\ DOMAIN g = 1..Len(g)
       /\ \A i \in DOMAIN g : IsFiniteSet(g[i].known) /\ IsFiniteSet(g[i].title)

VARIABLES
  doc,        \* the blocks of the document
  mmds,       \* the .mmd files: name -> diagram
  images,     \* the images: name -> diagram, or Void for an empty file
  outcome,    \* per name: how its last render ended
  extracted,  \* ghost: the document as last extracted under the default prefix
  markdown,   \* the document with references: per block, its diagram and a name
  job,        \* the script at work
  report,     \* what the last script that judges said, and what it was run on
  runs, faults

vars == <<doc, mmds, images, outcome, extracted, markdown, job, report, runs, faults>>

Void == "void"
NoFiles == [n \in {} |-> Void]
NoJob == [script |-> "none"]
NoReport == [script |-> "none"]

File(files, n) == IF n \in DOMAIN files THEN files[n] ELSE "missing"
With(files, n, content) == [m \in DOMAIN files \cup {n} |-> IF m = n THEN content ELSE files[m]]

\* Mutant: the number alone.
FilenameByIndex(prefix, i, code) == <<prefix, i, "mmd">>

\* MermaidDiagram.get_filename: a number and eight digits of a hash, which are
\* taken to tell diagrams apart.
get_filename(prefix, i, code) == <<prefix, i, code>>

\* generate_filename: document and number are fixed here; the kind comes from
\* the code and the title is cut.  A pair: no name of get_filename looks so.
generate_filename(code, title) == <<Kind[code], Short[title]>>

-----------------------------------------------------------------------------
(* mmdc, external *)

\* What a call may do: whether it exits 0, the words of its complaint, and what
\* is then at the output path, where old was before.
mmdc(code, old) ==
  {[exit0 |-> FALSE, words |-> Refused[c], image |-> old, fault |-> FALSE] : c \in {code} \cap DOMAIN Refused}
    \cup {[exit0 |-> TRUE, words |-> {}, image |-> c, fault |-> FALSE] : c \in {code} \ DOMAIN Refused}
    \cup {[exit0 |-> e, words |-> {"timed", "out"}, image |-> i, fault |-> TRUE] : e \in BOOLEAN, i \in {old, Void}}

Faulty(call) == IF call.fault THEN faults < MaxFaults /\ faults' = faults + 1 ELSE UNCHANGED faults

\* Mutant: an image at the path is enough.
RenderedIfThere(call) == call.image \notin {"missing", Void}

\* render and render_image: exit code, then existence, then size.
Rendered(call) == call.exit0 /\ call.image \notin {"missing", Void}

\* One file is rendered; an old image that a lying mmdc left there is kept as
\* what it is.
RenderFile(n, call) ==
  /\ Faulty(call)
  /\ images' = IF call.image = "missing" THEN images ELSE With(images, n, call.image)
  /\ outcome' = With(outcome, n, IF ~Rendered(call) THEN "failed"
                                 ELSE IF call.fault THEN "lied" ELSE "rendered")

-----------------------------------------------------------------------------
(* extract_mermaid.py *)

\* A script starts when none is at work; what the last one said is history.
Starts == job = NoJob /\ runs < MaxRuns /\ runs' = runs + 1
Run == Starts /\ report' = NoReport

\* The author changes a block, adds or removes one, or moves them.
Edit ==
  /\ \/ \E i \in DOMAIN doc : \E c \in Codes \ {doc[i]} : doc' = [doc EXCEPT ![i] = c]
     \/ Len(doc) < Blocks /\ \E c \in Codes : doc' = Append(doc, c)
     \/ Len(doc) > 1 /\ doc' = Tail(doc)
     \/ doc' = Reverse(doc) /\ doc' # doc
  /\ UNCHANGED <<mmds, images, outcome, extracted, markdown, job, report, runs, faults>>

\* save_diagrams.
Extract ==
  /\ Run
  /\ \E p \in Names :
       /\ mmds' = [n \in DOMAIN mmds \cup {get_filename(p, i, doc[i]) : i \in DOMAIN doc} |->
                     IF \E i \in DOMAIN doc : n = get_filename(p, i, doc[i])
                     THEN doc[CHOOSE i \in DOMAIN doc : n = get_filename(p, i, doc[i])] ELSE mmds[n]]
       /\ extracted' = IF p = "diagram" THEN doc ELSE extracted
  /\ UNCHANGED <<doc, images, outcome, markdown, job, faults>>

\* validate_diagrams: every block in a directory of its own.
Validate ==
  /\ Starts
  /\ \E calls \in [DOMAIN doc -> UNION {mmdc(doc[i], "missing") : i \in DOMAIN doc}] :
       /\ \A i \in DOMAIN doc : calls[i] \in mmdc(doc[i], "missing")
       /\ LET n == Cardinality({i \in DOMAIN doc : calls[i].fault})
          IN faults + n <= MaxFaults /\ faults' = faults + n
       /\ report' = [script |-> "validate", of |-> doc,
                     ok |-> \A i \in DOMAIN doc : Rendered(calls[i])]
  /\ UNCHANGED <<doc, mmds, images, outcome, extracted, markdown, job>>

\* Mutant: the blocks are counted from zero here.
ReplaceFromZero ==
  /\ Starts
  /\ markdown' = [i \in DOMAIN doc |->
       [code |-> doc[i],
        ref |-> get_filename("diagram", Min({j \in DOMAIN doc : doc[j] = doc[i]}) - 1, doc[i])]]
  /\ UNCHANGED <<doc, mmds, images, outcome, extracted, job, report, faults>>

\* replace_with_images: the default prefix, and for equal blocks the name of
\* the first.  What was said of the files before still stands.
Replace ==
  /\ Starts
  /\ markdown' = [i \in DOMAIN doc |->
       [code |-> doc[i],
        ref |-> get_filename("diagram", Min({j \in DOMAIN doc : doc[j] = doc[i]}), doc[i])]]
  /\ UNCHANGED <<doc, mmds, images, outcome, extracted, job, report, faults>>

-----------------------------------------------------------------------------
(* mermaid_to_image.py on the directory *)

StartBatch ==
  /\ Run
  /\ mmds # NoFiles
  /\ job' = [script |-> "batch", todo |-> DOMAIN mmds, ok |-> TRUE]
  /\ UNCHANGED <<doc, mmds, images, outcome, extracted, markdown, faults>>

\* batch_render: a failure is counted and the rest goes on.
BatchStep ==
  /\ job.script = "batch" /\ job.todo # {}
  /\ \E n \in job.todo : \E call \in mmdc(mmds[n], File(images, n)) :
       /\ RenderFile(n, call)
       /\ job' = [job EXCEPT !.todo = @ \ {n}, !.ok = @ /\ Rendered(call)]
  /\ UNCHANGED <<doc, mmds, extracted, markdown, report, runs>>

EndBatch ==
  /\ job.script = "batch" /\ job.todo = {}
  /\ report' = [script |-> "batch", of |-> DOMAIN mmds, ok |-> job.ok]
  /\ job' = NoJob
  /\ UNCHANGED <<doc, mmds, images, outcome, extracted, markdown, runs, faults>>

-----------------------------------------------------------------------------
(* resilient_diagram.py *)

Keywords == {"reserved", "missing", "invalid", "incorrect", "error", "syntax"}

\* The score of an entry: a known message found in full, or a word of it; the
\* kinds it is about; words of its problem and of its title.
Score(entry, words, kind) ==
  10 * Cardinality({k \in entry.known : k \subseteq words})
    + 3 * Cardinality({k \in entry.known : ~(k \subseteq words) /\ k \cap words # {}})
    + (IF entry.all THEN 2 ELSE IF kind \in entry.kinds THEN 5 ELSE 0)
    + 2 * Cardinality(Keywords \cap words \cap entry.problem)
    + 2 * Cardinality(entry.title \cap words)

Scores(guide, words, kind) == [i \in DOMAIN guide |-> Score(guide[i], words, kind)]

\* Mutant: sorted and then reversed, so that of equals the last comes first.
PlaceBeforeEquals(matches, i, score) ==
  InsertAt(matches, Min({m \in 1..Len(matches) : score[matches[m]] <= score[i]} \cup {Len(matches) + 1}), i)

\* Where the stable sort, highest score first, puts one more entry: before
\* the first that scores less.
Place(matches, i, score) ==
  InsertAt(matches, Min({m \in 1..Len(matches) : score[matches[m]] < score[i]} \cup {Len(matches) + 1}), i)

\* generate, up to the save: the .mmd file is written over any of that name.
SaveDiagram ==
  /\ Run
  /\ \E c \in Codes, t \in Titles, g \in Guides :
       LET n == generate_filename(c, t) IN
         /\ mmds' = With(mmds, n, c)
         /\ outcome' = With(outcome, n, "unrendered")
         /\ job' = [script |-> "generate", name |-> n, guide |-> g]
  /\ UNCHANGED <<doc, images, extracted, markdown, faults>>

\* What render_image says of a failure.
error_message(call) ==
  IF ~call.exit0 THEN call.words
  ELSE {"output", "file"} \cup (IF call.image = Void THEN {"is", "empty"} ELSE {"not", "created"})

\* The rendering: a success is reported, a failure is looked up.
RenderDiagram ==
  /\ job.script = "generate"
  /\ LET n == job.name IN
       \E call \in mmdc(mmds[n], File(images, n)) :
         /\ RenderFile(n, call)
         /\ IF Rendered(call)
            THEN /\ report' = [script |-> "generate", of |-> {n}, ok |-> TRUE]
                 /\ job' = NoJob
            ELSE /\ job' = [script |-> "search", name |-> n, guide |-> job.guide, words |-> error_message(call),
                            kind |-> Kind[mmds[n]], matches |-> <<>>, at |-> 1]
                 /\ UNCHANGED report
  /\ UNCHANGED <<doc, mmds, extracted, markdown, runs>>

\* search takes one entry of the guide.
SearchEntry ==
  /\ job.script = "search" /\ job.at \in DOMAIN job.guide
  /\ LET score == Scores(job.guide, job.words, job.kind) IN
       job' = [job EXCEPT !.at = @ + 1,
                          !.matches = IF score[job.at] > 0 THEN Place(@, job.at, score) ELSE @]
  /\ UNCHANGED <<doc, mmds, images, outcome, extracted, markdown, report, runs, faults>>

\* The end of search and of generate: the list is cut, the best match may have
\* a corrected example, and a web query is for no match or an unnumbered one.
Advise ==
  /\ job.script = "search" /\ job.at \notin DOMAIN job.guide
  /\ LET top == SubSeq(job.matches, 1, Min({Len(job.matches), TopMatches}))
         Best(entry) == top # <<>> /\ entry = job.guide[top[1]]
     IN report' = [script |-> "generate", of |-> {job.name}, ok |-> FALSE,
                   guide |-> job.guide, words |-> job.words, kind |-> job.kind, matches |-> top,
                   fix |-> {entry \in Range(job.guide) : Best(entry) /\ entry.correct},
                   query |-> \A entry \in Range(job.guide) : Best(entry) => entry.number = 0]
  /\ job' = NoJob
  /\ UNCHANGED <<doc, mmds, images, outcome, extracted, markdown, runs, faults>>

-----------------------------------------------------------------------------
Init ==
  /\ \E c \in Codes : doc = <<c>>
  /\ mmds = NoFiles /\ images = NoFiles /\ outcome = NoFiles
  /\ extracted = <<>> /\ markdown = <<>>
  /\ job = NoJob /\ report = NoReport
  /\ runs = 0 /\ faults = 0

Next ==
  \/ Edit
  \/ Extract \/ Validate \/ Replace
  \/ StartBatch \/ BatchStep \/ EndBatch
  \/ SaveDiagram \/ RenderDiagram \/ SearchEntry \/ Advise

Spec == Init /\ [][Next]_vars

-----------------------------------------------------------------------------
(***************************************************************************)
(* No reference of a document leads to another diagram than the block it   *)
(* replaced, however often blocks were edited, moved and extracted since,  *)
(* and whatever mmdc did: the image is that diagram, or void, or missing.  *)
(***************************************************************************)
ImagesShowTheirCode ==
  \A i \in DOMAIN markdown : File(images, markdown[i].ref) \in {markdown[i].code, Void, "missing"}

(***************************************************************************)
(* A success that is reported is one: after a batch every .mmd file it was *)
(* given has its image, after a validation mmdc takes every block, after   *)
(* a generation the image shows the code.  The exception is an mmdc that   *)
(* exits 0 and writes nothing over an older image.                         *)
(***************************************************************************)
SuccessIsReal ==
  report # NoReport /\ report.ok =>
    IF report.script = "validate" THEN \A i \in DOMAIN report.of : report.of[i] \notin DOMAIN Refused
    ELSE \A n \in report.of : images[n] = mmds[n] \/ outcome[n] = "lied"

(***************************************************************************)
(* The three scripts agree on names: when every file of the directory was  *)
(* rendered and a document with these blocks is the one last extracted,    *)
(* each of its references leads to the image of its block, also where      *)
(* blocks repeat, and whether references were made before or after.        *)
(***************************************************************************)
ReferencesResolve ==
  /\ report.script = "batch" /\ report.ok
  /\ extracted = [i \in DOMAIN markdown |-> markdown[i].code]
  => \A i \in DOMAIN markdown : File(images, markdown[i].ref) = markdown[i].code

Hits(score) == {i \in DOMAIN score : score[i] > 0}
Beating(score, i) == {j \in Hits(score) : score[j] > score[i] \/ (score[j] = score[i] /\ j < i)}
Unbeaten(guide, score) == {guide[i] : i \in {j \in Hits(score) : Beating(score, j) = {}}}

\* The match in place r is one that r - 1 entries beat, none is missing up to
\* the cut, the fix is the example of the entry that none beats, and a web
\* query is given when there is no such entry, or it has no number.
IsBest(advice) ==
  LET score == Scores(advice.guide, advice.words, advice.kind)
      best == Unbeaten(advice.guide, score)
  IN /\ Len(advice.matches) = Min({Cardinality(Hits(score)), TopMatches})
     /\ \A r \in DOMAIN advice.matches :
          advice.matches[r] \in Hits(score) /\ Cardinality(Beating(score, advice.matches[r])) = r - 1
     /\ advice.fix = {entry \in best : entry.correct}
     /\ advice.query <=> \A entry \in best : entry.number = 0

(***************************************************************************)
(* The advice on a failed diagram, gathered while the guide is read entry  *)
(* by entry, is the one that the guide as a whole calls for.               *)
(***************************************************************************)
AdviceIsBest == report.script = "generate" /\ ~report.ok => IsBest(report)
=============================================================================
