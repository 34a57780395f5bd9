-------------------------- MODULE Diagrams_proofs ---------------------------
(***************************************************************************)
(* The diagram scripts, for any diagrams, prefixes, titles, length of the  *)
(* document, guides and number of runs, edits and misbehaviours of mmdc:    *)
(* images show the code they are referred to for, successes are real, the  *)
(* scripts agree on names, and the advice on a failure is what the guide   *)
(* calls for.                                                              *)
(***************************************************************************)
EXTENDS Diagrams, FiniteSetTheorems, SequenceTheorems, NaturalsInduction, TLAPS

\* A name of get_filename carries its diagram (its third part).  What the two
\* properties do not say and what keeps them: the same of every .mmd file and
\* of every image, referred to or not, of what a script at work may touch, and
\* of the files a batch has behind it.
MmdsAreNamed == \A n \in DOMAIN mmds : Len(n) = 3 => mmds[n] = n[3]
ImagesAreNamed == \A n \in DOMAIN images : Len(n) = 3 => images[n] \in {n[3], Void}
RefsAreNamed ==
  \A i \in DOMAIN markdown :
    Len(markdown[i].ref) = 3 /\ markdown[i].ref[3] = markdown[i].code

BatchJob(todo, ok) == [script |-> "batch", todo |-> todo, ok |-> ok]
GenerateJob(n, g) == [script |-> "generate", name |-> n, guide |-> g]
SearchJob(n, g, words, kind, matches, i) ==
  [script |-> "search", name |-> n, guide |-> g, words |-> words, kind |-> kind,
   matches |-> matches, at |-> i]
JobOK ==
  \/ job = NoJob
  \/ \E todo \in SUBSET DOMAIN mmds, ok \in BOOLEAN : job = BatchJob(todo, ok)
  \/ \E n \in DOMAIN mmds, g \in Guides : job = GenerateJob(n, g)
  \/ \E n \in DOMAIN mmds, g \in Guides :
       \E words, kind, matches, i : job = SearchJob(n, g, words, kind, matches, i)

Shown(n) ==
  \/ n \in DOMAIN images /\ images[n] = mmds[n]
  \/ n \in DOMAIN outcome /\ outcome[n] = "lied"
BatchOK ==
  job.script = "batch" /\ job.ok => \A n \in DOMAIN mmds \ job.todo : Shown(n)

NamesInv == MmdsAreNamed /\ ImagesAreNamed /\ RefsAreNamed /\ JobOK
SuccessInv == JobOK /\ BatchOK /\ (job # NoJob => report = NoReport) /\ SuccessIsReal

USE DEF NoJob, BatchJob, GenerateJob, SearchJob

(***************************************************************************)
(* What a call of mmdc leaves at the path: the diagram, what was there, or *)
(* an empty file; and if it counts as rendered, the diagram or an old      *)
(* image that a lying call left there.                                     *)
(***************************************************************************)
LEMMA CallImage ==
  ASSUME NEW code, NEW old, NEW call \in mmdc(code, old)
  PROVE  /\ call.image \in {code, old, Void}
         /\ Rendered(call) => call.image = code \/ call.fault
         /\ Rendered(call) /\ old = "missing" => code \notin DOMAIN Refused
BY DEF mmdc, Rendered

\* Every step but the ones of a job leaves the job alone or starts one.
LEMMA JobStep == JobOK /\ [Next]_vars => JobOK'
<1> SUFFICES ASSUME JobOK, [Next]_vars PROVE JobOK'
  OBVIOUS
<1>1. CASE Edit \/ Replace \/ Validate \/ UNCHANGED vars
  BY <1>1 DEF Edit, Replace, Validate, vars, JobOK
<1>2. CASE Extract
  BY <1>2 DEF Extract, Run, Starts, JobOK
<1>3. CASE StartBatch
  BY <1>3 DEF StartBatch, JobOK
<1>4. CASE BatchStep
  <2>1. PICK todo \in SUBSET DOMAIN mmds, ok \in BOOLEAN : job = BatchJob(todo, ok)
    BY <1>4 DEF BatchStep, JobOK
  <2>2. PICK n, call : n \in todo /\ job' = BatchJob(todo \ {n}, ok /\ Rendered(call))
    BY <1>4, <2>1 DEF BatchStep
  <2>3. UNCHANGED mmds
    BY <1>4 DEF BatchStep
  <2> QED
    BY <2>2, <2>3 DEF JobOK, Rendered
<1>5. CASE EndBatch \/ Advise
  BY <1>5 DEF EndBatch, Advise, JobOK
<1>6. CASE SaveDiagram
  <2>1. PICK c, n : mmds' = With(mmds, n, c) /\ \E g \in Guides : job' = GenerateJob(n, g)
    BY <1>6 DEF SaveDiagram
  <2> QED
    BY <2>1 DEF With, JobOK
<1>7. CASE RenderDiagram
  <2>1. PICK n \in DOMAIN mmds, g \in Guides : job = GenerateJob(n, g)
    BY <1>7 DEF RenderDiagram, JobOK
  <2>2. \/ job' = NoJob
        \/ \E words, kind, matches, i : job' = SearchJob(n, g, words, kind, matches, i)
    BY <1>7, <2>1 DEF RenderDiagram
  <2>3. UNCHANGED mmds
    BY <1>7 DEF RenderDiagram
  <2> QED
    BY <2>2, <2>3 DEF JobOK
<1>8. CASE SearchEntry
  <2>1. PICK n \in DOMAIN mmds, g \in Guides :
          \E words, kind, matches, i : job = SearchJob(n, g, words, kind, matches, i)
    BY <1>8 DEF SearchEntry, JobOK
  <2>2. PICK words, kind, matches, i : job = SearchJob(n, g, words, kind, matches, i)
    BY <2>1
  <2>3. \E more : job' = SearchJob(n, g, words, kind, more, i + 1)
    BY <1>8, <2>2 DEF SearchEntry
  <2>4. UNCHANGED mmds
    BY <1>8 DEF SearchEntry
  <2> QED
    BY <2>3, <2>4 DEF JobOK
<1> QED
  BY <1>1, <1>2, <1>3, <1>4, <1>5, <1>6, <1>7, <1>8 DEF Next

\* Natural numbers have a least one.
LEMMA LeastIsThere ==
  ASSUME NEW S \in SUBSET Nat, S # {}
  PROVE  Min(S) \in S /\ \A x \in S : Min(S) <= x
<1> DEFINE R == OpToRel(<, Nat)
<1>1. IsWellFoundedOn(R, Nat)
  BY NatLessThanWellFounded
<1>2. \E least \in S : \A x \in S : ~(<<x, least>> \in R)
  <2> HIDE DEF R
  <2> QED
    BY <1>1, WFMin
<1>3. \A x, y \in Nat : ~(<<y, x>> \in R) => x <= y
  BY DEF OpToRel
<1> HIDE DEF R
<1>4. \E least \in S : \A x \in S : least <= x
  BY <1>2, <1>3
<1> QED
  BY <1>4 DEF Min

-----------------------------------------------------------------------------
(* The images *)

\* Rendering a file that exists keeps every image at a name that carries its
\* diagram.
LEMMA RenderKeepsNames ==
  ASSUME NamesInv, NEW n \in DOMAIN mmds,
         NEW call \in mmdc(mmds[n], File(images, n)), RenderFile(n, call)
  PROVE  ImagesAreNamed'
<1>1. CASE call.image = "missing"
  BY <1>1 DEF RenderFile, NamesInv, ImagesAreNamed
<1>2. CASE call.image # "missing"
  <2>1. images' = With(images, n, call.image)
    BY <1>2 DEF RenderFile
  <2>2. Len(n) = 3 => call.image \in {n[3], Void}
    BY <1>2, CallImage DEF NamesInv, MmdsAreNamed, ImagesAreNamed, File
  <2> QED
    BY <2>1, <2>2 DEF With, NamesInv, ImagesAreNamed
<1> QED
  BY <1>1, <1>2

LEMMA NamesStep == NamesInv /\ [Next]_vars => NamesInv'
<1> SUFFICES ASSUME NamesInv, [Next]_vars PROVE NamesInv'
  OBVIOUS
<1>1. JobOK'
  BY JobStep DEF NamesInv
<1>2. CASE Edit \/ Validate \/ StartBatch \/ EndBatch \/ SearchEntry \/ Advise \/ UNCHANGED vars
  BY <1>1, <1>2 DEF Edit, Validate, StartBatch, EndBatch, SearchEntry, Advise, vars,
                    NamesInv, MmdsAreNamed, ImagesAreNamed, RefsAreNamed
<1>3. CASE Extract
  <2>1. MmdsAreNamed'
    <3>1. PICK p \in Names :
            mmds' = [n \in DOMAIN mmds \cup {get_filename(p, i, doc[i]) : i \in DOMAIN doc} |->
                       IF \E i \in DOMAIN doc : n = get_filename(p, i, doc[i])
                       THEN doc[CHOOSE i \in DOMAIN doc : n = get_filename(p, i, doc[i])] ELSE mmds[n]]
      BY <1>3 DEF Extract
    <3> SUFFICES ASSUME NEW n \in DOMAIN mmds', Len(n) = 3
                 PROVE  mmds'[n] = n[3]
      BY DEF MmdsAreNamed
    <3>2. CASE \E i \in DOMAIN doc : n = get_filename(p, i, doc[i])
      <4>1. PICK i \in DOMAIN doc : i = CHOOSE j \in DOMAIN doc : n = get_filename(p, j, doc[j])
        BY <3>2
      <4>2. n = get_filename(p, i, doc[i]) /\ mmds'[n] = doc[i]
        BY <3>1, <3>2, <4>1
      <4> QED
        BY <4>2 DEF get_filename
    <3>3. CASE ~\E i \in DOMAIN doc : n = get_filename(p, i, doc[i])
      BY <3>1, <3>3 DEF NamesInv, MmdsAreNamed
    <3> QED
      BY <3>2, <3>3
  <2> QED
    BY <1>1, <1>3, <2>1 DEF Extract, NamesInv, ImagesAreNamed, RefsAreNamed
<1>4. CASE Replace
  <2>1. RefsAreNamed'
    BY <1>4 DEF Replace, RefsAreNamed, get_filename
  <2> QED
    BY <1>1, <1>4, <2>1 DEF Replace, NamesInv, MmdsAreNamed, ImagesAreNamed
<1>5. CASE BatchStep
  <2>1. PICK n \in DOMAIN mmds : \E call \in mmdc(mmds[n], File(images, n)) : RenderFile(n, call)
    BY <1>5 DEF BatchStep, NamesInv, JobOK
  <2>2. ImagesAreNamed'
    BY <2>1, RenderKeepsNames
  <2> QED
    BY <1>1, <1>5, <2>2 DEF BatchStep, NamesInv, MmdsAreNamed, RefsAreNamed
<1>6. CASE SaveDiagram
  <2>1. PICK c \in Codes, t \in Titles, g \in Guides : mmds' = With(mmds, generate_filename(c, t), c)
    BY <1>6 DEF SaveDiagram
  <2>2. Len(generate_filename(c, t)) # 3
    BY DEF generate_filename
  <2>3. MmdsAreNamed'
    BY <2>1, <2>2 DEF With, NamesInv, MmdsAreNamed
  <2> QED
    BY <1>1, <1>6, <2>3 DEF SaveDiagram, NamesInv, ImagesAreNamed, RefsAreNamed
<1>7. CASE RenderDiagram
  <2>1. job.name \in DOMAIN mmds
    BY <1>7 DEF RenderDiagram, NamesInv, JobOK
  <2>2. PICK call \in mmdc(mmds[job.name], File(images, job.name)) : RenderFile(job.name, call)
    BY <1>7 DEF RenderDiagram
  <2>3. ImagesAreNamed'
    BY <2>1, <2>2, RenderKeepsNames
  <2> QED
    BY <1>1, <1>7, <2>3 DEF RenderDiagram, NamesInv, MmdsAreNamed, RefsAreNamed
<1> QED
  BY <1>2, <1>3, <1>4, <1>5, <1>6, <1>7 DEF Next

(***************************************************************************)
(* A reference never leads to another diagram than the block it replaced.  *)
(***************************************************************************)
THEOREM ImagesAlwaysShowTheirCode == Spec => []ImagesShowTheirCode
<1>1. Init => NamesInv
  BY DEF Init, NoFiles, NamesInv, MmdsAreNamed, ImagesAreNamed, RefsAreNamed, JobOK
<1>2. NamesInv => ImagesShowTheirCode
  BY DEF NamesInv, ImagesAreNamed, RefsAreNamed, ImagesShowTheirCode, File
<1> QED
  BY <1>1, <1>2, NamesStep, PTL DEF Spec

-----------------------------------------------------------------------------
(* The successes *)

LEMMA SuccessStep == SuccessInv /\ [Next]_vars => SuccessInv'
<1> SUFFICES ASSUME SuccessInv, [Next]_vars PROVE SuccessInv'
  OBVIOUS
<1>1. JobOK'
  BY JobStep DEF SuccessInv
<1>2. CASE Edit \/ UNCHANGED vars
  BY <1>1, <1>2 DEF Edit, vars, SuccessInv, BatchOK, SuccessIsReal, Shown
<1>3. CASE Extract \/ Replace
  <2>1. CASE Extract
    BY <1>1, <2>1 DEF Extract, Run, Starts, SuccessInv, BatchOK, SuccessIsReal
  <2>2. CASE Replace
    BY <1>1, <2>2 DEF Replace, Starts, SuccessInv, BatchOK, SuccessIsReal, Shown
  <2> QED
    BY <1>3, <2>1, <2>2
<1>4. CASE SaveDiagram
  <2>1. PICK n, g : job' = GenerateJob(n, g)
    BY <1>4 DEF SaveDiagram
  <2> QED
    BY <1>1, <1>4, <2>1 DEF SaveDiagram, Run, SuccessInv, BatchOK, SuccessIsReal
<1>5. CASE Validate
  <2>1. SuccessIsReal'
    <3>1. PICK calls :
            /\ \A i \in DOMAIN doc : calls[i] \in mmdc(doc[i], "missing")
            /\ report' = [script |-> "validate", of |-> doc,
                          ok |-> \A i \in DOMAIN doc : Rendered(calls[i])]
      BY <1>5 DEF Validate
    <3> QED
      BY <3>1, CallImage DEF SuccessIsReal
  <2> QED
    BY <1>1, <1>5, <2>1 DEF Validate, Starts, SuccessInv, BatchOK
<1>6. CASE StartBatch
  <2>1. job' = BatchJob(DOMAIN mmds, TRUE) /\ report' = NoReport /\ UNCHANGED mmds
    BY <1>6 DEF StartBatch, Run
  <2> QED
    BY <1>1, <2>1 DEF SuccessInv, BatchOK, SuccessIsReal
<1>7. CASE BatchStep
  <2>1. PICK todo \in SUBSET DOMAIN mmds, ok \in BOOLEAN : job = BatchJob(todo, ok)
    BY <1>7 DEF BatchStep, SuccessInv, JobOK
  <2>2. PICK n \in todo : \E call \in mmdc(mmds[n], File(images, n)) :
          RenderFile(n, call) /\ job' = BatchJob(todo \ {n}, ok /\ Rendered(call))
    BY <1>7, <2>1 DEF BatchStep
  <2>3. PICK call \in mmdc(mmds[n], File(images, n)) :
          RenderFile(n, call) /\ job' = BatchJob(todo \ {n}, ok /\ Rendered(call))
    BY <2>2
  <2>4. UNCHANGED <<mmds, report>>
    BY <1>7 DEF BatchStep
  <2>5. BatchOK'
    <3> SUFFICES ASSUME ok, Rendered(call), NEW m \in DOMAIN mmds \ (todo \ {n})
                 PROVE  Shown(m)'
      BY <2>3, <2>4 DEF BatchOK
    <3>1. images' = With(images, n, call.image)
      BY <2>3 DEF RenderFile, Rendered
    <3>2. outcome' = With(outcome, n, IF call.fault THEN "lied" ELSE "rendered")
      BY <2>3 DEF RenderFile
    <3>3. CASE m = n
      BY <2>4, <3>1, <3>2, <3>3, CallImage DEF Shown, With
    <3>4. CASE m # n
      <4>1. Shown(m)
        BY <2>1, <3>4 DEF SuccessInv, BatchOK
      <4> QED
        BY <2>4, <3>1, <3>2, <3>4, <4>1 DEF Shown, With
    <3> QED
      BY <3>3, <3>4
  <2>6. report = NoReport
    BY <2>1 DEF SuccessInv
  <2> QED
    BY <1>1, <2>4, <2>5, <2>6 DEF SuccessInv, SuccessIsReal
<1>8. CASE EndBatch
  <2>1. PICK todo \in SUBSET DOMAIN mmds, ok \in BOOLEAN : job = BatchJob(todo, ok)
    BY <1>8 DEF EndBatch, SuccessInv, JobOK
  <2>2. ok => \A n \in DOMAIN mmds : Shown(n)
    BY <1>8, <2>1 DEF EndBatch, SuccessInv, BatchOK
  <2>3. SuccessIsReal'
    BY <1>8, <2>1, <2>2 DEF EndBatch, SuccessIsReal, Shown
  <2> QED
    BY <1>1, <1>8, <2>3 DEF EndBatch, SuccessInv, BatchOK
<1>9. CASE RenderDiagram
  <2>1. PICK n \in DOMAIN mmds, g \in Guides : job = GenerateJob(n, g)
    BY <1>9 DEF RenderDiagram, SuccessInv, JobOK
  <2>2. PICK call \in mmdc(mmds[n], File(images, n)) :
          /\ RenderFile(n, call)
          /\ IF Rendered(call)
             THEN report' = [script |-> "generate", of |-> {n}, ok |-> TRUE] /\ job' = NoJob
             ELSE /\ \E words, kind, matches, i : job' = SearchJob(n, g, words, kind, matches, i)
                  /\ UNCHANGED report
    BY <1>9, <2>1 DEF RenderDiagram
  <2>3. UNCHANGED mmds
    BY <1>9 DEF RenderDiagram
  <2>4. Rendered(call) => Shown(n)'
    BY <2>2, <2>3, CallImage DEF RenderFile, Rendered, With, Shown
  <2>5. CASE Rendered(call)
    BY <1>1, <2>2, <2>4, <2>5 DEF SuccessInv, BatchOK, SuccessIsReal, Shown
  <2>6. CASE ~Rendered(call)
    <3>1. report = NoReport
      BY <2>1 DEF SuccessInv
    <3> QED
      BY <1>1, <2>2, <2>6, <3>1 DEF SuccessInv, BatchOK, SuccessIsReal
  <2> QED
    BY <2>5, <2>6
<1>10. CASE SearchEntry
  <2>1. PICK n, g, words, kind, matches, i : job' = SearchJob(n, g, words, kind, matches, i)
    BY <1>1, <1>10 DEF SearchEntry, SuccessInv, JobOK
  <2>2. UNCHANGED report /\ job # NoJob
    BY <1>10 DEF SearchEntry
  <2> QED
    BY <1>1, <2>1, <2>2 DEF SuccessInv, BatchOK, SuccessIsReal
<1>11. CASE Advise
  <2>1. job' = NoJob /\ report'.script = "generate" /\ ~report'.ok
    BY <1>11 DEF Advise
  <2> QED
    BY <1>1, <2>1 DEF SuccessInv, BatchOK, SuccessIsReal
<1> QED
  BY <1>2, <1>3, <1>4, <1>5, <1>6, <1>7, <1>8, <1>9, <1>10, <1>11 DEF Next

(***************************************************************************)
(* A success that a script reports is one, unless mmdc lied over an older  *)
(* image.                                                                  *)
(***************************************************************************)
THEOREM SuccessIsAlwaysReal == Spec => []SuccessIsReal
<1>1. Init => SuccessInv
  BY DEF Init, NoReport, SuccessInv, JobOK, BatchOK, SuccessIsReal
<1>2. SuccessInv => SuccessIsReal
  BY DEF SuccessInv
<1> QED
  BY <1>1, <1>2, SuccessStep, PTL DEF Spec

-----------------------------------------------------------------------------
(* The references *)

\* A reference carries the number of a block like its own.
RefsAreNumbered ==
  \A i \in DOMAIN markdown :
    \E j \in DOMAIN markdown : markdown[i].ref = get_filename("diagram", j, markdown[j].code)

\* What was extracted has its files, and what a batch without a failure has
\* behind it shows its code.
ExtractedIsThere ==
  \A i \in DOMAIN extracted : get_filename("diagram", i, extracted[i]) \in DOMAIN mmds
BatchShows ==
  job.script = "batch" /\ job.ok =>
    \A n \in DOMAIN mmds \ job.todo : Len(n) = 3 => File(images, n) = n[3]
AllShown ==
  report.script = "batch" /\ report.ok => \A n \in DOMAIN mmds : Len(n) = 3 => File(images, n) = n[3]

RefsInv ==
  /\ NamesInv /\ doc \in Seq(Codes) /\ (job # NoJob => report = NoReport)
  /\ RefsAreNumbered /\ ExtractedIsThere /\ BatchShows /\ AllShown

LEMMA RefsStep == RefsInv /\ [Next]_vars => RefsInv'
<1> SUFFICES ASSUME RefsInv, [Next]_vars PROVE RefsInv'
  OBVIOUS
<1>1. NamesInv'
  BY NamesStep DEF RefsInv
<1>d. doc' \in Seq(Codes)
  <2>1. CASE Edit
    <3>1. Len(doc) > 1 => Tail(doc) \in Seq(Codes)
      BY DEF RefsInv
    <3>2. Reverse(doc) \in Seq(Codes)
      <4>1. Reverse(doc) \in [1..Len(doc) -> Codes] /\ Len(doc) \in Nat
        BY DEF RefsInv, Reverse
      <4> HIDE DEF Reverse
      <4> QED
        BY <4>1, SeqDef
    <3>3. \A c \in Codes : Append(doc, c) \in Seq(Codes) /\ \A i \in DOMAIN doc : [doc EXCEPT ![i] = c] \in Seq(Codes)
      BY DEF RefsInv
    <3>4. \/ \E i \in DOMAIN doc : \E c \in Codes : doc' = [doc EXCEPT ![i] = c]
          \/ \E c \in Codes : doc' = Append(doc, c)
          \/ Len(doc) > 1 /\ doc' = Tail(doc)
          \/ doc' = Reverse(doc)
      BY <2>1 DEF Edit
    <3> HIDE DEF Reverse
    <3> QED
      BY <3>1, <3>2, <3>3, <3>4
  <2>2. CASE ~Edit
    <3>1. UNCHANGED doc
      BY <2>2 DEF Next, vars, Extract, Validate, Replace, StartBatch, BatchStep, EndBatch,
                  SaveDiagram, RenderDiagram, SearchEntry, Advise
    <3> QED
      BY <3>1 DEF RefsInv
  <2> QED
    BY <2>1, <2>2
<1>2. CASE Edit \/ UNCHANGED vars
  BY <1>1, <1>d, <1>2 DEF Edit, vars, RefsInv, RefsAreNumbered, ExtractedIsThere, BatchShows, AllShown
<1>3. CASE Extract
  <2>1. PICK p \in Names :
          /\ DOMAIN mmds' = DOMAIN mmds \cup {get_filename(p, i, doc[i]) : i \in DOMAIN doc}
          /\ extracted' = IF p = "diagram" THEN doc ELSE extracted
    BY <1>3 DEF Extract
  <2>2. ExtractedIsThere'
    BY <2>1 DEF RefsInv, ExtractedIsThere
  <2> QED
    BY <1>1, <1>d, <1>3, <2>2 DEF Extract, Run, Starts, NoReport, RefsInv, RefsAreNumbered, BatchShows, AllShown
<1>4. CASE Replace
  <2>1. RefsAreNumbered'
    <3> SUFFICES ASSUME NEW i \in DOMAIN markdown'
                 PROVE  \E j \in DOMAIN markdown' :
                          markdown'[i].ref = get_filename("diagram", j, markdown'[j].code)
      BY DEF RefsAreNumbered
    <3> DEFINE same == {j \in DOMAIN doc : doc[j] = doc[i]}
    <3>1. /\ DOMAIN markdown' = DOMAIN doc /\ \A j \in DOMAIN doc : markdown'[j].code = doc[j]
          /\ markdown'[i].ref = get_filename("diagram", Min(same), doc[i])
      BY <1>4 DEF Replace
    <3>2. Min(same) \in same
      <4>1. i \in same /\ same \subseteq Nat
        BY <3>1 DEF RefsInv
      <4> HIDE DEF same
      <4> QED
        BY <4>1, LeastIsThere
    <3> QED
      BY <3>1, <3>2
  <2> QED
    BY <1>1, <1>d, <1>4, <2>1 DEF Replace, Starts, RefsInv, ExtractedIsThere, BatchShows, AllShown
<1>5. CASE Validate
  <2>1. report'.script = "validate"
    BY <1>5 DEF Validate
  <2> QED
    BY <1>1, <1>d, <1>5, <2>1 DEF Validate, Starts, RefsInv, RefsAreNumbered, ExtractedIsThere, BatchShows, AllShown
<1>6. CASE StartBatch
  <2>1. job' = BatchJob(DOMAIN mmds, TRUE) /\ report' = NoReport
    BY <1>6 DEF StartBatch, Run
  <2> QED
    BY <1>1, <1>d, <1>6, <2>1 DEF StartBatch, NoReport, RefsInv, RefsAreNumbered, ExtractedIsThere, BatchShows, AllShown
<1>7. CASE BatchStep
  <2>1. PICK todo \in SUBSET DOMAIN mmds, ok \in BOOLEAN : job = BatchJob(todo, ok)
    BY <1>7 DEF BatchStep, RefsInv, NamesInv, JobOK
  <2>2. PICK n \in todo : \E call \in mmdc(mmds[n], File(images, n)) :
          RenderFile(n, call) /\ job' = BatchJob(todo \ {n}, ok /\ Rendered(call))
    BY <1>7, <2>1 DEF BatchStep
  <2>3. PICK call \in mmdc(mmds[n], File(images, n)) :
          RenderFile(n, call) /\ job' = BatchJob(todo \ {n}, ok /\ Rendered(call))
    BY <2>2
  <2>4. BatchShows'
    <3> SUFFICES ASSUME ok, Rendered(call), NEW m \in DOMAIN mmds \ (todo \ {n}), Len(m) = 3
                 PROVE  File(images', m) = m[3]
      BY <1>7, <2>3 DEF BatchStep, BatchShows
    <3>1. images' = With(images, n, call.image)
      BY <2>3 DEF RenderFile, Rendered
    <3>2. CASE m = n
      <4>1. call.image \in {m[3], Void}
        BY <2>1, <2>3, <3>2, CallImage DEF RefsInv, NamesInv, MmdsAreNamed, ImagesAreNamed, File, Rendered
      <4> QED
        BY <3>1, <3>2, <4>1 DEF With, File, Rendered
    <3>3. CASE m # n
      <4>1. File(images, m) = m[3]
        BY <2>1, <3>3 DEF RefsInv, BatchShows
      <4> QED
        BY <3>1, <3>3, <4>1 DEF With, File
    <3> QED
      BY <3>2, <3>3
  <2>5. report' = NoReport
    BY <1>7, <2>1 DEF BatchStep, RefsInv
  <2> QED
    BY <1>1, <1>d, <1>7, <2>4, <2>5 DEF BatchStep, NoReport, RefsInv, RefsAreNumbered, ExtractedIsThere, AllShown
<1>8. CASE EndBatch
  <2>1. AllShown'
    BY <1>8 DEF EndBatch, RefsInv, BatchShows, AllShown
  <2> QED
    BY <1>1, <1>d, <1>8, <2>1 DEF EndBatch, RefsInv, RefsAreNumbered, ExtractedIsThere, BatchShows
<1>9. CASE SaveDiagram
  <2>1. DOMAIN mmds \subseteq DOMAIN mmds'
    BY <1>9 DEF SaveDiagram, With
  <2>2. report' = NoReport /\ job'.script # "batch"
    BY <1>9 DEF SaveDiagram, Run
  <2> QED
    BY <1>1, <1>d, <1>9, <2>1, <2>2
       DEF SaveDiagram, NoReport, RefsInv, RefsAreNumbered, ExtractedIsThere, BatchShows, AllShown
<1>10. CASE RenderDiagram \/ SearchEntry \/ Advise
  <2>1. /\ UNCHANGED <<mmds, extracted, markdown>>
        /\ job' # NoJob => report' = report /\ report = NoReport
        /\ job'.script # "batch"
        /\ (report' = report /\ report = NoReport) \/ report'.script = "generate"
    <3>1. report = NoReport
      BY <1>10 DEF RenderDiagram, SearchEntry, Advise, RefsInv
    <3>2. CASE RenderDiagram
      <4>1. CASE job' = NoJob
        BY <3>1, <3>2, <4>1 DEF RenderDiagram
      <4>2. CASE job' # NoJob
        BY <3>1, <3>2, <4>2 DEF RenderDiagram
      <4> QED
        BY <4>1, <4>2
    <3>3. CASE SearchEntry
      <4>1. PICK n, g, words, kind, matches, i : job = SearchJob(n, g, words, kind, matches, i)
        BY <3>3 DEF SearchEntry, RefsInv, NamesInv, JobOK
      <4>2. job'.script = "search"
        BY <3>3, <4>1 DEF SearchEntry
      <4> QED
        BY <3>1, <3>3, <4>2 DEF SearchEntry
    <3>4. CASE Advise
      BY <3>1, <3>4 DEF Advise
    <3> QED
      BY <1>10, <3>2, <3>3, <3>4
  <2> QED
    BY <1>1, <1>d, <2>1 DEF NoReport, RefsInv, RefsAreNumbered, ExtractedIsThere, BatchShows, AllShown
<1> QED
  BY <1>2, <1>3, <1>4, <1>5, <1>6, <1>7, <1>8, <1>9, <1>10 DEF Next

(***************************************************************************)
(* Extraction, batch and replacement name the same file for a block, so    *)
(* that after a batch without a failure every reference of the document    *)
(* last extracted leads to the image of its block.                         *)
(***************************************************************************)
THEOREM ReferencesAlwaysResolve == Spec => []ReferencesResolve
<1>1. Init => RefsInv
  BY DEF Init, NoFiles, NoReport, RefsInv, NamesInv, MmdsAreNamed, ImagesAreNamed, RefsAreNamed, JobOK,
         RefsAreNumbered, ExtractedIsThere, BatchShows, AllShown
<1>2. RefsInv => ReferencesResolve
  <2> SUFFICES ASSUME RefsInv, report.script = "batch", report.ok,
                      extracted = [i \in DOMAIN markdown |-> markdown[i].code],
                      NEW i \in DOMAIN markdown
               PROVE  File(images, markdown[i].ref) = markdown[i].code
    BY DEF ReferencesResolve
  <2>1. PICK j \in DOMAIN markdown : markdown[i].ref = get_filename("diagram", j, markdown[j].code)
    BY DEF RefsInv, RefsAreNumbered
  <2>2. markdown[i].ref \in DOMAIN mmds
    BY <2>1 DEF RefsInv, ExtractedIsThere
  <2>3. Len(markdown[i].ref) = 3 /\ markdown[i].ref[3] = markdown[i].code
    BY DEF RefsInv, NamesInv, RefsAreNamed
  <2> QED
    BY <2>2, <2>3 DEF RefsInv, AllShown
<1> QED
  BY <1>1, <1>2, RefsStep, PTL DEF Spec

-----------------------------------------------------------------------------
(* The advice *)

\* The entries among the first n that score, and which of two comes first.
HitsTo(score, n) == {i \in 1..n : score[i] > 0}
Beats(score, i, j) == score[i] > score[j] \/ (score[i] = score[j] /\ i < j)

\* What search has made of the first n entries.
Listed(s, score, n) ==
  /\ s \in Seq(HitsTo(score, n))
  /\ \A i \in HitsTo(score, n) : \E k \in 1..Len(s) : s[k] = i
  /\ \A a, b \in 1..Len(s) : a < b => Beats(score, s[a], s[b])

LEMMA Insertion ==
  ASSUME NEW S, NEW s \in Seq(S), NEW e \in S, NEW r \in 1..(Len(s) + 1)
  PROVE  /\ InsertAt(s, r, e) \in Seq(S) /\ Len(InsertAt(s, r, e)) = Len(s) + 1
         /\ \A k \in 1..(Len(s) + 1) :
              InsertAt(s, r, e)[k] = IF k < r THEN s[k] ELSE IF k = r THEN e ELSE s[k - 1]
<1> DEFINE before == SubSeq(s, 1, r - 1)
           after == SubSeq(s, r, Len(s))
<1>1. /\ before \in Seq(S) /\ Len(before) = r - 1
      /\ \A k \in 1..(r - 1) : before[k] = s[k]
  OBVIOUS
<1>2. /\ after \in Seq(S) /\ Len(after) = Len(s) - r + 1
      /\ \A k \in 1..(Len(s) - r + 1) : after[k] = s[r + k - 1]
  OBVIOUS
<1> HIDE DEF before, after
<1>3. /\ before \o <<e>> \in Seq(S) /\ Len(before \o <<e>>) = r
      /\ \A k \in 1..r : (before \o <<e>>)[k] = IF k < r THEN s[k] ELSE e
  BY <1>1
<1> DEFINE first == before \o <<e>>
<1>4. InsertAt(s, r, e) = first \o after
  BY DEF InsertAt, before, after
<1> HIDE DEF first
<1>5. /\ first \o after \in Seq(S) /\ Len(first \o after) = Len(s) + 1
      /\ \A k \in 1..r : (first \o after)[k] = first[k]
      /\ \A k \in (r + 1)..(Len(s) + 1) : (first \o after)[k] = after[k - r]
  BY <1>2, <1>3 DEF first
<1>6. \A k \in (r + 1)..(Len(s) + 1) : (first \o after)[k] = s[k - 1]
  <2> SUFFICES ASSUME NEW k \in (r + 1)..(Len(s) + 1) PROVE after[k - r] = s[k - 1]
    BY <1>5
  <2>1. k - r \in 1..(Len(s) - r + 1) /\ r + (k - r) - 1 = k - 1
    OBVIOUS
  <2> QED
    BY <1>2, <2>1
<1>7. \A k \in 1..r : (first \o after)[k] = IF k < r THEN s[k] ELSE e
  BY <1>3, <1>5 DEF first
<1> QED
  BY <1>4, <1>5, <1>6, <1>7

LEMMA PlaceKeeps ==
  ASSUME NEW N \in Nat, NEW score \in [1..N -> Nat], NEW i \in 1..N, score[i] > 0,
         NEW s, Listed(s, score, i - 1)
  PROVE  Listed(Place(s, i, score), score, i)
<1> DEFINE L == Len(s)
           S == {m \in 1..L : score[s[m]] < score[i]} \cup {L + 1}
           r == Min(S)
           t == Place(s, i, score)
<1>1. /\ s \in Seq(HitsTo(score, i - 1)) /\ L \in Nat
      /\ HitsTo(score, i) = HitsTo(score, i - 1) \cup {i}
      /\ \A m \in 1..L : s[m] \in 1..N /\ s[m] < i /\ score[s[m]] \in Nat
  BY DEF Listed, HitsTo
<1>2. r \in S /\ \A x \in S : r <= x
  <2>1. S \in SUBSET Nat /\ S # {}
    BY <1>1
  <2> HIDE DEF S
  <2> QED
    BY <2>1, LeastIsThere
<1> HIDE DEF r
<1>3. r \in 1..(L + 1)
  BY <1>1, <1>2
<1>4. \A m \in 1..L : m < r => score[s[m]] >= score[i]
  BY <1>1, <1>2, <1>3
<1>5. \A m \in 1..L : m >= r => score[s[m]] < score[i]
  <2> SUFFICES ASSUME NEW m \in 1..L, m >= r PROVE score[s[m]] < score[i]
    OBVIOUS
  <2>1. r \in 1..L /\ score[s[r]] < score[i]
    BY <1>1, <1>2, <1>3
  <2>2. m > r => score[s[m]] <= score[s[r]]
    <3>1. m > r => Beats(score, s[r], s[m])
      BY <2>1 DEF Listed
    <3> QED
      BY <1>1, <2>1, <3>1 DEF Beats
  <2> QED
    BY <1>1, <2>1, <2>2
<1>6. /\ t \in Seq(HitsTo(score, i)) /\ Len(t) = L + 1
      /\ \A k \in 1..(L + 1) : t[k] = IF k < r THEN s[k] ELSE IF k = r THEN i ELSE s[k - 1]
  <2>1. t = InsertAt(s, r, i) /\ s \in Seq(HitsTo(score, i)) /\ i \in HitsTo(score, i)
    BY <1>1 DEF Place, r
  <2>2. /\ InsertAt(s, r, i) \in Seq(HitsTo(score, i)) /\ Len(InsertAt(s, r, i)) = L + 1
        /\ \A k \in 1..(L + 1) :
             InsertAt(s, r, i)[k] = IF k < r THEN s[k] ELSE IF k = r THEN i ELSE s[k - 1]
    BY <1>3, <2>1, Insertion
  <2> HIDE DEF t
  <2> QED
    BY <2>1, <2>2
<1> HIDE DEF t, S
<1>7. ASSUME NEW h \in HitsTo(score, i) PROVE \E k \in 1..Len(t) : t[k] = h
  <2>1. CASE h = i
    BY <1>1, <1>3, <1>6, <2>1
  <2>2. CASE h # i
    <3>1. PICK k \in 1..L : s[k] = h
      BY <1>1, <1>7, <2>2 DEF Listed
    <3>2. CASE k < r
      BY <1>1, <1>6, <3>1, <3>2
    <3>3. CASE k >= r
      <4>1. k + 1 \in 1..(L + 1) /\ k + 1 > r /\ (k + 1) - 1 = k
        BY <1>1, <1>3, <3>3
      <4>2. t[k + 1] = h
        BY <1>3, <1>6, <3>1, <4>1
      <4> QED
        BY <1>6, <4>1, <4>2
    <3> QED
      BY <1>3, <3>2, <3>3
  <2> QED
    BY <2>1, <2>2
<1>8. ASSUME NEW a \in 1..Len(t), NEW b \in 1..Len(t), a < b PROVE Beats(score, t[a], t[b])
  <2>0. \A m, n \in 1..L : m < n => Beats(score, s[m], s[n])
    BY DEF Listed
  <2>1. CASE a # r /\ b # r
    <3>1. PICK m \in 1..L : t[a] = s[m] /\ m = IF a < r THEN a ELSE a - 1
      BY <1>1, <1>3, <1>6, <1>8, <2>1
    <3>2. PICK n \in 1..L : t[b] = s[n] /\ n = IF b < r THEN b ELSE b - 1
      BY <1>1, <1>3, <1>6, <1>8, <2>1
    <3>3. m < n
      BY <1>3, <1>8, <2>1, <3>1, <3>2
    <3> QED
      BY <2>0, <3>1, <3>2, <3>3
  <2>2. CASE b = r
    <3>1. a \in 1..L /\ t[a] = s[a] /\ t[b] = i
      BY <1>1, <1>3, <1>6, <1>8, <2>2
    <3>2. score[s[a]] >= score[i] /\ s[a] < i
      BY <1>1, <1>4, <1>8, <2>2, <3>1
    <3> QED
      BY <1>1, <3>1, <3>2 DEF Beats
  <2>3. CASE a = r
    <3>1. b - 1 \in 1..L /\ b - 1 >= r /\ t[b] = s[b - 1] /\ t[a] = i
      BY <1>1, <1>3, <1>6, <1>8, <2>3
    <3> QED
      BY <1>1, <1>5, <3>1 DEF Beats
  <2> QED
    BY <2>1, <2>2, <2>3
<1> QED
  BY <1>6, <1>7, <1>8 DEF Listed, t

\* An entry that does not score is passed over.
LEMMA PassedOver ==
  ASSUME NEW N \in Nat, NEW score \in [1..N -> Nat], NEW i \in 1..N, ~(score[i] > 0),
         NEW s, Listed(s, score, i - 1)
  PROVE  Listed(s, score, i)
<1>1. HitsTo(score, i) = HitsTo(score, i - 1)
  BY DEF HitsTo
<1> QED
  BY <1>1 DEF Listed

\* In the whole list as many entries beat one as come before it.
LEMMA ListedRanks ==
  ASSUME NEW N \in Nat, NEW score \in [1..N -> Nat], NEW s, Listed(s, score, N)
  PROVE  /\ s \in Seq(Hits(score)) /\ Cardinality(Hits(score)) = Len(s)
         /\ \A k \in 1..Len(s) : Cardinality(Beating(score, s[k])) = k - 1
         /\ \A i \in Hits(score) : Beating(score, i) = {} => i = s[1] /\ Len(s) > 0
         /\ Len(s) > 0 => Beating(score, s[1]) = {}
<1> DEFINE F == HitsTo(score, N)
           n == Len(s)
           beat(i) == {j \in F : score[j] > score[i] \/ (score[j] = score[i] /\ j < i)}
<1>1. n \in Nat /\ s \in [1..n -> F] /\ F \subseteq 1..N /\ \A i \in F : score[i] \in Nat
  BY DEF Listed, HitsTo
<1>2. /\ \A a, b \in 1..n : a < b => Beats(score, s[a], s[b])
      /\ \A i \in F : \E k \in 1..n : s[k] = i
  BY DEF Listed
<1>3. \A a, b \in 1..n : s[a] \in beat(s[b]) <=> a < b
  <2> SUFFICES ASSUME NEW a \in 1..n, NEW b \in 1..n PROVE s[a] \in beat(s[b]) <=> a < b
    OBVIOUS
  <2>0. s[a] \in F /\ s[b] \in F
    BY <1>1
  <2>1. a < b => Beats(score, s[a], s[b])
    BY <1>2
  <2>2. b < a => Beats(score, s[b], s[a])
    BY <1>2
  <2>3. score[s[a]] \in Nat /\ score[s[b]] \in Nat /\ s[a] \in Nat /\ s[b] \in Nat
    BY <1>1, <2>0
  <2>4. s[a] \in beat(s[b]) <=> Beats(score, s[a], s[b])
    BY <2>0 DEF Beats
  <2>5. ~(Beats(score, s[a], s[b]) /\ Beats(score, s[b], s[a]))
    BY <2>3 DEF Beats
  <2>6. a = b => ~Beats(score, s[a], s[b])
    BY <2>3 DEF Beats
  <2>7. a < b \/ b < a \/ a = b
    BY <1>1
  <2> HIDE DEF F, beat, n
  <2> QED
    BY <2>1, <2>2, <2>4, <2>5, <2>6, <2>7
<1>4. \A a, b \in 1..n : s[a] = s[b] => a = b
  <2> SUFFICES ASSUME NEW a \in 1..n, NEW b \in 1..n, s[a] = s[b] PROVE a = b
    OBVIOUS
  <2>1. ~(a < b) /\ ~(b < a)
    BY <1>3
  <2> QED
    BY <1>1, <2>1
<1> HIDE DEF F
<1>5. ASSUME NEW k \in 0..n, NEW B, B = {s[m] : m \in 1..k}
      PROVE  Cardinality(B) = k
  <2> DEFINE f == [m \in 1..k |-> s[m]]
  <2>1. \A m \in 1..k : m \in 1..n
    BY <1>1
  <2>2. f \in [1..k -> B] /\ \A a, b \in 1..k : f[a] = f[b] => a = b
    BY <1>4, <1>5, <2>1
  <2>3. \A i \in B : \E m \in 1..k : f[m] = i
    BY <1>5
  <2> HIDE DEF f
  <2>4. f \in Bijection(1..k, B)
    BY <2>2, <2>3 DEF Bijection, Injection, IsInjective, Surjection
  <2>5. IsFiniteSet(1..k) /\ Cardinality(1..k) = k
    <3>1. 1 \in Int /\ k \in Int /\ k >= 0
      BY <1>1
    <3>2. IsFiniteSet(1..k) /\ Cardinality(1..k) = IF 1 > k THEN 0 ELSE k - 1 + 1
      BY <3>1, FS_Interval
    <3> QED
      BY <3>1, <3>2
  <2>6. ExistsBijection(1..k, B)
    BY <2>4 DEF ExistsBijection
  <2> QED
    BY <2>5, <2>6, FS_Bijection
<1>6. Cardinality(F) = n
  <2> HIDE DEF n
  <2>1. F = {s[m] : m \in 1..n} /\ n \in 0..n
    <3>1. \A m \in 1..n : s[m] \in F
      BY <1>1
    <3>2. \A i \in F : \E m \in 1..n : s[m] = i
      BY <1>2
    <3>3. n \in 0..n
      BY <1>1
    <3> QED
      BY <3>1, <3>2, <3>3
  <2> QED
    BY <1>5, <2>1
<1>7. ASSUME NEW k \in 1..n PROVE beat(s[k]) = {s[m] : m \in 1..(k - 1)}
  <2>1. ASSUME NEW i \in beat(s[k]) PROVE \E m \in 1..(k - 1) : i = s[m]
    <3>1. PICK m \in 1..n : s[m] = i
      BY <1>2, <2>1
    <3>2. m < k
      BY <1>3, <2>1, <3>1
    <3> QED
      BY <1>1, <3>1, <3>2
  <2>2. ASSUME NEW m \in 1..(k - 1) PROVE s[m] \in beat(s[k])
    <3>1. m \in 1..n /\ m < k
      BY <1>1
    <3> QED
      BY <1>3, <3>1
  <2> HIDE DEF beat
  <2> QED
    BY <2>1, <2>2
<1>8. ASSUME NEW k \in 1..n PROVE Cardinality(beat(s[k])) = k - 1
  <2> HIDE DEF beat
  <2>1. k - 1 \in 0..n
    BY <1>1
  <2> QED
    BY <1>5, <1>7, <1>8, <2>1
<1>9. n > 0 => beat(s[1]) = {}
  <2> SUFFICES ASSUME n > 0 PROVE beat(s[1]) = {}
    OBVIOUS
  <2>1. 1 \in 1..n
    BY <1>1
  <2> HIDE DEF beat
  <2>2. beat(s[1]) = {s[m] : m \in 1..(1 - 1)}
    BY <1>7, <2>1
  <2> QED
    BY <2>2
<1>10. ASSUME NEW i \in F, beat(i) = {} PROVE i = s[1] /\ n > 0
  <2>1. PICK k \in 1..n : s[k] = i
    BY <1>2
  <2>2. 1 \in 1..n /\ (k # 1 => 1 < k)
    BY <1>1
  <2>3. k # 1 => s[1] \in beat(i)
    BY <1>3, <2>1, <2>2
  <2> HIDE DEF beat
  <2> QED
    BY <1>1, <1>10, <2>1, <2>2, <2>3
<1>11. Hits(score) = F /\ \A i : Beating(score, i) = beat(i)
  BY DEF Hits, HitsTo, Beating, F
<1>12. s \in Seq(F)
  BY DEF Listed, F
<1> HIDE DEF beat
<1> QED
  BY <1>6, <1>8, <1>9, <1>10, <1>11, <1>12

LEMMA ScoresType ==
  ASSUME NEW g \in Guides, NEW words, NEW kind
  PROVE  Scores(g, words, kind) \in [1..Len(g) -> Nat] /\ Len(g) \in Nat
<1> SUFFICES ASSUME NEW i \in DOMAIN g PROVE Score(g[i], words, kind) \in Nat
  BY DiagramsAssumption DEF Scores
<1> DEFINE e == g[i]
<1>1. IsFiniteSet(e.known) /\ IsFiniteSet(e.title)
  BY DiagramsAssumption
<1>2. IsFiniteSet(Keywords)
  <2>1. IsFiniteSet({}) /\ Keywords = {} \cup {"reserved"} \cup {"missing"} \cup {"invalid"}
                                         \cup {"incorrect"} \cup {"error"} \cup {"syntax"}
    BY FS_EmptySet DEF Keywords
  <2> QED
    BY <2>1, FS_AddElement
<1> HIDE DEF e
<1>3. /\ Cardinality({k \in e.known : k \subseteq words}) \in Nat
      /\ Cardinality({k \in e.known : ~(k \subseteq words) /\ k \cap words # {}}) \in Nat
      /\ Cardinality(e.title \cap words) \in Nat
      /\ Cardinality(Keywords \cap words \cap e.problem) \in Nat
  <2>1. /\ IsFiniteSet({k \in e.known : k \subseteq words})
        /\ IsFiniteSet({k \in e.known : ~(k \subseteq words) /\ k \cap words # {}})
        /\ IsFiniteSet(e.title \cap words)
        /\ IsFiniteSet(Keywords \cap words \cap e.problem)
    BY <1>1, <1>2, FS_Subset
  <2> QED
    BY <2>1, FS_CardinalityType
<1>4. Score(e, words, kind) \in Nat
  BY <1>3 DEF Score
<1> QED
  BY <1>4 DEF e

\* Search has listed the entries it has passed.
SearchOK ==
  job.script = "search" =>
    /\ job.guide \in Guides /\ job.at \in 1..(Len(job.guide) + 1)
    /\ Listed(job.matches, Scores(job.guide, job.words, job.kind), job.at - 1)

AdviceInv == JobOK /\ SearchOK /\ AdviceIsBest

\* The end of search, from the list of the whole guide.
LEMMA AdviseIsBest == ASSUME JobOK, SearchOK, Advise PROVE AdviceIsBest'
<1>1. PICK n \in DOMAIN mmds, g \in Guides :
        \E words, kind, matches, i : job = SearchJob(n, g, words, kind, matches, i)
  BY DEF Advise, JobOK
<1>2. PICK words, kind, s, at : job = SearchJob(n, g, words, kind, s, at)
  BY <1>1
<1> DEFINE score == Scores(g, words, kind)
           N == Len(g)
           best == Unbeaten(g, score)
           m == Min({Len(s), TopMatches})
           top == SubSeq(s, 1, m)
           Best(entry) == top # <<>> /\ entry = g[top[1]]
           fix == {entry \in Range(g) : Best(entry) /\ entry.correct}
           query == \A entry \in Range(g) : Best(entry) => entry.number = 0
<1>3. /\ N \in Nat /\ DOMAIN g = 1..N /\ score \in [1..N -> Nat]
      /\ TopMatches \in Nat /\ TopMatches > 0
  BY ScoresType, DiagramsAssumption
<1>4. Listed(s, score, N)
  <2>1. at = N + 1
    BY <1>2, <1>3 DEF Advise, SearchOK
  <2> QED
    BY <1>2, <1>3, <2>1 DEF SearchOK
<1>5. report' = [script |-> "generate", of |-> {n}, ok |-> FALSE, guide |-> g, words |-> words,
                 kind |-> kind, matches |-> top, fix |-> fix, query |-> query]
  BY <1>2 DEF Advise
<1>6. best \subseteq Range(g)
  BY <1>3 DEF Unbeaten, Hits, Range
<1>7. best = {g[i] : i \in {j \in Hits(score) : Beating(score, j) = {}}}
  BY DEF Unbeaten
<1> HIDE DEF score, best
<1>8. /\ s \in Seq(Hits(score)) /\ Cardinality(Hits(score)) = Len(s)
      /\ \A k \in 1..Len(s) : Cardinality(Beating(score, s[k])) = k - 1
      /\ \A i \in Hits(score) : Beating(score, i) = {} => i = s[1] /\ Len(s) > 0
      /\ Len(s) > 0 => Beating(score, s[1]) = {}
  BY <1>3, <1>4, ListedRanks
<1>9. /\ m \in {Len(s), TopMatches} /\ m <= Len(s) /\ m <= TopMatches
  <2>1. {Len(s), TopMatches} \in SUBSET Nat
    BY <1>3, <1>8
  <2> QED
    BY <2>1, LeastIsThere
<1> HIDE DEF m
<1>10. /\ Len(top) = m /\ DOMAIN top = 1..m
       /\ \A r \in 1..m : top[r] = s[r] /\ s[r] \in Hits(score) /\ r \in 1..Len(s)
       /\ m = 0 <=> Len(s) = 0
  <2>1. m \in Nat /\ (m = 0 <=> Len(s) = 0)
    BY <1>3, <1>8, <1>9
  <2>2. Len(top) = m /\ DOMAIN top = 1..m /\ \A r \in 1..m : top[r] = s[r] /\ s[r] \in Hits(score)
    BY <1>8, <1>9, <2>1
  <2> QED
    BY <1>9, <2>1, <2>2
<1>11. top = <<>> <=> Len(s) = 0
  <2>1. ASSUME top = <<>> PROVE Len(top) = 0
    <3> HIDE DEF top
    <3> QED
      BY <2>1
  <2>2. ASSUME Len(s) = 0 PROVE top = <<>>
    <3>1. m = 0
      BY <1>10, <2>2
    <3> QED
      BY <3>1
  <2> QED
    BY <1>10, <2>1, <2>2
<1> HIDE DEF top
<1>12. \A entry \in Range(g) : Best(entry) <=> entry \in best
  <2>1. CASE Len(s) = 0
    BY <1>7, <1>8, <1>11, <2>1
  <2>2. CASE Len(s) # 0
    <3>1. Len(s) > 0 /\ 1 \in 1..m
      BY <1>3, <1>8, <1>9, <2>2
    <3>2. top # <<>> /\ top[1] = s[1] /\ s[1] \in Hits(score) /\ Beating(score, s[1]) = {}
      BY <1>8, <1>10, <1>11, <2>2, <3>1
    <3>3. \A i \in Hits(score) : Beating(score, i) = {} => i = s[1]
      BY <1>8
    <3>4. best = {g[s[1]]}
      BY <1>7, <3>2, <3>3
    <3> QED
      BY <3>2, <3>4
  <2> QED
    BY <2>1, <2>2
<1>13. fix = {entry \in best : entry.correct} /\ (query <=> \A entry \in best : entry.number = 0)
  BY <1>6, <1>12
<1>14. \A r \in DOMAIN top : top[r] \in Hits(score) /\ Cardinality(Beating(score, top[r])) = r - 1
  BY <1>8, <1>10
<1>15. Len(top) = Min({Cardinality(Hits(score)), TopMatches})
  BY <1>8, <1>10 DEF m
<1> HIDE DEF fix, query
<1>16. IsBest(report')
  BY <1>5, <1>13, <1>14, <1>15 DEF IsBest, score, best
<1> QED
  BY <1>16 DEF AdviceIsBest

LEMMA AdviceStep == AdviceInv /\ [Next]_vars => AdviceInv'
<1> SUFFICES ASSUME AdviceInv, [Next]_vars PROVE AdviceInv'
  OBVIOUS
<1>1. JobOK'
  BY JobStep DEF AdviceInv
<1>2. CASE Edit \/ Replace \/ UNCHANGED vars
  BY <1>1, <1>2 DEF Edit, Replace, vars, AdviceInv, SearchOK, AdviceIsBest
<1>3. CASE Extract
  BY <1>1, <1>3 DEF Extract, Run, NoReport, AdviceInv, SearchOK, AdviceIsBest
<1>4. CASE Validate
  BY <1>1, <1>4 DEF Validate, AdviceInv, SearchOK, AdviceIsBest
<1>5. CASE StartBatch
  BY <1>1, <1>5 DEF StartBatch, Run, NoReport, AdviceInv, SearchOK, AdviceIsBest
<1>6. CASE BatchStep
  <2>1. PICK todo, ok : job' = BatchJob(todo, ok)
    <3>1. PICK todo \in SUBSET DOMAIN mmds, ok \in BOOLEAN : job = BatchJob(todo, ok)
      BY <1>6 DEF BatchStep, AdviceInv, JobOK
    <3>2. PICK n, call : job' = BatchJob(todo \ {n}, ok /\ Rendered(call))
      BY <1>6, <3>1 DEF BatchStep
    <3> QED
      BY <3>2
  <2> QED
    BY <1>1, <1>6, <2>1 DEF BatchStep, AdviceInv, SearchOK, AdviceIsBest
<1>7. CASE EndBatch
  BY <1>1, <1>7 DEF EndBatch, AdviceInv, SearchOK, AdviceIsBest
<1>8. CASE SaveDiagram
  <2>1. PICK n, g : job' = GenerateJob(n, g)
    BY <1>8 DEF SaveDiagram
  <2> QED
    BY <1>1, <1>8, <2>1 DEF SaveDiagram, Run, NoReport, AdviceInv, SearchOK, AdviceIsBest
<1>9. CASE RenderDiagram
  <2>1. PICK n \in DOMAIN mmds, g \in Guides : job = GenerateJob(n, g)
    BY <1>9 DEF RenderDiagram, AdviceInv, JobOK
  <2>2. \/ report'.script = "generate" /\ report'.ok /\ job' = NoJob
        \/ UNCHANGED report /\ \E words, kind : job' = SearchJob(n, g, words, kind, <<>>, 1)
    BY <1>9, <2>1 DEF RenderDiagram
  <2>3. SearchOK'
    <3>1. \A score : Listed(<<>>, score, 0)
      BY DEF Listed, HitsTo
    <3>2. Len(g) \in Nat
      BY DiagramsAssumption
    <3> QED
      BY <2>2, <3>1, <3>2 DEF SearchOK
  <2>4. AdviceIsBest'
    BY <2>2 DEF AdviceInv, AdviceIsBest
  <2> QED
    BY <1>1, <2>3, <2>4 DEF AdviceInv
<1>10. CASE SearchEntry
  <2>1. PICK n \in DOMAIN mmds, g \in Guides :
          \E words, kind, matches, i : job = SearchJob(n, g, words, kind, matches, i)
    BY <1>10 DEF SearchEntry, AdviceInv, JobOK
  <2>2. PICK words, kind, s, i : job = SearchJob(n, g, words, kind, s, i)
    BY <2>1
  <2> DEFINE score == Scores(g, words, kind)
             t == IF score[i] > 0 THEN Place(s, i, score) ELSE s
  <2>3. i \in DOMAIN g /\ job' = SearchJob(n, g, words, kind, t, i + 1)
    BY <1>10, <2>2 DEF SearchEntry
  <2>4. /\ Len(g) \in Nat /\ DOMAIN g = 1..Len(g) /\ score \in [1..Len(g) -> Nat]
    BY ScoresType, DiagramsAssumption
  <2>5. Listed(s, score, i - 1)
    BY <2>2 DEF AdviceInv, SearchOK
  <2> HIDE DEF score
  <2>6. Listed(t, score, i)
    BY <2>3, <2>4, <2>5, PlaceKeeps, PassedOver
  <2> HIDE DEF t
  <2>7. SearchOK'
    <3>1. (i + 1) - 1 = i /\ i + 1 \in 1..(Len(g) + 1)
      BY <2>3, <2>4
    <3> QED
      BY <2>3, <2>6, <3>1 DEF SearchOK, score
  <2> QED
    BY <1>1, <1>10, <2>7 DEF SearchEntry, AdviceInv, AdviceIsBest
<1>11. CASE Advise
  <2>1. AdviceIsBest'
    BY <1>11, AdviseIsBest DEF AdviceInv
  <2>2. SearchOK'
    BY <1>11 DEF Advise, SearchOK
  <2> QED
    BY <1>1, <2>1, <2>2 DEF AdviceInv
<1> QED
  BY <1>2, <1>3, <1>4, <1>5, <1>6, <1>7, <1>8, <1>9, <1>10, <1>11 DEF Next

(***************************************************************************)
(* For any guide, complaint and kind of diagram, what search has gathered  *)
(* entry by entry is the top of the whole guide, ties in its order; the    *)
(* fix and the web query follow from the entry that none beats.            *)
(***************************************************************************)
THEOREM AdviceIsAlwaysBest == Spec => []AdviceIsBest
<1>1. Init => AdviceInv
  BY DEF Init, NoReport, AdviceInv, JobOK, SearchOK, AdviceIsBest
<1>2. AdviceInv => AdviceIsBest
  BY DEF AdviceInv
<1> QED
  BY <1>1, <1>2, AdviceStep, PTL DEF Spec
=============================================================================
