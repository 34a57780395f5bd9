----------------------------- MODULE EvalQuery -----------------------------
(***************************************************************************)
(* run_eval.py: a batch of trigger queries on a pool of worker processes.  *)
(* Every task writes its own command file into one shared directory,       *)
(* starts `claude -p' and reads its event stream until it can tell whether *)
(* claude reached for that file first.  claude itself is external: it      *)
(* follows one of the scripts below, sends events when it likes, and may   *)
(* end at any time.                                                        *)
(***************************************************************************)
EXTENDS Integers, FiniteSets, Sequences, SequencesExt

CONSTANTS
  NumWorkers,     \* --num-workers
  RunsPerQuery,   \* --runs-per-query
  Threshold,      \* --trigger-threshold, in percent
  MaxFaults       \* bound: failures of workers, launches, streams and clocks

ASSUME EvalAssumption ==
  /\ NumWorkers \in Nat \ {0}
  /\ RunsPerQuery \in Nat \ {0}
  /\ Threshold \in 0..100
  /\ MaxFaults \in Nat

VARIABLES
  batch,      \* the eval set of this run_eval, a sequence of items
  tasks,      \* per submitted future: what it and its claude process do
  commands,   \* .claude/commands: the command files, <<round, task>>
  round,      \* which run_eval this is
  broken,     \* the rounds in which the pool lost a worker
  faults

evalVars == <<batch, tasks, commands, round, broken, faults>>

-----------------------------------------------------------------------------
(* claude, external *)

\* The streams a claude may send, in the events the parser tells apart: a
\* Skill or Read call starts; the name of this task's command file appears in
\* its argument; a block stops; a whole message calls on the own file; and a
\* miss, which is another tool's start, the end of a message or of everything,
\* or a whole message that calls on anything else.
Streams ==
  { <<"skill", "own">>,
    <<"skill", "stop">>,
    <<"asst_own">>,
    <<"miss">> }

Continuations(sent) == {s[Len(sent) + 1] : s \in {x \in Streams : Len(x) > Len(sent) /\ IsPrefix(sent, x)}}

\* claude reached for this task's command file before any other tool.
ChoosesOwn(sent) == {"own", "asst_own"} \cap ToSet(sent) # {}

-----------------------------------------------------------------------------
(* The stream parser of run_single_query *)

NewParse == [tool |-> FALSE, out |-> "none"]

\* Mutant: any Skill or Read call counts, whatever it names.
ParseAnyName(p, e) ==
  IF p.out # "none" THEN p
  ELSE CASE e = "skill" -> [p EXCEPT !.tool = TRUE]
         [] e \in {"own", "stop"} /\ p.tool -> [p EXCEPT !.out = "true"]
         [] e = "miss" -> [p EXCEPT !.out = "false"]
         [] e = "asst_own" -> [p EXCEPT !.out = "true"]
         [] OTHER -> p

\* One line of the stream.  The first tool call decides: another tool is a
\* miss, the own name in the argument of a Skill or Read call a hit at once,
\* so that the end of such a call is always a miss.
ParseEvent(p, e) ==
  IF p.out # "none" THEN p
  ELSE CASE e = "skill" -> [p EXCEPT !.tool = TRUE]
         [] e = "own" /\ p.tool -> [p EXCEPT !.out = "true"]
         [] e = "stop" /\ p.tool -> [p EXCEPT !.out = "false"]
         [] e = "miss" -> [p EXCEPT !.out = "false"]
         [] e = "asst_own" -> [p EXCEPT !.out = "true"]
         [] OTHER -> p

Parse(p, lines) == FoldLeft(ParseEvent, p, lines)

-----------------------------------------------------------------------------
(* The pool *)

Submitted == 1..(Len(batch) * RunsPerQuery)

\* run_eval submits item by item, run by run; the pool takes them in order.
ItemOf(k) == batch[((k - 1) \div RunsPerQuery) + 1]

Blank == [at |-> "queued", sent |-> <<>>, read |-> 0, exited |-> "no",
          parse |-> NewParse, own |-> FALSE, cut |-> FALSE, verdict |-> FALSE]

Active == {k \in DOMAIN tasks : tasks[k].at \in {"running", "stuck"}}
BatchOver == \A k \in DOMAIN tasks : tasks[k].at = "done"

\* The record of a task that has returned.  To compare the verdict with what
\* happened: whether claude chose the own file, and whether events were cut.
Returned(k, verdict, cut) ==
  [Blank EXCEPT !.at = "done", !.verdict = verdict, !.own = ChoosesOwn(tasks[k].sent), !.cut = cut]

StartBatch(items) ==
  /\ batch' = items
  /\ tasks' = [k \in 1..(Len(items) * RunsPerQuery) |-> Blank]
  /\ round' = round + 1

\* Mutant: the command file outlives the task that wrote it.
ReturnAndKeepFile(k, verdict, cut) ==
  /\ tasks' = [tasks EXCEPT ![k] = Returned(k, verdict, cut)]
  /\ UNCHANGED <<batch, round, broken, commands>>

\* A task returns: the finally blocks kill claude and unlink the file.
Return(k, verdict, cut) ==
  /\ tasks' = [tasks EXCEPT ![k] = Returned(k, verdict, cut)]
  /\ commands' = commands \ {<<round, k>>}
  /\ UNCHANGED <<batch, round, broken>>

Fault == faults < MaxFaults /\ faults' = faults + 1

\* The first queued task, a free worker: the file is written, claude started.
Launch(k) ==
  /\ tasks[k].at = "queued"
  /\ \A j \in 1..(k - 1) : tasks[j].at # "queued"
  /\ Cardinality(Active) < NumWorkers
  /\ \/ /\ commands' = commands \cup {<<round, k>>}
        /\ tasks' = [tasks EXCEPT ![k].at = "running"]
        /\ UNCHANGED <<batch, round, broken, faults>>
     \/ \* the file cannot be written or claude not started: the future raises
        Fault /\ Return(k, FALSE, FALSE)

Running(k) == tasks[k].at = "running"
Unread(k) == tasks[k].read < Len(tasks[k].sent)

\* claude sends its next event.
Emit(k) ==
  /\ Running(k) /\ tasks[k].exited = "no"
  /\ \E e \in Continuations(tasks[k].sent) : tasks' = [tasks EXCEPT ![k].sent = Append(@, e)]
  /\ UNCHANGED <<batch, commands, round, broken, faults>>

\* claude ends after its last event.  As a fault it ends early, or a child of
\* it keeps the pipe.
Exit(k) ==
  /\ Running(k) /\ tasks[k].exited = "no"
  /\ \/ /\ Continuations(tasks[k].sent) = {}
        /\ tasks' = [tasks EXCEPT ![k].exited = "yes"]
        /\ UNCHANGED faults
     \/ /\ Fault
        /\ \E how \in {"yes", "held"} : tasks' = [tasks EXCEPT ![k].exited = how]
  /\ UNCHANGED <<batch, commands, round, broken>>

\* The top of the loop finds claude ended: what is left in the pipe is read,
\* not parsed, and the verdict is False.  The read waits for the last holder
\* of the pipe, without a limit.  An empty chunk ends the loop the same way.
SeeExit(k) ==
  /\ Running(k)
  /\ \/ /\ tasks[k].exited = "yes"
        /\ Return(k, FALSE, Unread(k))
     \/ /\ tasks[k].exited = "held"
        /\ tasks' = [tasks EXCEPT ![k].at = "stuck"]
        /\ UNCHANGED <<batch, commands, round, broken>>
  /\ UNCHANGED faults

\* select found the pipe readable: a chunk of lines is parsed in one go.  A
\* chunk read after the exit is one whose poll came before it.
ReadChunk(k) ==
  /\ Running(k) /\ Unread(k)
  /\ \E n \in (tasks[k].read + 1)..Len(tasks[k].sent) :
       LET p == Parse(tasks[k].parse, SubSeq(tasks[k].sent, tasks[k].read + 1, n))
       IN \/ /\ p.out # "none"
             /\ Return(k, p.out = "true", FALSE)
          \/ /\ p.out = "none"
             /\ tasks' = [tasks EXCEPT ![k].read = n, ![k].parse = p]
             /\ UNCHANGED <<batch, commands, round, broken>>
  /\ UNCHANGED faults

\* Mutant: select waits for the pipe without a limit of its own, so the clock
\* is looked at when there is something to read.
TimeOutReading(k) ==
  /\ Running(k) /\ Unread(k)
  /\ Return(k, FALSE, TRUE)
  /\ UNCHANGED faults

\* The loop condition: the time is up.  Always possible, so not counted.
TimeOut(k) ==
  /\ Running(k)
  /\ Return(k, FALSE, Unread(k))
  /\ UNCHANGED faults

\* A worker process dies.  The pool is broken: it terminates the other
\* workers, whose finally blocks do not run, and every future not yet done
\* raises, which run_eval counts as not triggered.
WorkerDies ==
  /\ Fault /\ Active # {}
  /\ broken' = broken \cup {round}
  /\ tasks' = [k \in DOMAIN tasks |-> IF tasks[k].at = "done" THEN tasks[k]
                                      ELSE Returned(k, FALSE, Unread(k))]
  /\ UNCHANGED <<batch, commands, round>>

Work(k) == Launch(k) \/ SeeExit(k) \/ ReadChunk(k) \/ TimeOut(k)

WorkNext == \E k \in DOMAIN tasks : Work(k)

BatchNext ==
  \/ WorkNext
  \/ \E k \in DOMAIN tasks : Emit(k) \/ Exit(k)
  \/ WorkerDies

-----------------------------------------------------------------------------
(* What run_eval makes of the verdicts *)

TriggersOf(ks) == Cardinality({k \in ks : tasks[k].verdict})

Passes(should, hits, runs) ==
  IF should THEN 100 * hits >= Threshold * runs ELSE 100 * hits < Threshold * runs

\* One result per query text: the runs of equal queries are merged, and the
\* item whose future completed last gives the expectation.  last[q] is it.
ResultsWith(last) ==
  {LET ks == {k \in DOMAIN tasks : ItemOf(k).query = q}
       hits == TriggersOf(ks)
   IN [query |-> q, should |-> last[q].should, hits |-> hits, runs |-> Cardinality(ks),
       pass |-> Passes(last[q].should, hits, Cardinality(ks))] : q \in DOMAIN last}

Queries(items) == {items[i].query : i \in DOMAIN items}

LastChoices ==
  {last \in [Queries(batch) -> ToSet(batch)] : \A q \in Queries(batch) : last[q].query = q}

-----------------------------------------------------------------------------
(***************************************************************************)
(* run_single_query tells the truth: a task answers True only when claude  *)
(* reached for the task's own command file first, and when claude did, a   *)
(* False means that the worker stopped, out of time, at claude's exit or   *)
(* at the end of its own process, with events in the pipe.                 *)
(***************************************************************************)
VerdictsAreEarned ==
  \A k \in DOMAIN tasks : tasks[k].at = "done" =>
    /\ tasks[k].verdict => tasks[k].own
    /\ tasks[k].own => tasks[k].verdict \/ tasks[k].cut

(***************************************************************************)
(* The shared command directory is clean between batches: a file is that   *)
(* of a task at work now, or was left by the workers of a broken pool, who *)
(* die before they can unlink.  Whatever stays is offered to later claudes.*)
(***************************************************************************)
FilesAreOwned ==
  /\ {<<round, k>> : k \in Active} \subseteq commands
  /\ \A c \in commands : c[1] \notin broken => c[1] = round /\ c[2] \in Active
=============================================================================
