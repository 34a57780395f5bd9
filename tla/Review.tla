------------------------------- MODULE Review -------------------------------
(***************************************************************************)
(* generate_review.py and the script of its page, viewer.html: an agent    *)
(* launches a viewer per iteration of a skill, each launch kills the       *)
(* server that holds the port, a person comments on runs in pages that     *)
(* stay open, and the comments travel to whichever server there is and     *)
(* into the feedback.json of its workspace.                                *)
(***************************************************************************)
EXTENDS Integers, FiniteSets, Sequences, FiniteSetsExt

CONSTANTS
  Runs,          \* run directories of a workspace, numbers in sorted order
  Texts,         \* bound: what a person may write into a comment
  MaxEdits,      \* bound: edits of comments
  MaxLaunches,   \* bound: launches of a viewer
  MaxPosts,      \* bound: requests that pages send
  MaxFaults      \* bound: writes that fail

ASSUME ReviewAssumption ==
  /\ Runs \subseteq Nat /\ IsFiniteSet(Runs) /\ Runs # {}
  /\ {MaxEdits, MaxLaunches, MaxPosts, MaxFaults} \subseteq Nat

VARIABLES
  outputs,      \* per workspace: the runs with an outputs directory
  feedback,     \* per workspace: feedback.json
  server,       \* what the one server serves, or NoServer
  pages,        \* per workspace: its page
  inbox,        \* POSTs waiting for the server, in order
  typed,        \* per workspace and run: the comment as the person left it
  downloads,    \* per workspace: the feedback.json a page offered for download
  parted,       \* per workspace: whether something parted comments and file,
                \* no, until the next submit, or for good
  edits, sent, launches, faults

reviewVars == <<outputs, feedback, server, pages, inbox, typed, downloads, parted,
                edits, sent, launches, faults>>

\* Two iterations of one skill.
Workspaces == {1, 2}

Empty == ""   \* no comment
NoComments == [r \in {} |-> Empty]
NoFile == [status |-> "none", reviews |-> NoComments]
TornFile == [status |-> "torn", reviews |-> NoComments]
NoServer == [ws |-> 0, previous |-> FALSE]
NoPage == [at |-> "closed"]

Open(w) == pages[w].at = "open"
Idle(w) == Open(w) /\ ~pages[w].done   \* the overlay covers what is under it

Written(map) == {r \in DOMAIN map : map[r] # Empty}
NonEmpty(map) == [r \in Written(map) |-> map[r]]

\* A save that follows a submit of w, in flight or answered, undoes it.
InFlight(w) == \E i \in DOMAIN inbox : inbox[i].from = w /\ inbox[i].submit
Submitted(w) == pages[w].done \/ InFlight(w)
Part(ws) == parted' = [w \in Workspaces |-> IF w \in ws /\ parted[w] = "no" THEN "until_submit" ELSE parted[w]]
PartIf(cond, w) == Part(IF cond THEN {w} ELSE {})

-----------------------------------------------------------------------------
(* The server *)

\* A run is a directory with an outputs directory, wherever it lies.
find_runs(w) == outputs[w]

\* load_previous_iteration, and whether the page will find anything in it: the
\* second iteration is launched with --previous-workspace, as SKILL.md has it.
HasPrevious(w) == w = 2 /\ (find_runs(1) # {} \/ Written(feedback[1].reviews) # {})

\* A run's outputs appear, at any time.
RunFinishes(w, r) ==
  /\ r \notin outputs[w]
  /\ outputs' = [outputs EXCEPT ![w] = @ \cup {r}]
  /\ UNCHANGED <<feedback, server, pages, inbox, typed, downloads, parted, edits, sent, launches, faults>>

\* A post that is never answered: a page keeps an autosave for later and
\* offers a submit for download.
Unanswered(posts) ==
  LET lost(w) == {i \in DOMAIN posts : posts[i].from = w /\ posts[i].submit}
  IN /\ pages' = [w \in Workspaces |-> IF lost(w) = {} THEN pages[w]
                                       ELSE [pages[w] EXCEPT !.done = TRUE]]
     /\ downloads' = [w \in Workspaces |-> IF lost(w) = {} THEN downloads[w]
                                           ELSE posts[Max(lost(w))].reviews]

Unsaved(posts) == {posts[i].from : i \in {j \in DOMAIN posts : ~posts[j].submit}}

\* _kill_port: SIGTERM to every process that lsof finds on the port.  That is
\* the server, perhaps in the middle of a write, and while requests wait it
\* is the browser too.
Kill ==
  /\ server # NoServer /\ launches < MaxLaunches
  /\ server' = NoServer
  /\ inbox' = <<>>
  /\ \/ Unanswered(inbox) /\ Part(Unsaved(inbox)) /\ UNCHANGED feedback
     \/ /\ inbox # <<>>
        /\ Unanswered(inbox)
        /\ \E file \in {TornFile, [status |-> inbox[1].status, reviews |-> inbox[1].reviews]} :
             feedback' = [feedback EXCEPT ![server.ws] = file]
        /\ Part({server.ws} \cup Unsaved(inbox))
     \/ /\ inbox # <<>>
        /\ pages' = [w \in Workspaces |-> NoPage]
        /\ Part(Workspaces)
        /\ UNCHANGED <<feedback, downloads>>
  /\ UNCHANGED <<outputs, typed, edits, sent, launches, faults>>

\* main: a workspace with runs is served, on the port: the kill before it is
\* taken to have freed it, so the fallback to another one is left out.  The
\* previous iteration is read once, here; a page shows it as context and hides
\* its own saved comments.
Launch(w) ==
  /\ server = NoServer /\ launches < MaxLaunches
  /\ find_runs(w) # {}
  /\ server' = [ws |-> w, previous |-> HasPrevious(w)]
  /\ launches' = launches + 1
  /\ UNCHANGED <<outputs, feedback, pages, inbox, typed, downloads, parted, edits, sent, faults>>

\* do_POST at the head of the queue.  A page takes any answer for a success.
Answer(post) == IF post.submit THEN [pages EXCEPT ![post.from].done = TRUE] ELSE pages

do_POST ==
  /\ inbox # <<>> /\ server # NoServer
  /\ LET post == Head(inbox) IN
       /\ pages' = Answer(post)
       /\ \/ /\ feedback' = [feedback EXCEPT ![server.ws] = [status |-> post.status, reviews |-> post.reviews]]
             /\ Part(IF post.from = server.ws THEN {} ELSE Workspaces)
             /\ UNCHANGED faults
          \/ \* the file cannot be opened, or not be filled
             /\ faults < MaxFaults /\ faults' = faults + 1
             /\ \E file \in {feedback[server.ws], TornFile} :
                  feedback' = [feedback EXCEPT ![server.ws] = file]
             /\ Part({post.from, server.ws})
  /\ inbox' = Tail(inbox)
  /\ UNCHANGED <<outputs, server, typed, downloads, edits, sent, launches>>

\* No server on the port: the request fails at once.
Refused ==
  /\ inbox # <<>> /\ server = NoServer
  /\ Unanswered(<<Head(inbox)>>)
  /\ Part(Unsaved(<<Head(inbox)>>))
  /\ inbox' = Tail(inbox)
  /\ UNCHANGED <<outputs, feedback, server, typed, edits, sent, launches, faults>>

-----------------------------------------------------------------------------
(* The page *)

\* do_GET of the page, in a browser that was opened or is reloaded: the runs
\* of the moment.  Comments not yet posted are gone.  One tab per iteration: a
\* page that webbrowser.open brings takes the place of the one that was left,
\* which a browser would keep beside it.
do_GET ==
  /\ server # NoServer /\ inbox = <<>>
  /\ LET w == server.ws IN
       /\ pages' = [pages EXCEPT ![w] = [at |-> "loading", runs |-> find_runs(w), previous |-> server.previous]]
       /\ PartIf(Open(w) /\ pages[w].timer, w)
  /\ UNCHANGED <<outputs, feedback, server, inbox, typed, downloads, edits, sent, launches, faults>>

\* init of the page: the saved comments, unless a previous iteration is shown.
\* A file that does not parse, or no answer, counts for no comments.
init(w) ==
  /\ pages[w].at = "loading"
  /\ LET saved == IF pages[w].previous \/ server = NoServer THEN NoComments
                  ELSE NonEmpty(feedback[server.ws].reviews)
         first == Min(pages[w].runs)
     IN /\ pages' = [pages EXCEPT ![w] =
             [at |-> "open", runs |-> pages[w].runs, map |-> saved, run |-> first,
              text |-> IF first \in DOMAIN saved THEN saved[first] ELSE Empty,
              timer |-> FALSE, done |-> FALSE]]
        /\ parted' = IF /\ \/ pages[w].previous \/ server.ws # w
                           \/ parted[w] # "no" \/ downloads[w] # NoComments
                        /\ saved # NonEmpty(typed[w])
                     THEN [parted EXCEPT ![w] = "for_good"] ELSE parted
  /\ UNCHANGED <<outputs, feedback, server, inbox, typed, downloads, edits, sent, launches, faults>>

\* The map once the text area is taken over.
Noted(w) ==
  LET p == pages[w]
  IN NonEmpty([r \in DOMAIN p.map \cup {p.run} |-> IF r = p.run THEN p.text ELSE p.map[r]])

Sends == sent < MaxPosts /\ sent' = sent + 1

Autosave(w) == [from |-> w, submit |-> FALSE, status |-> "in_progress", reviews |-> Noted(w)]

\* The listener of the text area starts the 800 ms timer again.
Type(w) ==
  /\ Idle(w) /\ edits < MaxEdits
  /\ \E text \in Texts \ {pages[w].text} :
       /\ pages' = [pages EXCEPT ![w].text = text, ![w].timer = TRUE]
       /\ typed' = [typed EXCEPT ![w][pages[w].run] = text]
  /\ edits' = edits + 1
  /\ PartIf(Submitted(w), w)
  /\ UNCHANGED <<outputs, feedback, server, inbox, downloads, sent, launches, faults>>

\* saveCurrentFeedback, when the timer fires.
TimerFires(w) ==
  /\ Open(w) /\ pages[w].timer
  /\ Sends
  /\ inbox' = Append(inbox, Autosave(w))
  /\ pages' = [pages EXCEPT ![w].timer = FALSE, ![w].map = Noted(w)]
  /\ PartIf(Submitted(w), w)
  /\ UNCHANGED <<outputs, feedback, server, typed, downloads, edits, launches, faults>>

Neighbours(w) ==
  LET p == pages[w]
  IN {r \in p.runs \ {p.run} : \A x \in p.runs : ~(p.run < x /\ x < r) /\ ~(r < x /\ x < p.run)}

ShowRun(p, r, map) ==
  [p EXCEPT !.map = map, !.run = r, !.text = IF r \in DOMAIN map THEN map[r] ELSE Empty]

\* Mutant: the next run is shown before the text area is saved.
NavigateUnsaved(w) ==
  /\ Open(w) /\ Sends
  /\ \E r \in Neighbours(w) : pages' = [pages EXCEPT ![w] = ShowRun(@, r, @.map)]
  /\ inbox' = Append(inbox, [Autosave(w) EXCEPT !.reviews = pages[w].map])
  /\ PartIf(Submitted(w), w)
  /\ UNCHANGED <<outputs, feedback, server, typed, downloads, edits, launches, faults>>

\* navigate, by the buttons or by the arrow keys, which work under the overlay
\* too: save what is there, then show the neighbour.
Navigate(w) ==
  /\ Open(w) /\ Sends
  /\ inbox' = Append(inbox, Autosave(w))
  /\ \E r \in Neighbours(w) : pages' = [pages EXCEPT ![w] = ShowRun(@, r, Noted(w))]
  /\ PartIf(Submitted(w), w)
  /\ UNCHANGED <<outputs, feedback, server, typed, downloads, edits, launches, faults>>

\* showDoneDialog: every run of the page, commented or not.  The timer goes on.
Submit(w) ==
  /\ Idle(w) /\ Sends
  /\ LET map == Noted(w) IN
       /\ inbox' = Append(inbox, [from |-> w, submit |-> TRUE, status |-> "complete",
            reviews |-> [r \in pages[w].runs |-> IF r \in DOMAIN map THEN map[r] ELSE Empty]])
       /\ pages' = [pages EXCEPT ![w].map = map]
  /\ downloads' = [downloads EXCEPT ![w] = NoComments]
  /\ parted' = [parted EXCEPT ![w] = IF @ = "for_good" THEN @ ELSE "no"]
  /\ UNCHANGED <<outputs, feedback, server, typed, edits, launches, faults>>

\* closeDoneDialog: back to in_progress.
Reopen(w) ==
  /\ Open(w) /\ pages[w].done
  /\ Sends
  /\ inbox' = Append(inbox, Autosave(w))
  /\ pages' = [pages EXCEPT ![w].done = FALSE, ![w].map = Noted(w)]
  /\ PartIf(InFlight(w), w)
  /\ UNCHANGED <<outputs, feedback, server, typed, downloads, edits, launches, faults>>

-----------------------------------------------------------------------------
ReviewInit ==
  /\ outputs = [w \in Workspaces |-> {Min(Runs)}]
  /\ feedback = [w \in Workspaces |-> NoFile]
  /\ server = NoServer
  /\ pages = [w \in Workspaces |-> NoPage]
  /\ inbox = <<>>
  /\ typed = [w \in Workspaces |-> [r \in Runs |-> Empty]]
  /\ downloads = [w \in Workspaces |-> NoComments]
  /\ parted = [w \in Workspaces |-> "no"]
  /\ edits = 0 /\ sent = 0 /\ launches = 0 /\ faults = 0

ReviewNext ==
  \/ \E w \in Workspaces, r \in Runs : RunFinishes(w, r)
  \/ Kill \/ do_POST \/ Refused \/ do_GET
  \/ \E w \in Workspaces :
       Launch(w) \/ init(w) \/ Type(w) \/ TimerFires(w) \/ Navigate(w) \/ Submit(w) \/ Reopen(w)

ReviewSpec == ReviewInit /\ [][ReviewNext]_reviewVars

-----------------------------------------------------------------------------
(***************************************************************************)
(* Review Complete means what it says: when a page shows it, feedback.json *)
(* of the page's workspace, or the download, is complete and has for every *)
(* run of the page the comment as the person left it.  What can part the   *)
(* two after a submit is named: a save that came late (a timer, an arrow   *)
(* key, typing on), a server or a page of the other iteration, a failed or *)
(* interrupted write, and a page that was loaded without its comments.     *)
(***************************************************************************)
CompleteMeansSaved ==
  \A w \in Workspaces :
    /\ Open(w) /\ pages[w].done
    /\ ~\E i \in DOMAIN inbox : inbox[i].from = w
    /\ parted[w] = "no"
    => LET comments == [r \in pages[w].runs |-> typed[w][r]]
       IN \/ feedback[w] = [status |-> "complete", reviews |-> comments]
          \/ downloads[w] = comments
=============================================================================
