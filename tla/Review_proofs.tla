---------------------------- MODULE Review_proofs ----------------------------
(***************************************************************************)
(* Proofs about Review for any runs, comments, edits, launches, posts and  *)
(* failures: "Review Complete" means that the comments are in the file;    *)
(* and about Benchmark for any evals, configurations, runs and graders:    *)
(* its numbers are those of the grades that stood whole.                   *)
(***************************************************************************)
EXTENDS Benchmark, Review, FiniteSetTheorems, SequenceTheorems, WellFoundedInduction, TLAPS

-----------------------------------------------------------------------------
(* The inductive invariant *)

Words == Texts \cup {Empty}
Maps == UNION {[S -> Words] : S \in SUBSET Runs}

Posts == [from : Workspaces, submit : BOOLEAN, status : {"in_progress", "complete"}, reviews : Maps]

LoadingPages == [at : {"loading"}, runs : SUBSET Runs, previous : BOOLEAN]

OpenPages ==
  [at : {"open"}, runs : SUBSET Runs, map : Maps, run : Runs, text : Words,
   timer : BOOLEAN, done : BOOLEAN]

ReviewTypeOK ==
  /\ outputs \in [Workspaces -> SUBSET Runs]
  /\ feedback \in [Workspaces -> [status : {"none", "torn", "in_progress", "complete"}, reviews : Maps]]
  /\ server \in {NoServer} \cup [ws : Workspaces, previous : BOOLEAN]
  /\ pages \in [Workspaces -> {NoPage} \cup LoadingPages \cup OpenPages]
  /\ inbox \in Seq(Posts)
  /\ typed \in [Workspaces -> [Runs -> Words]]
  /\ downloads \in [Workspaces -> Maps]
  /\ parted \in [Workspaces -> {"no", "until_submit", "for_good"}]

\* A page shows the runs there were when it was loaded, one of them at a
\* time, and every comment is on a run that the page has.
RunsAt(w) ==
  /\ outputs[w] # {}
  /\ Written(typed[w]) \subseteq outputs[w]
  /\ pages[w] # NoPage =>
       /\ pages[w].runs # {}
       /\ pages[w].runs \subseteq outputs[w]
       /\ Written(typed[w]) \subseteq pages[w].runs
  /\ Open(w) => pages[w].run \in pages[w].runs

\* Only an open page has posts under way; a submit is about all its runs.
PostsInv ==
  \A i \in DOMAIN inbox :
    /\ Open(inbox[i].from)
    /\ inbox[i].submit => /\ inbox[i].status = "complete"
                          /\ DOMAIN inbox[i].reviews = pages[inbox[i].from].runs

\* The comment on r in a map of comments.
At(map, r) == IF r \in DOMAIN map THEN map[r] ELSE Empty
Same(map, other) == \A r \in Runs : At(map, r) = At(other, r)

\* What an open page holds, in its map and its text area, is what the person
\* wrote, unless it was loaded without the comments.
Holds(p, comments) ==
  \A r \in Runs : (IF r = p.run THEN p.text ELSE At(p.map, r)) = comments[r]

NotedAt(w) == Open(w) /\ parted[w] # "for_good" => Holds(pages[w], typed[w])

\* The last post of w under way.
LastPost(i, w) ==
  /\ i \in DOMAIN inbox /\ inbox[i].from = w
  /\ \A j \in DOMAIN inbox : inbox[j].from = w => j <= i

NoPost(w) == ~\E i \in DOMAIN inbox : inbox[i].from = w

\* Where no timer runs and no download stands in for the file, the last post,
\* or the file once it has arrived, has what the person wrote.
FileAt(w) ==
  parted[w] = "no" /\ downloads[w] = NoComments /\ ~(Open(w) /\ pages[w].timer) =>
    /\ \A i \in DOMAIN inbox : LastPost(i, w) => Same(inbox[i].reviews, typed[w])
    /\ NoPost(w) => Same(feedback[w].reviews, typed[w])

Comments(w) == [r \in pages[w].runs |-> typed[w][r]]
InFile(w) ==
  \/ feedback[w] = [status |-> "complete", reviews |-> Comments(w)]
  \/ downloads[w] = Comments(w)

\* After a submit the last post is a submit of the comments as they are, and
\* when nothing is under way the file or the download has them.
DoneAt(w) ==
  parted[w] = "no" /\ Open(w) =>
    /\ \A i \in DOMAIN inbox : Submitted(w) /\ LastPost(i, w) =>
         inbox[i].submit /\ inbox[i].reviews = Comments(w)
    /\ pages[w].done /\ NoPost(w) => InFile(w)

WorkspaceInv(w) == RunsAt(w) /\ NotedAt(w) /\ FileAt(w) /\ DoneAt(w)

SavedInv == ReviewTypeOK /\ PostsInv /\ \A w \in Workspaces : WorkspaceInv(w)

-----------------------------------------------------------------------------
(* Least and greatest elements *)

LEMMA LeastExists ==
  ASSUME NEW S \in SUBSET Nat, S # {}
  PROVE  \E x \in S : \A y \in S : x <= y
<1> DEFINE R == OpToRel(<, Nat)
<1>1. IsWellFoundedOn(R, Nat)
  BY NatLessThanWellFounded
<1>2. \E x \in S : \A y \in S : ~(<<y, x>> \in R)
  <2> HIDE DEF R
  <2> QED
    BY <1>1, WFMin
<1>3. \A x, y \in Nat : ~(<<y, x>> \in R) => x <= y
  BY DEF OpToRel
<1> QED
  BY <1>2, <1>3

LEMMA MinIsLeast ==
  ASSUME NEW S \in SUBSET Nat, S # {}
  PROVE  Min(S) \in S /\ \A y \in S : Min(S) <= y
<1>1. \E x \in S : \A y \in S : x <= y
  BY LeastExists
<1> QED
  BY <1>1 DEF Min

LEMMA MaxIsGreatest ==
  ASSUME NEW n \in Nat, NEW S \in SUBSET (1..n), S # {}
  PROVE  Max(S) \in S /\ \A y \in S : Max(S) >= y
<1> DEFINE T == {n - y : y \in S}
<1>0. \A y \in S : n - y \in Nat
  OBVIOUS
<1>1. T \in SUBSET Nat /\ T # {}
  BY <1>0
<1>2. PICK t \in T : \A u \in T : t <= u
  <2> HIDE DEF T
  <2> QED
    BY <1>1, LeastExists
<1>3. PICK x \in S : t = n - x
  BY <1>2
<1>4. \A y \in S : x >= y
  <2> SUFFICES ASSUME NEW y \in S PROVE x >= y
    OBVIOUS
  <2>1. n - x <= n - y
    BY <1>2, <1>3
  <2> QED
    BY <2>1
<1>5. \E m \in S : \A y \in S : m >= y
  BY <1>4
<1> QED
  BY <1>5 DEF Max

-----------------------------------------------------------------------------
(* Maps of comments *)

LEMMA AtNonEmpty ==
  ASSUME NEW map
  PROVE  /\ DOMAIN NonEmpty(map) = Written(map)
         /\ \A r : At(NonEmpty(map), r) = At(map, r)
BY DEF NonEmpty, Written, At

LEMMA NonEmptyType ==
  ASSUME NEW map \in Maps
  PROVE  NonEmpty(map) \in Maps
<1>1. PICK S \in SUBSET Runs : map \in [S -> Words]
  BY DEF Maps
<1>2. Written(map) \in SUBSET Runs
  BY <1>1 DEF Written
<1>3. NonEmpty(map) \in [Written(map) -> Words]
  BY <1>1 DEF NonEmpty, Written
<1> QED
  BY <1>2, <1>3 DEF Maps

\* Two maps without empty comments are equal when they say the same.
LEMMA SameIsEqual ==
  ASSUME NEW map \in Maps, NEW other \in Maps
  PROVE  NonEmpty(map) = NonEmpty(other) <=> Same(map, other)
<1>1. DOMAIN map \subseteq Runs /\ DOMAIN other \subseteq Runs
  BY DEF Maps
<1>2. ASSUME NonEmpty(map) = NonEmpty(other)
      PROVE  Same(map, other)
  <2>1. \A r : At(map, r) = At(NonEmpty(map), r) /\ At(other, r) = At(NonEmpty(other), r)
    BY AtNonEmpty
  <2> QED
    BY <1>2, <2>1 DEF Same
<1>3. ASSUME Same(map, other)
      PROVE  NonEmpty(map) = NonEmpty(other)
  <2>1. \A r \in Runs : (r \in Written(map)) <=> At(map, r) # Empty
    BY DEF Written, At
  <2>2. \A r \in Runs : (r \in Written(other)) <=> At(other, r) # Empty
    BY DEF Written, At
  <2>3. Written(map) \subseteq Runs /\ Written(other) \subseteq Runs
    BY <1>1 DEF Written
  <2>4. Written(map) = Written(other)
    BY <1>3, <2>1, <2>2, <2>3 DEF Same
  <2>5. \A r \in Written(map) : map[r] = other[r]
    BY <1>3, <2>3, <2>4 DEF Same, At, Written
  <2> QED
    BY <2>4, <2>5 DEF NonEmpty
<1> QED
  BY <1>2, <1>3

\* What a save takes over of the text area.
LEMMA NotedSays ==
  ASSUME NEW w \in Workspaces, pages[w] \in OpenPages
  PROVE  /\ Noted(w) \in Maps
         /\ \A r : At(Noted(w), r) =
                     IF r = pages[w].run THEN pages[w].text ELSE At(pages[w].map, r)
<1> DEFINE p == pages[w]
           taken == [r \in DOMAIN p.map \cup {p.run} |-> IF r = p.run THEN p.text ELSE p.map[r]]
<1>1. Noted(w) = NonEmpty(taken)
  BY DEF Noted
<1>2. PICK S \in SUBSET Runs : p.map \in [S -> Words]
  BY DEF OpenPages, Maps
<1>3. p.run \in Runs /\ p.text \in Words
  BY DEF OpenPages
<1>4. taken \in Maps
  <2>1. DOMAIN p.map \cup {p.run} \in SUBSET Runs
    BY <1>2, <1>3
  <2>2. taken \in [DOMAIN p.map \cup {p.run} -> Words]
    BY <1>2, <1>3
  <2> HIDE DEF taken
  <2> QED
    BY <2>1, <2>2 DEF Maps
<1>5. \A r : At(taken, r) = IF r = p.run THEN p.text ELSE At(p.map, r)
  BY DEF At
<1> HIDE DEF taken
<1> QED
  BY <1>1, <1>4, <1>5, AtNonEmpty, NonEmptyType

LEMMA NotedIsTyped ==
  ASSUME NEW w \in Workspaces, pages[w] \in OpenPages, typed[w] \in [Runs -> Words],
         Holds(pages[w], typed[w])
  PROVE  Same(Noted(w), typed[w])
BY NotedSays DEF Holds, Same, At

LEMMA OpenIsOpen ==
  ASSUME ReviewTypeOK, NEW w \in Workspaces
  PROVE  Open(w) <=> pages[w] \in OpenPages
BY DEF ReviewTypeOK, Open, OpenPages, LoadingPages, NoPage

LEMMA NoCommentsType == NoComments \in Maps /\ \A r : At(NoComments, r) = Empty
<1>1. NoComments \in [{} -> Words]
  BY DEF NoComments
<1> QED
  BY <1>1 DEF NoComments, Maps, At

-----------------------------------------------------------------------------
(* What steps have in common *)

LEMMA PartFacts ==
  ASSUME ReviewTypeOK, NEW ws, Part(ws)
  PROVE  /\ parted' \in [Workspaces -> {"no", "until_submit", "for_good"}]
         /\ \A w \in Workspaces :
              /\ parted'[w] = "no" <=> parted[w] = "no" /\ w \notin ws
              /\ parted'[w] = "for_good" <=> parted[w] = "for_good"
BY DEF Part, ReviewTypeOK

LEMMA PartIfFacts ==
  ASSUME ReviewTypeOK, NEW cond, NEW w, PartIf(cond, w)
  PROVE  /\ parted' \in [Workspaces -> {"no", "until_submit", "for_good"}]
         /\ \A u \in Workspaces :
              /\ parted'[u] = "no" <=> parted[u] = "no" /\ ~(cond /\ u = w)
              /\ parted'[u] = "for_good" <=> parted[u] = "for_good"
BY PartFacts DEF PartIf

LEMMA PostTyped ==
  ASSUME ReviewTypeOK, NEW i \in DOMAIN inbox
  PROVE  inbox[i] \in Posts
BY DEF ReviewTypeOK

\* A post at the end of the queue is the last one of its page.
LEMMA AppendPost ==
  ASSUME ReviewTypeOK, NEW post \in Posts, inbox' = Append(inbox, post)
  PROVE  /\ inbox' \in Seq(Posts)
         /\ DOMAIN inbox' = 1..(Len(inbox) + 1) /\ Len(inbox) + 1 \in DOMAIN inbox'
         /\ inbox'[Len(inbox) + 1] = post
         /\ \A i \in DOMAIN inbox : i \in DOMAIN inbox' /\ inbox'[i] = inbox[i]
         /\ \A i \in DOMAIN inbox' : i \in DOMAIN inbox \/ i = Len(inbox) + 1
         /\ \A i : LastPost(i, post.from)' => i = Len(inbox) + 1
         /\ ~NoPost(post.from)'
         /\ \A w : w # post.from =>
              /\ \A i : LastPost(i, w)' => LastPost(i, w)
              /\ NoPost(w)' <=> NoPost(w)
              /\ InFlight(w)' <=> InFlight(w)
         /\ InFlight(post.from)' <=> InFlight(post.from) \/ post.submit
<1>1. inbox \in Seq(Posts) /\ Len(inbox) \in Nat /\ DOMAIN inbox = 1..Len(inbox)
  BY DEF ReviewTypeOK
<1>2. /\ inbox' \in Seq(Posts)
      /\ DOMAIN inbox' = 1..(Len(inbox) + 1) /\ Len(inbox) + 1 \in DOMAIN inbox'
      /\ inbox'[Len(inbox) + 1] = post
      /\ \A i \in DOMAIN inbox : i \in DOMAIN inbox' /\ inbox'[i] = inbox[i]
      /\ \A i \in DOMAIN inbox' : i \in DOMAIN inbox \/ i = Len(inbox) + 1
  BY <1>1
<1>3. \A i : LastPost(i, post.from)' => i = Len(inbox) + 1
  BY <1>1, <1>2 DEF LastPost
<1>4. ~NoPost(post.from)'
  BY <1>2 DEF NoPost
<1>5. \A w : w # post.from =>
        /\ \A i : LastPost(i, w)' => LastPost(i, w)
        /\ NoPost(w)' <=> NoPost(w)
        /\ InFlight(w)' <=> InFlight(w)
  BY <1>1, <1>2 DEF LastPost, NoPost, InFlight
<1>6. InFlight(post.from)' <=> InFlight(post.from) \/ post.submit
  BY <1>1, <1>2 DEF InFlight
<1> QED
  BY <1>2, <1>3, <1>4, <1>5, <1>6

\* The head of the queue goes.
LEMMA TailPosts ==
  ASSUME ReviewTypeOK, inbox # <<>>, inbox' = Tail(inbox)
  PROVE  /\ inbox' \in Seq(Posts)
         /\ 1 \in DOMAIN inbox /\ Head(inbox) = inbox[1] /\ Head(inbox) \in Posts
         /\ \A i \in DOMAIN inbox' : i + 1 \in DOMAIN inbox /\ inbox'[i] = inbox[i + 1]
         /\ \A w, i : LastPost(i, w)' => LastPost(i + 1, w)
         /\ \A w : w # Head(inbox).from => (NoPost(w)' => NoPost(w))
         /\ \A w : w = Head(inbox).from => (NoPost(w)' => LastPost(1, w))
         /\ \A w : InFlight(w)' => InFlight(w)
<1>1. /\ inbox \in Seq(Posts) /\ Len(inbox) \in Nat \ {0} /\ DOMAIN inbox = 1..Len(inbox)
  BY DEF ReviewTypeOK
<1>2. /\ inbox' \in Seq(Posts)
      /\ 1 \in DOMAIN inbox /\ Head(inbox) = inbox[1] /\ Head(inbox) \in Posts
      /\ DOMAIN inbox' = 1..(Len(inbox) - 1)
      /\ \A i \in DOMAIN inbox' : i + 1 \in DOMAIN inbox /\ inbox'[i] = inbox[i + 1]
  BY <1>1
<1>3. \A j \in DOMAIN inbox : j # 1 => j - 1 \in DOMAIN inbox' /\ inbox'[j - 1] = inbox[j] /\ j - 1 \in Nat
  BY <1>1, <1>2
<1>4. ASSUME NEW w, NEW i, LastPost(i, w)'
      PROVE  LastPost(i + 1, w)
  <2>1. i \in DOMAIN inbox' /\ inbox'[i].from = w /\ i \in Nat /\ i >= 1
    BY <1>1, <1>2, <1>4 DEF LastPost
  <2>2. ASSUME NEW j \in DOMAIN inbox, inbox[j].from = w
        PROVE  j <= i + 1
    <3>1. CASE j = 1
      BY <2>1, <3>1
    <3>2. CASE j # 1
      <4>1. j - 1 <= i
        BY <1>3, <1>4, <2>2, <3>2 DEF LastPost
      <4> QED
        BY <1>1, <2>1, <4>1
    <3> QED
      BY <3>1, <3>2
  <2> QED
    BY <1>2, <2>1, <2>2 DEF LastPost
<1>5. ASSUME NEW w, NoPost(w)', NEW j \in DOMAIN inbox, inbox[j].from = w
      PROVE  j = 1
  BY <1>3, <1>5 DEF NoPost
<1>6. \A w : w # Head(inbox).from => (NoPost(w)' => NoPost(w))
  BY <1>2, <1>5 DEF NoPost
<1>7. \A w : w = Head(inbox).from => (NoPost(w)' => LastPost(1, w))
  BY <1>2, <1>5 DEF LastPost
<1>8. \A w : InFlight(w)' => InFlight(w)
  BY <1>2 DEF InFlight
<1> QED
  BY <1>2, <1>4, <1>6, <1>7, <1>8

\* A step that leaves a workspace's page, comments and file alone, and of its
\* posts takes at most the first that is followed by others, keeps what is
\* known of it.
LEMMA Untouched ==
  ASSUME NEW w \in Workspaces, WorkspaceInv(w),
         outputs[w] \subseteq outputs'[w],
         pages'[w] = pages[w], typed'[w] = typed[w], feedback'[w] = feedback[w],
         downloads'[w] = downloads[w],
         parted'[w] = "no" => parted[w] = "no",
         parted[w] = "for_good" => parted'[w] = "for_good",
         \A i \in DOMAIN inbox' : LastPost(i, w)' =>
           \E j \in DOMAIN inbox : LastPost(j, w) /\ inbox'[i] = inbox[j],
         NoPost(w)' => NoPost(w),
         InFlight(w)' => InFlight(w)
  PROVE  WorkspaceInv(w)'
<1>1. RunsAt(w)'
  BY DEF WorkspaceInv, RunsAt, Open, Written
<1>2. NotedAt(w)'
  BY DEF WorkspaceInv, NotedAt, Open, Holds, At
<1>3. FileAt(w)'
  BY DEF WorkspaceInv, FileAt, Open, Same, At
<1>4. DoneAt(w)'
  <2>1. Comments(w)' = Comments(w) /\ (Open(w)' <=> Open(w)) /\ (Submitted(w)' => Submitted(w))
    BY DEF Comments, Open, Submitted
  <2>2. InFile(w) => InFile(w)'
    BY <2>1 DEF InFile
  <2> QED
    BY <2>1, <2>2 DEF WorkspaceInv, DoneAt
<1> QED
  BY <1>1, <1>2, <1>3, <1>4 DEF WorkspaceInv

-----------------------------------------------------------------------------
(* The page's own steps.  Each is about one workspace; the others keep     *)
(* what is known of them.                                                  *)

\* A post of what an open page holds, a submit of every run of the page.
LEMMA AutosaveType ==
  ASSUME ReviewTypeOK, NEW w \in Workspaces, Open(w)
  PROVE  Autosave(w) \in Posts
BY OpenIsOpen, NotedSays DEF Autosave, Posts

LEMMA AppendOthers ==
  ASSUME SavedInv, NEW w \in Workspaces, NEW post \in Posts, post.from = w,
         inbox' = Append(inbox, post), NEW u \in Workspaces, u # w,
         NEW p, pages' = [pages EXCEPT ![w] = p],
         UNCHANGED <<outputs, feedback, typed>>,
         downloads'[u] = downloads[u],
         parted'[u] = "no" => parted[u] = "no",
         parted[u] = "for_good" => parted'[u] = "for_good"
  PROVE  WorkspaceInv(u)'
<1>1. /\ \A i : LastPost(i, u)' => LastPost(i, u)
      /\ NoPost(u)' <=> NoPost(u)
      /\ InFlight(u)' <=> InFlight(u)
      /\ \A i \in DOMAIN inbox : inbox'[i] = inbox[i]
  BY AppendPost DEF SavedInv
<1>2. \A i \in DOMAIN inbox' : LastPost(i, u)' =>
        \E j \in DOMAIN inbox : LastPost(j, u) /\ inbox'[i] = inbox[j]
  BY <1>1 DEF LastPost
<1>3. pages'[u] = pages[u]
  BY DEF SavedInv, ReviewTypeOK
<1> QED
  BY <1>1, <1>2, <1>3, Untouched DEF SavedInv

\* Posts stay those of open pages.
LEMMA AppendPosts ==
  ASSUME SavedInv, NEW w \in Workspaces, NEW post \in Posts, post.from = w,
         inbox' = Append(inbox, post), Open(w),
         NEW p \in OpenPages, p.runs = pages[w].runs, pages' = [pages EXCEPT ![w] = p],
         post.submit => post.status = "complete" /\ DOMAIN post.reviews = p.runs
  PROVE  PostsInv'
<1>1. pages'[w] = p /\ \A u \in Workspaces : u # w => pages'[u] = pages[u]
  BY DEF SavedInv, ReviewTypeOK
<1>2. p.at = "open"
  BY DEF OpenPages
<1>3. ASSUME NEW i \in DOMAIN inbox
      PROVE  inbox[i].from \in Workspaces
  <2>1. inbox[i] \in Posts
    BY PostTyped DEF SavedInv
  <2> QED
    BY <2>1 DEF Posts
<1> SUFFICES ASSUME NEW i \in DOMAIN inbox'
             PROVE  /\ Open(inbox[i].from)'
                    /\ inbox'[i].submit => /\ inbox'[i].status = "complete"
                                           /\ DOMAIN inbox'[i].reviews = pages'[inbox'[i].from].runs
  BY DEF PostsInv
<1>4. CASE i \in DOMAIN inbox
  <2>1. inbox'[i] = inbox[i]
    BY <1>4, AppendPost DEF SavedInv
  <2> QED
    BY <1>1, <1>2, <1>3, <1>4, <2>1 DEF SavedInv, PostsInv, Open
<1>5. CASE i = Len(inbox) + 1
  <2>1. inbox'[i] = post
    BY <1>5, AppendPost DEF SavedInv
  <2> QED
    BY <1>1, <1>2, <2>1 DEF Open
<1> QED
  BY <1>4, <1>5, AppendPost DEF SavedInv

\* A page that saves what it holds, on its way to another run or not.
LEMMA SaveStep ==
  ASSUME SavedInv, NEW w \in Workspaces, Open(w),
         inbox' = Append(inbox, Autosave(w)),
         NEW p \in OpenPages, p.runs = pages[w].runs, p.run \in p.runs,
         p.map = Noted(w), p.text = At(Noted(w), p.run), p.done => pages[w].done,
         pages' = [pages EXCEPT ![w] = p],
         PartIf(Submitted(w), w) \/ (~p.done /\ PartIf(InFlight(w), w)),
         UNCHANGED <<outputs, feedback, server, typed, downloads>>
  PROVE  SavedInv'
<1>1. Autosave(w) \in Posts /\ Autosave(w).from = w /\ ~Autosave(w).submit
      /\ Autosave(w).reviews = Noted(w)
  BY AutosaveType DEF SavedInv, Autosave
<1>2. pages[w] \in OpenPages /\ p.at = "open"
  BY OpenIsOpen DEF SavedInv, OpenPages
<1>3. pages'[w] = p /\ Open(w)'
  BY <1>2 DEF SavedInv, ReviewTypeOK, Open
<1>4. /\ parted' \in [Workspaces -> {"no", "until_submit", "for_good"}]
      /\ \A u \in Workspaces :
           /\ parted'[u] = "no" => parted[u] = "no"
           /\ parted'[u] = "for_good" <=> parted[u] = "for_good"
      /\ parted'[w] = "no" => ~InFlight(w) /\ ~p.done
  BY PartIfFacts DEF SavedInv, Submitted
<1>5. ReviewTypeOK'
  BY <1>1, <1>4, AppendPost DEF SavedInv, ReviewTypeOK
<1>6. PostsInv'
  BY <1>1, AppendPosts
<1>7. WorkspaceInv(w)'
  <2>1. WorkspaceInv(w)
    BY DEF SavedInv
  <2>2. RunsAt(w)'
    BY <1>2, <1>3, <2>1 DEF WorkspaceInv, RunsAt, Open, Written, OpenPages, NoPage
  <2>3. typed[w] \in [Runs -> Words]
    BY DEF SavedInv, ReviewTypeOK
  <2>4. parted[w] # "for_good" => Same(Noted(w), typed[w])
    BY <1>2, <2>1, <2>3, NotedIsTyped DEF WorkspaceInv, NotedAt
  <2>5. NotedAt(w)'
    BY <1>3, <1>4, <2>3, <2>4 DEF NotedAt, Holds, Same, At
  <2>6. FileAt(w)'
    <3>1. \A i \in DOMAIN inbox' : LastPost(i, w)' => inbox'[i].reviews = Noted(w)
      BY <1>1, AppendPost DEF SavedInv
    <3>2. ~NoPost(w)'
      BY <1>1, AppendPost DEF SavedInv
    <3> QED
      BY <1>4, <2>4, <3>1, <3>2 DEF FileAt, Same, At
  <2>7. DoneAt(w)'
    <3>1. ~NoPost(w)' /\ (InFlight(w)' <=> InFlight(w))
      BY <1>1, AppendPost DEF SavedInv
    <3> QED
      BY <1>3, <1>4, <3>1 DEF DoneAt, Submitted
  <2> QED
    BY <2>2, <2>5, <2>6, <2>7 DEF WorkspaceInv
<1>8. ASSUME NEW u \in Workspaces, u # w
      PROVE  WorkspaceInv(u)'
  <2>1. UNCHANGED <<outputs, feedback, typed>> /\ downloads'[u] = downloads[u]
    OBVIOUS
  <2>2. (parted'[u] = "no" => parted[u] = "no") /\ (parted[u] = "for_good" => parted'[u] = "for_good")
    BY <1>4
  <2> QED
    BY <1>1, <1>8, <2>1, <2>2, AppendOthers
<1> QED
  BY <1>5, <1>6, <1>7, <1>8 DEF SavedInv

LEMMA TimerFiresStep ==
  ASSUME SavedInv, NEW w \in Workspaces, TimerFires(w)
  PROVE  SavedInv'
<1> DEFINE p == [pages[w] EXCEPT !.timer = FALSE, !.map = Noted(w)]
<1>1. ReviewTypeOK /\ RunsAt(w) /\ Open(w)
  BY DEF SavedInv, WorkspaceInv, TimerFires
<1>2. pages[w] \in OpenPages
  BY <1>1, OpenIsOpen
<1>3. Noted(w) \in Maps /\ At(Noted(w), pages[w].run) = pages[w].text
  BY <1>2, NotedSays
<1>4. p \in OpenPages /\ p.map = Noted(w) /\ p.runs = pages[w].runs /\ p.run = pages[w].run
      /\ p.text = pages[w].text /\ p.done = pages[w].done
  BY <1>2, <1>3 DEF OpenPages
<1>5. pages' = [pages EXCEPT ![w] = p]
  BY DEF TimerFires
<1>6. p.run \in p.runs /\ p.text = At(Noted(w), p.run)
  BY <1>1, <1>3, <1>4 DEF RunsAt
<1>7. /\ inbox' = Append(inbox, Autosave(w))
      /\ PartIf(Submitted(w), w)
      /\ UNCHANGED <<outputs, feedback, server, typed, downloads>>
  BY DEF TimerFires
<1> HIDE DEF p
<1> QED
  BY <1>1, <1>4, <1>5, <1>6, <1>7, SaveStep

LEMMA ReopenStep ==
  ASSUME SavedInv, NEW w \in Workspaces, Reopen(w)
  PROVE  SavedInv'
<1> DEFINE p == [pages[w] EXCEPT !.done = FALSE, !.map = Noted(w)]
<1>1. ReviewTypeOK /\ RunsAt(w) /\ Open(w)
  BY DEF SavedInv, WorkspaceInv, Reopen
<1>2. pages[w] \in OpenPages
  BY <1>1, OpenIsOpen
<1>3. Noted(w) \in Maps /\ At(Noted(w), pages[w].run) = pages[w].text
  BY <1>2, NotedSays
<1>4. p \in OpenPages /\ p.map = Noted(w) /\ p.runs = pages[w].runs /\ p.run = pages[w].run
      /\ p.text = pages[w].text /\ ~p.done
  BY <1>2, <1>3 DEF OpenPages
<1>5. pages' = [pages EXCEPT ![w] = p]
  BY DEF Reopen
<1>6. p.run \in p.runs /\ p.text = At(Noted(w), p.run)
  BY <1>1, <1>3, <1>4 DEF RunsAt
<1>7. /\ inbox' = Append(inbox, Autosave(w))
      /\ PartIf(InFlight(w), w)
      /\ UNCHANGED <<outputs, feedback, server, typed, downloads>>
  BY DEF Reopen
<1> HIDE DEF p
<1> QED
  BY <1>1, <1>4, <1>5, <1>6, <1>7, SaveStep

LEMMA NavigateStep ==
  ASSUME SavedInv, NEW w \in Workspaces, Navigate(w)
  PROVE  SavedInv'
<1>1. PICK r \in Neighbours(w) : pages' = [pages EXCEPT ![w] = ShowRun(@, r, Noted(w))]
  BY DEF Navigate
<1> DEFINE p == ShowRun(pages[w], r, Noted(w))
<1>2. ReviewTypeOK /\ Open(w)
  BY DEF SavedInv, Navigate
<1>3. pages[w] \in OpenPages /\ Noted(w) \in Maps
  BY <1>2, OpenIsOpen, NotedSays
<1>4. r \in pages[w].runs /\ r \in Runs
  BY <1>3 DEF Neighbours, OpenPages
<1>5. At(Noted(w), r) \in Words
  BY <1>3 DEF At, Maps, Words
<1>6. p \in OpenPages /\ p.map = Noted(w) /\ p.runs = pages[w].runs /\ p.run = r
      /\ p.text = At(Noted(w), r) /\ p.done = pages[w].done
  BY <1>3, <1>4, <1>5 DEF OpenPages, ShowRun, At
<1>7. pages' = [pages EXCEPT ![w] = p]
  BY <1>1
<1>8. /\ inbox' = Append(inbox, Autosave(w))
      /\ PartIf(Submitted(w), w)
      /\ UNCHANGED <<outputs, feedback, server, typed, downloads>>
  BY DEF Navigate
<1> HIDE DEF p
<1> QED
  BY <1>2, <1>4, <1>6, <1>7, <1>8, SaveStep

\* A step that sends and takes nothing.
LEMMA SameInbox ==
  ASSUME inbox' = inbox
  PROVE  \A w : /\ NoPost(w)' <=> NoPost(w)
                /\ InFlight(w)' <=> InFlight(w)
                /\ \A i : LastPost(i, w)' <=> LastPost(i, w)
                /\ \A i \in DOMAIN inbox' : LastPost(i, w)' =>
                     \E j \in DOMAIN inbox : LastPost(j, w) /\ inbox'[i] = inbox[j]
BY DEF NoPost, InFlight, LastPost

LEMMA TypeStep ==
  ASSUME SavedInv, NEW w \in Workspaces, Type(w)
  PROVE  SavedInv'
<1>1. ReviewTypeOK /\ PostsInv /\ WorkspaceInv(w) /\ Open(w) /\ ~pages[w].done
  BY DEF SavedInv, Type, Idle
<1>2. pages[w] \in OpenPages
  BY <1>1, OpenIsOpen
<1>3. PICK text \in Texts \ {pages[w].text} :
        /\ pages' = [pages EXCEPT ![w].text = text, ![w].timer = TRUE]
        /\ typed' = [typed EXCEPT ![w][pages[w].run] = text]
  BY DEF Type
<1>4. /\ UNCHANGED <<outputs, feedback, server, inbox, downloads>>
      /\ PartIf(Submitted(w), w)
  BY DEF Type
<1>5. /\ parted' \in [Workspaces -> {"no", "until_submit", "for_good"}]
      /\ \A u \in Workspaces :
           /\ parted'[u] = "no" <=> parted[u] = "no" /\ ~(Submitted(w) /\ u = w)
           /\ parted'[u] = "for_good" <=> parted[u] = "for_good"
  BY <1>1, <1>4, PartIfFacts
<1>6. /\ pages'[w] \in OpenPages /\ pages'[w].text = text /\ pages'[w].timer
      /\ pages'[w].runs = pages[w].runs /\ pages'[w].run = pages[w].run
      /\ pages'[w].map = pages[w].map /\ ~pages'[w].done
      /\ pages'[w].at = "open" /\ pages'[w] # NoPage
  BY <1>1, <1>2, <1>3 DEF ReviewTypeOK, OpenPages, Words, NoPage
<1>7. \A u \in Workspaces : u # w => pages'[u] = pages[u] /\ typed'[u] = typed[u]
  BY <1>1, <1>3 DEF ReviewTypeOK
<1>8. /\ typed'[w] \in [Runs -> Words]
      /\ \A r \in Runs : typed'[w][r] = IF r = pages[w].run THEN text ELSE typed[w][r]
  BY <1>1, <1>2, <1>3 DEF ReviewTypeOK, OpenPages, Words
<1>9. ReviewTypeOK'
  <2>1. typed' \in [Workspaces -> [Runs -> Words]]
    BY <1>1, <1>3, <1>8 DEF ReviewTypeOK
  <2>2. pages' \in [Workspaces -> {NoPage} \cup LoadingPages \cup OpenPages]
    BY <1>1, <1>3, <1>6 DEF ReviewTypeOK
  <2> QED
    BY <1>1, <1>4, <1>5, <2>1, <2>2 DEF ReviewTypeOK
<1>10. PostsInv'
  <2>1. \A u \in Workspaces : (Open(u)' <=> Open(u)) /\ pages'[u].runs = pages[u].runs
    BY <1>1, <1>6, <1>7 DEF Open
  <2>2. \A i \in DOMAIN inbox : inbox[i].from \in Workspaces
    BY <1>1, PostTyped DEF Posts
  <2> QED
    BY <1>1, <1>4, <2>1, <2>2 DEF PostsInv
<1>11. WorkspaceInv(w)'
  <2>1. RunsAt(w)'
    <3>1. pages[w].run \in pages[w].runs /\ pages[w].runs \subseteq outputs[w]
          /\ pages[w].runs # {} /\ Written(typed[w]) \subseteq pages[w].runs /\ outputs[w] # {}
      BY <1>1, <1>2 DEF WorkspaceInv, RunsAt, OpenPages, NoPage
    <3>2. Written(typed'[w]) \subseteq Written(typed[w]) \cup {pages[w].run}
      <4>1. DOMAIN typed[w] = Runs
        BY <1>1 DEF ReviewTypeOK
      <4> QED
        BY <1>8, <4>1 DEF Written
    <3> QED
      BY <1>4, <1>6, <3>1, <3>2 DEF RunsAt
  <2>2. NotedAt(w)'
    BY <1>1, <1>5, <1>6, <1>8 DEF WorkspaceInv, NotedAt, Holds, At
  <2>3. FileAt(w)'
    BY <1>6 DEF FileAt, Open
  <2>4. DoneAt(w)'
    BY <1>4, <1>5, <1>6, SameInbox DEF DoneAt, Submitted
  <2> QED
    BY <2>1, <2>2, <2>3, <2>4 DEF WorkspaceInv
<1>12. ASSUME NEW u \in Workspaces, u # w
       PROVE  WorkspaceInv(u)'
  BY <1>4, <1>5, <1>7, <1>12, SameInbox, Untouched DEF SavedInv
<1> QED
  BY <1>9, <1>10, <1>11, <1>12 DEF SavedInv

LEMMA SubmitStep ==
  ASSUME SavedInv, NEW w \in Workspaces, Submit(w)
  PROVE  SavedInv'
<1> DEFINE p == [pages[w] EXCEPT !.map = Noted(w)]
           reviews == [r \in pages[w].runs |-> At(Noted(w), r)]
           post == [from |-> w, submit |-> TRUE, status |-> "complete", reviews |-> reviews]
<1>1. ReviewTypeOK /\ WorkspaceInv(w) /\ Open(w) /\ ~pages[w].done
  BY DEF SavedInv, Submit, Idle
<1>2. pages[w] \in OpenPages
  BY <1>1, OpenIsOpen
<1>3. Noted(w) \in Maps /\ At(Noted(w), pages[w].run) = pages[w].text
  BY <1>2, NotedSays
<1>4. /\ inbox' = Append(inbox, post) /\ pages' = [pages EXCEPT ![w] = p]
      /\ downloads' = [downloads EXCEPT ![w] = NoComments]
      /\ parted' = [parted EXCEPT ![w] = IF @ = "for_good" THEN @ ELSE "no"]
      /\ UNCHANGED <<outputs, feedback, server, typed>>
  BY DEF Submit, At
<1>5. p \in OpenPages /\ p.map = Noted(w) /\ p.runs = pages[w].runs /\ p.run = pages[w].run
      /\ p.text = pages[w].text /\ ~p.done /\ p.at = "open" /\ p # NoPage
  BY <1>1, <1>2, <1>3 DEF OpenPages, NoPage
<1>6. reviews \in Maps
  <2>1. \A r : At(Noted(w), r) \in Words
    BY <1>3 DEF At, Maps, Words
  <2>2. pages[w].runs \in SUBSET Runs
    BY <1>2 DEF OpenPages
  <2>3. reviews \in [pages[w].runs -> Words]
    BY <2>1
  <2> HIDE DEF reviews
  <2> QED
    BY <2>2, <2>3 DEF Maps
<1>7. DOMAIN reviews = pages[w].runs /\ \A r \in pages[w].runs : reviews[r] = At(Noted(w), r)
  OBVIOUS
<1> HIDE DEF reviews, p
<1>8. post \in Posts
  BY <1>6 DEF Posts
<1>9. post.from = w /\ post.submit /\ post.status = "complete" /\ post.reviews = reviews
  OBVIOUS
<1> HIDE DEF post
<1>10. pages'[w] = p /\ Open(w)' /\ downloads'[w] = NoComments
  BY <1>1, <1>4, <1>5 DEF ReviewTypeOK, Open
<1>11. /\ parted' \in [Workspaces -> {"no", "until_submit", "for_good"}]
       /\ parted'[w] = "no" => parted[w] # "for_good"
       /\ parted'[w] = "for_good" <=> parted[w] = "for_good"
       /\ \A u \in Workspaces : u # w => parted'[u] = parted[u] /\ downloads'[u] = downloads[u]
  BY <1>1, <1>4 DEF ReviewTypeOK
<1>12. ReviewTypeOK'
  <2>1. downloads' \in [Workspaces -> Maps]
    BY <1>1, <1>4, NoCommentsType DEF ReviewTypeOK
  <2>2. pages' \in [Workspaces -> {NoPage} \cup LoadingPages \cup OpenPages]
    BY <1>1, <1>4, <1>5 DEF ReviewTypeOK
  <2> QED
    BY <1>1, <1>4, <1>8, <1>11, <2>1, <2>2, AppendPost DEF ReviewTypeOK
<1>13. PostsInv'
  BY <1>1, <1>4, <1>5, <1>7, <1>8, <1>9, AppendPosts
<1>14. WorkspaceInv(w)'
  <2>1. RunsAt(w)'
    BY <1>1, <1>2, <1>4, <1>5, <1>10 DEF WorkspaceInv, RunsAt, Open, Written, OpenPages, NoPage
  <2>2. typed[w] \in [Runs -> Words]
    BY <1>1 DEF ReviewTypeOK
  <2>3. parted[w] # "for_good" => Same(Noted(w), typed[w])
    BY <1>1, <1>2, <2>2, NotedIsTyped DEF WorkspaceInv, NotedAt
  <2>4. NotedAt(w)'
    BY <1>3, <1>4, <1>5, <1>10, <1>11, <2>2, <2>3 DEF NotedAt, Holds, Same, At
  <2>5. /\ \A i \in DOMAIN inbox' : LastPost(i, w)' => inbox'[i] = post
        /\ ~NoPost(w)'
    BY <1>1, <1>4, <1>8, <1>9, AppendPost
  <2>6. Written(typed[w]) \subseteq pages[w].runs /\ pages[w].runs \subseteq Runs
    BY <1>1, <1>2 DEF WorkspaceInv, RunsAt, OpenPages, NoPage
  <2>7. parted[w] # "for_good" =>
          Same(reviews, typed[w]) /\ reviews = [r \in pages[w].runs |-> typed[w][r]]
    <3> SUFFICES ASSUME parted[w] # "for_good"
                 PROVE  Same(reviews, typed[w]) /\ reviews = [r \in pages[w].runs |-> typed[w][r]]
      OBVIOUS
    <3>1. \A r \in pages[w].runs : reviews[r] = typed[w][r]
      BY <1>7, <2>2, <2>3, <2>6 DEF Same, At
    <3>2. \A r \in Runs \ pages[w].runs : typed[w][r] = Empty
      BY <2>2, <2>6 DEF Written
    <3>3. Same(reviews, typed[w])
      BY <1>7, <2>2, <3>1, <3>2 DEF Same, At
    <3>4. reviews = [r \in pages[w].runs |-> At(Noted(w), r)]
      BY DEF reviews
    <3>5. reviews = [r \in pages[w].runs |-> typed[w][r]]
      BY <1>7, <3>1, <3>4
    <3> QED
      BY <3>3, <3>5
  <2>8. FileAt(w)'
    BY <1>4, <1>9, <1>11, <2>5, <2>7 DEF FileAt, Same, At
  <2>9. DoneAt(w)'
    BY <1>4, <1>5, <1>9, <1>10, <1>11, <2>5, <2>7 DEF DoneAt, Comments
  <2> QED
    BY <2>1, <2>4, <2>8, <2>9 DEF WorkspaceInv
<1>15. ASSUME NEW u \in Workspaces, u # w
       PROVE  WorkspaceInv(u)'
  BY <1>4, <1>8, <1>9, <1>11, <1>15, AppendOthers
<1> QED
  BY <1>12, <1>13, <1>14, <1>15 DEF SavedInv

-----------------------------------------------------------------------------
(* The steps of the runs and of the server *)

LEMMA ServerServes ==
  ASSUME ReviewTypeOK
  PROVE  server # NoServer => server.ws \in Workspaces /\ server.previous \in BOOLEAN
BY DEF ReviewTypeOK

LEMMA RunFinishesStep ==
  ASSUME SavedInv, NEW v \in Workspaces, NEW r \in Runs, RunFinishes(v, r)
  PROVE  SavedInv'
<1>1. /\ outputs' = [outputs EXCEPT ![v] = @ \cup {r}]
      /\ UNCHANGED <<feedback, server, pages, inbox, typed, downloads, parted>>
  BY DEF RunFinishes
<1>2. ReviewTypeOK'
  BY <1>1 DEF SavedInv, ReviewTypeOK
<1>3. PostsInv'
  BY <1>1 DEF SavedInv, PostsInv, Open
<1>4. ASSUME NEW w \in Workspaces
      PROVE  WorkspaceInv(w)'
  <2>1. outputs[w] \subseteq outputs'[w]
    BY <1>1 DEF SavedInv, ReviewTypeOK
  <2> QED
    BY <1>1, <2>1, SameInbox, Untouched DEF SavedInv
<1> QED
  BY <1>2, <1>3, <1>4 DEF SavedInv

LEMMA LaunchStep ==
  ASSUME SavedInv, NEW v \in Workspaces, Launch(v)
  PROVE  SavedInv'
<1>1. /\ server' = [ws |-> v, previous |-> HasPrevious(v)]
      /\ UNCHANGED <<outputs, feedback, pages, inbox, typed, downloads, parted>>
  BY DEF Launch
<1>2. HasPrevious(v) \in BOOLEAN
  BY DEF HasPrevious
<1>3. ReviewTypeOK'
  BY <1>1, <1>2 DEF SavedInv, ReviewTypeOK
<1>4. PostsInv'
  BY <1>1 DEF SavedInv, PostsInv, Open
<1>5. ASSUME NEW w \in Workspaces
      PROVE  WorkspaceInv(w)'
  BY <1>1, SameInbox, Untouched DEF SavedInv
<1> QED
  BY <1>3, <1>4, <1>5 DEF SavedInv

LEMMA DoGetStep ==
  ASSUME SavedInv, do_GET
  PROVE  SavedInv'
<1>0. PICK w \in Workspaces : w = server.ws
  BY ServerServes DEF SavedInv, do_GET
<1> DEFINE p == [at |-> "loading", runs |-> find_runs(w), previous |-> server.previous]
<1>1. ReviewTypeOK /\ server.previous \in BOOLEAN /\ WorkspaceInv(w)
  BY ServerServes DEF SavedInv, do_GET
<1>2. /\ inbox = <<>> /\ pages' = [pages EXCEPT ![w] = p]
      /\ PartIf(Open(w) /\ pages[w].timer, w)
      /\ UNCHANGED <<outputs, feedback, server, inbox, typed, downloads>>
  BY <1>0 DEF do_GET
<1>3. p \in LoadingPages /\ p.runs = outputs[w] /\ p.at = "loading"
  BY <1>1 DEF LoadingPages, ReviewTypeOK, find_runs
<1> HIDE DEF p
<1>4. pages'[w] = p /\ ~Open(w)' /\ \A u \in Workspaces : u # w => pages'[u] = pages[u]
  BY <1>1, <1>2, <1>3 DEF ReviewTypeOK, Open
<1>5. /\ parted' \in [Workspaces -> {"no", "until_submit", "for_good"}]
      /\ \A u \in Workspaces :
           /\ parted'[u] = "no" <=> parted[u] = "no" /\ ~(Open(w) /\ pages[w].timer /\ u = w)
           /\ parted'[u] = "for_good" <=> parted[u] = "for_good"
  BY <1>1, <1>2, PartIfFacts
<1>6. ReviewTypeOK'
  <2>1. pages' \in [Workspaces -> {NoPage} \cup LoadingPages \cup OpenPages]
    BY <1>1, <1>2, <1>3 DEF ReviewTypeOK
  <2> QED
    BY <1>1, <1>2, <1>5, <2>1 DEF ReviewTypeOK
<1>7. DOMAIN inbox' = {}
  BY <1>2
<1>8. PostsInv'
  BY <1>7 DEF PostsInv
<1>9. WorkspaceInv(w)'
  <2>1. RunsAt(w)'
    BY <1>1, <1>2, <1>3, <1>4 DEF WorkspaceInv, RunsAt
  <2>2. NotedAt(w)' /\ DoneAt(w)'
    BY <1>4 DEF NotedAt, DoneAt
  <2>3. FileAt(w)'
    BY <1>1, <1>2, <1>5, <1>7, SameInbox DEF WorkspaceInv, FileAt, Same, At
  <2> QED
    BY <2>1, <2>2, <2>3 DEF WorkspaceInv
<1>10. ASSUME NEW u \in Workspaces, u # w
       PROVE  WorkspaceInv(u)'
  BY <1>2, <1>4, <1>5, <1>10, SameInbox, Untouched DEF SavedInv
<1> QED
  BY <1>6, <1>8, <1>9, <1>10 DEF SavedInv

LEMMA InitStep ==
  ASSUME SavedInv, NEW w \in Workspaces, init(w)
  PROVE  SavedInv'
<1> DEFINE saved == IF pages[w].previous \/ server = NoServer THEN NoComments
                    ELSE NonEmpty(feedback[server.ws].reviews)
           first == Min(pages[w].runs)
           p == [at |-> "open", runs |-> pages[w].runs, map |-> saved, run |-> first,
                 text |-> IF first \in DOMAIN saved THEN saved[first] ELSE Empty,
                 timer |-> FALSE, done |-> FALSE]
           bare == /\ \/ pages[w].previous \/ server.ws # w
                      \/ parted[w] # "no" \/ downloads[w] # NoComments
                   /\ saved # NonEmpty(typed[w])
<1>1. /\ pages' = [pages EXCEPT ![w] = p]
      /\ parted' = IF bare THEN [parted EXCEPT ![w] = "for_good"] ELSE parted
      /\ UNCHANGED <<outputs, feedback, server, inbox, typed, downloads>>
      /\ pages[w].at = "loading"
  BY DEF init
<1>2. ReviewTypeOK /\ WorkspaceInv(w) /\ ~Open(w) /\ pages[w] # NoPage
  BY <1>1 DEF SavedInv, Open, NoPage
<1>3. pages[w] \in LoadingPages
  BY <1>1, <1>2 DEF ReviewTypeOK, NoPage, OpenPages
<1>4. pages[w].runs \subseteq Runs /\ pages[w].runs # {} /\ pages[w].runs \subseteq outputs[w]
      /\ Written(typed[w]) \subseteq pages[w].runs /\ outputs[w] # {}
  BY <1>2, <1>3 DEF LoadingPages, WorkspaceInv, RunsAt
<1>5. first \in pages[w].runs /\ first \in Runs
  BY <1>4, MinIsLeast, ReviewAssumption
<1>6. saved \in Maps
  <2>1. CASE pages[w].previous \/ server = NoServer
    BY <2>1, NoCommentsType
  <2>2. CASE ~(pages[w].previous \/ server = NoServer)
    <3>1. feedback[server.ws].reviews \in Maps
      BY <1>2, <2>2, ServerServes DEF ReviewTypeOK
    <3> QED
      BY <2>2, <3>1, NonEmptyType
  <2> QED
    BY <2>1, <2>2
<1>7. saved # NonEmpty(typed[w]) => bare \/
        (/\ server.ws = w /\ parted[w] = "no" /\ downloads[w] = NoComments
         /\ saved = NonEmpty(feedback[w].reviews))
  BY DEF NoServer, Workspaces
<1> HIDE DEF saved, first
<1>8. At(saved, first) \in Words
  BY <1>6 DEF At, Maps, Words
<1>9. p \in OpenPages /\ p.at = "open" /\ p.runs = pages[w].runs /\ p.map = saved /\ p.run = first
      /\ p.text = At(saved, first) /\ ~p.timer /\ ~p.done
  BY <1>4, <1>5, <1>6, <1>8 DEF OpenPages, At
<1> HIDE DEF p, bare
<1>10. pages'[w] = p /\ Open(w)' /\ \A u \in Workspaces : u # w => pages'[u] = pages[u]
  BY <1>1, <1>2, <1>9 DEF ReviewTypeOK, Open
<1>11. /\ parted' \in [Workspaces -> {"no", "until_submit", "for_good"}]
       /\ \A u \in Workspaces : u # w => parted'[u] = parted[u]
       /\ parted'[w] = "no" => parted[w] = "no"
       /\ bare => parted'[w] = "for_good"
  BY <1>1, <1>2 DEF ReviewTypeOK
<1>12. ReviewTypeOK'
  <2>1. pages' \in [Workspaces -> {NoPage} \cup LoadingPages \cup OpenPages]
    BY <1>1, <1>2, <1>9 DEF ReviewTypeOK
  <2> QED
    BY <1>1, <1>2, <1>11, <2>1 DEF ReviewTypeOK
<1>13. NoPost(w)
  BY <1>2 DEF SavedInv, PostsInv, NoPost
<1>14. PostsInv'
  <2>1. \A i \in DOMAIN inbox : inbox[i].from \in Workspaces /\ inbox[i].from # w
    BY <1>2, <1>13, PostTyped DEF NoPost, Posts
  <2> QED
    BY <1>1, <1>10, <2>1 DEF SavedInv, PostsInv, Open
<1>15. WorkspaceInv(w)'
  <2>1. RunsAt(w)'
    BY <1>1, <1>4, <1>5, <1>9, <1>10 DEF RunsAt
  <2>2. typed[w] \in [Runs -> Words] /\ typed[w] \in Maps /\ feedback[w].reviews \in Maps
    BY <1>2 DEF ReviewTypeOK, Maps
  <2>3. ~bare => Same(saved, typed[w])
    <3>1. CASE saved = NonEmpty(typed[w])
      BY <3>1, AtNonEmpty DEF Same
    <3>2. CASE ~bare /\ saved # NonEmpty(typed[w])
      <4>1. Same(feedback[w].reviews, typed[w])
        BY <1>2, <1>7, <1>13, <3>2 DEF WorkspaceInv, FileAt
      <4> QED
        BY <1>7, <2>2, <3>2, <4>1, SameIsEqual
    <3> QED
      BY <3>1, <3>2
  <2>4. NotedAt(w)'
    <3>1. ~bare => \A r \in Runs : At(saved, r) = typed[w][r]
      BY <2>2, <2>3 DEF Same, At
    <3> QED
      BY <1>1, <1>5, <1>9, <1>10, <1>11, <3>1 DEF NotedAt, Holds
  <2>5. FileAt(w)'
    BY <1>1, <1>2, <1>11, SameInbox DEF WorkspaceInv, FileAt, Same, At
  <2>6. DoneAt(w)'
    BY <1>1, <1>9, <1>10, <1>13 DEF DoneAt, NoPost, LastPost
  <2> QED
    BY <2>1, <2>4, <2>5, <2>6 DEF WorkspaceInv
<1>16. ASSUME NEW u \in Workspaces, u # w
       PROVE  WorkspaceInv(u)'
  BY <1>1, <1>10, <1>11, <1>16, SameInbox, Untouched DEF SavedInv
<1> QED
  BY <1>12, <1>14, <1>15, <1>16 DEF SavedInv

\* The dialog of a page comes up: everything else about the page stays.
DialogUp(w) == pages'[w] = pages[w] \/ (Open(w) /\ pages'[w] = [pages[w] EXCEPT !.done = TRUE])

LEMMA DialogFacts ==
  ASSUME ReviewTypeOK, NEW w \in Workspaces, DialogUp(w)
  PROVE  /\ pages'[w] \in {NoPage} \cup LoadingPages \cup OpenPages
         /\ Open(w)' <=> Open(w)
         /\ pages'[w] = NoPage <=> pages[w] = NoPage
         /\ pages'[w].runs = pages[w].runs
         /\ Open(w) => /\ pages'[w].run = pages[w].run /\ pages'[w].map = pages[w].map
                       /\ pages'[w].text = pages[w].text /\ pages'[w].timer = pages[w].timer
<1>1. CASE pages'[w] = pages[w]
  BY <1>1 DEF ReviewTypeOK, Open
<1>2. CASE Open(w) /\ pages'[w] = [pages[w] EXCEPT !.done = TRUE]
  BY <1>2, OpenIsOpen DEF OpenPages, Open, NoPage
<1> QED
  BY <1>1, <1>2 DEF DialogUp

LEMMA DialogKeeps ==
  ASSUME SavedInv, NEW w \in Workspaces, DialogUp(w),
         UNCHANGED <<outputs, typed>>, parted[w] = "for_good" => parted'[w] = "for_good"
  PROVE  RunsAt(w)' /\ NotedAt(w)'
<1>1. WorkspaceInv(w) /\ ReviewTypeOK
  BY DEF SavedInv
<1>2. RunsAt(w)'
  BY <1>1, DialogFacts DEF WorkspaceInv, RunsAt, Written
<1>3. NotedAt(w)'
  BY <1>1, DialogFacts DEF WorkspaceInv, NotedAt, Holds, At
<1> QED
  BY <1>2, <1>3

\* Where comments and file have parted, nothing more is promised.
LEMMA PartedStep ==
  ASSUME SavedInv, NEW w \in Workspaces, DialogUp(w),
         UNCHANGED <<outputs, typed>>, parted[w] = "for_good" => parted'[w] = "for_good",
         parted'[w] # "no"
  PROVE  WorkspaceInv(w)'
BY DialogKeeps DEF WorkspaceInv, FileAt, DoneAt

\* The answer reaches the page that posted; what a post submits is in flight
\* until then.
LEMMA AnswerFacts ==
  ASSUME SavedInv, NEW post \in Posts, inbox # <<>>, post = Head(inbox),
         pages' = Answer(post), inbox' = Tail(inbox)
  PROVE  /\ pages' \in [Workspaces -> {NoPage} \cup LoadingPages \cup OpenPages]
         /\ \A w \in Workspaces : DialogUp(w) /\ (w # post.from => pages'[w] = pages[w])
         /\ PostsInv'
         /\ \A w \in Workspaces : Submitted(w)' => Submitted(w)
<1>1. ReviewTypeOK /\ PostsInv /\ post.from \in Workspaces
  BY DEF SavedInv, Posts
<1>2. 1 \in DOMAIN inbox /\ post = inbox[1]
  BY <1>1, TailPosts
<1>3. Open(post.from) /\ pages[post.from] \in OpenPages
  BY <1>1, <1>2, OpenIsOpen DEF PostsInv
<1>4. \A w \in Workspaces : DialogUp(w) /\ (w # post.from => pages'[w] = pages[w])
  BY <1>1, <1>3 DEF Answer, DialogUp, ReviewTypeOK
<1>5. pages' \in [Workspaces -> {NoPage} \cup LoadingPages \cup OpenPages]
  <2>1. DOMAIN pages' = Workspaces /\ pages' = [w \in Workspaces |-> pages'[w]]
    BY <1>1 DEF Answer, ReviewTypeOK
  <2>2. \A w \in Workspaces : pages'[w] \in {NoPage} \cup LoadingPages \cup OpenPages
    BY <1>1, <1>4, DialogFacts
  <2> QED
    BY <2>1, <2>2
<1>6. PostsInv'
  <2>1. \A w \in Workspaces : (Open(w)' <=> Open(w)) /\ pages'[w].runs = pages[w].runs
    BY <1>1, <1>4, DialogFacts
  <2>2. \A i \in DOMAIN inbox : inbox[i].from \in Workspaces
    BY <1>1, PostTyped DEF Posts
  <2>3. \A i \in DOMAIN inbox' : i + 1 \in DOMAIN inbox /\ inbox'[i] = inbox[i + 1]
    BY <1>1, TailPosts
  <2> QED
    BY <1>1, <2>1, <2>2, <2>3 DEF PostsInv
<1>7. ASSUME NEW w \in Workspaces, Submitted(w)'
      PROVE  Submitted(w)
  <2>1. CASE InFlight(w)'
    BY <1>1, <2>1, TailPosts DEF Submitted
  <2>2. CASE pages'[w].done /\ pages'[w] = pages[w]
    BY <2>2 DEF Submitted
  <2>3. CASE pages'[w].done /\ pages'[w] # pages[w]
    <3>1. w = post.from /\ post.submit
      BY <1>4, <2>3 DEF Answer
    <3> QED
      BY <1>2, <3>1 DEF Submitted, InFlight
  <2> QED
    BY <1>7, <2>1, <2>2, <2>3 DEF Submitted
<1> QED
  BY <1>4, <1>5, <1>6, <1>7

LEMMA TailKeeps ==
  ASSUME SavedInv, inbox # <<>>, inbox' = Tail(inbox),
         NEW w \in Workspaces, w # Head(inbox).from,
         pages'[w] = pages[w], feedback'[w] = feedback[w],
         UNCHANGED <<outputs, typed, downloads>>,
         parted'[w] = "no" => parted[w] = "no",
         parted[w] = "for_good" => parted'[w] = "for_good"
  PROVE  WorkspaceInv(w)'
<1>1. /\ \A i \in DOMAIN inbox' : i + 1 \in DOMAIN inbox /\ inbox'[i] = inbox[i + 1]
      /\ \A i : LastPost(i, w)' => LastPost(i + 1, w)
      /\ NoPost(w)' => NoPost(w)
      /\ InFlight(w)' => InFlight(w)
  BY TailPosts DEF SavedInv
<1>2. \A i \in DOMAIN inbox' : LastPost(i, w)' =>
        \E j \in DOMAIN inbox : LastPost(j, w) /\ inbox'[i] = inbox[j]
  BY <1>1
<1>3. WorkspaceInv(w) /\ outputs[w] \subseteq outputs'[w] /\ typed'[w] = typed[w]
      /\ downloads'[w] = downloads[w]
  BY DEF SavedInv
<1> QED
  BY <1>1, <1>2, <1>3, Untouched

LEMMA DoPostStep ==
  ASSUME SavedInv, do_POST
  PROVE  SavedInv'
<1>0. PICK s \in Workspaces : s = server.ws
  BY ServerServes DEF SavedInv, do_POST
<1>1. PICK post \in Posts : post = Head(inbox)
  BY TailPosts DEF SavedInv, do_POST
<1>2. /\ inbox # <<>> /\ inbox' = Tail(inbox) /\ pages' = Answer(post)
      /\ UNCHANGED <<outputs, server, typed, downloads>>
  BY <1>1 DEF do_POST
<1>3. ReviewTypeOK /\ PostsInv /\ post.from \in Workspaces
  BY DEF SavedInv, Posts
<1>4. /\ pages' \in [Workspaces -> {NoPage} \cup LoadingPages \cup OpenPages]
      /\ \A w \in Workspaces : DialogUp(w) /\ (w # post.from => pages'[w] = pages[w])
      /\ PostsInv'
      /\ \A w \in Workspaces : Submitted(w)' => Submitted(w)
  BY <1>1, <1>2, AnswerFacts
<1>5. ASSUME feedback' = [feedback EXCEPT ![s] = [status |-> post.status, reviews |-> post.reviews]],
             Part(IF post.from = s THEN {} ELSE Workspaces)
      PROVE  SavedInv'
  <2>1. /\ parted' \in [Workspaces -> {"no", "until_submit", "for_good"}]
        /\ \A w \in Workspaces :
             /\ parted'[w] = "no" <=> parted[w] = "no" /\ w \notin (IF post.from = s THEN {} ELSE Workspaces)
             /\ parted'[w] = "for_good" <=> parted[w] = "for_good"
    BY <1>3, <1>5, PartFacts
  <2>2. /\ feedback'[s] = [status |-> post.status, reviews |-> post.reviews]
        /\ \A w \in Workspaces : w # s => feedback'[w] = feedback[w]
    BY <1>3, <1>5 DEF ReviewTypeOK
  <2>3. ReviewTypeOK'
    <3>1. feedback' \in [Workspaces -> [status : {"none", "torn", "in_progress", "complete"}, reviews : Maps]]
      BY <1>3, <1>5 DEF ReviewTypeOK, Posts
    <3> QED
      BY <1>2, <1>3, <1>4, <2>1, <3>1, TailPosts DEF ReviewTypeOK
  <2>4. CASE post.from # s
    BY <1>2, <1>4, <2>1, <2>3, <2>4, PartedStep DEF SavedInv
  <2>5. CASE post.from = s
    <3>1. ASSUME NEW w \in Workspaces, w # s
          PROVE  WorkspaceInv(w)'
      <4>1. feedback'[w] = feedback[w] /\ pages'[w] = pages[w] /\ w # Head(inbox).from
        BY <1>1, <1>4, <2>2, <2>5, <3>1
      <4>2. (parted'[w] = "no" => parted[w] = "no") /\ (parted[w] = "for_good" => parted'[w] = "for_good")
        BY <2>1, <3>1
      <4> QED
        BY <1>2, <4>1, <4>2, TailKeeps
    <3>2. WorkspaceInv(s)'
      <4>1. RunsAt(s)' /\ NotedAt(s)'
        BY <1>2, <1>4, <2>1, DialogKeeps
      <4>2. WorkspaceInv(s) /\ (parted'[s] = "no" <=> parted[s] = "no")
        BY <2>1, <2>5 DEF SavedInv
      <4>3. (Open(s)' <=> Open(s)) /\ (Open(s) => pages'[s].timer = pages[s].timer)
            /\ pages'[s].runs = pages[s].runs
        BY <1>3, <1>4, DialogFacts
      <4>4. /\ \A i \in DOMAIN inbox' : i + 1 \in DOMAIN inbox /\ inbox'[i] = inbox[i + 1]
            /\ \A i : LastPost(i, s)' => LastPost(i + 1, s)
            /\ NoPost(s)' => LastPost(1, s)
            /\ 1 \in DOMAIN inbox /\ inbox[1] = post
        BY <1>1, <1>2, <1>3, <2>5, TailPosts
      <4>5. FileAt(s)'
        BY <1>2, <2>2, <4>2, <4>3, <4>4 DEF WorkspaceInv, FileAt, Same, At
      <4>6. DoneAt(s)'
        <5>1. Comments(s)' = Comments(s)
          BY <1>2, <4>3 DEF Comments
        <5>2. ASSUME parted'[s] = "no", Open(s)', NEW i \in DOMAIN inbox', Submitted(s)', LastPost(i, s)'
              PROVE  inbox'[i].submit /\ inbox'[i].reviews = Comments(s)'
          BY <1>4, <4>2, <4>3, <4>4, <5>1, <5>2 DEF WorkspaceInv, DoneAt
        <5>3. ASSUME parted'[s] = "no", Open(s)', pages'[s].done, NoPost(s)'
              PROVE  InFile(s)'
          <6>1. Submitted(s) /\ LastPost(1, s)
            BY <1>4, <4>4, <5>3 DEF Submitted
          <6>2. post.submit /\ post.reviews = Comments(s)
            BY <4>2, <4>3, <4>4, <5>3, <6>1 DEF WorkspaceInv, DoneAt
          <6>3. post.status = "complete"
            BY <1>3, <4>4, <6>2 DEF PostsInv
          <6> QED
            BY <2>2, <5>1, <6>2, <6>3 DEF InFile
        <5> QED
          BY <5>2, <5>3 DEF DoneAt
      <4> QED
        BY <4>1, <4>5, <4>6 DEF WorkspaceInv
    <3> QED
      BY <1>4, <2>3, <3>1, <3>2 DEF SavedInv
  <2> QED
    BY <2>4, <2>5
<1>6. ASSUME NEW file \in {feedback[s], TornFile}, feedback' = [feedback EXCEPT ![s] = file],
             Part({post.from, s})
      PROVE  SavedInv'
  <2>1. /\ parted' \in [Workspaces -> {"no", "until_submit", "for_good"}]
        /\ \A w \in Workspaces :
             /\ parted'[w] = "no" <=> parted[w] = "no" /\ w \notin {post.from, s}
             /\ parted'[w] = "for_good" <=> parted[w] = "for_good"
    BY <1>3, <1>6, PartFacts
  <2>2. ReviewTypeOK'
    <3>1. file \in [status : {"none", "torn", "in_progress", "complete"}, reviews : Maps]
      BY <1>3, <1>6, NoCommentsType DEF ReviewTypeOK, TornFile
    <3>2. feedback' \in [Workspaces -> [status : {"none", "torn", "in_progress", "complete"}, reviews : Maps]]
      BY <1>3, <1>6, <3>1 DEF ReviewTypeOK
    <3> QED
      BY <1>2, <1>3, <1>4, <2>1, <3>2, TailPosts DEF ReviewTypeOK
  <2>3. ASSUME NEW w \in Workspaces
        PROVE  WorkspaceInv(w)'
    <3>1. CASE w \in {post.from, s}
      BY <1>2, <1>4, <2>1, <3>1, PartedStep
    <3>2. CASE w \notin {post.from, s}
      <4>1. feedback'[w] = feedback[w]
        BY <1>3, <1>6, <3>2 DEF ReviewTypeOK
      <4> QED
        BY <1>1, <1>2, <1>4, <2>1, <3>2, <4>1, TailKeeps
    <3> QED
      BY <3>1, <3>2
  <2> QED
    BY <1>4, <2>2, <2>3 DEF SavedInv
<1> QED
  BY <1>0, <1>1, <1>5, <1>6 DEF do_POST

LEMMA LastExists ==
  ASSUME ReviewTypeOK, NEW w, ~NoPost(w)
  PROVE  \E i \in DOMAIN inbox : LastPost(i, w)
<1> DEFINE S == {i \in DOMAIN inbox : inbox[i].from = w}
<1>1. Len(inbox) \in Nat /\ DOMAIN inbox = 1..Len(inbox)
  BY DEF ReviewTypeOK
<1>2. S \in SUBSET (1..Len(inbox)) /\ S # {}
  BY <1>1 DEF NoPost
<1>3. Max(S) \in S /\ \A j \in S : Max(S) >= j
  <2> HIDE DEF S
  <2> QED
    BY <1>1, <1>2, MaxIsGreatest
<1> QED
  BY <1>1, <1>3 DEF LastPost

\* Posts that are never answered, taken from the front of the queue: all of
\* them, or the first.
Gone(posts) ==
  /\ inbox # <<>>
  /\ \/ posts = inbox /\ inbox' = <<>>
     \/ posts = <<Head(inbox)>> /\ inbox' = Tail(inbox)

LEMMA GoneFacts ==
  ASSUME ReviewTypeOK, NEW posts, Gone(posts)
  PROVE  /\ inbox' \in Seq(Posts)
         /\ \A i \in DOMAIN posts : i \in DOMAIN inbox /\ posts[i] = inbox[i]
         /\ DOMAIN posts \subseteq 1..Len(inbox) /\ Len(inbox) \in Nat
         /\ \A i \in DOMAIN inbox' : \E j \in DOMAIN inbox : inbox'[i] = inbox[j]
         /\ \A w : \A i \in DOMAIN inbox' : LastPost(i, w)' =>
              \E j \in DOMAIN inbox : LastPost(j, w) /\ inbox'[i] = inbox[j]
         /\ \A w, i : NoPost(w)' /\ LastPost(i, w) => i \in DOMAIN posts
         /\ \A w : InFlight(w)' => InFlight(w)
<1>1. inbox \in Seq(Posts) /\ Len(inbox) \in Nat /\ DOMAIN inbox = 1..Len(inbox)
  BY DEF ReviewTypeOK
<1>2. CASE posts = inbox /\ inbox' = <<>>
  <2>1. DOMAIN inbox' = {} /\ inbox' \in Seq(Posts)
    BY <1>2
  <2> QED
    BY <1>1, <1>2, <2>1 DEF LastPost, InFlight
<1>3. CASE posts = <<Head(inbox)>> /\ inbox' = Tail(inbox) /\ inbox # <<>>
  <2>1. /\ inbox' \in Seq(Posts)
        /\ 1 \in DOMAIN inbox /\ Head(inbox) = inbox[1]
        /\ \A i \in DOMAIN inbox' : i + 1 \in DOMAIN inbox /\ inbox'[i] = inbox[i + 1]
        /\ \A w, i : LastPost(i, w)' => LastPost(i + 1, w)
        /\ \A w : w # Head(inbox).from => (NoPost(w)' => NoPost(w))
        /\ \A w : w = Head(inbox).from => (NoPost(w)' => LastPost(1, w))
        /\ \A w : InFlight(w)' => InFlight(w)
    BY <1>3, TailPosts
  <2>2. DOMAIN posts = {1} /\ posts[1] = inbox[1]
    BY <1>3, <2>1
  <2>3. ASSUME NEW w, NEW i, NoPost(w)', LastPost(i, w)
        PROVE  i = 1
    <3>0. ~NoPost(w)
      BY <2>3 DEF NoPost, LastPost
    <3>1. w = Head(inbox).from
      BY <2>1, <2>3, <3>0
    <3>2. LastPost(1, w)
      BY <2>1, <2>3, <3>1
    <3>3. i <= 1 /\ 1 <= i
      BY <2>3, <3>2 DEF LastPost
    <3> QED
      BY <1>1, <2>3, <3>3 DEF LastPost
  <2> QED
    BY <1>1, <2>1, <2>2, <2>3
<1> QED
  BY <1>2, <1>3 DEF Gone

\* The page of an unanswered submit offers the comments for download.
LEMMA UnansweredStep ==
  ASSUME SavedInv, NEW posts, Gone(posts), Unanswered(posts),
         NEW ws, Part(ws), Unsaved(posts) \subseteq ws,
         \A w \in Workspaces \ ws : feedback'[w] = feedback[w],
         UNCHANGED <<outputs, typed>>
  PROVE  /\ pages' \in [Workspaces -> {NoPage} \cup LoadingPages \cup OpenPages]
         /\ downloads' \in [Workspaces -> Maps]
         /\ PostsInv'
         /\ \A w \in Workspaces : WorkspaceInv(w)'
<1> DEFINE lost(w) == {i \in DOMAIN posts : posts[i].from = w /\ posts[i].submit}
<1>1. ReviewTypeOK /\ PostsInv
  BY DEF SavedInv
<1>2. /\ pages' = [w \in Workspaces |-> IF lost(w) = {} THEN pages[w]
                                        ELSE [pages[w] EXCEPT !.done = TRUE]]
      /\ downloads' = [w \in Workspaces |-> IF lost(w) = {} THEN downloads[w]
                                            ELSE posts[Max(lost(w))].reviews]
  BY DEF Unanswered
<1>3. \A i \in DOMAIN posts : i \in DOMAIN inbox /\ posts[i] = inbox[i]
  BY <1>1, GoneFacts
<1>4. \A w \in Workspaces : lost(w) # {} => Open(w)
  BY <1>1, <1>3 DEF PostsInv
<1>5. \A w \in Workspaces :
        lost(w) # {} => /\ Max(lost(w)) \in lost(w)
                        /\ \A i \in lost(w) : Max(lost(w)) >= i
  <2> SUFFICES ASSUME NEW w \in Workspaces, lost(w) # {}
               PROVE  Max(lost(w)) \in lost(w) /\ \A i \in lost(w) : Max(lost(w)) >= i
    OBVIOUS
  <2>1. lost(w) \in SUBSET (1..Len(inbox)) /\ Len(inbox) \in Nat
    BY <1>1, GoneFacts
  <2> HIDE DEF lost
  <2> QED
    BY <2>1, MaxIsGreatest
<1>6. \A w \in Workspaces : \A i \in lost(w) : i \in DOMAIN inbox /\ posts[i] = inbox[i]
                                               /\ inbox[i].from = w /\ inbox[i].submit
  BY <1>3
<1>7. \A w \in Workspaces : \A i \in DOMAIN posts : inbox[i].from = w /\ inbox[i].submit => i \in lost(w)
  BY <1>3
<1>8. \A w \in Workspaces \ ws : \A i \in DOMAIN posts : inbox[i].from = w => i \in lost(w)
  BY <1>3, <1>7 DEF Unsaved
<1> HIDE DEF lost
<1>9. \A w \in Workspaces : DialogUp(w)
  BY <1>2, <1>4 DEF DialogUp
<1>10. pages' \in [Workspaces -> {NoPage} \cup LoadingPages \cup OpenPages]
  <2>1. \A w \in Workspaces : pages'[w] \in {NoPage} \cup LoadingPages \cup OpenPages
    BY <1>1, <1>9, DialogFacts
  <2>2. pages' = [w \in Workspaces |-> pages'[w]]
    BY <1>2
  <2> QED
    BY <2>1, <2>2
<1>11. downloads' \in [Workspaces -> Maps]
  <2>1. \A i \in DOMAIN inbox : inbox[i].reviews \in Maps
    BY <1>1, PostTyped DEF Posts
  <2>2. ASSUME NEW w \in Workspaces
        PROVE  downloads'[w] \in Maps
    <3>1. CASE lost(w) = {}
      BY <1>1, <1>2, <3>1 DEF ReviewTypeOK
    <3>2. CASE lost(w) # {}
      <4> DEFINE m == Max(lost(w))
      <4>1. m \in DOMAIN inbox /\ posts[m] = inbox[m]
        BY <1>5, <1>6, <3>2
      <4>2. downloads'[w] = posts[m].reviews
        BY <1>2, <3>2
      <4> QED
        BY <2>1, <4>1, <4>2
    <3> QED
      BY <3>1, <3>2
  <2>3. downloads' = [w \in Workspaces |-> downloads'[w]]
    BY <1>2
  <2> QED
    BY <2>2, <2>3
<1>12. PostsInv'
  <2>1. \A w \in Workspaces : (Open(w)' <=> Open(w)) /\ pages'[w].runs = pages[w].runs
    BY <1>1, <1>9, DialogFacts
  <2>2. \A i \in DOMAIN inbox : inbox[i].from \in Workspaces
    BY <1>1, PostTyped DEF Posts
  <2>3. \A i \in DOMAIN inbox' : \E j \in DOMAIN inbox : inbox'[i] = inbox[j]
    BY <1>1, GoneFacts
  <2> QED
    BY <1>1, <2>1, <2>2, <2>3 DEF PostsInv
<1>13. ASSUME NEW w \in Workspaces
       PROVE  WorkspaceInv(w)'
  <2>1. /\ parted'[w] = "no" <=> parted[w] = "no" /\ w \notin ws
        /\ parted'[w] = "for_good" <=> parted[w] = "for_good"
    BY <1>1, PartFacts
  <2>2. CASE w \in ws
    BY <1>9, <2>1, <2>2, PartedStep
  <2>3. CASE w \notin ws /\ lost(w) = {}
    <3>1. pages'[w] = pages[w] /\ downloads'[w] = downloads[w] /\ feedback'[w] = feedback[w]
      BY <1>2, <2>3
    <3>2. NoPost(w)' => NoPost(w)
      BY <1>1, <1>8, <2>3, LastExists, GoneFacts DEF LastPost
    <3>3. /\ \A i \in DOMAIN inbox' : LastPost(i, w)' =>
               \E j \in DOMAIN inbox : LastPost(j, w) /\ inbox'[i] = inbox[j]
          /\ InFlight(w)' => InFlight(w)
      BY <1>1, GoneFacts
    <3> QED
      BY <2>1, <3>1, <3>2, <3>3, Untouched DEF SavedInv
  <2>4. CASE w \notin ws /\ lost(w) # {}
    <3> DEFINE m == Max(lost(w))
    <3>1. m \in lost(w) /\ \A i \in lost(w) : m >= i
      BY <1>5, <2>4
    <3>2. m \in DOMAIN inbox /\ posts[m] = inbox[m] /\ inbox[m].from = w /\ inbox[m].submit
      BY <1>6, <3>1
    <3>3. Open(w) /\ Submitted(w) /\ pages[w].runs # {}
          /\ DOMAIN inbox[m].reviews = pages[w].runs
      BY <1>1, <3>2 DEF PostsInv, Submitted, InFlight, SavedInv, WorkspaceInv, RunsAt, Open, NoPage
    <3>4. downloads'[w] = inbox[m].reviews
      BY <1>2, <2>4, <3>2
    <3>5. downloads'[w] # NoComments
      BY <3>3, <3>4 DEF NoComments
    <3>6. RunsAt(w)' /\ NotedAt(w)'
      BY <1>9, <2>1, DialogKeeps
    <3>7. FileAt(w)'
      BY <3>5 DEF FileAt
    <3>8. Comments(w)' = Comments(w) /\ Open(w)
      BY <1>1, <1>9, <3>3, DialogFacts DEF Comments
    <3>9. ASSUME parted'[w] = "no", NEW i \in DOMAIN inbox', LastPost(i, w)'
          PROVE  inbox'[i].submit /\ inbox'[i].reviews = Comments(w)'
      <4>1. PICK j \in DOMAIN inbox : LastPost(j, w) /\ inbox'[i] = inbox[j]
        BY <1>1, <3>9, GoneFacts
      <4> QED
        BY <2>1, <3>3, <3>8, <3>9, <4>1 DEF SavedInv, WorkspaceInv, DoneAt
    <3>10. ASSUME parted'[w] = "no", NoPost(w)'
           PROVE  InFile(w)'
      <4>1. PICK j \in DOMAIN inbox : LastPost(j, w)
        BY <1>1, <3>2, LastExists DEF NoPost
      <4>2. j \in lost(w)
        BY <1>1, <1>8, <2>4, <3>10, <4>1, GoneFacts DEF LastPost
      <4>3. j <= m /\ m <= j
        BY <3>1, <3>2, <4>1, <4>2 DEF LastPost
      <4>4. j = m
        <5>1. j \in Nat /\ m \in Nat
          BY <1>1, <3>2, <4>1 DEF ReviewTypeOK
        <5> QED
          BY <4>3, <5>1
      <4>5. inbox[m].reviews = Comments(w)
        BY <2>1, <3>3, <3>10, <4>1, <4>4 DEF SavedInv, WorkspaceInv, DoneAt
      <4> QED
        BY <3>4, <3>8, <4>5 DEF InFile
    <3>11. DoneAt(w)'
      BY <3>9, <3>10 DEF DoneAt
    <3> QED
      BY <3>6, <3>7, <3>11 DEF WorkspaceInv
  <2> QED
    BY <2>2, <2>3, <2>4
<1> QED
  BY <1>10, <1>11, <1>12, <1>13

LEMMA RefusedStep ==
  ASSUME SavedInv, Refused
  PROVE  SavedInv'
<1> DEFINE posts == <<Head(inbox)>>
<1>1. /\ inbox # <<>> /\ inbox' = Tail(inbox)
      /\ Unanswered(posts) /\ Part(Unsaved(posts))
      /\ UNCHANGED <<outputs, feedback, server, typed>>
  BY DEF Refused
<1>2. Gone(posts)
  BY <1>1 DEF Gone
<1> HIDE DEF posts
<1>3. /\ pages' \in [Workspaces -> {NoPage} \cup LoadingPages \cup OpenPages]
      /\ downloads' \in [Workspaces -> Maps]
      /\ PostsInv'
      /\ \A w \in Workspaces : WorkspaceInv(w)'
  BY <1>1, <1>2, UnansweredStep
<1>4. ReviewTypeOK'
  BY <1>1, <1>2, <1>3, GoneFacts, PartFacts DEF SavedInv, ReviewTypeOK
<1> QED
  BY <1>3, <1>4 DEF SavedInv

LEMMA KillStep ==
  ASSUME SavedInv, Kill
  PROVE  SavedInv'
<1>1. /\ inbox' = <<>> /\ server' = NoServer
      /\ UNCHANGED <<outputs, typed>>
  BY DEF Kill
<1>2. PICK s \in Workspaces : s = server.ws
  BY ServerServes DEF SavedInv, Kill
<1>3. ReviewTypeOK /\ PostsInv
  BY DEF SavedInv
<1>4. ASSUME inbox = <<>>, Unanswered(inbox), Part(Unsaved(inbox)), UNCHANGED feedback
      PROVE  SavedInv'
  <2>1. DOMAIN inbox = {} /\ Unsaved(inbox) = {}
    BY <1>4 DEF Unsaved
  <2>2. pages' = [w \in Workspaces |-> pages[w]] /\ downloads' = [w \in Workspaces |-> downloads[w]]
    BY <1>4, <2>1 DEF Unanswered
  <2>3. pages' = pages /\ downloads' = downloads /\ inbox' = inbox
    BY <1>1, <1>3, <1>4, <2>2 DEF ReviewTypeOK
  <2>4. /\ parted' \in [Workspaces -> {"no", "until_submit", "for_good"}]
        /\ \A w \in Workspaces :
             /\ parted'[w] = "no" <=> parted[w] = "no"
             /\ parted'[w] = "for_good" <=> parted[w] = "for_good"
    BY <1>3, <1>4, <2>1, PartFacts
  <2>5. ReviewTypeOK'
    BY <1>1, <1>3, <1>4, <2>3, <2>4 DEF ReviewTypeOK
  <2>6. PostsInv'
    BY <1>3, <2>3 DEF PostsInv, Open
  <2>7. ASSUME NEW w \in Workspaces
        PROVE  WorkspaceInv(w)'
    BY <1>1, <1>4, <2>3, <2>4, SameInbox, Untouched DEF SavedInv
  <2> QED
    BY <2>5, <2>6, <2>7 DEF SavedInv
<1>5. ASSUME inbox # <<>>, Unanswered(inbox), NEW ws, Part(ws), Unsaved(inbox) \subseteq ws,
             feedback' \in [Workspaces -> [status : {"none", "torn", "in_progress", "complete"}, reviews : Maps]],
             \A w \in Workspaces \ ws : feedback'[w] = feedback[w]
      PROVE  SavedInv'
  <2>1. Gone(inbox)
    BY <1>1, <1>5 DEF Gone
  <2>2. /\ pages' \in [Workspaces -> {NoPage} \cup LoadingPages \cup OpenPages]
        /\ downloads' \in [Workspaces -> Maps]
        /\ PostsInv'
        /\ \A w \in Workspaces : WorkspaceInv(w)'
    BY <1>1, <1>5, <2>1, UnansweredStep
  <2>3. ReviewTypeOK'
    BY <1>1, <1>3, <1>5, <2>1, <2>2, GoneFacts, PartFacts DEF ReviewTypeOK
  <2> QED
    BY <2>2, <2>3 DEF SavedInv
<1>6. CASE Unanswered(inbox) /\ Part(Unsaved(inbox)) /\ UNCHANGED feedback
  <2>1. feedback' \in [Workspaces -> [status : {"none", "torn", "in_progress", "complete"}, reviews : Maps]]
    BY <1>3, <1>6 DEF ReviewTypeOK
  <2> QED
    BY <1>4, <1>5, <1>6, <2>1
<1>7. ASSUME inbox # <<>>, Unanswered(inbox), Part({s} \cup Unsaved(inbox)),
             NEW file \in {TornFile, [status |-> inbox[1].status, reviews |-> inbox[1].reviews]},
             feedback' = [feedback EXCEPT ![s] = file]
      PROVE  SavedInv'
  <2>1. inbox[1] \in Posts
    BY <1>3, <1>7 DEF ReviewTypeOK
  <2>2. file \in [status : {"none", "torn", "in_progress", "complete"}, reviews : Maps]
    BY <1>7, <2>1, NoCommentsType DEF TornFile, Posts
  <2>3. /\ feedback' \in [Workspaces -> [status : {"none", "torn", "in_progress", "complete"}, reviews : Maps]]
        /\ \A w \in Workspaces \ ({s} \cup Unsaved(inbox)) : feedback'[w] = feedback[w]
    BY <1>3, <1>7, <2>2 DEF ReviewTypeOK
  <2> QED
    BY <1>5, <1>7, <2>3
<1>8. ASSUME pages' = [w \in Workspaces |-> NoPage], Part(Workspaces), UNCHANGED <<feedback, downloads>>
      PROVE  SavedInv'
  <2>1. /\ parted' \in [Workspaces -> {"no", "until_submit", "for_good"}]
        /\ \A w \in Workspaces : parted'[w] # "no"
    BY <1>3, <1>8, PartFacts
  <2>2. \A w \in Workspaces : pages'[w] = NoPage /\ ~Open(w)'
    BY <1>8 DEF Open, NoPage
  <2>3. ReviewTypeOK'
    BY <1>1, <1>3, <1>8, <2>1 DEF ReviewTypeOK
  <2>4. PostsInv'
    BY <1>1 DEF PostsInv
  <2>5. ASSUME NEW w \in Workspaces
        PROVE  WorkspaceInv(w)'
    <3>1. RunsAt(w)'
      BY <1>1, <2>2 DEF SavedInv, WorkspaceInv, RunsAt
    <3> QED
      BY <2>1, <2>2, <3>1 DEF WorkspaceInv, NotedAt, FileAt, DoneAt
  <2> QED
    BY <2>3, <2>4, <2>5 DEF SavedInv
<1> QED
  BY <1>2, <1>6, <1>7, <1>8 DEF Kill

-----------------------------------------------------------------------------
(* The theorem *)

LEMMA SavedInvInit == ReviewInit => SavedInv
<1> SUFFICES ASSUME ReviewInit
             PROVE  SavedInv
  OBVIOUS
<1>1. Min(Runs) \in Runs
  BY MinIsLeast, ReviewAssumption
<1>2. Empty \in Words /\ NoComments \in Maps
  BY NoCommentsType DEF Words
<1>3. inbox = <<>> /\ inbox \in Seq(Posts) /\ DOMAIN inbox = {}
  BY DEF ReviewInit
<1>4. ReviewTypeOK
  BY <1>1, <1>2, <1>3 DEF ReviewInit, ReviewTypeOK, NoFile
<1>5. PostsInv
  BY <1>3 DEF PostsInv
<1>6. ASSUME NEW w \in Workspaces
      PROVE  WorkspaceInv(w)
  <2>1. pages[w] = NoPage /\ ~Open(w)
    BY DEF ReviewInit, Open, NoPage
  <2>2. RunsAt(w)
    BY <2>1 DEF ReviewInit, RunsAt, Written
  <2>3. FileAt(w)
    <3>1. \A r \in Runs : At(feedback[w].reviews, r) = Empty /\ At(typed[w], r) = Empty
      BY NoCommentsType DEF ReviewInit, NoFile, At
    <3> QED
      BY <1>3, <3>1 DEF FileAt, Same
  <2> QED
    BY <2>1, <2>2, <2>3 DEF WorkspaceInv, NotedAt, DoneAt
<1> QED
  BY <1>4, <1>5, <1>6 DEF SavedInv

LEMMA SavedInvNext == SavedInv /\ [ReviewNext]_reviewVars => SavedInv'
<1> SUFFICES ASSUME SavedInv, [ReviewNext]_reviewVars
             PROVE  SavedInv'
  OBVIOUS
<1>1. CASE \E w \in Workspaces, r \in Runs : RunFinishes(w, r)
  BY <1>1, RunFinishesStep
<1>2. CASE Kill
  BY <1>2, KillStep
<1>3. CASE do_POST
  BY <1>3, DoPostStep
<1>4. CASE Refused
  BY <1>4, RefusedStep
<1>5. CASE do_GET
  BY <1>5, DoGetStep
<1>6. ASSUME NEW w \in Workspaces,
             \/ Launch(w) \/ init(w) \/ Type(w) \/ TimerFires(w) \/ Navigate(w) \/ Submit(w) \/ Reopen(w)
      PROVE  SavedInv'
  BY <1>6, LaunchStep, InitStep, TypeStep, TimerFiresStep, NavigateStep, SubmitStep, ReopenStep
<1>7. CASE UNCHANGED reviewVars
  <2>1. UNCHANGED <<outputs, feedback, server, pages, inbox, typed, downloads, parted>>
    BY <1>7 DEF reviewVars
  <2>2. ReviewTypeOK'
    BY <2>1 DEF SavedInv, ReviewTypeOK
  <2>3. PostsInv'
    BY <2>1 DEF SavedInv, PostsInv, Open
  <2>4. ASSUME NEW w \in Workspaces
        PROVE  WorkspaceInv(w)'
    BY <2>1, SameInbox, Untouched DEF SavedInv
  <2> QED
    BY <2>2, <2>3, <2>4 DEF SavedInv
<1> QED
  BY <1>1, <1>2, <1>3, <1>4, <1>5, <1>6, <1>7 DEF ReviewNext

\* "Review Complete" is what the page of generate_review.py shows after a
\* submit (showDoneDialog).  Whatever the person types, submits and goes back
\* to, however often viewers are launched, killed and refused, and in whatever
\* order the posts arrive: where nothing that CompleteMeansSaved names has
\* parted them, the file or the download has every comment as it was left.
THEOREM CompleteAlwaysSaved == ReviewSpec => []CompleteMeansSaved
<1>1. SavedInv => CompleteMeansSaved
  BY DEF SavedInv, WorkspaceInv, DoneAt, InFile, Comments, NoPost, CompleteMeansSaved
<1> QED
  BY <1>1, SavedInvInit, SavedInvNext, PTL DEF ReviewSpec

-----------------------------------------------------------------------------
(* Benchmark: sums over finite sets, by induction over their subsets       *)

\* Induction over the subsets of a finite set, without an operator parameter.
LEMMA SubsetInduction ==
  ASSUME NEW S, IsFiniteSet(S), NEW G,
         \A T \in SUBSET S : (\A U \in SUBSET T : U # T => U \in G) => T \in G
  PROVE  SUBSET S \subseteq G
<1> DEFINE R == StrictSubsetOrdering(S)
           B == (SUBSET S) \ G
<1>1. IsWellFoundedOn(R, SUBSET S)
  BY FS_StrictSubsetOrderingWellFounded, FS_FiniteSubsetsOfFinite
<1> SUFFICES ASSUME B # {} PROVE FALSE
  OBVIOUS
<1>2. B \subseteq SUBSET S
  OBVIOUS
<1>3. \E T \in B : \A U \in B : ~ (<<U, T>> \in R)
  <2> HIDE DEF B, R
  <2> QED BY <1>1, <1>2, WFMin
<1>4. PICK T \in B : \A U \in B : ~ (<<U, T>> \in R)
  BY <1>3
<1>5. \A U \in SUBSET T : U # T => U \in G
  BY <1>4 DEF StrictSubsetOrdering
<1> QED BY <1>4, <1>5

\* What the fold behind SumFunctionOnSet picks first of a set.
First(s) == CHOOSE x \in s : TRUE

Sums(f, S, g) ==
  g = [s \in SUBSET S |-> IF s = {} THEN 0 ELSE f[First(s)] + g[s \ {First(s)}]]

LEMMA SumIsFold ==
  ASSUME NEW f, NEW S
  PROVE  SumFunctionOnSet(f, S) = (CHOOSE g : Sums(f, S, g))[S]
BY DEF SumFunctionOnSet, FoldFunctionOnSet, MapThenFoldSet, Sums, First

LEMMA SumsAgree ==
  ASSUME NEW f, NEW S, NEW T, IsFiniteSet(S), T \subseteq S,
         NEW g, NEW h, Sums(f, S, g), Sums(f, T, h)
  PROVE  \A s \in SUBSET T : g[s] = h[s]
<1> DEFINE G == {s \in SUBSET T : g[s] = h[s]}
<1>1. IsFiniteSet(T)
  BY FS_Subset
<1>2. ASSUME NEW s \in SUBSET T, \A U \in SUBSET s : U # s => U \in G
      PROVE  s \in G
  <2>1. CASE s = {}
    BY <2>1 DEF Sums
  <2>2. CASE s # {}
    <3>1. First(s) \in s
      BY <2>2 DEF First
    <3>2. s \ {First(s)} \in G
      BY <1>2, <3>1
    <3>3. g[s \ {First(s)}] = h[s \ {First(s)}]
      BY <3>2
    <3>4. g[s] = f[First(s)] + g[s \ {First(s)}]
      BY <2>2 DEF Sums
    <3>5. h[s] = f[First(s)] + h[s \ {First(s)}]
      BY <2>2 DEF Sums
    <3> QED BY <3>3, <3>4, <3>5
  <2> QED BY <2>1, <2>2
<1>3. SUBSET T \subseteq G
  <2> HIDE DEF G
  <2> QED BY <1>1, <1>2, SubsetInduction
<1> QED BY <1>3

LEMMA SumsExist ==
  ASSUME NEW f, NEW S, IsFiniteSet(S)
  PROVE  \E g : Sums(f, S, g)
<1> DEFINE The(s) == CHOOSE g : Sums(f, s, g)
           V(s) == The(s)[s]
           G == {s \in SUBSET S : \E g : Sums(f, s, g)}
<1>1. ASSUME NEW T \in SUBSET S, \A U \in SUBSET T : U # T => U \in G
      PROVE  T \in G
  <2>1. ASSUME NEW s \in SUBSET T, s # T
        PROVE  V(s) = IF s = {} THEN 0 ELSE f[First(s)] + V(s \ {First(s)})
    <3>1. Sums(f, s, The(s))
      BY <1>1, <2>1
    <3>2. CASE s = {}
      BY <3>1, <3>2 DEF Sums
    <3>3. CASE s # {}
      <4>1. First(s) \in s
        BY <3>3 DEF First
      <4>2. s \ {First(s)} \in SUBSET T /\ s \ {First(s)} # T
        BY <2>1
      <4>3. Sums(f, s \ {First(s)}, The(s \ {First(s)}))
        BY <1>1, <4>2
      <4>4. V(s) = f[First(s)] + The(s)[s \ {First(s)}]
        BY <3>1, <3>3 DEF Sums
      <4>5. IsFiniteSet(s)
        BY FS_Subset
      <4> DEFINE rest == s \ {First(s)}
      <4> HIDE DEF The
      <4>6. rest \subseteq s /\ rest \in SUBSET rest
        OBVIOUS
      <4> HIDE DEF rest
      <4>7. \A u \in SUBSET rest : The(s)[u] = The(rest)[u]
        BY <3>1, <4>3, <4>5, <4>6, SumsAgree DEF rest
      <4>8. The(s)[rest] = The(rest)[rest]
        BY <4>6, <4>7
      <4> QED BY <3>3, <4>4, <4>8 DEF rest
    <3> QED BY <3>2, <3>3
  <2> HIDE DEF V
  <2> DEFINE h == [s \in SUBSET T |-> IF s # T THEN V(s)
                                      ELSE IF T = {} THEN 0 ELSE f[First(T)] + V(T \ {First(T)})]
  <2>2. ASSUME NEW s \in SUBSET T
        PROVE  h[s] = IF s = {} THEN 0 ELSE f[First(s)] + h[s \ {First(s)}]
    <3>1. CASE s = {}
      BY <3>1, <2>1
    <3>2. CASE s # {}
      <4>1. First(s) \in s
        BY <3>2 DEF First
      <4>2. s \ {First(s)} \in SUBSET T /\ s \ {First(s)} # T
        BY <4>1
      <4>3. h[s \ {First(s)}] = V(s \ {First(s)})
        BY <4>2
      <4>4. h[s] = f[First(s)] + V(s \ {First(s)})
        BY <3>2, <2>1
      <4> QED BY <3>2, <4>3, <4>4
    <3> QED BY <3>1, <3>2
  <2>3. Sums(f, T, h)
    BY <2>2 DEF Sums
  <2> QED BY <2>3
<1>2. SUBSET S \subseteq G
  <2> HIDE DEF G
  <2> QED BY <1>1, SubsetInduction
<1> QED BY <1>2

\* A set's sum is an element and the sum of the rest, as the fold takes it.
LEMMA SumUnfolds ==
  ASSUME NEW f, NEW T, IsFiniteSet(T)
  PROVE  SumFunctionOnSet(f, T) =
           IF T = {} THEN 0 ELSE f[First(T)] + SumFunctionOnSet(f, T \ {First(T)})
<1> DEFINE The(s) == CHOOSE g : Sums(f, s, g)
<1>1. \A s : IsFiniteSet(s) => Sums(f, s, The(s))
  BY SumsExist
<1>2. \A s : SumFunctionOnSet(f, s) = The(s)[s]
  BY SumIsFold
<1> HIDE DEF The
<1>3. CASE T = {}
  BY <1>1, <1>2, <1>3 DEF Sums
<1>4. CASE T # {}
  <2> DEFINE U == T \ {First(T)}
  <2>1. Sums(f, T, The(T)) /\ Sums(f, U, The(U))
    BY <1>1, FS_Subset
  <2>2. U \subseteq T /\ U \in SUBSET U
    OBVIOUS
  <2> HIDE DEF U
  <2>3. The(T)[U] = The(U)[U]
    <3>1. \A s \in SUBSET U : The(T)[s] = The(U)[s]
      BY <2>1, <2>2, SumsAgree
    <3> QED BY <2>2, <3>1
  <2>4. The(T)[T] = f[First(T)] + The(T)[U]
    BY <1>4, <2>1 DEF Sums, U
  <2> QED BY <1>2, <1>4, <2>3, <2>4 DEF U
<1> QED BY <1>3, <1>4

LEMMA SumType ==
  ASSUME NEW S, IsFiniteSet(S), NEW f \in [S -> Nat], NEW T \in SUBSET S
  PROVE  SumFunctionOnSet(f, T) \in Nat
<1>0. SumFunctionOnSet(f, {}) = 0
  BY SumUnfolds, FS_EmptySet
<1> DEFINE G == {s \in SUBSET S : SumFunctionOnSet(f, s) \in Nat}
<1>1. ASSUME NEW s \in SUBSET S, \A U \in SUBSET s : U # s => U \in G
      PROVE  s \in G
  <2>1. CASE s = {}
    BY <1>0, <2>1
  <2>2. CASE s # {}
    <3>1. First(s) \in s
      BY <2>2 DEF First
    <3>2. SumFunctionOnSet(f, s \ {First(s)}) \in Nat
      BY <1>1, <3>1
    <3>3. SumFunctionOnSet(f, s) = f[First(s)] + SumFunctionOnSet(f, s \ {First(s)})
      BY <2>2, SumUnfolds, FS_Subset
    <3> QED BY <3>1, <3>2, <3>3
  <2> QED BY <2>1, <2>2
<1>2. SUBSET S \subseteq G
  <2> HIDE DEF G
  <2> QED BY <1>1, SubsetInduction
<1> QED BY <1>2

\* Any element may be taken first.
LEMMA SumSplits ==
  ASSUME NEW S, IsFiniteSet(S), NEW f \in [S -> Nat], NEW T \in SUBSET S, NEW x \in T
  PROVE  SumFunctionOnSet(f, T) = f[x] + SumFunctionOnSet(f, T \ {x})
<1> DEFINE G == {s \in SUBSET S : \A y \in s : SumFunctionOnSet(f, s) = f[y] + SumFunctionOnSet(f, s \ {y})}
<1>1. ASSUME NEW s \in SUBSET S, \A U \in SUBSET s : U # s => U \in G
      PROVE  s \in G
  <2> SUFFICES ASSUME NEW y \in s
               PROVE  SumFunctionOnSet(f, s) = f[y] + SumFunctionOnSet(f, s \ {y})
    OBVIOUS
  <2> DEFINE p == First(s)
  <2>1. p \in s
    BY DEF First
  <2>2. SumFunctionOnSet(f, s) = f[p] + SumFunctionOnSet(f, s \ {p})
    BY SumUnfolds, FS_Subset
  <2> HIDE DEF p
  <2>3. CASE y = p
    BY <2>2, <2>3
  <2>4. CASE y # p
    <3>1. SumFunctionOnSet(f, s \ {p}) = f[y] + SumFunctionOnSet(f, (s \ {p}) \ {y})
      BY <1>1, <2>1, <2>4
    <3>2. SumFunctionOnSet(f, s \ {y}) = f[p] + SumFunctionOnSet(f, (s \ {y}) \ {p})
      BY <1>1, <2>1, <2>4
    <3>3. (s \ {p}) \ {y} = (s \ {y}) \ {p}
      OBVIOUS
    <3>4. PICK rest \in Nat : rest = SumFunctionOnSet(f, (s \ {y}) \ {p})
      BY SumType
    <3>5. f[y] \in Nat /\ f[p] \in Nat
      BY <2>1
    <3>6. f[p] + (f[y] + rest) = f[y] + (f[p] + rest)
      BY <3>5
    <3> QED BY <2>2, <3>1, <3>2, <3>3, <3>4, <3>6
  <2> QED BY <2>3, <2>4
<1>2. SUBSET S \subseteq G
  <2> HIDE DEF G
  <2> QED BY <1>1, SubsetInduction
<1> QED BY <1>2

\* A sum depends on the values at the elements alone.
LEMMA SumSame ==
  ASSUME NEW S, IsFiniteSet(S), NEW f, NEW g, \A x \in S : f[x] = g[x]
  PROVE  SumFunctionOnSet(f, S) = SumFunctionOnSet(g, S)
<1> DEFINE G == {s \in SUBSET S : SumFunctionOnSet(f, s) = SumFunctionOnSet(g, s)}
<1>1. ASSUME NEW s \in SUBSET S, \A U \in SUBSET s : U # s => U \in G
      PROVE  s \in G
  <2>1. CASE s = {}
    BY <2>1, SumUnfolds, FS_EmptySet
  <2>2. CASE s # {}
    <3>1. First(s) \in s
      BY <2>2 DEF First
    <3>2. SumFunctionOnSet(f, s \ {First(s)}) = SumFunctionOnSet(g, s \ {First(s)})
      BY <1>1, <3>1
    <3>3. SumFunctionOnSet(f, s) = f[First(s)] + SumFunctionOnSet(f, s \ {First(s)})
      BY <2>2, SumUnfolds, FS_Subset
    <3>4. SumFunctionOnSet(g, s) = g[First(s)] + SumFunctionOnSet(g, s \ {First(s)})
      BY <2>2, SumUnfolds, FS_Subset
    <3> QED BY <3>1, <3>2, <3>3, <3>4
  <2> QED BY <2>1, <2>2
<1>2. SUBSET S \subseteq G
  <2> HIDE DEF G
  <2> QED BY <1>1, SubsetInduction
<1> QED BY <1>2

-----------------------------------------------------------------------------
(* The first of a set of run directories *)

LEMMA SlotShape ==
  ASSUME NEW s \in Slots
  PROVE  s[1] \in Evals /\ s[2] \in 1..NumConfigs /\ s[3] \in RunNumbers /\ s = <<s[1], s[2], s[3]>>
BY DEF Slots

LEMMA ForemostIs ==
  ASSUME NEW T \in SUBSET Slots, T # {}
  PROVE  /\ Foremost(T) \in T
         /\ \A t \in T : t = Foremost(T) \/ Before(Foremost(T), t)
<1>0. \A s \in T : /\ s[1] \in Nat /\ s[2] \in Nat /\ s[3] \in Nat
                   /\ s = <<s[1], s[2], s[3]>>
  BY SlotShape, BenchmarkAssumption
<1> DEFINE E == {s[1] : s \in T}
<1>1. PICK e \in E : \A y \in E : e <= y
  <2>1. E \in SUBSET Nat /\ E # {}
    BY <1>0
  <2> HIDE DEF E
  <2> QED
    BY <2>1, LeastExists
<1> DEFINE T1 == {s \in T : s[1] = e}
           C == {s[2] : s \in T1}
<1>2. PICK c \in C : \A y \in C : c <= y
  <2>1. C \in SUBSET Nat /\ C # {}
    BY <1>0, <1>1
  <2> HIDE DEF C
  <2> QED
    BY <2>1, LeastExists
<1> DEFINE T2 == {s \in T1 : s[2] = c}
           R == {s[3] : s \in T2}
<1>3. PICK r \in R : \A y \in R : r <= y
  <2>1. R \in SUBSET Nat /\ R # {}
    BY <1>0, <1>2
  <2> HIDE DEF R
  <2> QED
    BY <2>1, LeastExists
<1>4. PICK s \in T2 : s[3] = r
  BY <1>3
<1>5. ASSUME NEW t \in T PROVE t = s \/ Before(s, t)
  <2>1. e <= t[1]
    BY <1>1
  <2>2. CASE t[1] # e
    BY <1>0, <1>4, <2>1, <2>2 DEF Before
  <2>3. CASE t[1] = e /\ t[2] # c
    <3>1. c <= t[2]
      BY <1>2, <2>3
    <3> QED
      BY <1>0, <1>4, <2>3, <3>1 DEF Before
  <2>4. CASE t[1] = e /\ t[2] = c
    <3>1. r <= t[3]
      BY <1>3, <2>4
    <3> QED
      BY <1>0, <1>4, <2>4, <3>1 DEF Before
  <2> QED
    BY <2>2, <2>3, <2>4
<1>6. s \in T
  BY <1>4
<1> QED
  BY <1>5, <1>6 DEF Foremost

-----------------------------------------------------------------------------
(* The inductive invariant *)

Contents == {Absent, Ungraded, Torn} \cup {Rate(n) : n \in Rates}

Present(s) == tree[s] # Absent

\* The run directories that were passed or missed, and what was counted of
\* them.
Passed == IF benchmark.state = "none" THEN {} ELSE Slots \ todo
Counted == {s \in Passed : Graded(tree[s])}

BenchTypeOK ==
  /\ tree \in [Slots -> Contents]
  /\ todo \in SUBSET Slots
  /\ order \in Seq(1..NumConfigs)
  /\ results \in Seq([slot : Slots, rate : Rates])
  /\ benchmark.state \in {"none", "loading", "torn", "whole"}
  /\ benchmark.state = "none" => order = <<>> /\ results = <<>> /\ todo = {} /\ opened = {}
  /\ benchmark.state \in {"torn", "whole"} => todo = {}

\* Each grade counted is in the results, and nothing else is.
ResultsInv ==
  /\ Len(results) = Cardinality(Counted)
  /\ \A s \in Counted : \E i \in DOMAIN results : results[i] = [slot |-> s, rate |-> tree[s][2]]

\* The rates of a configuration add up to those of its counted directories.
CountedOf(c) == {s \in Counted : s[2] = c}
GradesOf(c) == [s \in CountedOf(c) |-> tree[s][2]]
SumsInv ==
  \A c \in 1..NumConfigs :
    /\ SumFunction(RatesOf(c)) = SumFunction(GradesOf(c))
    /\ Cardinality(DOMAIN RatesOf(c)) = Cardinality(CountedOf(c))

\* What is there and was passed comes before all that is still to do.
AheadInv == \A s \in Passed, t \in todo : Present(s) => Before(s, t)

\* What is to be read of a configuration that was listed is there.
OpenedInv == \A s \in todo : <<s[1], s[2]>> \in opened => Present(s)

\* A configuration is in the order since its first directory was passed.
OrderInv ==
  /\ \A i, j \in DOMAIN order : order[i] = order[j] => i = j
  /\ \A s \in Passed : Present(s) => \E i \in DOMAIN order : order[i] = s[2]
  /\ \A i \in DOMAIN order :
       \E s \in Passed :
         /\ Present(s) /\ s[2] = order[i]
         /\ \A j \in DOMAIN order, t \in Passed :
              i < j /\ Present(t) /\ t[2] = order[j] => Before(s, t)

\* What is written is what was loaded, with the statistics of the first two.
StatsAt(i) == IF i <= Len(order) THEN calculate_stats(RatesOf(order[i])) ELSE NoStats
WholeInv ==
  benchmark.state = "whole" =>
    benchmark.runs = results /\ benchmark.summary.delta = Difference(StatsAt(1), StatsAt(2))

BenchInv ==
  BenchTypeOK /\ ResultsInv /\ SumsInv /\ AheadInv /\ OpenedInv /\ OrderInv /\ WholeInv

LEMMA SlotsFinite == IsFiniteSet(Slots)
<1>1. IsFiniteSet(1..NumConfigs)
  BY BenchmarkAssumption, FS_Interval
<1>2. IsFiniteSet((1..NumConfigs) \X RunNumbers) /\ IsFiniteSet(Evals \X (1..NumConfigs))
  BY <1>1, BenchmarkAssumption, FS_Product
<1> DEFINE P == (Evals \X (1..NumConfigs)) \X RunNumbers
           F == [p \in P |-> <<p[1][1], p[1][2], p[2]>>]
<1>3. IsFiniteSet(P)
  BY <1>2, BenchmarkAssumption, FS_Product
<1>4. F \in Surjection(P, Slots)
  <2>1. \A p \in P : F[p] \in Slots
    BY DEF Slots
  <2>2. \A s \in Slots : \E p \in P : F[p] = s
    <3> SUFFICES ASSUME NEW s \in Slots PROVE \E p \in P : F[p] = s
      OBVIOUS
    <3> DEFINE p == <<<<s[1], s[2]>>, s[3]>>
    <3>1. p \in P /\ s = <<s[1], s[2], s[3]>>
      BY SlotShape
    <3>2. F[p] = <<s[1], s[2], s[3]>>
      BY <3>1
    <3> QED
      BY <3>1, <3>2
  <2> QED
    BY <2>1, <2>2 DEF Surjection
<1> QED
  BY <1>3, <1>4, FS_Surjection

LEMMA GradeIsRate ==
  ASSUME BenchTypeOK, NEW s \in Slots, Graded(tree[s])
  PROVE  tree[s][2] \in Rates /\ Present(s)
<1>1. tree[s] \in Contents
  BY DEF BenchTypeOK
<1> QED
  BY <1>1 DEF Contents, Graded, Absent, Ungraded, Torn, Rate, Present

\* A function with one place more has a sum that is larger by its value there.
LEMMA SumGrows ==
  ASSUME NEW D, IsFiniteSet(D), NEW x, x \notin D,
         NEW f \in [D -> Nat], NEW g \in [D \cup {x} -> Nat], \A y \in D : g[y] = f[y]
  PROVE  SumFunction(g) = SumFunction(f) + g[x]
<1> DEFINE W == D \cup {x}
<1>1. IsFiniteSet(W) /\ x \in W /\ W \ {x} = D
  BY FS_AddElement
<1>2. SumFunctionOnSet(g, W) = g[x] + SumFunctionOnSet(g, D)
  BY <1>1, SumSplits
<1>3. SumFunctionOnSet(g, D) = SumFunctionOnSet(f, D)
  BY SumSame
<1>4. SumFunctionOnSet(f, D) \in Nat
  BY SumType
<1>5. DOMAIN f = D /\ DOMAIN g = W /\ g[x] \in Nat
  OBVIOUS
<1> QED
  BY <1>2, <1>3, <1>4, <1>5 DEF SumFunction

LEMMA BenchStart == BenchInit => BenchInv
<1> SUFFICES ASSUME BenchInit PROVE BenchInv
  OBVIOUS
<1> USE DEF BenchInit
<1>1. benchmark.state = "none"
  BY DEF NoBenchmark
<1>2. BenchTypeOK
  BY <1>1, EmptySeq DEF BenchTypeOK, Contents
<1>3. Passed = {} /\ Counted = {}
  BY <1>1 DEF Passed, Counted
<1>4. ResultsInv
  BY <1>3, FS_EmptySet DEF ResultsInv
<1>5. SumsInv
  <2> SUFFICES ASSUME NEW c \in 1..NumConfigs
               PROVE  RatesOf(c) = GradesOf(c) /\ DOMAIN RatesOf(c) = CountedOf(c)
    BY DEF SumsInv
  <2>1. CountedOf(c) = {} /\ {j \in DOMAIN results : results[j].slot[2] = c} = {}
    BY <1>3 DEF CountedOf
  <2> QED
    BY <2>1 DEF RatesOf, GradesOf
<1> QED
  BY <1>1, <1>2, <1>3, <1>4, <1>5 DEF BenchInv, AheadInv, OpenedInv, OrderInv, WholeInv

\* A step that leaves the results, and the directories that were passed, as
\* they are leaves what is said of them.
LEMMA SamePassed ==
  ASSUME BenchInv, Passed' = Passed, UNCHANGED <<order, results>>,
         \A s \in Passed : tree'[s] = tree[s]
  PROVE  ResultsInv' /\ SumsInv' /\ OrderInv' /\ (\A i : StatsAt(i)' = StatsAt(i))
<1>1. Counted' = Counted
  BY DEF Counted, Graded
<1>2. \A s \in Counted : tree'[s] = tree[s]
  BY DEF Counted
<1>3. ResultsInv'
  BY <1>1, <1>2 DEF BenchInv, ResultsInv
<1>4. \A c : RatesOf(c)' = RatesOf(c)
  BY DEF RatesOf
<1>5. \A c : CountedOf(c)' = CountedOf(c) /\ GradesOf(c)' = GradesOf(c)
  BY <1>1, <1>2 DEF CountedOf, GradesOf
<1>6. SumsInv'
  BY <1>4, <1>5 DEF BenchInv, SumsInv
<1>7. OrderInv'
  BY DEF BenchInv, OrderInv, Present
<1>8. \A i : StatsAt(i)' = StatsAt(i)
  BY <1>4 DEF StatsAt, NoStats
<1> QED
  BY <1>3, <1>6, <1>7, <1>8

LEMMA AgentStep ==
  ASSUME BenchInv, NEW slot \in Slots, NEW content \in Contents \ {Absent},
         Becomes(slot, content)
  PROVE  BenchInv'
<1> USE DEF Becomes
<1>1. Passed' = Passed
  BY DEF Passed
<1>2. \A s \in Passed : tree'[s] = tree[s]
  BY DEF BenchInv, BenchTypeOK, Passed
<1>3. BenchTypeOK'
  BY DEF BenchInv, BenchTypeOK
<1>4. AheadInv'
  BY <1>1, <1>2 DEF BenchInv, AheadInv, Present
<1>5. ResultsInv' /\ SumsInv' /\ OrderInv' /\ (\A i : StatsAt(i)' = StatsAt(i))
  BY <1>1, <1>2, SamePassed
<1>6. WholeInv'
  BY <1>5 DEF BenchInv, WholeInv
<1>7. OpenedInv'
  BY DEF BenchInv, BenchTypeOK, OpenedInv, Present
<1> QED
  BY <1>3, <1>4, <1>5, <1>6, <1>7 DEF BenchInv

LEMMA StartLoadingStep == BenchInv /\ StartLoading => BenchInv'
<1> SUFFICES ASSUME BenchInv, StartLoading PROVE BenchInv'
  OBVIOUS
<1>0. /\ benchmark.state = "none" /\ benchmark'.state = "loading"
      /\ \A s \in Slots : s \notin todo' => tree[s] = Absent
      /\ todo' \in SUBSET Slots
      /\ UNCHANGED <<tree, opened, order, results>>
  BY DEF StartLoading
<1>1. BenchTypeOK'
  BY <1>0 DEF BenchInv, BenchTypeOK
<1>2. Passed = {} /\ Counted = {} /\ order = <<>> /\ results = <<>> /\ opened = {}
  BY <1>0 DEF BenchInv, BenchTypeOK, Passed, Counted
<1>3. \A s \in Passed' : ~ Present(s)'
  <2> SUFFICES ASSUME NEW s \in Slots, s \notin todo' PROVE tree[s] = Absent
    BY <1>0 DEF Passed, Present
  <2> QED
    BY <1>0
<1>4. Counted' = {}
  <2> SUFFICES ASSUME NEW s \in Passed', Graded(tree'[s]) PROVE FALSE
    BY DEF Counted
  <2>1. tree'[s] = Absent
    BY <1>3 DEF Present
  <2> QED
    BY <2>1 DEF Graded, Absent
<1>5. ResultsInv'
  BY <1>0, <1>2, <1>4, FS_EmptySet DEF ResultsInv
<1>6. SumsInv'
  <2> SUFFICES ASSUME NEW c \in 1..NumConfigs
               PROVE  RatesOf(c)' = GradesOf(c)' /\ (DOMAIN RatesOf(c))' = CountedOf(c)'
    BY DEF SumsInv
  <2>1. CountedOf(c)' = {} /\ {j \in DOMAIN results' : results'[j].slot[2] = c} = {}
    BY <1>0, <1>2, <1>4 DEF CountedOf
  <2> QED
    BY <2>1 DEF RatesOf, GradesOf
<1>7. AheadInv'
  BY <1>3 DEF AheadInv
<1>8. OrderInv'
  BY <1>0, <1>2, <1>3 DEF OrderInv
<1>9. WholeInv'
  BY <1>0 DEF WholeInv
<1>10. OpenedInv'
  BY <1>0, <1>2 DEF OpenedInv
<1> QED
  BY <1>1, <1>5, <1>6, <1>7, <1>8, <1>9, <1>10 DEF BenchInv

\* A listing drops what is not there: nothing that counts is passed with it.
LEMMA ListingStep ==
  ASSUME BenchInv, Loading, todo' \in SUBSET todo, UNCHANGED <<tree, order, results, benchmark>>,
         \A s \in todo \ todo' : tree[s] = Absent, OpenedInv'
  PROVE  BenchInv'
<1>1. /\ benchmark.state = "loading" /\ todo \in SUBSET Slots
      /\ Passed' = Passed \cup (todo \ todo')
      /\ \A s \in Passed' : Present(s) => s \in Passed
  BY DEF Loading, BenchInv, BenchTypeOK, Passed, Present
<1>2. Counted' = Counted
  <2>1. \A s : Graded(tree[s]) => Present(s)
    BY DEF Graded, Present, Absent
  <2> QED
    BY <1>1, <2>1 DEF Counted, Graded
<1>3. ResultsInv' /\ SumsInv'
  <2>1. \A c : RatesOf(c)' = RatesOf(c) /\ CountedOf(c)' = CountedOf(c) /\ GradesOf(c)' = GradesOf(c)
    BY <1>2 DEF RatesOf, CountedOf, GradesOf
  <2> QED
    BY <1>2, <2>1 DEF BenchInv, ResultsInv, SumsInv
<1>4. \A s : Present(s)' = Present(s)
  BY DEF Present
<1>5. AheadInv'
  BY <1>1, <1>4 DEF BenchInv, AheadInv
<1>6. OrderInv'
  <2>1. ASSUME NEW i \in DOMAIN order
        PROVE  \E s \in Passed' :
                 /\ Present(s) /\ s[2] = order[i]
                 /\ \A j \in DOMAIN order, t \in Passed' :
                      i < j /\ Present(t) /\ t[2] = order[j] => Before(s, t)
    <3>1. PICK s \in Passed :
            /\ Present(s) /\ s[2] = order[i]
            /\ \A j \in DOMAIN order, t \in Passed :
                 i < j /\ Present(t) /\ t[2] = order[j] => Before(s, t)
      BY DEF BenchInv, OrderInv
    <3> QED
      BY <1>1, <3>1
  <2>2. \A s \in Passed' : Present(s) => \E i \in DOMAIN order : order[i] = s[2]
    BY <1>1 DEF BenchInv, OrderInv
  <2>3. \A i, j \in DOMAIN order : order[i] = order[j] => i = j
    BY DEF BenchInv, OrderInv
  <2> QED
    BY <1>4, <2>1, <2>2, <2>3 DEF OrderInv
<1>7. BenchTypeOK' /\ WholeInv'
  BY <1>1 DEF BenchInv, BenchTypeOK, WholeInv
<1> QED
  BY <1>3, <1>5, <1>6, <1>7 DEF BenchInv

LEMMA TurnIsFirst ==
  ASSUME BenchInv, Loading
  PROVE  /\ Turn \in todo /\ Turn \in Slots /\ Turn[2] \in 1..NumConfigs
         /\ \A t \in todo : t = Turn \/ Before(Turn, t)
<1>1. todo \in SUBSET Slots /\ todo # {}
  BY DEF BenchInv, BenchTypeOK, Loading
<1>2. Turn \in todo /\ \A t \in todo : t = Turn \/ Before(Turn, t)
  BY <1>1, ForemostIs DEF Turn
<1> HIDE DEF Turn
<1> QED
  BY <1>1, <1>2, SlotShape

LEMMA OpenEvalStep == ASSUME BenchInv, OpenEval PROVE BenchInv'
<1>1. PICK configs \in SUBSET (1..NumConfigs) :
        /\ \A s \in Slots : s[1] = Turn[1] /\ tree[s] # Absent => s[2] \in configs
        /\ todo' = {s \in todo : s[1] = Turn[1] => s[2] \in configs}
  BY DEF OpenEval
<1>2. /\ todo \in SUBSET Slots /\ Loading /\ UNCHANGED <<tree, order, results, benchmark>>
      /\ opened' = opened \cup {<<Turn[1], 0>>}
  BY DEF OpenEval, BenchInv, BenchTypeOK
<1> HIDE DEF Turn
<1>3. \A s \in todo : s[2] # 0
  BY <1>2, SlotShape
<1>4. OpenedInv'
  BY <1>1, <1>2, <1>3 DEF BenchInv, OpenedInv, Present
<1>5. todo' \in SUBSET todo /\ \A s \in todo \ todo' : tree[s] = Absent
  BY <1>1, <1>2
<1> QED
  BY <1>2, <1>4, <1>5, ListingStep

LEMMA OpenConfigStep == ASSUME BenchInv, OpenConfig PROVE BenchInv'
<1>1. /\ todo' = {s \in todo : s[1] = Turn[1] /\ s[2] = Turn[2] => tree[s] # Absent}
      /\ Loading /\ UNCHANGED <<tree, order, results, benchmark>>
      /\ opened' = opened \cup {<<Turn[1], Turn[2]>>}
  BY DEF OpenConfig
<1> HIDE DEF Turn
<1>2. OpenedInv'
  <2> SUFFICES ASSUME NEW s \in todo', <<s[1], s[2]>> \in opened' PROVE tree[s] # Absent
    BY <1>1 DEF OpenedInv, Present
  <2>1. CASE <<s[1], s[2]>> \in opened
    BY <1>1, <2>1 DEF BenchInv, OpenedInv, Present
  <2>2. CASE <<s[1], s[2]>> = <<Turn[1], Turn[2]>>
    BY <1>1, <2>2
  <2> QED
    BY <1>1, <2>1, <2>2
<1>3. todo' \in SUBSET todo /\ \A s \in todo \ todo' : tree[s] = Absent
  BY <1>1
<1> QED
  BY <1>1, <1>2, <1>3, ListingStep

\* One directory, graded or not, joins those that were passed.
LEMMA LoadRunPasses ==
  ASSUME BenchInv, LoadRun
  PROVE  LET slot == Turn IN
           /\ slot \in todo /\ slot \in Slots /\ slot \notin Passed /\ Present(slot)
           /\ Passed' = Passed \cup {slot}
           /\ Counted' = IF Graded(tree[slot]) THEN Counted \cup {slot} ELSE Counted
           /\ slot \notin Counted
           /\ \A t \in todo' : Before(slot, t)
<1> DEFINE slot == Turn
<1>1. todo \in SUBSET Slots /\ Loading
  BY DEF BenchInv, BenchTypeOK, LoadRun
<1>2. slot \in todo /\ \A t \in todo : t = slot \/ Before(slot, t)
  BY <1>1, TurnIsFirst
<1>3. todo' = todo \ {slot} /\ tree' = tree /\ benchmark.state = "loading" /\ benchmark' = benchmark
  BY DEF LoadRun, Loading
<1>4. Present(slot)
  BY <1>2 DEF LoadRun, BenchInv, OpenedInv
<1> HIDE DEF slot
<1>5. Passed' = Passed \cup {slot} /\ slot \notin Passed
  BY <1>1, <1>2, <1>3 DEF Passed
<1>6. Counted' = IF Graded(tree[slot]) THEN Counted \cup {slot} ELSE Counted
  BY <1>3, <1>5 DEF Counted, Graded
<1> QED
  BY <1>1, <1>2, <1>3, <1>4, <1>5, <1>6 DEF Counted, slot

LEMMA LoadRunTyped == ASSUME BenchInv, LoadRun PROVE BenchTypeOK'
<1> DEFINE slot == Turn
<1>1. slot \in Slots
  BY LoadRunPasses
<1> HIDE DEF slot
<1>2. slot[2] \in 1..NumConfigs
  BY <1>1 DEF Slots
<1>3. order' \in Seq(1..NumConfigs)
  <2>1. order \in Seq(1..NumConfigs)
    BY DEF BenchInv, BenchTypeOK
  <2>2. Append(order, slot[2]) \in Seq(1..NumConfigs)
    BY <1>2, <2>1, AppendProperties
  <2> QED
    BY <2>1, <2>2 DEF LoadRun, slot
<1>4. results' \in Seq([slot : Slots, rate : Rates])
  <2>1. results \in Seq([slot : Slots, rate : Rates])
    BY DEF BenchInv, BenchTypeOK
  <2>2. CASE Graded(tree[slot])
    <3>1. tree[slot][2] \in Rates
      BY <1>1, <2>2, GradeIsRate DEF BenchInv
    <3>2. [slot |-> slot, rate |-> tree[slot][2]] \in [slot : Slots, rate : Rates]
      BY <1>1, <3>1
    <3>3. Append(results, [slot |-> slot, rate |-> tree[slot][2]]) \in Seq([slot : Slots, rate : Rates])
      BY <2>1, <3>2, AppendProperties
    <3> QED
      BY <2>2, <3>3 DEF LoadRun, slot
  <2>3. CASE ~ Graded(tree[slot])
    BY <2>1, <2>3 DEF LoadRun, slot
  <2> QED
    BY <2>2, <2>3
<1> QED
  BY <1>3, <1>4 DEF BenchInv, BenchTypeOK, LoadRun, Loading

LEMMA LoadRunResults == ASSUME BenchInv, LoadRun PROVE ResultsInv'
<1> DEFINE slot == Turn
           entry == [slot |-> slot, rate |-> tree[slot][2]]
<1>1. /\ Counted' = IF Graded(tree[slot]) THEN Counted \cup {slot} ELSE Counted
      /\ slot \notin Counted
      /\ tree' = tree
      /\ results' = IF Graded(tree[slot]) THEN Append(results, entry) ELSE results
  BY LoadRunPasses DEF LoadRun
<1> HIDE DEF slot
<1>2. /\ Len(results) = Cardinality(Counted)
      /\ \A s \in Counted : \E i \in DOMAIN results : results[i] = [slot |-> s, rate |-> tree[s][2]]
      /\ results \in Seq([slot : Slots, rate : Rates])
  BY DEF BenchInv, ResultsInv, BenchTypeOK
<1>3. CASE ~ Graded(tree[slot])
  BY <1>1, <1>2, <1>3 DEF ResultsInv
<1>4. CASE Graded(tree[slot])
  <2>1. results' = Append(results, entry) /\ Counted' = Counted \cup {slot}
    BY <1>1, <1>4
  <2>2. /\ Len(results') = Len(results) + 1
        /\ results'[Len(results) + 1] = entry
        /\ Len(results) + 1 \in DOMAIN results'
        /\ \A i \in DOMAIN results : i \in DOMAIN results' /\ results'[i] = results[i]
    BY <1>2, <2>1, AppendProperties, LenProperties
  <2>3. IsFiniteSet(Counted)
    BY SlotsFinite, FS_Subset DEF Counted, Passed
  <2>4. Cardinality(Counted') = Cardinality(Counted) + 1
    BY <1>1, <2>1, <2>3, FS_AddElement
  <2>5. ASSUME NEW s \in Counted'
        PROVE  \E i \in DOMAIN results' : results'[i] = [slot |-> s, rate |-> tree[s][2]]
    <3>1. CASE s = slot
      BY <2>2, <3>1
    <3>2. CASE s \in Counted
      BY <1>2, <2>2, <3>2
    <3> QED
      BY <2>1, <3>1, <3>2
  <2> QED
    BY <1>1, <1>2, <2>2, <2>4, <2>5 DEF ResultsInv
<1> QED
  BY <1>3, <1>4

Own(c) == {j \in DOMAIN results : results[j].slot[2] = c}

RatesTyped ==
  \A c \in 1..NumConfigs :
    /\ RatesOf(c) \in [Own(c) -> Nat] /\ IsFiniteSet(Own(c))
    /\ GradesOf(c) \in [CountedOf(c) -> Nat] /\ IsFiniteSet(CountedOf(c))

LEMMA RatesAreNat == BenchTypeOK => RatesTyped
<1> SUFFICES ASSUME BenchTypeOK, NEW c \in 1..NumConfigs
             PROVE  /\ RatesOf(c) \in [Own(c) -> Nat] /\ IsFiniteSet(Own(c))
                    /\ GradesOf(c) \in [CountedOf(c) -> Nat] /\ IsFiniteSet(CountedOf(c))
  BY DEF RatesTyped
<1>1. results \in Seq([slot : Slots, rate : Rates]) /\ Rates \subseteq Nat
  BY BenchmarkAssumption DEF BenchTypeOK
<1>2. \A i \in DOMAIN results : results[i] \in [slot : Slots, rate : Rates]
  BY <1>1, ElementOfSeq, LenProperties
<1>3. RatesOf(c) \in [Own(c) -> Nat]
  BY <1>1, <1>2 DEF RatesOf, Own
<1>4. DOMAIN results = 1..Len(results) /\ Len(results) \in Nat
  BY <1>1, LenProperties
<1>5. IsFiniteSet(DOMAIN results)
  BY <1>4, FS_Interval
<1>6. IsFiniteSet(Own(c))
  BY <1>5, FS_Subset DEF Own
<1>7. CountedOf(c) \in SUBSET Slots /\ \A s \in CountedOf(c) : Graded(tree[s])
  BY DEF CountedOf, Counted, Passed
<1>8. \A s \in CountedOf(c) : tree[s][2] \in Nat
  BY <1>1, <1>7, GradeIsRate
<1>9. IsFiniteSet(CountedOf(c))
  BY <1>7, SlotsFinite, FS_Subset
<1> QED
  BY <1>3, <1>6, <1>8, <1>9 DEF GradesOf

LEMMA LoadRunSums == ASSUME BenchInv, LoadRun PROVE SumsInv'
<1> DEFINE slot == Turn
           entry == [slot |-> slot, rate |-> tree[slot][2]]
<1>1. /\ Counted' = IF Graded(tree[slot]) THEN Counted \cup {slot} ELSE Counted
      /\ slot \notin Counted
      /\ tree' = tree
      /\ results' = IF Graded(tree[slot]) THEN Append(results, entry) ELSE results
  BY LoadRunPasses DEF LoadRun
<1> HIDE DEF slot
<1>2. SumsInv /\ BenchTypeOK /\ results \in Seq([slot : Slots, rate : Rates])
  BY DEF BenchInv, BenchTypeOK
<1>3. BenchTypeOK'
  BY LoadRunTyped
<1> SUFFICES ASSUME NEW c \in 1..NumConfigs
             PROVE  /\ SumFunction(RatesOf(c)') = SumFunction(GradesOf(c)')
                    /\ Cardinality((DOMAIN RatesOf(c))') = Cardinality(CountedOf(c)')
  BY DEF SumsInv
<1>4. /\ SumFunction(RatesOf(c)) = SumFunction(GradesOf(c))
      /\ Cardinality(DOMAIN RatesOf(c)) = Cardinality(CountedOf(c))
  BY <1>2 DEF SumsInv
<1>5. /\ RatesOf(c) \in [Own(c) -> Nat] /\ IsFiniteSet(Own(c))
      /\ GradesOf(c) \in [CountedOf(c) -> Nat] /\ IsFiniteSet(CountedOf(c))
  BY <1>2, RatesAreNat DEF RatesTyped
<1>6. /\ RatesOf(c)' \in [Own(c)' -> Nat]
      /\ GradesOf(c)' \in [CountedOf(c)' -> Nat]
  <2>1. RatesTyped'
    BY <1>3, RatesAreNat, PTL
  <2> QED
    BY <2>1 DEF RatesTyped
<1>7. CASE ~ (Graded(tree[slot]) /\ slot[2] = c)
  <2>1. CountedOf(c)' = CountedOf(c)
    BY <1>1, <1>7 DEF CountedOf
  <2>2. GradesOf(c)' = GradesOf(c)
    BY <1>1, <2>1 DEF GradesOf
  <2>3. Own(c)' = Own(c) /\ \A i \in Own(c) : results'[i] = results[i]
    <3>1. CASE results' = results
      BY <3>1 DEF Own
    <3>2. CASE results' = Append(results, entry) /\ slot[2] # c
      <4>1. /\ DOMAIN results' = DOMAIN results \cup {Len(results) + 1}
            /\ results'[Len(results) + 1] = entry
            /\ \A i \in DOMAIN results : results'[i] = results[i]
        BY <1>2, <3>2, AppendProperties, LenProperties
      <4> QED
        BY <3>2, <4>1 DEF Own
    <3> QED
      BY <1>1, <1>7, <3>1, <3>2
  <2>4. RatesOf(c)' = RatesOf(c)
    BY <2>3 DEF RatesOf, Own
  <2> QED
    BY <1>4, <2>1, <2>2, <2>4
<1>8. CASE Graded(tree[slot]) /\ slot[2] = c
  <2> DEFINE k == Len(results) + 1
  <2>1. /\ DOMAIN results' = DOMAIN results \cup {k} /\ k \notin DOMAIN results
        /\ results'[k] = entry
        /\ \A i \in DOMAIN results : results'[i] = results[i]
    BY <1>1, <1>2, <1>8, AppendProperties, LenProperties
  <2> HIDE DEF k
  <2>2. Own(c)' = Own(c) \cup {k} /\ k \notin Own(c)
    BY <1>8, <2>1 DEF Own
  <2>3. RatesOf(c)'[k] = tree[slot][2] /\ \A i \in Own(c) : RatesOf(c)'[i] = RatesOf(c)[i]
    BY <2>1, <2>2 DEF RatesOf, Own
  <2>4. SumFunction(RatesOf(c)') = SumFunction(RatesOf(c)) + tree[slot][2]
    <3> DEFINE f == RatesOf(c)
               g == RatesOf(c)'
               D == Own(c)
    <3>1. /\ IsFiniteSet(D) /\ k \notin D /\ f \in [D -> Nat] /\ g \in [D \cup {k} -> Nat]
          /\ \A i \in D : g[i] = f[i]
          /\ g[k] = tree[slot][2]
      BY <1>5, <1>6, <2>2, <2>3
    <3> HIDE DEF f, g, D
    <3>2. \A F \in [D -> Nat], G \in [D \cup {k} -> Nat] :
            (\A i \in D : G[i] = F[i]) => SumFunction(G) = SumFunction(F) + G[k]
      BY <3>1, SumGrows
    <3>3. SumFunction(g) = SumFunction(f) + g[k]
      BY <3>1, <3>2
    <3> QED
      BY <3>1, <3>3 DEF f, g
  <2>5. CountedOf(c)' = CountedOf(c) \cup {slot} /\ slot \notin CountedOf(c)
    BY <1>1, <1>8 DEF CountedOf
  <2>6. GradesOf(c)'[slot] = tree[slot][2] /\ \A s \in CountedOf(c) : GradesOf(c)'[s] = GradesOf(c)[s]
    BY <1>1, <2>5 DEF GradesOf
  <2>7. SumFunction(GradesOf(c)') = SumFunction(GradesOf(c)) + tree[slot][2]
    <3>1. \A F \in [CountedOf(c) -> Nat], G \in [CountedOf(c) \cup {slot} -> Nat] :
            (\A s \in CountedOf(c) : G[s] = F[s]) => SumFunction(G) = SumFunction(F) + G[slot]
      BY <1>5, <2>5, SumGrows
    <3> DEFINE f == GradesOf(c)
               g == GradesOf(c)'
               D == CountedOf(c)
    <3>2. /\ f \in [D -> Nat] /\ g \in [D \cup {slot} -> Nat]
          /\ \A s \in D : g[s] = f[s]
          /\ g[slot] = tree[slot][2]
      BY <1>5, <1>6, <2>5, <2>6
    <3> HIDE DEF f, g
    <3>3. SumFunction(g) = SumFunction(f) + g[slot]
      BY <3>1, <3>2
    <3> QED
      BY <3>2, <3>3 DEF f, g
  <2>8. /\ Cardinality(Own(c)') = Cardinality(Own(c)) + 1
        /\ Cardinality(CountedOf(c)') = Cardinality(CountedOf(c)) + 1
    BY <1>5, <2>2, <2>5, FS_AddElement
  <2>9. DOMAIN RatesOf(c) = Own(c) /\ (DOMAIN RatesOf(c))' = Own(c)'
    BY DEF RatesOf, Own
  <2> QED
    BY <1>4, <2>4, <2>7, <2>8, <2>9
<1> QED
  BY <1>7, <1>8

LEMMA LoadRunAhead == ASSUME BenchInv, LoadRun PROVE AheadInv'
<1> DEFINE slot == Turn
<1>1. Passed' = Passed \cup {slot} /\ \A t \in todo' : Before(slot, t)
  BY LoadRunPasses
<1>2. tree' = tree /\ todo' = todo \ {slot}
  BY DEF LoadRun
<1> HIDE DEF slot
<1> QED
  BY <1>1, <1>2 DEF AheadInv, BenchInv, Present

\* slot comes after all that is there and was passed; if its configuration is
\* new, nothing passed has it, so it may come last.
LEMMA LoadRunOrder == ASSUME BenchInv, LoadRun PROVE OrderInv'
<1> DEFINE slot == Turn
<1>1. /\ slot \in todo /\ slot \in Slots /\ slot \notin Passed
      /\ Passed' = Passed \cup {slot}
  BY LoadRunPasses
<1>2. /\ tree' = tree
      /\ order' = IF slot[2] \in ToSet(order) THEN order ELSE Append(order, slot[2])
  BY DEF LoadRun
<1>3. \A s \in Passed : Present(s) => Before(s, slot)
  BY <1>1 DEF BenchInv, AheadInv
<1>8. Present(slot)
  BY LoadRunPasses
<1> HIDE DEF slot
<1>4. OrderInv /\ order \in Seq(1..NumConfigs)
  BY DEF BenchInv, BenchTypeOK
<1>5. \A s : Present(s)' = Present(s)
  BY <1>2 DEF Present
<1>6. CASE order' = order /\ slot[2] \in ToSet(order)
  <2>1. \A i, j \in DOMAIN order : order[i] = order[j] => i = j
    BY <1>4 DEF OrderInv
  <2>2. ASSUME NEW s \in Passed', Present(s) PROVE \E i \in DOMAIN order : order[i] = s[2]
    <3>1. CASE s \in Passed
      BY <1>4, <2>2, <3>1 DEF OrderInv
    <3>2. CASE s = slot
      BY <1>6, <2>2, <3>2 DEF ToSet
    <3> QED
      BY <1>1, <3>1, <3>2
  <2>3. ASSUME NEW i \in DOMAIN order
        PROVE  \E s \in Passed' :
                 /\ Present(s) /\ s[2] = order[i]
                 /\ \A j \in DOMAIN order, t \in Passed' :
                      i < j /\ Present(t) /\ t[2] = order[j] => Before(s, t)
    <3>1. PICK s \in Passed :
            /\ Present(s) /\ s[2] = order[i]
            /\ \A j \in DOMAIN order, t \in Passed :
                 i < j /\ Present(t) /\ t[2] = order[j] => Before(s, t)
      BY <1>4 DEF OrderInv
    <3>2. Before(s, slot) /\ s \in Passed'
      BY <1>1, <1>3, <3>1
    <3>3. \A j \in DOMAIN order, t \in Passed' :
            i < j /\ Present(t) /\ t[2] = order[j] => Before(s, t)
      BY <1>1, <3>1, <3>2
    <3> QED
      BY <3>1, <3>2, <3>3
  <2> QED
    BY <1>5, <1>6, <2>1, <2>2, <2>3 DEF OrderInv
<1>7. CASE order' = Append(order, slot[2]) /\ slot[2] \notin ToSet(order)
  <2> DEFINE k == Len(order) + 1
  <2>1. /\ DOMAIN order' = DOMAIN order \cup {k} /\ k \notin DOMAIN order
        /\ order'[k] = slot[2]
        /\ \A i \in DOMAIN order : order'[i] = order[i] /\ i < k /\ i \in Int
        /\ k \in Int
    <3>1. slot[2] \in 1..NumConfigs
      BY <1>1, SlotShape
    <3> QED
      BY <1>4, <1>7, <3>1, AppendProperties, LenProperties
  <2> HIDE DEF k
  <2>2. \A i \in DOMAIN order : order[i] # slot[2]
    BY <1>7 DEF ToSet
  <2>3. \A s \in Passed : Present(s) => s[2] # slot[2]
    BY <1>4, <2>2 DEF OrderInv
  <2>4. \A i, j \in DOMAIN order' : order'[i] = order'[j] => i = j
    BY <1>4, <2>1, <2>2 DEF OrderInv
  <2>5. ASSUME NEW s \in Passed', Present(s) PROVE \E i \in DOMAIN order' : order'[i] = s[2]
    <3>1. CASE s \in Passed
      <4>1. PICK i \in DOMAIN order : order[i] = s[2]
        BY <1>4, <2>5, <3>1 DEF OrderInv
      <4> QED
        BY <2>1, <4>1
    <3>2. CASE s = slot
      BY <2>1, <3>2
    <3> QED
      BY <1>1, <3>1, <3>2
  <2>6. ASSUME NEW i \in DOMAIN order'
        PROVE  \E s \in Passed' :
                 /\ Present(s) /\ s[2] = order'[i]
                 /\ \A j \in DOMAIN order', t \in Passed' :
                      i < j /\ Present(t) /\ t[2] = order'[j] => Before(s, t)
    <3>1. CASE i = k
      <4>1. \A j \in DOMAIN order' : ~ (i < j)
        BY <2>1, <3>1
      <4> QED
        BY <1>1, <1>8, <2>1, <3>1, <4>1
    <3>2. CASE i \in DOMAIN order
      <4>1. PICK s \in Passed :
              /\ Present(s) /\ s[2] = order[i]
              /\ \A j \in DOMAIN order, t \in Passed :
                   i < j /\ Present(t) /\ t[2] = order[j] => Before(s, t)
        BY <1>4, <3>2 DEF OrderInv
      <4>2. ASSUME NEW j \in DOMAIN order', NEW t \in Passed',
                   i < j, Present(t), t[2] = order'[j]
            PROVE  Before(s, t)
        <5>1. CASE t = slot
          BY <1>3, <4>1, <5>1
        <5>2. CASE t \in Passed
          <6>1. j # k
            BY <2>1, <2>3, <4>2, <5>2
          <6>2. j \in DOMAIN order /\ t[2] = order[j]
            BY <2>1, <4>2, <6>1
          <6> QED
            BY <4>1, <4>2, <5>2, <6>2
        <5> QED
          BY <1>1, <5>1, <5>2
      <4> QED
        BY <1>1, <2>1, <3>2, <4>1, <4>2
    <3> QED
      BY <2>1, <3>1, <3>2
  <2> QED
    BY <1>5, <2>4, <2>5, <2>6 DEF OrderInv
<1> QED
  BY <1>2, <1>6, <1>7, <1>8

LEMMA BenchStep == BenchInv /\ [BenchNext]_benchVars => BenchInv'
<1> SUFFICES ASSUME BenchInv, [BenchNext]_benchVars PROVE BenchInv'
  OBVIOUS
<1>1. ASSUME NEW s \in Slots, Executed(s) \/ GradingOpened(s) \/ GradingWritten(s)
      PROVE  BenchInv'
  <2>1. \E content \in Contents \ {Absent} : Becomes(s, content)
    BY <1>1 DEF Executed, GradingOpened, GradingWritten, Contents, Absent, Ungraded, Torn, Rate
  <2> QED
    BY <2>1, AgentStep
<1>2. CASE StartLoading
  BY <1>2, StartLoadingStep
<1>3. CASE LoadRun
  <2>1. WholeInv' /\ OpenedInv'
    BY <1>3 DEF LoadRun, Loading, WholeInv, BenchInv, OpenedInv, Present
  <2> QED
    BY <1>3, <2>1, LoadRunTyped, LoadRunResults, LoadRunSums, LoadRunAhead, LoadRunOrder DEF BenchInv
<1>4. CASE OpenBenchmark \/ WriteBenchmark
  <2>1. /\ UNCHANGED <<tree, todo, opened, order, results>>
        /\ benchmark.state # "none" /\ benchmark'.state # "none"
    BY <1>4 DEF OpenBenchmark, WriteBenchmark
  <2>2. Passed' = Passed
    BY <2>1 DEF Passed
  <2>3. BenchTypeOK'
    BY <1>4 DEF OpenBenchmark, WriteBenchmark, BenchInv, BenchTypeOK
  <2>4. AheadInv' /\ OpenedInv'
    BY <2>1, <2>2 DEF BenchInv, AheadInv, OpenedInv, Present
  <2>5. ResultsInv' /\ SumsInv' /\ OrderInv' /\ (\A i : StatsAt(i)' = StatsAt(i))
    BY <2>1, <2>2, SamePassed
  <2>6. WholeInv'
    <3>1. CASE OpenBenchmark
      BY <3>1 DEF OpenBenchmark, WholeInv
    <3>2. CASE WriteBenchmark
      <4>1. benchmark'.runs = results /\ benchmark'.summary = Summary
        BY <3>2 DEF WriteBenchmark
      <4>2. Summary.delta = Difference(StatsAt(1), StatsAt(2))
        BY DEF Summary, StatsAt
      <4> QED
        BY <2>1, <2>5, <4>1, <4>2 DEF WholeInv
    <3> QED
      BY <1>4, <3>1, <3>2
  <2> QED
    BY <2>3, <2>4, <2>5, <2>6 DEF BenchInv
<1>5. CASE UNCHANGED benchVars
  <2>1. UNCHANGED <<tree, todo, opened, order, results, benchmark>>
    BY <1>5 DEF benchVars
  <2>2. Passed' = Passed
    BY <2>1 DEF Passed
  <2>3. ResultsInv' /\ SumsInv' /\ OrderInv' /\ (\A i : StatsAt(i)' = StatsAt(i))
    BY <2>1, <2>2, SamePassed
  <2>4. BenchTypeOK' /\ AheadInv' /\ OpenedInv' /\ WholeInv'
    BY <2>1, <2>2, <2>3 DEF BenchInv, BenchTypeOK, AheadInv, OpenedInv, WholeInv, Present
  <2> QED
    BY <2>3, <2>4 DEF BenchInv
<1> QED
  BY <1>1, <1>2, <1>3, <1>4, <1>5, OpenEvalStep, OpenConfigStep DEF BenchNext

\* When the first eval has both configurations, nothing comes before the first
\* directory of the first, and only directories of the first before the second.
LEMMA FirstTwo ==
  ASSUME BenchInv, benchmark.state = "whole", BothFromTheStart
  PROVE  Len(order) >= 2 /\ order[1] = 1 /\ order[2] = 2
<1>1. Passed = Slots /\ OrderInv /\ order \in Seq(1..NumConfigs)
  BY DEF BenchInv, BenchTypeOK, Passed
<1>2. PICK e \in Evals :
        /\ \A c \in 1..2 : \E s \in Slots : s[1] = e /\ s[2] = c /\ Present(s)
        /\ \A s \in Slots : Present(s) => s[1] >= e
  BY DEF BothFromTheStart, Present
<1>3. PICK s1 \in Slots : s1[1] = e /\ s1[2] = 1 /\ Present(s1)
  BY <1>2
<1>4. PICK s2 \in Slots : s2[1] = e /\ s2[2] = 2 /\ Present(s2)
  BY <1>2
<1>5. PICK i1 \in DOMAIN order : order[i1] = 1
  BY <1>1, <1>3 DEF OrderInv
<1>6. PICK i2 \in DOMAIN order : order[i2] = 2
  BY <1>1, <1>4 DEF OrderInv
<1>7. /\ DOMAIN order = 1..Len(order) /\ Len(order) \in Nat
      /\ \A i \in DOMAIN order : order[i] \in 1..NumConfigs
  BY <1>1, ElementOfSeq, LenProperties
\* What enters before one of the two is of a smaller configuration.
<1>8. ASSUME NEW i \in DOMAIN order, NEW j \in DOMAIN order, i < j, order[j] \in {1, 2}
      PROVE  order[i] < order[j]
  <2>1. PICK t \in {s1, s2} : t[2] = order[j] /\ t[1] = e /\ Present(t)
    BY <1>3, <1>4, <1>8
  <2>2. PICK s \in Slots : Present(s) /\ s[2] = order[i] /\ Before(s, t)
    <3>1. PICK s \in Slots :
            /\ Present(s) /\ s[2] = order[i]
            /\ \A k \in DOMAIN order, u \in Slots :
                 i < k /\ Present(u) /\ u[2] = order[k] => Before(s, u)
      BY <1>1 DEF OrderInv
    <3>2. t \in Slots
      OBVIOUS
    <3> QED
      BY <1>8, <2>1, <3>1, <3>2
  <2>3. s[1] \in Nat /\ e \in Nat /\ s[1] >= e
    BY <1>2, <2>2, SlotShape, BenchmarkAssumption
  <2>4. order[i] # order[j]
    BY <1>1, <1>7, <1>8 DEF OrderInv
  <2> QED
    BY <1>7, <2>1, <2>2, <2>3, <2>4 DEF Before
<1>9. i1 = 1
  <2>1. CASE i1 > 1
    <3>1. order[1] < 1 /\ order[1] \in 1..NumConfigs
      BY <1>5, <1>7, <1>8, <2>1
    <3> QED
      BY <3>1
  <2> QED
    BY <1>7, <2>1
<1>10. i2 = 2
  <2>1. i2 > 1
    BY <1>5, <1>6, <1>7, <1>9
  <2>2. CASE i2 > 2
    <3>1. order[2] < 2 /\ order[2] \in 1..NumConfigs /\ 2 \in DOMAIN order
      BY <1>6, <1>7, <1>8, <2>2
    <3>2. order[2] = order[1]
      BY <1>5, <1>9, <3>1
    <3> QED
      BY <1>1, <1>5, <1>9, <3>1, <3>2 DEF OrderInv
  <2> QED
    BY <1>7, <2>1, <2>2
<1> QED
  BY <1>5, <1>6, <1>7, <1>9, <1>10

\* Mean times counts, without division.
LEMMA CrossMultiplied ==
  ASSUME NEW d \in Int, NEW m \in Nat, NEW n \in Nat
  PROVE  d * m * n = d * (m * n)
OBVIOUS

LEMMA HonestSuffices == BenchInv => NumbersAreHonest
<1> SUFFICES ASSUME BenchInv, benchmark.state = "whole" PROVE NumbersAreHonest
  BY DEF NumbersAreHonest
<1>1. Passed = Slots
  BY DEF BenchInv, BenchTypeOK, Passed
<1>2. Counted = {s \in Slots : Graded(tree[s])}
  BY <1>1 DEF Counted
<1>3. benchmark.runs = results /\ benchmark.summary.delta = Difference(StatsAt(1), StatsAt(2))
  BY DEF BenchInv, WholeInv
<1>4. /\ Len(benchmark.runs) = Cardinality(Counted)
      /\ \A s \in Counted : [slot |-> s, rate |-> tree[s][2]] \in ToSet(benchmark.runs)
  BY <1>3 DEF BenchInv, ResultsInv, ToSet
<1> DEFINE n(c) == Cardinality(CountedOf(c))
           sum(c) == SumFunction(GradesOf(c))
           delta == benchmark.summary.delta
<1>5. ASSUME BothFromTheStart, n(1) > 0, n(2) > 0
      PROVE  delta.diff * n(1) * n(2) = (sum(1) * n(2) - sum(2) * n(1)) * delta.over
  <2>1. Len(order) >= 2 /\ order[1] = 1 /\ order[2] = 2
    BY <1>5, FirstTwo
  <2>2. Len(order) \in Nat /\ NumConfigs \in Nat /\ NumConfigs >= 2
    BY BenchmarkAssumption, LenProperties DEF BenchInv, BenchTypeOK
  <2>3. ASSUME NEW c \in 1..2
        PROVE  /\ StatsAt(c).sum = sum(c) /\ StatsAt(c).n = n(c)
               /\ n(c) \in Nat /\ sum(c) \in Nat
    <3>1. c \in 1..NumConfigs
      BY <2>2
    <3>2. StatsAt(c) = calculate_stats(RatesOf(c))
      BY <2>1, <2>2 DEF StatsAt
    <3>3. SumFunction(RatesOf(c)) = sum(c) /\ Cardinality(DOMAIN RatesOf(c)) = n(c)
      BY <3>1 DEF BenchInv, SumsInv
    <3>4. DOMAIN RatesOf(c) # {}
      BY <1>5, <3>3, FS_EmptySet
    <3>5. IsFiniteSet(CountedOf(c)) /\ GradesOf(c) \in [CountedOf(c) -> Nat]
      BY <3>1, RatesAreNat DEF BenchInv, RatesTyped
    <3>6. n(c) \in Nat
      BY <3>5, FS_CardinalityType
    <3>7. sum(c) \in Nat
      <4>1. DOMAIN GradesOf(c) = CountedOf(c) /\ CountedOf(c) \in SUBSET CountedOf(c)
        BY DEF GradesOf
      <4> QED
        BY <3>5, <4>1, SumType DEF SumFunction
    <3>8. /\ calculate_stats(RatesOf(c)).sum = SumFunction(RatesOf(c))
          /\ calculate_stats(RatesOf(c)).n = Cardinality(DOMAIN RatesOf(c))
      BY <3>4 DEF calculate_stats
    <3> QED
      BY <3>2, <3>3, <3>6, <3>7, <3>8
  <2> HIDE DEF n, sum
  <2>4. delta.diff = sum(1) * n(2) - sum(2) * n(1) /\ delta.over = n(1) * n(2)
    BY <1>3, <2>3 DEF Difference
  <2>5. sum(1) * n(2) - sum(2) * n(1) \in Int /\ n(1) \in Nat /\ n(2) \in Nat
    BY <2>3
  <2> QED
    BY <2>4, <2>5, CrossMultiplied
<1> QED
  BY <1>2, <1>4, <1>5 DEF NumbersAreHonest, CountedOf, GradesOf

\* aggregate_benchmark.py while graders write: whatever they start, leave half
\* written and grade again, for any evals, configurations and runs,
\* benchmark.json counts the grades that stood whole, each once, and its delta
\* is the difference of the means, but for the cases NumbersAreHonest names.
THEOREM NumbersAlwaysHonest == BenchSpec => []NumbersAreHonest
<1> QED
  BY BenchStart, BenchStep, HonestSuffices, PTL DEF BenchSpec
=============================================================================
