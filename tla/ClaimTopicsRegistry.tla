------------------------ MODULE ClaimTopicsRegistry ------------------------
(***************************************************************************)
(* ClaimTopicsRegistry.sol: the claim topics a wallet must hold to be      *)
(* verified, kept twice: as an array to iterate over and as a mapping to   *)
(* test membership.                                                        *)
(***************************************************************************)
EXTENDS Ownable, Naturals, Sequences

CONSTANTS
  Topic,      \* claim topics
  KYC_TOPIC   \* the one topic the constructor adds

ASSUME TopicAssumption == KYC_TOPIC \in Topic

VARIABLES
  topics,        \* _topics, the array, in storage order
  topicExists    \* _topicExists, the mapping

topicsVars == <<topics, topicExists>>

TopicsType ==
  /\ topics \in Seq(Topic)
  /\ topicExists \in [Topic -> BOOLEAN]

\* The constructor: _addTopic(KYC_TOPIC) on empty storage.
TopicsInit ==
  /\ topics = <<KYC_TOPIC>>
  /\ topicExists = [t \in Topic |-> t = KYC_TOPIC]

IsClaimTopicRequired(t) == topicExists[t]

Elements(s) == {s[i] : i \in DOMAIN s}

NoDuplicates(s) == \A i, j \in DOMAIN s : s[i] = s[j] => i = j

\* Mutant: pops without moving the last element into the hole.
PopWithoutSwap(s, e) ==
  IF e \notin Elements(s) THEN s ELSE SubSeq(s, 1, Len(s) - 1)

\* The body of removeClaimTopic's loop: overwrite the first occurrence of e
\* with the last element, then pop.  Without an occurrence nothing is popped.
SwapAndPop(s, e) ==
  IF e \notin Elements(s) THEN s
  ELSE LET i == CHOOSE i \in DOMAIN s :
                  s[i] = e /\ \A j \in 1..(i - 1) : s[j] # e
       IN  [k \in 1..(Len(s) - 1) |-> IF k = i THEN s[Len(s)] ELSE s[k]]

\* addClaimTopic: a topic already present is left as it is (early return).
AddClaimTopic(sender, t) ==
  /\ OnlyOwner("ClaimTopicsRegistry", sender)
  /\ ~topicExists[t]
  /\ topicExists' = [topicExists EXCEPT ![t] = TRUE]
  /\ topics' = Append(topics, t)

RemoveClaimTopic(sender, t) ==
  /\ OnlyOwner("ClaimTopicsRegistry", sender)
  /\ topicExists[t]
  /\ topicExists' = [topicExists EXCEPT ![t] = FALSE]
  /\ topics' = SwapAndPop(topics, t)

TopicsNext ==
  \E sender \in Account, t \in Topic :
    AddClaimTopic(sender, t) \/ RemoveClaimTopic(sender, t)

(***************************************************************************)
(* isVerified iterates the array while issueClaim consults the mapping, so *)
(* a topic in one and not in the other would either lock every wallet out  *)
(* or be checked and never issuable.  The array lists exactly the topics   *)
(* the mapping marks, each once, through every add, swap and pop.          *)
(***************************************************************************)
TopicsInSync ==
  /\ NoDuplicates(topics)
  /\ Elements(topics) = {t \in Topic : topicExists[t]}
=============================================================================
