------------------------------- MODULE MCTutor -------------------------------
(***************************************************************************)
(* Instances of Tutor for TLC: two turns of one thread, which offer a      *)
(* memory that contradicts one the learner has told, and a review item.   *)
(***************************************************************************)
EXTENDS Tutor, TLC

CONSTANTS th, r1, r2, a, b, x, y, k, j

OneThread == r1 :> th @@ r2 :> th
Explain == [kind |-> "question_explanation", said |-> "question", loop |-> TRUE]
Hint    == [kind |-> "guided_hint", said |-> "question", loop |-> FALSE]
TwoQuestions == r1 :> Explain @@ r2 :> Hint
\* The first turn may find an attempt, the second judge one; neither need.
AttemptThenVerdict == r1 :> {"withheld", "unverified"} @@ r2 :> {"withheld", "verified"}

MemoryAndReview == r1 :> <<"learner_memory", "review_item">> @@ r2 :> <<>>
SaysY == [r \in Turns |-> [content |-> y, key |-> k]]

\* The same preference told for two purposes; the first will expire.
TwoToldAlready ==
  [m \in Memories |-> CASE m = a -> New(x, k, "later")
                       [] m = b -> New(x, j, "never")
                       [] OTHER -> Nil]

OneLikeAnother == Permutations(Cycles) \cup Permutations(Clicks)
=============================================================================
