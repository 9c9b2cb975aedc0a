----------------------------- MODULE MCStudyPlan -----------------------------
(***************************************************************************)
(* An instance of StudyPlan for TLC: one Session of any module, with one   *)
(* question, and an objective for the skill that essays are marked on.     *)
(***************************************************************************)
EXTENDS StudyPlan

CONSTANTS reading, essay, goal

OfReading == [i \in Items |-> reading]
OfEssay == goal :> essay
OneLikeAnother == Permutations(Requests)
=============================================================================
