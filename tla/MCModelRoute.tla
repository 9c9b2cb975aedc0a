----------------------------- MODULE MCModelRoute -----------------------------
(***************************************************************************)
(* Instances of ModelRoute for TLC: the bridge and a provider of the       *)
(* learner's with a key; two requests and two runs at a time.              *)
(***************************************************************************)
EXTENDS ModelRoute, TLC

CONSTANTS bridge, k

OneLikeAnother == Permutations(Editors) \cup Permutations(Calls)
=============================================================================
