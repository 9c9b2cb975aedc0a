----------------------------- MODULE MCVocabulary -----------------------------
(***************************************************************************)
(* An instance of Vocabulary for TLC: one word in two spellings.           *)
(***************************************************************************)
EXTENDS Vocabulary

CONSTANTS polish, Polish, item

OneWord == [w \in Spellings |-> item]
OneLikeAnother == Permutations(Writers)
=============================================================================
