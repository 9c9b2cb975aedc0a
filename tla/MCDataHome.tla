------------------------------ MODULE MCDataHome ------------------------------
(***************************************************************************)
(* Instances of DataHome for TLC: one image, attached by two messages, of  *)
(* which the first brings a document after it.                             *)
(***************************************************************************)
EXTENDS DataHome, TLC

CONSTANTS i, m1, m2

ImageTwice == m1 :> <<i, m1>> @@ m2 :> <<i>>

OneThreadLikeAnother == Permutations(Threads)
=============================================================================
