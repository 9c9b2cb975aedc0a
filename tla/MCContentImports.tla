--------------------------- MODULE MCContentImports ---------------------------
(***************************************************************************)
(* Instances of ContentImports for TLC: one scanned page and one with a    *)
(* text layer, and a job of each kind.                                     *)
(***************************************************************************)
EXTENDS ContentImports, TLC

CONSTANTS prep, ocr, build

OneOfEach ==
  prep  :> [kind |-> "prepare", pages |-> {}] @@
  ocr   :> [kind |-> "ocr", pages |-> Scanned] @@
  build :> [kind |-> "draft", pages |-> {}]

OneRequestLikeAnother == Permutations(Requests)
=============================================================================
