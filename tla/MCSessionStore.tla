---------------------------- MODULE MCSessionStore ----------------------------
(***************************************************************************)
(* Instances of SessionStore for TLC.                                      *)
(***************************************************************************)
EXTENDS SessionStore

CONSTANTS Essay, Review  \* a learner's submission and the tutor's review of it

MCEffect == [o \in Ops |-> IF o = Essay THEN "awaiting_feedback"
                                         ELSE "awaiting_revision"]

ClientSymmetry == Permutations(Clients)
=============================================================================
