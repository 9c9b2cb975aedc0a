----------------------------- MODULE MCAgentRuns -----------------------------
(***************************************************************************)
(* Instances of AgentRuns for TLC.                                         *)
(***************************************************************************)
EXTENDS AgentRuns, TLC

CONSTANT MockRun  \* the run of a mixed instance that uses the mock backend

AllSession  == [r \in Runs |-> "session"]
AllDialogue == [r \in Runs |-> "dialogue"]
Mixed       == [r \in Runs |-> IF r = MockRun THEN "mock" ELSE "session"]

\* Executors are interchangeable: no definition names one.
WorkerSymmetry == Permutations(Workers)
=============================================================================
