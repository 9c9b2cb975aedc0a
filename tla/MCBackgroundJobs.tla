--------------------------- MODULE MCBackgroundJobs ---------------------------
(***************************************************************************)
(* Instances of BackgroundJobs for TLC: every job of the instance prepares *)
(* one and the same import, so that a job is only ever submitted beside    *)
(* what earlier jobs of its dedupe_key left behind.                        *)
(***************************************************************************)
EXTENDS BackgroundJobs

OneImport == [j \in Jobs |-> "content-prepare"]
ImportPriority == [j \in Jobs |-> 60]
=============================================================================
