------------------------------- MODULE JobQueue -------------------------------
(***************************************************************************)
(* What the local background-job queue promises the code that submits to   *)
(* it: at most one active row for a dedupe_key, a job's process starts at  *)
(* most once, and an outcome is final except that a late cancel may turn   *)
(* it into "cancelled".  BackgroundJobs implements it (Abstract there);    *)
(* ContentImports runs its jobs through it.                                *)
(***************************************************************************)
CONSTANTS
  Jobs,     \* job_id of every job
  Key       \* [Jobs -> dedupe_key]

VARIABLES
  row,      \* [Jobs -> status of the row], "absent" before the INSERT
  process   \* [Jobs -> {"none", "working", "gone"}], the child that does the work

Active == {"queued", "running"}
Ended  == {"completed", "failed", "cancelled"}

Init ==
  /\ row = [j \in Jobs |-> "absent"]
  /\ process = [j \in Jobs |-> "none"]

\* submit: a key with an active row gets that row back instead of a new one.
Submit(j) ==
  /\ row[j] = "absent"
  /\ \A k \in Jobs : Key[k] = Key[j] => row[k] \notin Active
  /\ row' = [row EXCEPT ![j] = "queued"]
  /\ UNCHANGED process

Claim(j) ==
  /\ row[j] = "queued"
  /\ row' = [row EXCEPT ![j] = "running"]
  /\ UNCHANGED process

\* The child finds its row active and starts on the work.
Begin(j) ==
  /\ process[j] = "none" /\ row[j] \in Active
  /\ row' = [row EXCEPT ![j] = "running"]
  /\ process' = [process EXCEPT ![j] = "working"]

\* The work is done and recorded.
Finish(j) ==
  /\ process[j] = "working"
  /\ row' = [row EXCEPT ![j] = IF @ = "running" THEN "completed" ELSE @]
  /\ process' = [process EXCEPT ![j] = "gone"]

Failed(js) == [j \in Jobs |-> IF j \in js /\ row[j] \in Active THEN "failed" ELSE row[j]]

\* The work raised an exception, or its process did not get to it.
Raise(j) ==
  /\ process[j] # "gone"
  /\ process' = [process EXCEPT ![j] = "gone"]
  /\ row' \in {row, Failed({j})}

\* A timeout, a dead child, a shutdown or a restart gives rows up; the child
\* of such a row may live on.
GiveUp(js) == row' = Failed(js) /\ UNCHANGED process

\* A cancel that read the row earlier overwrites what the row has become.
Cancel(j) ==
  /\ row[j] # "absent"
  /\ row' = [row EXCEPT ![j] = "cancelled"]
  /\ UNCHANGED process

Next ==
  \/ \E j \in Jobs : Submit(j) \/ Claim(j) \/ Begin(j) \/ Finish(j)
                     \/ Raise(j) \/ Cancel(j)
  \/ \E js \in SUBSET Jobs : GiveUp(js)

Spec == Init /\ [][Next]_<<row, process>>
=============================================================================
