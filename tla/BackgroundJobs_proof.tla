------------------------- MODULE BackgroundJobs_proof -------------------------
(***************************************************************************)
(* Proofs about BackgroundJobs: type correctness with the bookkeeping of   *)
(* _scheduled, and that the queue implements JobQueue, for every set of    *)
(* jobs, keys, priorities and threads and under every bound.               *)
(***************************************************************************)
EXTENDS BackgroundJobs, TLAPS

\* A job is in one place of the manager: the queue or one thread.  This is what
\* makes _scheduled.discard of one thread not forget a job somebody else holds.
OnePlace ==
  /\ \A t \in Threads : Busy(t) => job[t] \notin queue
  /\ \A t, u \in Threads : Busy(t) /\ Busy(u) /\ job[t] = job[u] => t = u

\* A service that is down has no memory.
DownIsEmpty ==
  service = "down" =>
    queue = {} /\ scheduled = {} /\ \A t \in Threads : pc[t] = "wait"

\* A row that is waiting has never had a child, and neither has one that was just
\* claimed: only the thread that claimed it starts one.
Spawned ==
  /\ \A j \in Jobs : status[j] \in {"absent", "queued"} => child[j] = "none"
  /\ \A t \in Threads :
       /\ pc[t] \in {"claim", "spawn"} => job[t] \in Jobs
       /\ pc[t] = "spawn" => status[job[t]] # "queued" /\ child[job[t]] = "none"

\* Nothing is done for a row before there is one.
Present ==
  /\ \A j \in queue \cup scheduled \cup processes \cup stopping : status[j] # "absent"
  /\ \A j \in Jobs : cpc[j] # "idle" => status[j] # "absent"
  /\ \A t \in Threads : Busy(t) => status[job[t]] # "absent"

\* submit gives an active row back instead of a second one for its dedupe_key.
OneActivePerKey ==
  \A j, k \in Jobs :
    Key[j] = Key[k] /\ status[j] \in Active /\ status[k] \in Active => j = k

IInv == TypeOK /\ OnePlace /\ DownIsEmpty /\ Spawned /\ Present /\ OneActivePerKey

\* The service starts with empty memory and no row.
LEMMA InvInit == Init => IInv
BY JobConstantsOK DEF Init, IInv, TypeOK, OnePlace, DownIsEmpty, Spawned, Present,
   OneActivePerKey, Busy, Active, Terminal, Alive

\* Every action keeps the invariant.
LEMMA InvStep == ASSUME IInv, [Next]_vars PROVE IInv'
<1> USE JobConstantsOK
<1> USE DEF IInv, TypeOK, OnePlace, DownIsEmpty, Spawned, Present,
            OneActivePerKey, Duplicate, Busy, Active,
            Terminal, Alive, Put, At, Go, memory, history
<1>1. ASSUME NEW j \in Jobs, Submit(j) PROVE IInv'
  BY <1>1 DEF Submit, Enqueue
<1>2. ASSUME NEW t \in Threads, Take(t) PROVE IInv'
  BY <1>2 DEF Take
<1>3. ASSUME NEW t \in Threads, Claim(t) PROVE IInv'
  BY <1>3 DEF Claim, Free
<1>4. ASSUME NEW t \in Threads, Spawn(t) PROVE IInv'
  BY <1>4 DEF Spawn
<1>5. ASSUME NEW t \in Threads, SpawnFails(t) PROVE IInv'
  BY <1>5 DEF SpawnFails, MarkFailed, Free
<1>6. ASSUME NEW t \in Threads, Register(t) PROVE IInv'
  BY <1>6 DEF Register
<1>7. ASSUME NEW t \in Threads, WatchEnds(t) PROVE IInv'
  BY <1>7 DEF WatchEnds, MarkFailed, Free
<1>8. ASSUME NEW t \in Threads, WatchCancelled(t) PROVE IInv'
  BY <1>8 DEF WatchCancelled, Kill, Free
<1>9. ASSUME NEW t \in Threads, WatchTimesOut(t) PROVE IInv'
  BY <1>9 DEF WatchTimesOut, Kill
<1>10. ASSUME NEW t \in Threads, MarkTimedOut(t) PROVE IInv'
  BY <1>10 DEF MarkTimedOut, MarkFailed, Free
<1>11. ASSUME NEW t \in Threads, ThreadDies(t) PROVE IInv'
  BY <1>11 DEF ThreadDies
<1>12. ASSUME NEW j \in Jobs, ChildStarts(j) PROVE IInv'
  BY <1>12 DEF ChildStarts
<1>13. ASSUME NEW j \in Jobs, ChildWorks(j) PROVE IInv'
  BY <1>13 DEF ChildWorks
<1>14. ASSUME NEW j \in Jobs, ChildCompletes(j) PROVE IInv'
  BY <1>14 DEF ChildCompletes
<1>15. ASSUME NEW j \in Jobs, ChildRaises(j) PROVE IInv'
  BY <1>15 DEF ChildRaises, MarkFailed, Kill
<1>16. ASSUME NEW j \in Jobs, ChildDies(j) PROVE IInv'
  BY <1>16 DEF ChildDies, Kill
<1>17. ASSUME NEW j \in Jobs, CancelRead(j) PROVE IInv'
  BY <1>17 DEF CancelRead
<1>18. ASSUME NEW j \in Jobs, CancelWrite(j) PROVE IInv'
  BY <1>18 DEF CancelWrite
<1>19. ASSUME NEW j \in Jobs, CancelKill(j) PROVE IInv'
  BY <1>19 DEF CancelKill, Kill
<1>20. ASSUME NEW j \in Jobs, StopOne(j) PROVE IInv'
  BY <1>20 DEF StopOne, MarkFailed, Kill
<1>21. CASE Crash
  BY <1>21 DEF Crash, Forget
<1>22. CASE Shutdown
  BY <1>22 DEF Shutdown
<1>23. CASE ShutdownEnds
  BY <1>23 DEF ShutdownEnds, Forget
<1>24. CASE Start
  BY <1>24 DEF Start, Recovered, Requeued
<1>25. CASE UNCHANGED vars
  BY <1>25 DEF vars
<1> QED
  BY <1>1, <1>2, <1>3, <1>4, <1>5, <1>6, <1>7, <1>8, <1>9, <1>10, <1>11, <1>12,
     <1>13, <1>14, <1>15, <1>16, <1>17, <1>18, <1>19, <1>20, <1>21, <1>22, <1>23,
     <1>24, <1>25 DEF Next, ThreadStep, ChildStep

\* The invariant holds in every behaviour.
LEMMA Invariant == Spec => []IInv
BY InvInit, InvStep, PTL DEF Spec

\* background_jobs.py keeps its books: every job of _scheduled is queued or in
\* the hands of exactly the threads that are busy with it.
THEOREM TypeCorrect == Spec => []TypeOK
BY Invariant, PTL DEF IInv

\* A supervisor thread never works on a job that is queued for another one, and
\* no two threads share a job, whatever is resubmitted, recovered or cancelled.
THEOREM JobInOnePlace == Spec => []OnePlace
BY Invariant, PTL DEF IInv

\* However requests, recoveries and late writers interleave, two active rows
\* never share a dedupe_key.
THEOREM OneActive == Spec => []OneActivePerKey
BY Invariant, PTL DEF IInv

\* The outcome of a job is never taken back, only overwritten by a cancel that
\* had read the row while it was active.
OutcomesStay ==
  \A j \in Jobs : status[j] \in Terminal =>
    status'[j] = status[j] \/ (cpc[j] = "read" /\ status'[j] = "cancelled")

\* A job whose outcome the database holds keeps it, but for a cancellation that has
\* read the job's row and overwrites the outcome with its own (background_jobs.py).
THEOREM OutcomesAreFinal == Spec => [][OutcomesStay]_vars
<1>1. ASSUME TypeOK, [Next]_vars PROVE OutcomesStay
  <2> USE <1>1 DEF TypeOK, OutcomesStay, Put, MarkFailed, memory, history, Active, Terminal
  <2>1. ASSUME NEW t \in Threads,
               ThreadStep(t) \/ SpawnFails(t) \/ WatchTimesOut(t) \/ ThreadDies(t)
        PROVE  OutcomesStay
    BY <2>1 DEF ThreadStep, Take, Claim, Spawn, Register, WatchEnds, WatchCancelled,
       MarkTimedOut, SpawnFails, WatchTimesOut, ThreadDies
  <2>2. ASSUME NEW j \in Jobs, ChildStep(j) \/ ChildDies(j) \/ StopOne(j)
        PROVE  OutcomesStay
    BY <2>2 DEF ChildStep, ChildStarts, ChildWorks, ChildCompletes, ChildRaises,
       ChildDies, StopOne
  <2>3. ASSUME NEW j \in Jobs, Submit(j) \/ CancelRead(j) \/ CancelWrite(j) \/ CancelKill(j)
        PROVE  OutcomesStay
    BY <2>3 DEF Submit, CancelRead, CancelWrite, CancelKill
  <2>4. CASE Crash \/ Shutdown \/ ShutdownEnds \/ Start \/ UNCHANGED vars
    BY <2>4 DEF Crash, Shutdown, ShutdownEnds, Start, Recovered, vars
  <2> QED BY <1>1, <2>1, <2>2, <2>3, <2>4 DEF Next
<1> QED BY <1>1, Invariant, PTL DEF Spec, IInv

-----------------------------------------------------------------------------
(* The queue implements JobQueue *)

\* An action that writes no row and does not change what a child is to the
\* submitter is invisible in JobQueue.
Invisible == UNCHANGED <<status, Working>>

\* A child that ends is gone; one that finds its row active works.
LEMMA WorkingAt ==
  ASSUME NEW j \in Jobs, child \in [Jobs -> Alive \cup {"none", "exited", "died"}]
  PROVE  /\ child' = [child EXCEPT ![j] = "exited"] => Working' = [Working EXCEPT ![j] = "gone"]
         /\ child' = [child EXCEPT ![j] = "died"] => Working' = [Working EXCEPT ![j] = "gone"]
         /\ child' = [child EXCEPT ![j] = "body"] => Working' = [Working EXCEPT ![j] = "working"]
BY DEF Working, Alive

\* Reading Working back.
LEMMA WorkingIs ==
  ASSUME NEW j \in Jobs, child \in [Jobs -> Alive \cup {"none", "exited", "died"}]
  PROVE  /\ Working[j] = "none" <=> child[j] \in {"none", "boot"}
         /\ Working[j] = "working" <=> child[j] \in {"body", "write", "raise"}
         /\ Working[j] = "gone" <=> child[j] \in {"exited", "died"}
BY DEF Working, Alive

\* The queue starts as the abstract one does, with no job.
LEMMA RefinesInit == Init => Abstract!Init
BY DEF Init, Abstract!Init, Working

\* Killing a child: it is raised, in JobQueue's terms, or was no longer there.
LEMMA KillRefines ==
  ASSUME IInv, NEW j \in Jobs, Kill(j), status' = status \/ MarkFailed(j)
  PROVE  Abstract!Raise(j) \/ Abstract!GiveUp({j}) \/ Invisible
<1> USE DEF IInv, TypeOK
<1>1. MarkFailed(j) => status' = Abstract!Failed({j})
  BY DEF MarkFailed, Put, Abstract!Failed, Abstract!Active, Active
<1>2. CASE child[j] \in Alive
  <2>1. child' = [child EXCEPT ![j] = "died"]
    BY <1>2 DEF Kill
  <2>2. Working' = [Working EXCEPT ![j] = "gone"] /\ Working[j] # "gone"
    BY <1>2, <2>1, WorkingAt, WorkingIs DEF Alive
  <2> QED BY <1>1, <2>2 DEF Abstract!Raise
<1>3. CASE child[j] \notin Alive
  <2>1. child' = child
    BY <1>3 DEF Kill
  <2>2. Working' = Working
    BY <2>1 DEF Working
  <2> QED BY <1>1, <2>2 DEF Abstract!GiveUp, Invisible
<1> QED BY <1>2, <1>3

\* Writing a job off as failed, in JobQueue's terms, gives it up.
LEMMA MarkRefines ==
  ASSUME IInv, NEW j \in Jobs, MarkFailed(j), UNCHANGED child
  PROVE  Abstract!GiveUp({j})
BY DEF IInv, TypeOK, MarkFailed, Put, Active, Working, Abstract!GiveUp, Abstract!Failed,
   Abstract!Active

\* Every step of the job runner is a step of JobQueue, or is not seen there.
LEMMA RefinesStep ==
  ASSUME IInv, [Next]_vars
  PROVE  [Abstract!Next]_<<status, Working>>
<1> SUFFICES Abstract!Next \/ Invisible
  BY DEF Invisible
<1> USE DEF Put, At, memory, history
<1> HIDE DEF Abstract!Next, Invisible
<1>0. ASSUME UNCHANGED <<status, child>> PROVE Invisible
  BY <1>0 DEF Invisible, Working
<1>1. ASSUME NEW j \in Jobs, Submit(j) PROVE Abstract!Submit(j)
  BY <1>1 DEF Submit, Duplicate, Active, Working, Abstract!Submit, Abstract!Active
<1>2. ASSUME NEW t \in Threads, Claim(t) PROVE (Abstract!Claim(job[t]) /\ job[t] \in Jobs) \/ Invisible
  BY <1>2, <1>0 DEF Claim, Working, Abstract!Claim, IInv, Spawned, Invisible
<1>3. ASSUME NEW t \in Threads, Spawn(t) PROVE Invisible
  BY <1>3 DEF Spawn, IInv, TypeOK, Spawned, Invisible, Working, Alive
<1>4. ASSUME NEW t \in Threads, SpawnFails(t) \/ MarkTimedOut(t)
      PROVE  Abstract!GiveUp({job[t]}) /\ job[t] \in Jobs
  BY <1>4, MarkRefines DEF SpawnFails, MarkTimedOut, IInv, TypeOK, Busy
<1>5. ASSUME NEW t \in Threads, WatchEnds(t)
      PROVE  (Abstract!GiveUp({job[t]}) /\ job[t] \in Jobs) \/ Invisible
  BY <1>5, <1>0, MarkRefines DEF WatchEnds, IInv, TypeOK, Busy
<1>6. ASSUME NEW t \in Threads, WatchCancelled(t) \/ WatchTimesOut(t)
      PROVE  Abstract!Next \/ Invisible
  <2>1. job[t] \in Jobs /\ Kill(job[t]) /\ status' = status
    BY <1>6 DEF WatchCancelled, WatchTimesOut, IInv, TypeOK, Busy
  <2> QED BY <2>1, KillRefines DEF Abstract!Next
<1>7. ASSUME NEW j \in Jobs, ChildDies(j) \/ ChildRaises(j) \/ StopOne(j)
      PROVE  Abstract!Next \/ Invisible
  <2>1. Kill(j) /\ (status' = status \/ MarkFailed(j))
    BY <1>7 DEF ChildDies, ChildRaises, StopOne
  <2> QED BY <2>1, KillRefines DEF Abstract!Next
<1>8. ASSUME NEW j \in Jobs, CancelKill(j) PROVE Abstract!Next \/ Invisible
  <2>1. CASE j \in processes
    BY <1>8, <2>1, KillRefines DEF CancelKill, Abstract!Next
  <2>2. CASE j \notin processes
    BY <1>8, <2>2, <1>0 DEF CancelKill
  <2> QED BY <2>1, <2>2
<1>9. ASSUME NEW j \in Jobs, ChildStarts(j) PROVE Abstract!Begin(j) \/ Abstract!Raise(j)
  <2>1. Working[j] = "none"
    BY <1>9, WorkingIs DEF ChildStarts, IInv, TypeOK
  <2>2. CASE status[j] \in Active
    BY <1>9, <2>1, <2>2, WorkingAt
    DEF ChildStarts, IInv, TypeOK, Alive, Abstract!Begin, Abstract!Active, Active
  <2>3. CASE status[j] \notin Active
    BY <1>9, <2>1, <2>3, WorkingAt DEF ChildStarts, IInv, TypeOK, Alive, Abstract!Raise
  <2> QED BY <2>2, <2>3
<1>10. ASSUME NEW j \in Jobs, ChildWorks(j) PROVE Invisible
  BY <1>10 DEF ChildWorks, IInv, TypeOK, Invisible, Working, Alive
<1>11. ASSUME NEW j \in Jobs, ChildCompletes(j) PROVE Abstract!Finish(j)
  <2>1. Working[j] = "working"
    BY <1>11, WorkingIs DEF ChildCompletes, IInv, TypeOK
  <2>2. Working' = [Working EXCEPT ![j] = "gone"]
    BY <1>11, WorkingAt DEF ChildCompletes, IInv, TypeOK, Alive
  <2> QED BY <1>11, <2>1, <2>2 DEF ChildCompletes, Abstract!Finish
<1>12. ASSUME NEW j \in Jobs, CancelWrite(j) PROVE Abstract!Cancel(j)
  BY <1>12 DEF CancelWrite, IInv, TypeOK, Present, Working, Abstract!Cancel
<1>13. CASE Start
  <2>1. status' = Abstract!Failed({j \in Jobs : status[j] = "running"})
    BY <1>13 DEF Start, Recovered, Abstract!Failed, Abstract!Active
  <2>2. Abstract!GiveUp({j \in Jobs : status[j] = "running"})
    BY <1>13, <2>1 DEF Start, Working, Abstract!GiveUp
  <2> QED BY <2>2 DEF Abstract!Next
<1>14. ASSUME NEW t \in Threads, Take(t) \/ Register(t) \/ ThreadDies(t) PROVE Invisible
  BY <1>14, <1>0 DEF Take, Register, ThreadDies
<1>15. ASSUME NEW j \in Jobs, CancelRead(j) PROVE Invisible
  BY <1>15, <1>0 DEF CancelRead
<1>16. CASE Crash \/ Shutdown \/ ShutdownEnds \/ UNCHANGED vars
  BY <1>16, <1>0 DEF Crash, Shutdown, ShutdownEnds, vars
<1>17. ASSUME NEW j \in Jobs,
              \/ Abstract!Submit(j) \/ Abstract!Claim(j) \/ Abstract!Begin(j)
              \/ Abstract!Finish(j) \/ Abstract!Raise(j) \/ Abstract!Cancel(j)
              \/ Abstract!GiveUp({j})
       PROVE  Abstract!Next
  BY <1>17 DEF Abstract!Next
<1>18. ASSUME NEW t \in Threads,
              ThreadStep(t) \/ SpawnFails(t) \/ WatchTimesOut(t) \/ ThreadDies(t)
       PROVE  Abstract!Next \/ Invisible
  BY <1>18, <1>2, <1>3, <1>4, <1>5, <1>6, <1>14, <1>17 DEF ThreadStep
<1>19. ASSUME NEW j \in Jobs,
              \/ Submit(j) \/ ChildStep(j) \/ ChildDies(j)
              \/ CancelRead(j) \/ CancelWrite(j) \/ CancelKill(j) \/ StopOne(j)
       PROVE  Abstract!Next \/ Invisible
  BY <1>19, <1>1, <1>7, <1>8, <1>9, <1>10, <1>11, <1>12, <1>15, <1>17 DEF ChildStep
<1> QED
  BY <1>13, <1>16, <1>18, <1>19 DEF Next

\* Whatever crashes, times out, is cancelled or shut down, the code that submits
\* jobs sees what JobQueue promises: one active row per dedupe_key, work that is
\* started at most once, outcomes that only a cancel may overwrite.
THEOREM Implements == Spec => ImplementsJobQueue
BY Invariant, RefinesInit, RefinesStep, PTL DEF Spec, ImplementsJobQueue, Abstract!Spec
=============================================================================
