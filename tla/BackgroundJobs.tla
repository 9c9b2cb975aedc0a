---------------------------- MODULE BackgroundJobs ----------------------------
(***************************************************************************)
(* The local background-job queue (background_jobs.py): rows of            *)
(* local_background_jobs, an in-memory priority queue, supervisor threads  *)
(* and one child process per job.  A child runs in a session of its own,   *)
(* so it survives a crash of the service that started it.                  *)
(*                                                                         *)
(* One action is one database transaction or one operation under the       *)
(* manager's lock.                                                         *)
(***************************************************************************)
EXTENDS Naturals, FiniteSets

CONSTANTS
  Jobs,        \* job_id of every job the instance may see
  Key,         \* [Jobs -> dedupe_key]
  Priority,    \* [Jobs -> Nat], small numbers first
  Threads,     \* supervisor threads
  MaxFaults,   \* bound on crashes, killed children, failing statements
  MaxCancels,  \* bound on cancel requests
  Nobody

ASSUME JobConstantsOK ==
  /\ DOMAIN Key = Jobs
  /\ Priority \in [Jobs -> Nat]
  /\ MaxFaults \in Nat /\ MaxCancels \in Nat
  /\ Nobody \notin Jobs

VARIABLES
  status,     \* local_background_jobs.status; "absent" before the INSERT
  service,    \* "up", "closing" (shutdown) or "down"
  queue,      \* PriorityQueue
  scheduled,  \* _scheduled
  processes,  \* _processes
  stopping,   \* shutdown's snapshot of _processes
  pc, job,    \* supervisor threads: where each is and its job
  child,      \* the child process of a job
  cpc,        \* cancel request of a job
  cancels, faults

vars == <<status, service, queue, scheduled, processes, stopping, pc, job,
          child, cpc, cancels, faults>>

memory  == <<queue, scheduled, processes, stopping, pc, job>>
history == <<cancels, faults>>

Active   == {"queued", "running"}
Terminal == {"completed", "failed", "cancelled"}
Alive    == {"boot", "body", "write", "raise"}

Init ==
  /\ status = [j \in Jobs |-> "absent"]
  /\ service = "up"
  /\ queue = {} /\ scheduled = {} /\ processes = {} /\ stopping = {}
  /\ pc = [t \in Threads |-> "wait"]
  /\ job = [t \in Threads |-> Nobody]
  /\ child = [j \in Jobs |-> "none"]
  /\ cpc = [j \in Jobs |-> "idle"]
  /\ cancels = 0 /\ faults = 0

-----------------------------------------------------------------------------
(* Rows *)

Put(j, s) == status' = [status EXCEPT ![j] = s]

\* _mark_failed_if_active
MarkFailed(j) == Put(j, IF status[j] \in Active THEN "failed" ELSE status[j])

\* _terminate_process_tree
Kill(j) == child' = [child EXCEPT ![j] = IF @ \in Alive THEN "died" ELSE @]

\* _enqueue, for all jobs of a set; nothing is queued once _stop is set
Enqueue(js) ==
  IF service = "closing" THEN UNCHANGED <<queue, scheduled>>
  ELSE /\ queue' = queue \cup (js \ scheduled)
       /\ scheduled' = scheduled \cup js

-----------------------------------------------------------------------------
(* submit *)

\* Overlooks a job that is already running.
DuplicateQueued(j) == \E k \in Jobs : Key[k] = Key[j] /\ status[k] = "queued"

\* A request whose dedupe_key has an active row gets that row back.
Duplicate(j) == \E k \in Jobs : Key[k] = Key[j] /\ status[k] \in Active

\* Lookup, INSERT and _enqueue under the manager's lock.  The process may die
\* between the last two, which is a crash right after this step.
Submit(j) ==
  /\ service \in {"up", "closing"}
  /\ status[j] = "absent" /\ ~Duplicate(j)
  /\ Put(j, "queued")
  /\ Enqueue({j})
  /\ UNCHANGED <<service, processes, stopping, pc, job, child, cpc, history>>

-----------------------------------------------------------------------------
(* A supervisor thread: _worker_loop and _run_job *)

At(t, l) == pc[t] = l
Go(t, l) == pc' = [pc EXCEPT ![t] = l]

\* Back to the loop without _scheduled.discard.
FreeScheduled(t) == /\ pc' = [pc EXCEPT ![t] = "wait"]
                    /\ job' = [job EXCEPT ![t] = Nobody]
                    /\ UNCHANGED scheduled

\* The finally clause of _worker_loop.
Free(t) == /\ pc' = [pc EXCEPT ![t] = "wait"]
           /\ job' = [job EXCEPT ![t] = Nobody]
           /\ scheduled' = scheduled \ {job[t]}

Take(t) ==
  /\ service = "up" /\ At(t, "wait")
  /\ \E j \in queue :
       /\ \A k \in queue : Priority[j] <= Priority[k]
       /\ queue' = queue \ {j}
       /\ job' = [job EXCEPT ![t] = j]
  /\ Go(t, "claim")
  /\ UNCHANGED <<status, service, scheduled, processes, stopping, child, cpc,
                 history>>

\* UPDATE ... SET status='running' WHERE status='queued'.  A thread that sees
\* _stop first gives the job up.
Claim(t) ==
  LET j == job[t]
  IN  /\ At(t, "claim")
      /\ \/ /\ status[j] = "queued"
            /\ Put(j, "running") /\ Go(t, "spawn")
            /\ UNCHANGED <<scheduled, job>>
         \/ /\ status[j] # "queued" \/ service = "closing"
            /\ Free(t)
            /\ UNCHANGED status
      /\ UNCHANGED <<service, queue, processes, stopping, child, cpc, history>>

Spawn(t) ==
  /\ At(t, "spawn")
  /\ child' = [child EXCEPT ![job[t]] = "boot"]
  /\ Go(t, "register")
  /\ UNCHANGED <<status, service, queue, scheduled, processes, stopping, job,
                 cpc, history>>

\* Popen raises OSError.
SpawnFails(t) ==
  /\ At(t, "spawn") /\ faults < MaxFaults
  /\ faults' = faults + 1
  /\ MarkFailed(job[t])
  /\ Free(t)
  /\ UNCHANGED <<service, queue, processes, stopping, child, cpc, cancels>>

Register(t) ==
  /\ At(t, "register")
  /\ processes' = processes \cup {job[t]}
  /\ Go(t, "watch")
  /\ UNCHANGED <<status, service, queue, scheduled, stopping, job, child, cpc,
                 history>>

\* The child is gone, or the service stops: the loop ends.  A bad exit code
\* fails the job.
WatchEnds(t) ==
  LET j == job[t]
  IN  /\ At(t, "watch")
      /\ child[j] \notin Alive \/ service = "closing"
      /\ IF child[j] = "died" THEN MarkFailed(j) ELSE UNCHANGED status
      /\ processes' = processes \ {j}
      /\ Free(t)
      /\ UNCHANGED <<service, queue, stopping, child, cpc, history>>

WatchCancelled(t) ==
  LET j == job[t]
  IN  /\ At(t, "watch") /\ child[j] \in Alive /\ status[j] = "cancelled"
      /\ Kill(j)
      /\ processes' = processes \ {j}
      /\ Free(t)
      /\ UNCHANGED <<status, service, queue, stopping, cpc, history>>

\* The deadline passes: first the child is killed, then the row is written.
WatchTimesOut(t) ==
  /\ At(t, "watch") /\ child[job[t]] \in Alive /\ faults < MaxFaults
  /\ faults' = faults + 1
  /\ Kill(job[t])
  /\ Go(t, "timedout")
  /\ UNCHANGED <<status, service, queue, scheduled, processes, stopping, job,
                 cpc, cancels>>

MarkTimedOut(t) ==
  /\ At(t, "timedout")
  /\ MarkFailed(job[t])
  /\ processes' = processes \ {job[t]}
  /\ Free(t)
  /\ UNCHANGED <<service, queue, stopping, child, cpc, history>>

\* A statement of _run_job raises (database locked).  _worker_loop has no
\* except clause: the finally clauses run and the thread ends.  The UPDATE of
\* the pid, right after registering, stands outside the inner try.
ThreadDies(t) ==
  /\ pc[t] \in {"claim", "register", "watch", "timedout"} /\ faults < MaxFaults
  /\ faults' = faults + 1
  /\ processes' = (IF At(t, "register") THEN processes \cup {job[t]}
                   ELSE processes \ {job[t]})
  /\ pc' = [pc EXCEPT ![t] = "dead"]
  /\ job' = [job EXCEPT ![t] = Nobody]
  /\ scheduled' = scheduled \ {job[t]}
  /\ UNCHANGED <<status, service, queue, stopping, child, cpc, cancels>>

-----------------------------------------------------------------------------
(* The child: execute_background_job *)

\* A row that is no longer active is left alone.
ChildStarts(j) ==
  /\ child[j] = "boot"
  /\ IF status[j] \in Active
     THEN /\ child' = [child EXCEPT ![j] = "body"]
          /\ Put(j, "running")
     ELSE /\ child' = [child EXCEPT ![j] = "exited"]
          /\ UNCHANGED status
  /\ UNCHANGED <<service, memory, cpc, history>>

\* The work itself, to its end or to an exception.
ChildWorks(j) ==
  /\ child[j] = "body"
  /\ \E l \in {"write", "raise"} : child' = [child EXCEPT ![j] = l]
  /\ UNCHANGED <<status, service, memory, cpc, history>>

\* ... WHERE status='running'
ChildCompletes(j) ==
  /\ child[j] = "write"
  /\ Put(j, IF status[j] = "running" THEN "completed" ELSE status[j])
  /\ child' = [child EXCEPT ![j] = "exited"]
  /\ UNCHANGED <<service, memory, cpc, history>>

\* The exception is recorded and raised again: exit code 1.
ChildRaises(j) ==
  /\ child[j] = "raise"
  /\ MarkFailed(j)
  /\ Kill(j)
  /\ UNCHANGED <<service, memory, cpc, history>>

ChildDies(j) ==
  /\ child[j] \in Alive /\ faults < MaxFaults
  /\ faults' = faults + 1
  /\ Kill(j)
  /\ UNCHANGED <<status, service, memory, cpc, cancels>>

-----------------------------------------------------------------------------
(* cancel: the row is read, then written whatever it is by now, and a        *)
(* registered child is terminated.                                           *)

CancelRead(j) ==
  /\ service = "up" /\ cancels < MaxCancels
  /\ cpc[j] = "idle" /\ status[j] \in Active
  /\ cancels' = cancels + 1
  /\ cpc' = [cpc EXCEPT ![j] = "read"]
  /\ UNCHANGED <<status, service, memory, child, faults>>

CancelWrite(j) ==
  /\ cpc[j] = "read"
  /\ Put(j, "cancelled")
  /\ cpc' = [cpc EXCEPT ![j] = "kill"]
  /\ UNCHANGED <<service, memory, child, history>>

CancelKill(j) ==
  /\ cpc[j] = "kill"
  /\ IF j \in processes THEN Kill(j) ELSE UNCHANGED child
  /\ cpc' = [cpc EXCEPT ![j] = "idle"]
  /\ UNCHANGED <<status, service, memory, history>>

-----------------------------------------------------------------------------
(* The service *)

\* All of its memory: queue, threads, registered processes, open requests.
Forget ==
  /\ queue' = {} /\ scheduled' = {} /\ processes' = {} /\ stopping' = {}
  /\ pc' = [t \in Threads |-> "wait"]
  /\ job' = [t \in Threads |-> Nobody]
  /\ cpc' = [j \in Jobs |-> "idle"]

Crash ==
  /\ service \in {"up", "closing"} /\ faults < MaxFaults
  /\ faults' = faults + 1
  /\ service' = "down"
  /\ Forget
  /\ UNCHANGED <<status, child, cancels>>

\* shutdown sets _stop and takes a snapshot of the registered processes ...
Shutdown ==
  /\ service = "up" /\ faults < MaxFaults
  /\ faults' = faults + 1
  /\ service' = "closing"
  /\ stopping' = processes
  /\ UNCHANGED <<status, queue, scheduled, processes, pc, job, child, cpc,
                 cancels>>

\* ... terminates each and fails its row ...
StopOne(j) ==
  /\ service = "closing" /\ j \in stopping
  /\ Kill(j) /\ MarkFailed(j)
  /\ stopping' = stopping \ {j}
  /\ UNCHANGED <<service, queue, scheduled, processes, pc, job, cpc, history>>

\* ... and gives the threads five seconds before the process ends.
ShutdownEnds ==
  /\ service = "closing" /\ stopping = {}
  /\ service' = "down"
  /\ Forget
  /\ UNCHANGED <<status, child, history>>

Recovered == [j \in Jobs |-> IF status[j] = "running" THEN "failed" ELSE status[j]]

RequeuedNone == {}
Requeued == {j \in Jobs : status'[j] = "queued"}

\* The lifespan handler: recover.
Start ==
  /\ service = "down"
  /\ service' = "up"
  /\ status' = Recovered
  /\ queue' = Requeued /\ scheduled' = Requeued
  /\ UNCHANGED <<processes, stopping, pc, job, child, cpc, history>>

ThreadStep(t) ==
  \/ Take(t) \/ Claim(t) \/ Spawn(t) \/ Register(t)
  \/ WatchEnds(t) \/ WatchCancelled(t) \/ MarkTimedOut(t)
ChildStep(j) ==
  ChildStarts(j) \/ ChildWorks(j) \/ ChildCompletes(j) \/ ChildRaises(j)

Next ==
  \/ \E t \in Threads :
       ThreadStep(t) \/ SpawnFails(t) \/ WatchTimesOut(t) \/ ThreadDies(t)
  \/ \E j \in Jobs :
       \/ Submit(j) \/ ChildStep(j) \/ ChildDies(j)
       \/ CancelRead(j) \/ CancelWrite(j) \/ CancelKill(j) \/ StopOne(j)
  \/ Crash \/ Shutdown \/ ShutdownEnds \/ Start

Spec == Init /\ [][Next]_vars

\* Threads and processes are scheduled by the operating system, and a service
\* that went down is started again.
Fairness ==
  /\ \A t \in Threads : WF_vars(ThreadStep(t))
  /\ \A j \in Jobs : /\ WF_vars(ChildStep(j))
                     /\ WF_vars(CancelWrite(j)) /\ WF_vars(CancelKill(j))
                     /\ WF_vars(StopOne(j))
  /\ WF_vars(ShutdownEnds) /\ WF_vars(Start)

FairSpec == Spec /\ Fairness

-----------------------------------------------------------------------------
(* Properties *)

Busy(t) == pc[t] \notin {"wait", "dead"}

\* Types, and _scheduled is exactly the jobs queued or in a thread's hands.
TypeOK ==
  /\ status \in [Jobs -> {"absent"} \cup Active \cup Terminal]
  /\ service \in {"up", "closing", "down"}
  /\ queue \subseteq Jobs /\ processes \subseteq Jobs /\ stopping \subseteq Jobs
  /\ pc \in [Threads -> {"wait", "claim", "spawn", "register", "watch",
                         "timedout", "dead"}]
  /\ job \in [Threads -> Jobs \cup {Nobody}]
  /\ \A t \in Threads : Busy(t) <=> job[t] # Nobody
  /\ scheduled = queue \cup {job[t] : t \in {u \in Threads : Busy(u)}}
  /\ child \in [Jobs -> Alive \cup {"none", "exited", "died"}]
  /\ cpc \in [Jobs -> {"idle", "read", "kill"}]
  /\ cancels \in Nat /\ faults \in Nat

\* Every submitted job comes to an outcome, through crashes, shutdowns, killed
\* children and timeouts, unless a failing statement took down a supervisor
\* thread of the running service.
EverySettles ==
  \A j \in Jobs :
    status[j] \in Active ~>
      (status[j] \in Terminal \/ \E t \in Threads : pc[t] = "dead")

\* The child as JobQueue sees it: its work lasts from the moment it finds the
\* row active until it ends.
Working ==
  [j \in Jobs |->
     IF child[j] \in {"none", "boot"} THEN "none"
     ELSE IF child[j] \in {"body", "write", "raise"} THEN "working" ELSE "gone"]

Abstract == INSTANCE JobQueue WITH row <- status, process <- Working

\* The queue implements JobQueue: whatever crashes, times out, is cancelled or
\* shut down, the code that submits jobs sees one active row per key, a process
\* that starts its work at most once, and outcomes that stay.
ImplementsJobQueue == Abstract!Spec
=============================================================================
