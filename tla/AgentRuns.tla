------------------------------ MODULE AgentRuns ------------------------------
(***************************************************************************)
(* The durable Agent job coordinator: agent_jobs.py over the agent_runs    *)
(* table of storage_agents.py.  A run is a row; an executor claims its     *)
(* lease, calls the model, stores the candidate, validates it and writes   *)
(* it to the learning records.  A sweeper recovers rows whose lease has    *)
(* lapsed, and the learner may cancel or retry a run at any moment.        *)
(*                                                                         *)
(* With ProcessIsolation every run executes in a child process that has an *)
(* AgentJobManager, and so a lease owner id, of its own; a child survives  *)
(* a crash of the service.  Without it executors are threads of the        *)
(* service and share the service's owner id.                               *)
(*                                                                         *)
(* One action is one database transaction (or one read followed only by    *)
(* local work); everything between two of them may interleave.             *)
(***************************************************************************)
EXTENDS Naturals, FiniteSets

CONSTANTS
  Runs,             \* agent_runs.run_id
  Workers,          \* executor threads, or child processes
  Kind,             \* [Runs -> {"session", "dialogue", "mock"}]: output contract
  ProcessIsolation, \* AgentJobManager(process_isolation=...)
  Slots,            \* AgentJobManager(workers=...): the semaphore's bound
  FaultKinds,       \* which faults the environment may inject
  MaxFaults,        \* bound on injected faults
  MaxRetries,       \* bound on retry requests per run
  Cancellable,      \* bound: the runs the learner may cancel
  Nobody,           \* no lease owner, no job, no child
  Service, Ghost,   \* lease owner ids: this service's, and one of a dead instance
  ErrorResult       \* result_json of a failed run: {"error": ...}

Faults == {"service_crash", "worker_crash", "spawn_error", "stall", "deadline",
           "store_error"}

ASSUME ConstantsOK ==
  /\ Kind \in [Runs -> {"session", "dialogue", "mock"}]
  /\ ProcessIsolation \in BOOLEAN
  /\ Slots \in Nat \ {0}
  /\ FaultKinds \subseteq Faults
  /\ MaxFaults \in Nat /\ MaxRetries \in Nat
  /\ {Nobody, Service, Ghost} \cap Workers = {}
  /\ Nobody # Service /\ Nobody # Ghost /\ Service # Ghost
  /\ Nobody \notin Runs
  /\ ErrorResult \notin Nat

VARIABLES
  status, checkpoint, cancelRequested,  \* columns of agent_runs
  result,     \* agent_runs.result_json
  owner,      \* agent_runs.lease_owner
  live,       \* lease_expires_at is set and in the future
  compacted,  \* rows whose request_json was compacted (hash no longer matches)
  service,    \* "up", "closing" or "down"
  scheduled,  \* AgentJobManager._scheduled
  child,      \* the process a supervisor thread of the service watches
  sup,        \* where that supervisor thread is
  pc, job, cand,  \* the executor: where it is, its run, the answer it holds
  beating,    \* executors whose heartbeat thread still renews the lease
  creating,   \* runs whose create request has not reached enqueue yet
  cpc,        \* where the cancel request of a run is
  retrying,   \* runs whose retry request has read the row, not yet written it
  sweep,      \* the recovery pass: the row it claimed and what it will write
  artifact,   \* coaching_artifacts: the answer last upserted (0: none)
  effect,     \* the Session's payload, or the dialogue's message (0: none)
  turn,       \* tutor_turn_commits: the answer the turn was made of (0: none)
  effects,    \* history: how often effect was written
  calls,      \* history: model calls started for the run
  retries,    \* history: retry resets written for the run
  disturbed,  \* history: runs reported by a supervisor, or stalled
  missed,     \* history: runs whose cancel missed a child at work
  faults      \* faults injected so far

stage == <<status, checkpoint, result>>
lease == <<owner, live>>
row   == <<stage, cancelRequested, lease>>

vars == <<row, compacted, service, scheduled, child, sup, pc, job, cand,
          beating, creating, cpc, retrying, sweep, artifact, effect, turn, effects,
          calls, retries, disturbed, missed, faults>>

executor   == <<pc, job, cand, beating>>
supervisor == <<child, sup>>
requests   == <<creating, cpc, retrying>>
store      == <<artifact, effect, turn, effects>>
history    == <<calls, retries, disturbed, missed, faults>>

Active      == {"queued", "running", "validating", "persisting"}
Terminal    == {"persisted", "test_passed", "failed", "cancelled"}
Retryable   == {"failed", "cancelled"}
Checkpoints == {"queued", "invoking", "candidate_received", "validated",
                "persisting", "persisted", "test_passed", "failed", "cancelled"}
Resumables  == {"candidate_received", "validated", "persisting"}

\* result_json: none, {"error": ...}, or a model answer (the number of its call)
NoResult == 0
Results == Nat \cup {ErrorResult}
IsAnswer(x) == x \notin {NoResult, ErrorResult}

\* Executors between their claim and the release of the lease.
Working == {"resume", "prepare", "invoke", "store", "validate", "mark",
            "pass", "effect", "artifact", "look", "message", "turn", "commit",
            "compact", "fail", "failwrite", "release"}
Alive == Working \cup {"boot"}
Gone  == {"exited", "dead"}

Me(w) == IF ProcessIsolation THEN w ELSE Service

Owners == Workers \cup {Nobody, Service, Ghost}

-----------------------------------------------------------------------------
Init ==
  /\ status = [r \in Runs |-> "absent"]
  /\ checkpoint = [r \in Runs |-> "queued"]
  /\ result = [r \in Runs |-> NoResult]
  /\ cancelRequested = [r \in Runs |-> FALSE]
  /\ owner = [r \in Runs |-> Nobody]
  /\ live = [r \in Runs |-> FALSE]
  /\ compacted = {}
  /\ service = "up"
  /\ scheduled = {}
  /\ child = [r \in Runs |-> Nobody]
  /\ sup = [r \in Runs |-> "none"]
  /\ pc = [w \in Workers |-> "idle"]
  /\ job = [w \in Workers |-> Nobody]
  /\ cand = [w \in Workers |-> NoResult]
  /\ beating = {}
  /\ creating = {}
  /\ cpc = [r \in Runs |-> "idle"]
  /\ retrying = {}
  /\ sweep = [r \in Runs |-> "idle"]
  /\ artifact = [r \in Runs |-> NoResult]
  /\ effect = [r \in Runs |-> NoResult]
  /\ turn = [r \in Runs |-> NoResult]
  /\ effects = [r \in Runs |-> 0]
  /\ calls = [r \in Runs |-> 0]
  /\ retries = [r \in Runs |-> 0]
  /\ disturbed = {} /\ missed = {}
  /\ faults = 0

-----------------------------------------------------------------------------
(* The run's row *)

\* The columns update_agent_run writes, and those of the lease.
Put(r, s, c, x) == /\ status' = [status EXCEPT ![r] = s]
                   /\ checkpoint' = [checkpoint EXCEPT ![r] = c]
                   /\ result' = [result EXCEPT ![r] = x]

Lease(r, o, l) == /\ owner' = [owner EXCEPT ![r] = o]
                  /\ live' = [live EXCEPT ![r] = l]

\* Mutants of Lapsed: the recovery ignores the expiry, or waits for a release.
LapsedAlways(r)   == TRUE
LapsedReleased(r) == owner[r] = Nobody

\* The lease expired, was released, or was never taken.
Lapsed(r) == ~live[r]

\* The lease clause of claim_agent_run: free, mine, or lapsed.
LeaseFree(r, me) == owner[r] \in {Nobody, me} \/ ~live[r]

\* A stored candidate is resumed without calling the model again.
Resumable(r) == checkpoint[r] \in Resumables /\ IsAnswer(result[r])

\* compact_agent_run_request removed the payload input_hash was computed from.
HashMatches(r) == r \notin compacted

-----------------------------------------------------------------------------
(* Requests: create, retry, cancel *)

\* AgentJobManager.enqueue: one executor or supervisor per run and service.
Enqueued(r) == scheduled' = IF service = "up" THEN scheduled \cup {r} ELSE scheduled

Create(r) ==
  /\ service = "up" /\ status[r] = "absent"
  /\ Put(r, "queued", checkpoint[r], result[r])
  /\ UNCHANGED <<cancelRequested, lease>>
  /\ creating' = creating \cup {r}
  /\ UNCHANGED <<compacted, service, scheduled, supervisor, executor, cpc,
                 retrying, sweep, store, history>>

CreateEnqueue(r) ==
  /\ r \in creating
  /\ creating' = creating \ {r}
  /\ Enqueued(r)
  /\ UNCHANGED <<row, compacted, service, supervisor, executor, cpc, retrying,
                 sweep, store, history>>

RetryRead(r) ==
  /\ service = "up" /\ r \notin retrying
  /\ status[r] \in Retryable
  /\ retries[r] < MaxRetries
  /\ retrying' = retrying \cup {r}
  /\ UNCHANGED <<row, compacted, service, scheduled, supervisor, executor,
                 creating, cpc, sweep, store, history>>

\* The reset does not look at the row again.
RetryWrite(r) ==
  /\ r \in retrying
  /\ retrying' = retrying \ {r}
  /\ Put(r, "queued", "queued", NoResult)
  /\ cancelRequested' = [cancelRequested EXCEPT ![r] = FALSE]
  /\ Lease(r, Nobody, FALSE)
  /\ retries' = [retries EXCEPT ![r] = @ + 1]
  /\ Enqueued(r)
  /\ UNCHANGED <<compacted, service, supervisor, executor, creating, cpc,
                 sweep, store, calls, disturbed, missed, faults>>

CancelMark(r) ==
  /\ service = "up" /\ cpc[r] = "idle" /\ r \in Cancellable
  /\ status[r] \in Active
  /\ cancelRequested' = [cancelRequested EXCEPT ![r] = TRUE]
  /\ UNCHANGED <<stage, lease>>
  /\ cpc' = [cpc EXCEPT ![r] = "terminate"]
  /\ UNCHANGED <<compacted, service, scheduled, supervisor, executor, creating,
                 retrying, sweep, store, history>>

\* The lease of a process that died stays in the row, under an id nobody has.
Orphan(ws) ==
  /\ owner' = [r \in Runs |-> IF owner[r] \in ws THEN Ghost ELSE owner[r]]
  /\ UNCHANGED <<stage, cancelRequested, live>>

\* Mutant of CancelTerminate: the child is left running.
CancelTerminateNothing(r) ==
  /\ cpc[r] = "terminate"
  /\ cpc' = [cpc EXCEPT ![r] = "write"]
  /\ UNCHANGED <<row, compacted, service, scheduled, supervisor, executor,
                 creating, retrying, sweep, store, history>>

\* _terminate_worker finds only children this service has registered: one spawned a
\* moment ago, or by an earlier service, runs on.
CancelTerminate(r) ==
  /\ cpc[r] = "terminate"
  /\ cpc' = [cpc EXCEPT ![r] = "write"]
  /\ IF sup[r] = "watch" /\ pc[child[r]] \in Alive
     THEN /\ pc' = [pc EXCEPT ![child[r]] = "dead"]
          /\ beating' = beating \ {child[r]}
          /\ Orphan({child[r]})
     ELSE UNCHANGED <<pc, beating, row>>
  /\ missed' = IF sup[r] = "register" /\ pc[child[r]] \in Working
               THEN missed \cup {r} ELSE missed
  /\ UNCHANGED <<compacted, service, scheduled, supervisor, job, cand, creating,
                 retrying, sweep, store, calls, retries, disturbed, faults>>

\* The final write does not look at the row again.
CancelWrite(r) ==
  /\ cpc[r] = "write"
  /\ cpc' = [cpc EXCEPT ![r] = "idle"]
  /\ Put(r, "cancelled", "cancelled", result[r])
  /\ Lease(r, Nobody, FALSE)
  /\ UNCHANGED cancelRequested
  /\ UNCHANGED <<compacted, service, scheduled, supervisor, executor, creating,
                 retrying, sweep, store, history>>

-----------------------------------------------------------------------------
(* The recovery pass, at startup and every few seconds *)

SweepClaim(r) ==
  /\ service = "up" /\ \A s \in Runs : sweep[s] = "idle"
  /\ status[r] \in Active /\ ~cancelRequested[r] /\ Lapsed(r)
  /\ Lease(r, Service, TRUE)
  /\ UNCHANGED <<stage, cancelRequested>>
  /\ IF status[r] = "queued"
     THEN Enqueued(r) /\ UNCHANGED sweep
     ELSE /\ sweep' = [sweep EXCEPT ![r] = IF Resumable(r) THEN "requeue"
                                                           ELSE "interrupt"]
          /\ UNCHANGED scheduled
  /\ UNCHANGED <<compacted, service, supervisor, executor, requests, store,
                 history>>

SweepRequeue(r) ==
  /\ sweep[r] = "requeue"
  /\ sweep' = [sweep EXCEPT ![r] = "idle"]
  /\ Put(r, "queued", checkpoint[r], result[r])
  /\ UNCHANGED <<cancelRequested, lease>>
  /\ Enqueued(r)
  /\ UNCHANGED <<compacted, service, supervisor, executor, requests, store,
                 history>>

\* Mutant of SweepInterrupt: the interrupted call is simply made again.
SweepInterruptRequeue(r) ==
  /\ sweep[r] = "interrupt"
  /\ sweep' = [sweep EXCEPT ![r] = "idle"]
  /\ Put(r, "queued", "queued", result[r]) /\ Lease(r, Nobody, FALSE)
  /\ Enqueued(r)
  /\ UNCHANGED <<cancelRequested, compacted, service, supervisor, executor,
                 requests, store, history>>

SweepInterrupt(r) ==
  /\ sweep[r] = "interrupt"
  /\ sweep' = [sweep EXCEPT ![r] = "idle"]
  /\ Put(r, "failed", "failed", result[r])
  /\ Lease(r, Nobody, FALSE)
  /\ UNCHANGED cancelRequested
  /\ UNCHANGED <<compacted, service, scheduled, supervisor, executor, requests,
                 store, history>>

-----------------------------------------------------------------------------
(* Threads of the service: executors, or supervisors of child processes *)

Goto(w, where) == pc' = [pc EXCEPT ![w] = where]

Busy == IF ProcessIsolation THEN {r \in Runs : sup[r] # "none"}
                            ELSE {w \in Workers : pc[w] # "idle"}

HasExecutor(r) == IF ProcessIsolation THEN sup[r] # "none"
                                      ELSE \E w \in Workers : job[w] = r

\* A thread of the service gets a slot: _execute_safely.
Start(r, w) ==
  /\ ~ProcessIsolation /\ service # "down" /\ r \in scheduled /\ ~HasExecutor(r)
  /\ Cardinality(Busy) < Slots
  /\ pc[w] = "idle"
  /\ Goto(w, "boot") /\ job' = [job EXCEPT ![w] = r]
  /\ UNCHANGED <<row, compacted, service, scheduled, supervisor, cand, beating,
                 requests, sweep, store, history>>

\* _execute_process_safely gets its slot and reads the run's status ...
TakeSlot(r) ==
  /\ ProcessIsolation /\ service # "down" /\ r \in scheduled /\ ~HasExecutor(r)
  /\ Cardinality(Busy) < Slots
  /\ status[r] \notin Terminal
  /\ sup' = [sup EXCEPT ![r] = "spawn"]
  /\ UNCHANGED <<row, compacted, service, scheduled, child, executor, requests,
                 sweep, store, history>>

\* ... or finds the run finished.
StartNothing(r) ==
  /\ ProcessIsolation /\ service # "down" /\ r \in scheduled /\ ~HasExecutor(r)
  /\ Cardinality(Busy) < Slots
  /\ status[r] \in Terminal
  /\ scheduled' = scheduled \ {r}
  /\ UNCHANGED <<row, compacted, service, supervisor, executor, requests, sweep,
                 store, history>>

\* Popen: the child runs, and nobody but this thread knows of it ...
Spawn(r, w) ==
  /\ ProcessIsolation /\ sup[r] = "spawn" /\ pc[w] = "idle"
  /\ Goto(w, "boot") /\ job' = [job EXCEPT ![w] = r]
  /\ child' = [child EXCEPT ![r] = w]
  /\ sup' = [sup EXCEPT ![r] = "register"]
  /\ UNCHANGED <<row, compacted, service, scheduled, cand, beating, requests,
                 sweep, store, history>>

\* ... until it is in _worker_processes.
Register(r) ==
  /\ sup[r] = "register"
  /\ sup' = [sup EXCEPT ![r] = "watch"]
  /\ UNCHANGED <<row, compacted, service, scheduled, child, executor, requests,
                 sweep, store, history>>

\* A child that left: nonzero exit of an active run is reported as a failure.
SupervisorReap(r) ==
  /\ sup[r] = "watch" /\ pc[child[r]] \in Gone
  /\ pc' = [pc EXCEPT ![child[r]] = "idle"]
  /\ job' = [job EXCEPT ![child[r]] = Nobody]
  /\ child' = [child EXCEPT ![r] = Nobody]
  /\ IF pc[child[r]] = "dead" /\ status[r] \in Active
     THEN sup' = [sup EXCEPT ![r] = "fail"] /\ UNCHANGED scheduled
     ELSE sup' = [sup EXCEPT ![r] = "none"] /\ scheduled' = scheduled \ {r}
  /\ UNCHANGED <<row, compacted, service, cand, beating, requests, sweep, store,
                 history>>

\* _fail: a cancelled run is left alone, and only that.
SupervisorFail(r) ==
  /\ sup[r] = "fail"
  /\ IF status[r] = "cancelled"
     THEN sup' = [sup EXCEPT ![r] = "none"] /\ scheduled' = scheduled \ {r}
     ELSE sup' = [sup EXCEPT ![r] = "failwrite"] /\ UNCHANGED scheduled
  /\ UNCHANGED <<row, compacted, service, child, executor, requests, sweep,
                 store, history>>

\* Mutant of FailRow: a status no other part of the coordinator knows.
FailRowUnknown(r) == Put(r, "invalid_output", "failed", ErrorResult)
                     /\ UNCHANGED <<cancelRequested, lease>>

FailRow(r) == Put(r, "failed", "failed", ErrorResult)
              /\ UNCHANGED <<cancelRequested, lease>>

SupervisorFailWrite(r) ==
  /\ sup[r] = "failwrite"
  /\ FailRow(r)
  /\ sup' = [sup EXCEPT ![r] = "none"]
  /\ scheduled' = scheduled \ {r}
  /\ disturbed' = disturbed \cup {r}
  /\ UNCHANGED <<compacted, service, child, executor, requests, sweep, store,
                 calls, retries, missed, faults>>

-----------------------------------------------------------------------------
(* Executors: AgentJobManager._execute *)

\* What a step of executor w leaves alone besides its program counter.
Quiet(w) == UNCHANGED <<service, supervisor, job, beating, requests, sweep, disturbed,
                        missed, faults>>

\* The end of _execute_safely, or of the child process.
Leave(w) ==
  /\ IF ProcessIsolation /\ child[job[w]] = w
     THEN Goto(w, "exited") /\ UNCHANGED job
     ELSE Goto(w, "idle") /\ job' = [job EXCEPT ![w] = Nobody]
  /\ cand' = [cand EXCEPT ![w] = NoResult]
  /\ scheduled' = IF ProcessIsolation THEN scheduled ELSE scheduled \ {job[w]}

Claimable(r, me) ==
  status[r] = "queued" /\ ~cancelRequested[r] /\ LeaseFree(r, me)

\* Mutant of ClaimedAt: a stored candidate is not looked at.
ClaimedAtAfresh(r) == IF HashMatches(r) THEN "prepare" ELSE "fail"

\* Where _execute goes after the claim.
ClaimedAt(r) == IF ~HashMatches(r) THEN "fail"
                ELSE IF Resumable(r) THEN "resume" ELSE "prepare"

\* claim_agent_run, the heartbeat's start and the hash check.
Claim(w) == LET r == job[w] IN
  /\ pc[w] = "boot" /\ Claimable(r, Me(w))
  /\ Lease(r, Me(w), TRUE)
  /\ UNCHANGED <<stage, cancelRequested>>
  /\ beating' = beating \cup {w}
  /\ cand' = [cand EXCEPT ![w] = result[r]]
  /\ Goto(w, ClaimedAt(r))
  /\ UNCHANGED <<compacted, service, scheduled, supervisor, job, requests,
                 sweep, store, history>>

ClaimRefused(w) ==
  /\ pc[w] = "boot" /\ ~Claimable(job[w], Me(w))
  /\ Leave(w)
  /\ UNCHANGED <<row, compacted, service, supervisor, beating, requests,
                 sweep, store, history>>

Resume(w) == LET r == job[w] IN
  /\ pc[w] = "resume" /\ Goto(w, "store")
  /\ Put(r, "validating", checkpoint[r], result[r])
  /\ UNCHANGED <<cancelRequested, lease>>
  /\ Quiet(w) /\ UNCHANGED <<compacted, scheduled, cand, store, calls, retries>>

\* InferenceBroker.for_run found no usable route, or preparation failed.
PrepareFails(w) ==
  /\ pc[w] = "prepare" /\ Goto(w, "fail")
  /\ Quiet(w) /\ UNCHANGED <<row, compacted, scheduled, cand, store, calls, retries>>

Invoke(w) == LET r == job[w] IN
  /\ pc[w] = "prepare" /\ Goto(w, "invoke")
  /\ Put(r, "running", "invoking", result[r])
  /\ UNCHANGED <<cancelRequested, lease>>
  /\ calls' = [calls EXCEPT ![r] = @ + 1]
  /\ cand' = [cand EXCEPT ![w] = calls[r] + 1]
  /\ Quiet(w) /\ UNCHANGED <<compacted, scheduled, store, retries>>

\* The answer arrives; a cancellation noticed now makes the executor stop.
ModelAnswers(w) == LET r == job[w] IN
  /\ pc[w] = "invoke"
  /\ Goto(w, IF cancelRequested[r] \/ status[r] = "cancelled"
             THEN "release" ELSE "store")
  /\ Quiet(w) /\ UNCHANGED <<row, compacted, scheduled, cand, store, calls, retries>>

\* An error, a timeout, or adapter.cancel cutting the call short.
ModelFails(w) ==
  /\ pc[w] = "invoke" /\ Goto(w, "fail")
  /\ Quiet(w) /\ UNCHANGED <<row, compacted, scheduled, cand, store, calls, retries>>

StoreCandidate(w) == LET r == job[w] IN
  /\ pc[w] = "store" /\ Goto(w, "validate")
  /\ Put(r, "validating", "candidate_received", cand[w])
  /\ UNCHANGED <<cancelRequested, lease>>
  /\ Quiet(w) /\ UNCHANGED <<compacted, scheduled, cand, store, calls, retries>>

ValidateFails(w) ==
  /\ pc[w] = "validate" /\ Goto(w, "fail")
  /\ Quiet(w) /\ UNCHANGED <<row, compacted, scheduled, cand, store, calls, retries>>

Validate(w) == LET r == job[w] IN
  /\ pc[w] = "validate"
  /\ Goto(w, IF Kind[r] = "mock" THEN "pass" ELSE "mark")
  /\ Put(r, status[r], "validated", cand[w])
  /\ UNCHANGED <<cancelRequested, lease>>
  /\ Quiet(w) /\ UNCHANGED <<compacted, scheduled, cand, store, calls, retries>>

\* The mock backend ends here, without a learning record.
PassTest(w) == LET r == job[w] IN
  /\ pc[w] = "pass" /\ Goto(w, "compact")
  /\ Put(r, "test_passed", "test_passed", cand[w])
  /\ UNCHANGED <<cancelRequested, lease>>
  /\ Quiet(w) /\ UNCHANGED <<compacted, scheduled, cand, store, calls, retries>>

MarkPersisting(w) == LET r == job[w] IN
  /\ pc[w] = "mark"
  /\ Goto(w, IF Kind[r] = "dialogue" THEN "artifact" ELSE "effect")
  /\ Put(r, "persisting", "persisting", result[r])
  /\ UNCHANGED <<cancelRequested, lease>>
  /\ Quiet(w) /\ UNCHANGED <<compacted, scheduled, cand, store, calls, retries>>

\* mutate_session, under the Session's lock, keeps the first payload written under
\* the run's key.
Apply(w) == LET r == job[w] IN
  /\ pc[w] = "effect" /\ Goto(w, "commit")
  /\ IF effect[r] = NoResult
     THEN /\ effect' = [effect EXCEPT ![r] = cand[w]]
          /\ effects' = [effects EXCEPT ![r] = @ + 1]
     ELSE UNCHANGED <<effect, effects>>
  /\ Quiet(w)
  /\ UNCHANGED <<row, compacted, scheduled, cand, artifact, turn, calls, retries>>

\* save_coaching_artifact overwrites on the artifact id of the run.
SaveArtifact(w) == LET r == job[w] IN
  /\ pc[w] = "artifact" /\ Goto(w, "look")
  /\ artifact' = [artifact EXCEPT ![r] = cand[w]]
  /\ Quiet(w)
  /\ UNCHANGED <<row, compacted, scheduled, cand, effect, turn, effects, calls, retries>>

\* Mutant of LookForMessage: the run's message is not looked for.
LookForNothing(w) ==
  /\ pc[w] = "look" /\ Goto(w, "message")
  /\ Quiet(w) /\ UNCHANGED <<row, compacted, scheduled, cand, store, calls, retries>>

\* add_assistant_message looks for a message of the run in one transaction ...
LookForMessage(w) ==
  /\ pc[w] = "look"
  /\ Goto(w, IF effect[job[w]] = NoResult THEN "message" ELSE "turn")
  /\ Quiet(w) /\ UNCHANGED <<row, compacted, scheduled, cand, store, calls, retries>>

\* ... and upserts it in another, over whatever is there by then.
WriteMessage(w) == LET r == job[w] IN
  /\ pc[w] = "message" /\ Goto(w, "turn")
  /\ effect' = [effect EXCEPT ![r] = cand[w]]
  /\ effects' = [effects EXCEPT ![r] = @ + 1]
  /\ Quiet(w)
  /\ UNCHANGED <<row, compacted, scheduled, cand, artifact, turn, calls, retries>>

\* Mutant of ApplyRejected: the conflict is swallowed.
ApplyRejectedSilently(w) ==
  /\ pc[w] = "message" \/ (pc[w] = "effect" /\ effect[job[w]] = NoResult)
  /\ Goto(w, IF pc[w] = "message" THEN "turn" ELSE "commit")
  /\ Quiet(w) /\ UNCHANGED <<row, compacted, scheduled, cand, store, calls, retries>>

\* The Session moved past base_revision, or the dialogue's thread is gone.
ApplyRejected(w) ==
  /\ pc[w] = "message" \/ (pc[w] = "effect" /\ effect[job[w]] = NoResult)
  /\ Goto(w, "fail")
  /\ Quiet(w) /\ UNCHANGED <<row, compacted, scheduled, cand, store, calls, retries>>

\* persist_tutor_turn_effects commits a turn once per run; what it does to the
\* thread's teaching cycle afterwards may raise.
CommitTurn(w) == LET r == job[w] IN
  /\ pc[w] = "turn" /\ (Goto(w, "commit") \/ Goto(w, "fail"))
  /\ turn' = IF turn[r] = NoResult THEN [turn EXCEPT ![r] = cand[w]] ELSE turn
  /\ Quiet(w)
  /\ UNCHANGED <<row, compacted, scheduled, cand, artifact, effect, effects, calls, retries>>

\* The turn's own transaction fails.
TurnFails(w) ==
  /\ pc[w] = "turn" /\ Goto(w, "fail")
  /\ Quiet(w) /\ UNCHANGED <<row, compacted, scheduled, cand, store, calls, retries>>

Commit(w) == LET r == job[w] IN
  /\ pc[w] = "commit" /\ Goto(w, "compact")
  /\ Put(r, "persisted", "persisted", cand[w])
  /\ UNCHANGED <<cancelRequested, lease>>
  /\ Quiet(w) /\ UNCHANGED <<compacted, scheduled, cand, store, calls, retries>>

\* compact_agent_run_request only touches a finished run.
Compact(w) == LET r == job[w] IN
  /\ pc[w] = "compact" /\ Goto(w, "release")
  /\ compacted' = IF status[r] \in {"persisted", "test_passed"}
                  THEN compacted \cup {r} ELSE compacted
  /\ Quiet(w) /\ UNCHANGED <<row, scheduled, cand, store, calls, retries>>

FailRead(w) ==
  /\ pc[w] = "fail"
  /\ Goto(w, IF status[job[w]] = "cancelled" THEN "release" ELSE "failwrite")
  /\ Quiet(w) /\ UNCHANGED <<row, compacted, scheduled, cand, store, calls, retries>>

FailWrite(w) ==
  /\ pc[w] = "failwrite" /\ Goto(w, "release")
  /\ FailRow(job[w])
  /\ Quiet(w) /\ UNCHANGED <<compacted, scheduled, cand, store, calls, retries>>

\* The finally clause: stop the heartbeat, release a lease still one's own.
Release(w) == LET r == job[w] IN
  /\ pc[w] = "release"
  /\ IF owner[r] = Me(w) THEN Lease(r, Nobody, FALSE) ELSE UNCHANGED lease
  /\ UNCHANGED <<stage, cancelRequested>>
  /\ beating' = beating \ {w}
  /\ Leave(w)
  /\ UNCHANGED <<compacted, service, supervisor, requests, sweep, store, history>>

-----------------------------------------------------------------------------
(* Leases and time *)

\* renew_agent_run_lease succeeds for this executor.
Renewable(w) == owner[job[w]] = Me(w) /\ status[job[w]] \in Active

Renew(w) ==
  /\ w \in beating /\ Renewable(w) /\ ~live[job[w]]
  /\ Lease(job[w], owner[job[w]], TRUE)
  /\ UNCHANGED <<stage, cancelRequested>>
  /\ UNCHANGED <<compacted, service, scheduled, supervisor, executor, requests,
                 sweep, store, history>>

\* One refused renewal ends the heartbeat thread for good.
HeartbeatStops(w) ==
  /\ w \in beating /\ ~Renewable(w)
  /\ beating' = beating \ {w}
  /\ UNCHANGED <<row, compacted, service, scheduled, supervisor, pc, job, cand,
                 requests, sweep, store, history>>

\* lease_seconds pass and nobody renews.
Expire(r) ==
  /\ live[r]
  /\ \A w \in beating : job[w] = r => ~Renewable(w)
  /\ Lease(r, owner[r], FALSE)
  /\ UNCHANGED <<stage, cancelRequested>>
  /\ UNCHANGED <<compacted, service, scheduled, supervisor, executor, requests,
                 sweep, store, history>>

-----------------------------------------------------------------------------
(* Faults, shutdown and restart *)

Fault(kind) == /\ kind \in FaultKinds /\ faults < MaxFaults
               /\ faults' = faults + 1

\* The machine sleeps or the heartbeat starves past lease_seconds.
Stall(r) ==
  /\ Fault("stall")
  /\ live[r] /\ \E w \in beating : job[w] = r /\ Renewable(w)
  /\ Lease(r, owner[r], FALSE)
  /\ UNCHANGED <<stage, cancelRequested>>
  /\ disturbed' = disturbed \cup {r}
  /\ UNCHANGED <<compacted, service, scheduled, supervisor, executor, requests,
                 sweep, store, calls, retries, missed>>

\* Popen raises: an active run is reported as a failure.
SpawnFails(r) ==
  /\ sup[r] = "spawn" /\ Fault("spawn_error")
  /\ IF status[r] \in Active
     THEN sup' = [sup EXCEPT ![r] = "fail"] /\ UNCHANGED scheduled
     ELSE sup' = [sup EXCEPT ![r] = "none"] /\ scheduled' = scheduled \ {r}
  /\ UNCHANGED <<row, compacted, service, child, executor, requests, sweep,
                 store, calls, retries, disturbed, missed>>

\* A child process dies; the operating system tells its supervisor, if any.
WorkerDies(w) ==
  /\ ProcessIsolation /\ Fault("worker_crash")
  /\ pc[w] \in Alive
  /\ Orphan({w})
  /\ beating' = beating \ {w}
  /\ cand' = [cand EXCEPT ![w] = NoResult]
  /\ IF child[job[w]] = w
     THEN Goto(w, "dead") /\ UNCHANGED job
     ELSE Goto(w, "idle") /\ job' = [job EXCEPT ![w] = Nobody]
  /\ UNCHANGED <<compacted, service, scheduled, supervisor, requests,
                 sweep, store, calls, retries, disturbed, missed>>

\* process.wait timed out: the supervisor kills the child and reports it.
HardDeadline(r) ==
  /\ Fault("deadline")
  /\ sup[r] = "watch" /\ pc[child[r]] \in Alive
  /\ Orphan({child[r]})
  /\ beating' = beating \ {child[r]}
  /\ Goto(child[r], "idle")
  /\ job' = [job EXCEPT ![child[r]] = Nobody]
  /\ cand' = [cand EXCEPT ![child[r]] = NoResult]
  /\ child' = [child EXCEPT ![r] = Nobody]
  /\ sup' = [sup EXCEPT ![r] = "fail"]
  /\ UNCHANGED <<compacted, service, scheduled, requests, sweep, store,
                 calls, retries, disturbed, missed>>

\* A statement after the commit raises: the completed event, the compaction.
StoreError(w) ==
  /\ pc[w] = "compact" /\ Fault("store_error") /\ Goto(w, "fail")
  /\ UNCHANGED <<row, compacted, service, scheduled, supervisor, job, cand,
                 beating, requests, sweep, store, calls, retries, disturbed, missed>>

\* What is left of the service's own memory: nothing.  Threads end with it,
\* child processes do not.
ServiceGone ==
  /\ service' = "down"
  /\ scheduled' = {}
  /\ child' = [r \in Runs |-> Nobody]
  /\ sup' = [r \in Runs |-> "none"]
  /\ creating' = {} /\ retrying' = {}
  /\ cpc' = [r \in Runs |-> "idle"]
  /\ sweep' = [r \in Runs |-> "idle"]
  /\ Orphan({Service})
  /\ LET stays(w) == ProcessIsolation /\ pc[w] \in Alive IN
     /\ pc' = [w \in Workers |-> IF stays(w) THEN pc[w] ELSE "idle"]
     /\ job' = [w \in Workers |-> IF stays(w) THEN job[w] ELSE Nobody]
     /\ cand' = [w \in Workers |-> IF stays(w) THEN cand[w] ELSE NoResult]
     /\ beating' = {w \in beating : stays(w)}
  /\ UNCHANGED <<compacted, store, calls, retries, disturbed, missed>>

ServiceCrash == service # "down" /\ Fault("service_crash") /\ ServiceGone

\* shutdown(): no new work, registered children are terminated ...
Shutdown ==
  /\ service = "up" /\ Fault("service_crash")
  /\ creating = {} /\ retrying = {} /\ \A r \in Runs : cpc[r] = "idle"
  /\ service' = "closing"
  /\ LET killed == {w \in Workers : ProcessIsolation /\ pc[w] \in Alive
                                    /\ child[job[w]] = w
                                    /\ sup[job[w]] = "watch"} IN
     /\ pc' = [w \in Workers |-> IF w \in killed THEN "dead" ELSE pc[w]]
     /\ beating' = beating \ killed
     /\ Orphan(killed)
  /\ UNCHANGED <<compacted, scheduled, supervisor, job, cand, requests, sweep,
                 store, calls, retries, disturbed, missed>>

\* ... and the process exits while its daemon threads are wherever they are.
Exit == service = "closing" /\ ServiceGone /\ UNCHANGED faults

Restart ==
  /\ service = "down" /\ service' = "up"
  /\ UNCHANGED <<row, compacted, scheduled, supervisor, executor, requests,
                 sweep, store, history>>

-----------------------------------------------------------------------------
Request(r) == \/ Create(r) \/ CreateEnqueue(r) \/ RetryRead(r) \/ RetryWrite(r)
              \/ CancelMark(r) \/ CancelTerminate(r) \/ CancelWrite(r)

Recovery(r) == SweepClaim(r) \/ SweepRequeue(r) \/ SweepInterrupt(r)

Thread(r) == \/ \E w \in Workers : Start(r, w) \/ Spawn(r, w)
             \/ TakeSlot(r) \/ StartNothing(r) \/ Register(r) \/ SupervisorReap(r)
             \/ SupervisorFail(r) \/ SupervisorFailWrite(r)

Executor(w) == \/ Claim(w) \/ ClaimRefused(w) \/ Resume(w)
               \/ PrepareFails(w) \/ Invoke(w) \/ ModelAnswers(w) \/ ModelFails(w)
               \/ StoreCandidate(w) \/ ValidateFails(w) \/ Validate(w)
               \/ PassTest(w) \/ MarkPersisting(w) \/ Apply(w)
               \/ SaveArtifact(w) \/ LookForMessage(w) \/ WriteMessage(w)
               \/ ApplyRejected(w) \/ CommitTurn(w) \/ TurnFails(w)
               \/ Commit(w) \/ Compact(w)
               \/ FailRead(w) \/ FailWrite(w) \/ Release(w)

Next == \/ \E r \in Runs : Request(r) \/ Recovery(r) \/ Thread(r) \/ Expire(r)
                           \/ SpawnFails(r) \/ Stall(r) \/ HardDeadline(r)
        \/ \E w \in Workers : Executor(w) \/ Renew(w) \/ HeartbeatStops(w)
                              \/ WorkerDies(w) \/ StoreError(w)
        \/ ServiceCrash \/ Shutdown \/ Exit \/ Restart

Spec == Init /\ [][Next]_vars

\* Threads and processes run, requests in flight are served, leases run out,
\* the recovery pass returns, and a stopped service is started again.
Fairness ==
  /\ \A r \in Runs :
       /\ WF_vars(CreateEnqueue(r)) /\ WF_vars(RetryWrite(r))
       /\ WF_vars(CancelTerminate(r)) /\ WF_vars(CancelWrite(r))
       /\ WF_vars(SweepClaim(r)) /\ WF_vars(SweepRequeue(r))
       /\ WF_vars(SweepInterrupt(r)) /\ WF_vars(Thread(r)) /\ WF_vars(Expire(r))
  /\ \A w \in Workers : WF_vars(Executor(w))
  /\ WF_vars(Exit) /\ WF_vars(Restart)

FairSpec == Spec /\ Fairness

-----------------------------------------------------------------------------
(* Properties *)

Answers(r) == 1 .. calls[r]

\* Every variable keeps its type, and every answer named anywhere was given
\* by a model call of that very run.
TypeOK ==
  /\ status \in [Runs -> Active \cup Terminal \cup {"absent"}]
  /\ checkpoint \in [Runs -> Checkpoints]
  /\ result \in [Runs -> Results]
  /\ cancelRequested \in [Runs -> BOOLEAN]
  /\ owner \in [Runs -> Owners] /\ live \in [Runs -> BOOLEAN]
  /\ compacted \subseteq Runs
  /\ service \in {"up", "closing", "down"}
  /\ scheduled \subseteq Runs
  /\ child \in [Runs -> Workers \cup {Nobody}]
  /\ sup \in [Runs -> {"none", "spawn", "register", "watch", "fail", "failwrite"}]
  /\ pc \in [Workers -> Alive \cup Gone \cup {"idle"}]
  /\ job \in [Workers -> Runs \cup {Nobody}]
  /\ cand \in [Workers -> Results]
  /\ beating \subseteq Workers
  /\ creating \subseteq Runs /\ retrying \subseteq Runs
  /\ cpc \in [Runs -> {"idle", "terminate", "write"}]
  /\ sweep \in [Runs -> {"idle", "requeue", "interrupt"}]
  /\ artifact \in [Runs -> Results] /\ effect \in [Runs -> Results]
  /\ turn \in [Runs -> Results]
  /\ effects \in [Runs -> Nat] /\ calls \in [Runs -> Nat] /\ retries \in [Runs -> Nat]
  /\ disturbed \subseteq Runs /\ missed \subseteq Runs /\ faults \in Nat

\* A run whose lease has kept executors apart so far.  A retry resets the row while
\* an executor may still be busy with it; an executor that stalls past its lease is
\* one the recovery pass takes for dead.  So, after a crash, does the report of a
\* child that died before it could claim: the supervisor reports the run as failed,
\* and with that ends the heartbeat of the older child that is executing it.
Undisturbed(r) == retries[r] = 0 /\ r \notin disturbed

\* However often a run is resumed, cancelled half way, or executed by an orphan
\* beside its successor, its learning record is written once.  For a practice Session
\* the key "agent:<run_id>" sees to that, whatever happens.  A dialogue's message is
\* looked for in one transaction and written in another, and there the lease alone
\* keeps a second writer out: of a disturbed run two executors may both find none.
AppliedOnce == \A r \in Runs :
  Kind[r] = "session" \/ Undisturbed(r) => effects[r] <= 1

\* A run is reported as persisted only when its learning record exists, a dialogue's
\* with all its three parts, and the mock backend reports test_passed and leaves no
\* learning record at all.
ReportMatchesRecord == \A r \in Runs :
  /\ status[r] = "persisted" => effect[r] # NoResult /\ Kind[r] # "mock"
  /\ status[r] = "persisted" /\ Kind[r] = "dialogue" =>
       artifact[r] # NoResult /\ turn[r] # NoResult
  /\ status[r] = "test_passed" => Kind[r] = "mock"
  /\ Kind[r] = "mock" =>
       effect[r] = NoResult /\ artifact[r] = NoResult /\ turn[r] = NoResult

\* An answer that reaches the learning record was stored in the run's row
\* first, by a call of that run: nothing is persisted that no model call of
\* the run returned.
RecordIsAnAnswer == \A r \in Runs :
  /\ effect[r] # NoResult => effect[r] \in Answers(r)
  /\ artifact[r] # NoResult => artifact[r] \in Answers(r)
  /\ turn[r] # NoResult => turn[r] \in Answers(r)
  /\ IsAnswer(result[r]) => result[r] \in Answers(r)

\* The answer an undisturbed run shows is the answer in the learning record: of a
\* dialogue in the message, the artifact and the turn, across crashes and resumed
\* candidates.
ShownAnswerIsRecorded == \A r \in Runs :
  status[r] = "persisted" /\ Undisturbed(r) =>
    /\ result[r] = effect[r]
    /\ Kind[r] = "dialogue" => artifact[r] = effect[r] /\ turn[r] = effect[r]

\* In an undisturbed run the model is called once: neither the recovery of a
\* stored candidate nor an orphan's successor pays for a second call.
OneCallUntilRetry == \A r \in Runs : Undisturbed(r) => calls[r] <= 1

\* The lease keeps every other executor out: at most one executor has an
\* undisturbed run claimed, though the child processes of a crashed service live
\* on beside those of the next one.
ExclusiveExecution == \A r \in Runs :
  Undisturbed(r) =>
    Cardinality({w \in Workers : job[w] = r /\ pc[w] \in Working}) <= 1

\* As long as the learner neither cancels nor retries a run, nothing takes back
\* that it is persisted except the failure report of a supervisor past its
\* deadline, or of a statement after the commit: no sweep, resume or orphan does.
PersistedStays == [][\A r \in Runs :
  status[r] = "persisted" /\ status'[r] # "persisted" =>
    \/ cancelRequested[r] \/ ~Undisturbed(r)
    \/ sup[r] = "failwrite"
    \/ \E w \in Workers : job[w] = r /\ pc[w] = "failwrite"]_row

\* Every run ends, or waits for a cancellation: crashes of the service, leases
\* of dead owners and a busy executor slot delay it but never strand it.
EverySettles == \A r \in Runs :
  status[r] \in Active ~>
    status[r] \in Terminal \/ cancelRequested[r]

\* Where every executor is a child the service can kill, a cancellation ends the
\* run for good unless the learner retries it or a fault intervenes: no executor,
\* supervisor report or sweep that was under way, and no child that is spawned after
\* the cancel looked for it, brings it back.  The one exception is a child that had
\* claimed the run before its supervisor registered it.
CancelEnds == \A r \in Runs :
  cancelRequested[r] ~>
    [](status[r] \in Terminal \/ r \in missed \/ retries[r] > 0 \/ faults > 0)

\* With child processes the same holds of every run the recovery pass leaves
\* alone: what it may not do is reserve the run for an owner id no child has.
SettlesUnlessReserved == \A r \in Runs :
  status[r] \in Active ~>
    \/ status[r] \in Terminal \/ cancelRequested[r]
    \/ owner[r] = Service

\* docs/ARCHITECTURE_V2.md:206: "An expired run that already stored a candidate
\* resumes validation and persistence without another model call."
CandidateResumes == \A r \in Runs :
  status[r] = "queued" /\ Resumable(r) ~>
    status[r] \in Terminal \/ cancelRequested[r]

=============================================================================
