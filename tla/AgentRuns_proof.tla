--------------------------- MODULE AgentRuns_proof ---------------------------
(***************************************************************************)
(* Proofs about AgentRuns, for every set of runs and executors, in both    *)
(* execution modes and under every fault: type correctness, the agreement  *)
(* between the status of a run and its learning record, and that a lease   *)
(* keeps executors of an undisturbed run apart, with what follows from it. *)
(***************************************************************************)
EXTENDS AgentRuns, FiniteSetTheorems, TLAPS

\* An executor or a process that has not ended works for a run.
Assigned == \A w \in Workers : pc[w] # "idle" => job[w] \in Runs

TypeInv == TypeOK /\ Assigned

\* Every step keeps every variable in its type.
LEMMA TypeStep == ASSUME TypeInv, [Next]_vars PROVE TypeInv'
<1> USE ConstantsOK
<1> USE DEF TypeInv, Assigned, TypeOK, Active, Terminal, Checkpoints, Alive,
            Working, Gone, Owners, Results
<1>1. ASSUME NEW r \in Runs, Create(r) PROVE TypeInv'
  BY <1>1, SMTT(30) DEF Create, Put, row, stage, lease, supervisor, executor, requests,
     store, history
<1>2. ASSUME NEW r \in Runs, CreateEnqueue(r) PROVE TypeInv'
  BY <1>2, SMTT(30) DEF CreateEnqueue, Enqueued, row, stage, lease, supervisor,
     executor, requests, store, history
<1>3. ASSUME NEW r \in Runs, RetryRead(r) PROVE TypeInv'
  BY <1>3, SMTT(30) DEF RetryRead, row, stage, lease, supervisor, executor, requests,
     store, history
<1>4. ASSUME NEW r \in Runs, RetryWrite(r) PROVE TypeInv'
  BY <1>4, SMTT(30) DEF RetryWrite, Put, Lease, Enqueued, NoResult, supervisor,
     executor, requests, store, history
<1>5. ASSUME NEW r \in Runs, CancelMark(r) PROVE TypeInv'
  BY <1>5, SMTT(30) DEF CancelMark, row, stage, lease, supervisor, executor, requests,
     store, history
<1>6. ASSUME NEW r \in Runs, CancelTerminate(r) PROVE TypeInv'
  <2>1. CASE sup[r] = "watch" /\ pc[child[r]] \in Alive
    <3>1. /\ owner' \in [Runs -> Owners]
          /\ UNCHANGED <<stage, cancelRequested, live>>
      BY <1>6, <2>1 DEF CancelTerminate, Orphan
    <3>2. /\ pc' \in [Workers -> Alive \cup Gone \cup {"idle"}]
          /\ beating' \subseteq Workers
          /\ \A w \in Workers : pc'[w] # "idle" => pc[w] # "idle"
      BY <1>6, <2>1 DEF CancelTerminate
    <3>3. cpc' \in [Runs -> {"idle", "terminate", "write"}] /\ missed' \subseteq Runs
      BY <1>6 DEF CancelTerminate
    <3> QED
      BY <1>6, <3>1, <3>2, <3>3
      DEF CancelTerminate, stage, supervisor, store, history
  <2>2. CASE ~(sup[r] = "watch" /\ pc[child[r]] \in Alive)
    BY <1>6, <2>2 DEF CancelTerminate, row, stage, lease, supervisor, store,
       history
  <2> QED BY <2>1, <2>2
<1>7. ASSUME NEW r \in Runs, CancelWrite(r) PROVE TypeInv'
  BY <1>7, SMTT(30) DEF CancelWrite, Put, Lease, supervisor, executor, requests, store,
     history
<1>8. ASSUME NEW r \in Runs, SweepClaim(r) PROVE TypeInv'
  BY <1>8, SMTT(30) DEF SweepClaim, Lease, Enqueued, Resumable, IsAnswer, NoResult, row,
     stage, lease, supervisor, executor, requests, store, history
<1>9. ASSUME NEW r \in Runs, SweepRequeue(r) PROVE TypeInv'
  BY <1>9, SMTT(30) DEF SweepRequeue, Put, Enqueued, row, stage, lease, supervisor,
     executor, requests, store, history
<1>10. ASSUME NEW r \in Runs, SweepInterrupt(r) PROVE TypeInv'
  BY <1>10, SMTT(30) DEF SweepInterrupt, Put, Lease, supervisor, executor, requests,
     store, history
<1>11. ASSUME NEW r \in Runs, StartNothing(r) PROVE TypeInv'
  BY <1>11, SMTT(30) DEF StartNothing, row, stage, lease, supervisor, executor,
     requests, store, history
<1>12. ASSUME NEW r \in Runs, SupervisorReap(r) PROVE TypeInv'
  <2>1. /\ pc' = [pc EXCEPT ![child[r]] = "idle"] /\ job' = [job EXCEPT ![child[r]] = Nobody]
        /\ child' = [child EXCEPT ![r] = Nobody]
        /\ \/ sup' = [sup EXCEPT ![r] = "fail"] /\ scheduled' = scheduled
           \/ sup' = [sup EXCEPT ![r] = "none"] /\ scheduled' = scheduled \ {r}
        /\ UNCHANGED <<row, compacted, service, cand, beating, requests, sweep, store, history>>
    BY <1>12 DEF SupervisorReap
  <2>2. /\ pc' \in [Workers -> Alive \cup Gone \cup {"idle"}]
        /\ job' \in [Workers -> Runs \cup {Nobody}]
        /\ child' \in [Runs -> Workers \cup {Nobody}]
        /\ scheduled' \subseteq Runs
    BY <2>1
  <2>3. sup' \in [Runs -> {"none", "spawn", "register", "watch", "fail", "failwrite"}]
    BY <2>1
  <2>4. \A w \in Workers : pc'[w] # "idle" => pc'[w] = pc[w] /\ job'[w] = job[w]
    BY <2>1
  <2>5. Assigned'
    BY <2>4
  <2>6. UNCHANGED <<status, checkpoint, result, cancelRequested, owner, live, compacted, service,
                    cand, beating, creating, cpc, retrying, sweep, artifact, effect, turn,
                    effects, calls, retries, disturbed, missed, faults>>
    BY <2>1 DEF row, stage, lease, requests, store, history
  <2> QED BY <2>2, <2>3, <2>5, <2>6
<1>13. ASSUME NEW r \in Runs, SupervisorFail(r) PROVE TypeInv'
  BY <1>13, SMTT(30) DEF SupervisorFail, row, stage, lease, supervisor, executor,
     requests, store, history
<1>14. ASSUME NEW r \in Runs, SupervisorFailWrite(r) PROVE TypeInv'
  BY <1>14, SMTT(30) DEF SupervisorFailWrite, Put, FailRow, row, stage, lease,
     supervisor, executor, requests, store, history
<1>15. ASSUME NEW r \in Runs, Expire(r) PROVE TypeInv'
  BY <1>15, SMTT(30) DEF Expire, Lease, row, stage, lease, supervisor, executor,
     requests, store, history
<1>16. ASSUME NEW r \in Runs, Stall(r) PROVE TypeInv'
  BY <1>16, SMTT(30) DEF Stall, Lease, Fault, row, stage, lease, supervisor, executor,
     requests, store, history
<1>17. ASSUME NEW r \in Runs, HardDeadline(r) PROVE TypeInv'
  <2>1. owner' \in [Runs -> Owners] /\ UNCHANGED <<stage, cancelRequested, live>>
    BY <1>17 DEF HardDeadline, Orphan
  <2>2. pc' \in [Workers -> Alive \cup Gone \cup {"idle"}]
    BY <1>17 DEF HardDeadline, Goto
  <2>3. job' \in [Workers -> Runs \cup {Nobody}]
    BY <1>17 DEF HardDeadline
  <2>4. Assigned'
    BY <1>17 DEF HardDeadline, Goto
  <2>5. /\ child' \in [Runs -> Workers \cup {Nobody}]
        /\ sup' \in [Runs -> {"none", "spawn", "register", "watch", "fail", "failwrite"}]
        /\ beating' \subseteq Workers /\ faults' \in Nat
    BY <1>17 DEF HardDeadline, Fault
  <2>6. cand' \in [Workers -> Results]
    BY <1>17 DEF HardDeadline, NoResult
  <2> QED
    BY <1>17, <2>1, <2>2, <2>3, <2>4, <2>5, <2>6
    DEF HardDeadline, stage, requests, store
<1>18. ASSUME NEW r \in Runs, NEW w \in Workers, Start(r, w) PROVE TypeInv'
  BY <1>18, SMTT(30) DEF Start, Goto, row, stage, lease, supervisor, requests, store, history
<1>19. ASSUME NEW w \in Workers, Claim(w) PROVE TypeInv'
  BY <1>19, SMTT(30) DEF Claim, Lease, Goto, Claimable, ClaimedAt, Resumable, Me,
     IsAnswer, NoResult, row, stage, lease, supervisor, requests, store,
     history
<1>20. ASSUME NEW w \in Workers, ClaimRefused(w) PROVE TypeInv'
  <2>1. /\ pc' \in [Workers -> Alive \cup Gone \cup {"idle"}]
        /\ job' \in [Workers -> Runs \cup {Nobody}] /\ scheduled' \subseteq Runs
    BY <1>20 DEF ClaimRefused, Leave, Goto
  <2>2. Assigned'
    BY <1>20 DEF ClaimRefused, Leave, Goto
  <2>3. cand' \in [Workers -> Results]
    BY <1>20 DEF ClaimRefused, Leave, NoResult
  <2> QED
    BY <1>20, <2>1, <2>2, <2>3
    DEF ClaimRefused, row, stage, lease, supervisor, requests, store, history
<1>21. ASSUME NEW w \in Workers, Resume(w) PROVE TypeInv'
  BY <1>21, SMTT(30) DEF Resume, Put, Quiet, Goto, row, stage, lease, supervisor,
     requests, store, history
<1>22. ASSUME NEW w \in Workers, PrepareFails(w) PROVE TypeInv'
  BY <1>22, SMTT(30) DEF PrepareFails, Quiet, Goto, row, stage, lease, supervisor,
     requests, store, history
<1>23. ASSUME NEW w \in Workers, Invoke(w) PROVE TypeInv'
  BY <1>23, SMTT(30) DEF Invoke, Put, Quiet, Goto, row, stage, lease, supervisor,
     requests, store, history
<1>24. ASSUME NEW w \in Workers, ModelAnswers(w) PROVE TypeInv'
  BY <1>24, SMTT(30) DEF ModelAnswers, Quiet, Goto, row, stage, lease, supervisor,
     requests, store, history
<1>25. ASSUME NEW w \in Workers, ModelFails(w) PROVE TypeInv'
  BY <1>25, SMTT(30) DEF ModelFails, Quiet, Goto, row, stage, lease, supervisor,
     requests, store, history
<1>26. ASSUME NEW w \in Workers, StoreCandidate(w) PROVE TypeInv'
  BY <1>26, SMTT(30) DEF StoreCandidate, Put, Quiet, Goto, row, stage, lease,
     supervisor, requests, store, history
<1>27. ASSUME NEW w \in Workers, ValidateFails(w) PROVE TypeInv'
  BY <1>27, SMTT(30) DEF ValidateFails, Quiet, Goto, row, stage, lease, supervisor,
     requests, store, history
<1>28. ASSUME NEW w \in Workers, Validate(w) PROVE TypeInv'
  BY <1>28, SMTT(30) DEF Validate, Put, Quiet, Goto, row, stage, lease, supervisor,
     requests, store, history
<1>29. ASSUME NEW w \in Workers, PassTest(w) PROVE TypeInv'
  BY <1>29, SMTT(30) DEF PassTest, Put, Quiet, Goto, row, stage, lease, supervisor,
     requests, store, history
<1>30. ASSUME NEW w \in Workers, MarkPersisting(w) PROVE TypeInv'
  BY <1>30, SMTT(30) DEF MarkPersisting, Put, Quiet, Goto, row, stage, lease,
     supervisor, requests, store, history
<1>31. ASSUME NEW w \in Workers, SaveArtifact(w) PROVE TypeInv'
  BY <1>31, SMTT(30) DEF SaveArtifact, Quiet, Goto, row, stage, lease, supervisor,
     requests, store, history
<1>32. ASSUME NEW w \in Workers, Apply(w) PROVE TypeInv'
  BY <1>32, SMTT(30) DEF Apply, Quiet, Goto, NoResult, row, stage, lease, supervisor,
     requests, store, history
<1>33. ASSUME NEW w \in Workers, ApplyRejected(w) PROVE TypeInv'
  BY <1>33, SMTT(30) DEF ApplyRejected, Quiet, Goto, NoResult, row, stage, lease,
     supervisor, requests, store, history
<1>34. ASSUME NEW w \in Workers, Commit(w) PROVE TypeInv'
  BY <1>34, SMTT(30) DEF Commit, Put, Quiet, Goto, row, stage, lease, supervisor,
     requests, store, history
<1>35. ASSUME NEW w \in Workers, Compact(w) PROVE TypeInv'
  BY <1>35, SMTT(30) DEF Compact, Quiet, Goto, row, stage, lease, supervisor, requests,
     store, history
<1>36. ASSUME NEW w \in Workers, FailRead(w) PROVE TypeInv'
  BY <1>36, SMTT(30) DEF FailRead, Quiet, Goto, row, stage, lease, supervisor, requests,
     store, history
<1>37. ASSUME NEW w \in Workers, FailWrite(w) PROVE TypeInv'
  BY <1>37, SMTT(30) DEF FailWrite, Put, FailRow, Quiet, Goto, row, stage, lease,
     supervisor, requests, store, history
<1>38. ASSUME NEW w \in Workers, Release(w) PROVE TypeInv'
  <2>1. job[w] \in Runs
    BY <1>38 DEF Release
  <2>2. /\ owner' \in [Runs -> Owners] /\ live' \in [Runs -> BOOLEAN]
        /\ UNCHANGED <<stage, cancelRequested>>
    BY <1>38, <2>1 DEF Release, Lease, lease
  <2>3. /\ pc' \in [Workers -> Alive \cup Gone \cup {"idle"}]
        /\ job' \in [Workers -> Runs \cup {Nobody}] /\ scheduled' \subseteq Runs
    BY <1>38 DEF Release, Leave, Goto
  <2>4. Assigned'
    BY <1>38 DEF Release, Leave, Goto
  <2>5. beating' \subseteq Workers /\ cand' \in [Workers -> Results]
    BY <1>38 DEF Release, Leave, NoResult
  <2> QED
    BY <1>38, <2>2, <2>3, <2>4, <2>5
    DEF Release, stage, supervisor, requests, store, history
<1>39. ASSUME NEW w \in Workers, Renew(w) PROVE TypeInv'
  BY <1>39 DEF Renew, Lease, row, stage, lease, supervisor, executor,
     requests, store, history
<1>40. ASSUME NEW w \in Workers, HeartbeatStops(w) PROVE TypeInv'
  BY <1>40, SMTT(30) DEF HeartbeatStops, row, stage, lease, supervisor, requests, store,
     history
<1>41. ASSUME NEW w \in Workers, WorkerDies(w) PROVE TypeInv'
  <2>1. /\ owner' \in [Runs -> Owners] /\ UNCHANGED <<stage, cancelRequested, live>>
        /\ cand' \in [Workers -> Results] /\ faults' \in Nat
    BY <1>41 DEF WorkerDies, Orphan, Fault, NoResult
  <2>2. /\ pc' \in [Workers -> Alive \cup Gone \cup {"idle"}]
        /\ job' \in [Workers -> Runs \cup {Nobody}] /\ beating' \subseteq Workers
    BY <1>41 DEF WorkerDies, Goto
  <2>3. Assigned'
    BY <1>41 DEF WorkerDies, Goto
  <2> QED
    BY <1>41, <2>1, <2>2, <2>3 DEF WorkerDies, stage, supervisor, requests, store
<1>42. ASSUME NEW w \in Workers, StoreError(w) PROVE TypeInv'
  BY <1>42, SMTT(30) DEF StoreError, Goto, Fault, row, stage, lease, supervisor,
     requests, store, history
<1>43. CASE ServiceCrash
  <2>1. /\ owner' \in [Runs -> Owners] /\ UNCHANGED <<stage, cancelRequested, live>>
        /\ cand' \in [Workers -> Results] /\ faults' \in Nat
    BY <1>43 DEF ServiceCrash, ServiceGone, Orphan, Fault, NoResult
  <2>2. /\ pc' \in [Workers -> Alive \cup Gone \cup {"idle"}]
        /\ job' \in [Workers -> Runs \cup {Nobody}] /\ beating' \subseteq Workers
        /\ Assigned'
    BY <1>43 DEF ServiceCrash, ServiceGone
  <2> QED
    BY <1>43, <2>1, <2>2 DEF ServiceCrash, ServiceGone, stage, store
<1>44. CASE Shutdown
  BY <1>44, SMTT(30) DEF Shutdown, Orphan, Fault, row, stage, lease, supervisor,
     requests, store, history
<1>45. CASE Exit
  <2>1. /\ owner' \in [Runs -> Owners] /\ UNCHANGED <<stage, cancelRequested, live>>
        /\ cand' \in [Workers -> Results] /\ faults' \in Nat
    BY <1>45 DEF Exit, ServiceGone, Orphan, Fault, NoResult
  <2>2. /\ pc' \in [Workers -> Alive \cup Gone \cup {"idle"}]
        /\ job' \in [Workers -> Runs \cup {Nobody}] /\ beating' \subseteq Workers
        /\ Assigned'
    BY <1>45 DEF Exit, ServiceGone
  <2> QED
    BY <1>45, <2>1, <2>2 DEF Exit, ServiceGone, stage, store
<1>46. CASE Restart
  BY <1>46, SMTT(30) DEF Restart, row, stage, lease, supervisor, executor, requests,
     store, history
<1>47. CASE UNCHANGED vars
  BY <1>47, SMTT(30) DEF vars, row, stage, lease
<1>48. ASSUME NEW r \in Runs, TakeSlot(r) PROVE TypeInv'
  BY <1>48, SMTT(30) DEF TakeSlot, row, stage, lease, supervisor, executor, requests,
     store, history
<1>49. ASSUME NEW r \in Runs, NEW w \in Workers, Spawn(r, w) PROVE TypeInv'
  BY <1>49, SMTT(30) DEF Spawn, Goto, row, stage, lease, supervisor, requests, store,
     history
<1>50. ASSUME NEW r \in Runs, Register(r) PROVE TypeInv'
  BY <1>50, SMTT(30) DEF Register, row, stage, lease, supervisor, executor, requests,
     store, history
<1>51. ASSUME NEW r \in Runs, SpawnFails(r) PROVE TypeInv'
  BY <1>51, SMTT(30) DEF SpawnFails, Fault, row, stage, lease, supervisor, executor,
     requests, store, history
<1>52. ASSUME NEW w \in Workers, LookForMessage(w) PROVE TypeInv'
  BY <1>52, SMTT(30) DEF LookForMessage, Quiet, Goto, row, stage, lease, supervisor,
     requests, store, history
<1>53. ASSUME NEW w \in Workers, WriteMessage(w) PROVE TypeInv'
  BY <1>53, SMTT(30) DEF WriteMessage, Quiet, Goto, row, stage, lease, supervisor,
     requests, store, history
<1>54. ASSUME NEW w \in Workers, CommitTurn(w) PROVE TypeInv'
  BY <1>54, SMTT(30) DEF CommitTurn, Quiet, Goto, row, stage, lease, supervisor,
     requests, store, history
<1>55. ASSUME NEW w \in Workers, TurnFails(w) PROVE TypeInv'
  BY <1>55, SMTT(30) DEF TurnFails, Quiet, Goto, row, stage, lease, supervisor,
     requests, store, history
<1> QED
  BY <1>1, <1>2, <1>3, <1>4, <1>5, <1>6, <1>7, <1>8, <1>9, <1>10, <1>11,
     <1>12, <1>13, <1>14, <1>15, <1>16, <1>17, <1>18, <1>19, <1>20, <1>21,
     <1>22, <1>23, <1>24, <1>25, <1>26, <1>27, <1>28, <1>29, <1>30, <1>31,
     <1>32, <1>33, <1>34, <1>35, <1>36, <1>37, <1>38, <1>39, <1>40, <1>41,
     <1>42, <1>43, <1>44, <1>45, <1>46, <1>47, <1>48, <1>49, <1>50, <1>51,
     <1>52, <1>53, <1>54, <1>55
  DEF Next, Request, Recovery, Thread, Executor

\* Type correctness (the agent_runs columns stay in their domains).
THEOREM TypeCorrect == Spec => []TypeOK
<1>1. Init => TypeInv
  BY ConstantsOK DEF Init, TypeInv, Assigned, TypeOK, Active, Terminal,
     Checkpoints, Alive, Working, Gone, Owners, Results, NoResult
<1>2. TypeInv /\ [Next]_vars => TypeInv'
  BY TypeStep
<1>3. TypeInv => TypeOK
  BY DEF TypeInv
<1> QED
  BY <1>1, <1>2, <1>3, PTL DEF Spec
-----------------------------------------------------------------------------
\* Where an executor holds an answer of its run, and where it is past the
\* branch that separates the mock backend from the others.
Carrying   == {"resume", "invoke", "store", "validate", "mark", "pass",
               "effect", "artifact", "look", "message", "turn", "commit"}
Talking    == {"artifact", "look", "message", "turn"}
PastBranch == {"mark", "effect", "commit"} \cup Talking

\* What an executor knows at each point of _execute.
Held == \A w \in Workers :
  /\ pc[w] \in Carrying => cand[w] \in Answers(job[w])
  /\ pc[w] \in PastBranch => Kind[job[w]] # "mock"
  /\ pc[w] = "pass" => Kind[job[w]] = "mock"
  /\ pc[w] \in Talking => Kind[job[w]] = "dialogue"
  /\ pc[w] = "effect" => Kind[job[w]] = "session"
  /\ pc[w] \in {"turn", "commit"} => effect[job[w]] # NoResult
  /\ pc[w] \in {"look", "message", "turn", "commit"} /\ Kind[job[w]] = "dialogue" =>
       artifact[job[w]] # NoResult
  /\ pc[w] = "commit" /\ Kind[job[w]] = "dialogue" => turn[job[w]] # NoResult

\* The history counts the record: once if it is a Session's.
Counted == \A r \in Runs :
  /\ effects[r] = 0 <=> effect[r] = NoResult
  /\ Kind[r] = "session" => effects[r] <= 1

\* What a run shows as persisted is an answer.
Shown == \A r \in Runs : status[r] = "persisted" => IsAnswer(result[r])

\* ReportMatchesRecord and RecordIsAnAnswer are not inductive: that an executor
\* about to write "persisted" has applied its answer, and that the answer it
\* carries came from a call of its run, is in Held.
IInv == TypeInv /\ Held /\ Counted /\ Shown /\ ReportMatchesRecord /\ RecordIsAnAnswer

\* Every step preserves the inductive invariant.
LEMMA InvStep == ASSUME IInv, [Next]_vars PROVE IInv'
<1>0. TypeInv'
  BY TypeStep DEF IInv
<1> USE ConstantsOK, <1>0
<1> USE DEF IInv, TypeInv, Assigned, TypeOK, Held, Counted, Shown,
            ReportMatchesRecord, RecordIsAnAnswer, Answers, NoResult, IsAnswer,
            Results, Carrying, Talking, PastBranch
<1>1. ASSUME NEW r \in Runs, Create(r) PROVE IInv'
  BY <1>1 DEF Create, Put, row, stage, lease, supervisor, executor, requests,
     store, history
<1>2. ASSUME NEW r \in Runs, CreateEnqueue(r) PROVE IInv'
  BY <1>2 DEF CreateEnqueue, Enqueued, row, stage, lease, supervisor,
     executor, requests, store, history
<1>3. ASSUME NEW r \in Runs, RetryRead(r) PROVE IInv'
  BY <1>3 DEF RetryRead, row, stage, lease, supervisor, executor, requests,
     store, history
<1>4. ASSUME NEW r \in Runs, RetryWrite(r) PROVE IInv'
  BY <1>4 DEF RetryWrite, Put, Lease, Enqueued, supervisor, executor,
     requests, store, history
<1>5. ASSUME NEW r \in Runs, CancelMark(r) PROVE IInv'
  BY <1>5 DEF CancelMark, row, stage, lease, supervisor, executor, requests,
     store, history
<1>6. ASSUME NEW r \in Runs, CancelTerminate(r) PROVE IInv'
  BY <1>6 DEF CancelTerminate, Orphan, row, stage, lease, supervisor,
     requests, store, history
<1>7. ASSUME NEW r \in Runs, CancelWrite(r) PROVE IInv'
  BY <1>7 DEF CancelWrite, Put, Lease, supervisor, executor, requests, store,
     history
<1>8. ASSUME NEW r \in Runs, SweepClaim(r) PROVE IInv'
  BY <1>8 DEF SweepClaim, Lease, Enqueued, Resumable, row, stage, lease,
     supervisor, executor, requests, store, history
<1>9. ASSUME NEW r \in Runs, SweepRequeue(r) PROVE IInv'
  BY <1>9 DEF SweepRequeue, Put, Enqueued, row, stage, lease, supervisor,
     executor, requests, store, history
<1>10. ASSUME NEW r \in Runs, SweepInterrupt(r) PROVE IInv'
  BY <1>10 DEF SweepInterrupt, Put, Lease, supervisor, executor, requests,
     store, history
<1>11. ASSUME NEW r \in Runs, StartNothing(r) PROVE IInv'
  BY <1>11 DEF StartNothing, row, stage, lease, supervisor, executor,
     requests, store, history
<1>12. ASSUME NEW r \in Runs, SupervisorReap(r) PROVE IInv'
  BY <1>12 DEF SupervisorReap, Gone, row, stage, lease, requests, store,
     history
<1>13. ASSUME NEW r \in Runs, SupervisorFail(r) PROVE IInv'
  BY <1>13 DEF SupervisorFail, row, stage, lease, supervisor, executor,
     requests, store, history
<1>14. ASSUME NEW r \in Runs, SupervisorFailWrite(r) PROVE IInv'
  BY <1>14 DEF SupervisorFailWrite, Put, FailRow, row, stage, lease,
     supervisor, executor, requests, store, history
<1>15. ASSUME NEW r \in Runs, Expire(r) PROVE IInv'
  BY <1>15 DEF Expire, Lease, row, stage, lease, supervisor, executor,
     requests, store, history
<1>16. ASSUME NEW r \in Runs, Stall(r) PROVE IInv'
  BY <1>16 DEF Stall, Lease, row, stage, lease, supervisor, executor,
     requests, store, history
<1>17. ASSUME NEW r \in Runs, HardDeadline(r) PROVE IInv'
  BY <1>17 DEF HardDeadline, Orphan, Goto, row, stage, lease, requests, store,
     history
<1>18. ASSUME NEW r \in Runs, NEW w \in Workers, Start(r, w) PROVE IInv'
  BY <1>18 DEF Start, Goto, row, stage, lease, supervisor, requests, store, history
<1>19. ASSUME NEW w \in Workers, Claim(w) PROVE IInv'
  BY <1>19 DEF Claim, Lease, Goto, Claimable, ClaimedAt, Resumable, Me, row,
     stage, lease, supervisor, requests, store, history
<1>20. ASSUME NEW w \in Workers, ClaimRefused(w) PROVE IInv'
  BY <1>20 DEF ClaimRefused, Goto, Leave, Claimable, Me, row, stage, lease,
     supervisor, requests, store, history
<1>21. ASSUME NEW w \in Workers, Resume(w) PROVE IInv'
  BY <1>21 DEF Resume, Put, Quiet, Goto, row, stage, lease, supervisor,
     requests, store, history
<1>22. ASSUME NEW w \in Workers, PrepareFails(w) PROVE IInv'
  BY <1>22 DEF PrepareFails, Quiet, Goto, row, stage, lease, supervisor,
     requests, store, history
<1>23. ASSUME NEW w \in Workers, Invoke(w) PROVE IInv'
  BY <1>23 DEF Invoke, Put, Quiet, Goto, row, stage, lease, supervisor,
     requests, store, history
<1>24. ASSUME NEW w \in Workers, ModelAnswers(w) PROVE IInv'
  BY <1>24 DEF ModelAnswers, Quiet, Goto, row, stage, lease, supervisor,
     requests, store, history
<1>25. ASSUME NEW w \in Workers, ModelFails(w) PROVE IInv'
  BY <1>25 DEF ModelFails, Quiet, Goto, row, stage, lease, supervisor,
     requests, store, history
<1>26. ASSUME NEW w \in Workers, StoreCandidate(w) PROVE IInv'
  BY <1>26 DEF StoreCandidate, Put, Quiet, Goto, row, stage, lease,
     supervisor, requests, store, history
<1>27. ASSUME NEW w \in Workers, ValidateFails(w) PROVE IInv'
  BY <1>27 DEF ValidateFails, Quiet, Goto, row, stage, lease, supervisor,
     requests, store, history
<1>28. ASSUME NEW w \in Workers, Validate(w) PROVE IInv'
  BY <1>28 DEF Validate, Put, Quiet, Goto, row, stage, lease, supervisor,
     requests, store, history
<1>29. ASSUME NEW w \in Workers, PassTest(w) PROVE IInv'
  BY <1>29 DEF PassTest, Put, Quiet, Goto, row, stage, lease, supervisor,
     requests, store, history
<1>30. ASSUME NEW w \in Workers, MarkPersisting(w) PROVE IInv'
  BY <1>30 DEF MarkPersisting, Put, Quiet, Goto, row, stage, lease,
     supervisor, requests, store, history
<1>31. ASSUME NEW w \in Workers, SaveArtifact(w) PROVE IInv'
  BY <1>31 DEF SaveArtifact, Quiet, Goto, row, stage, lease, supervisor,
     requests, store, history
<1>32. ASSUME NEW w \in Workers, Apply(w) PROVE IInv'
  BY <1>32 DEF Apply, Quiet, Goto, row, stage, lease, supervisor, requests,
     store, history
<1>33. ASSUME NEW w \in Workers, ApplyRejected(w) PROVE IInv'
  BY <1>33 DEF ApplyRejected, Quiet, Goto, row, stage, lease, supervisor,
     requests, store, history
<1>34. ASSUME NEW w \in Workers, Commit(w) PROVE IInv'
  BY <1>34 DEF Commit, Put, Quiet, Goto, row, stage, lease, supervisor,
     requests, store, history
<1>35. ASSUME NEW w \in Workers, Compact(w) PROVE IInv'
  BY <1>35 DEF Compact, Quiet, Goto, row, stage, lease, supervisor, requests,
     store, history
<1>36. ASSUME NEW w \in Workers, FailRead(w) PROVE IInv'
  BY <1>36 DEF FailRead, Quiet, Goto, row, stage, lease, supervisor, requests,
     store, history
<1>37. ASSUME NEW w \in Workers, FailWrite(w) PROVE IInv'
  BY <1>37 DEF FailWrite, Put, FailRow, Quiet, Goto, row, stage, lease,
     supervisor, requests, store, history
<1>38. ASSUME NEW w \in Workers, Release(w) PROVE IInv'
  BY <1>38 DEF Release, Lease, Goto, Leave, Me, row, stage, lease, supervisor,
     requests, store, history
<1>39. ASSUME NEW w \in Workers, Renew(w) PROVE IInv'
  BY <1>39 DEF Renew, Lease, row, stage, lease, supervisor, executor,
     requests, store, history
<1>40. ASSUME NEW w \in Workers, HeartbeatStops(w) PROVE IInv'
  BY <1>40 DEF HeartbeatStops, row, stage, lease, supervisor, requests, store,
     history
<1>41. ASSUME NEW w \in Workers, WorkerDies(w) PROVE IInv'
  BY <1>41 DEF WorkerDies, Orphan, Goto, row, stage, lease, supervisor,
     requests, store, history
<1>42. ASSUME NEW w \in Workers, StoreError(w) PROVE IInv'
  BY <1>42 DEF StoreError, Goto, row, stage, lease, supervisor, requests,
     store, history
<1>43. CASE ServiceCrash
  BY <1>43 DEF ServiceCrash, Orphan, ServiceGone, row, stage, lease, store,
     history
<1>44. CASE Shutdown
  BY <1>44 DEF Shutdown, Orphan, row, stage, lease, supervisor, requests,
     store, history
<1>45. CASE Exit
  BY <1>45 DEF Exit, Orphan, ServiceGone, row, stage, lease, store, history
<1>46. CASE Restart
  BY <1>46 DEF Restart, row, stage, lease, supervisor, executor, requests,
     store, history
<1>47. CASE UNCHANGED vars
  BY <1>47 DEF vars, row, stage, lease
<1>48. ASSUME NEW r \in Runs, TakeSlot(r) PROVE IInv'
  BY <1>48 DEF TakeSlot, row, stage, lease, supervisor, executor, requests,
     store, history
<1>49. ASSUME NEW r \in Runs, NEW w \in Workers, Spawn(r, w) PROVE IInv'
  BY <1>49 DEF Spawn, Goto, row, stage, lease, supervisor, requests, store,
     history
<1>50. ASSUME NEW r \in Runs, Register(r) PROVE IInv'
  BY <1>50 DEF Register, row, stage, lease, supervisor, executor, requests,
     store, history
<1>51. ASSUME NEW r \in Runs, SpawnFails(r) PROVE IInv'
  BY <1>51 DEF SpawnFails, Fault, row, stage, lease, supervisor, executor,
     requests, store, history
<1>52. ASSUME NEW w \in Workers, LookForMessage(w) PROVE IInv'
  BY <1>52 DEF LookForMessage, Quiet, Goto, row, stage, lease, supervisor,
     requests, store, history
<1>53. ASSUME NEW w \in Workers, WriteMessage(w) PROVE IInv'
  BY <1>53 DEF WriteMessage, Quiet, Goto, row, stage, lease, supervisor,
     requests, store, history
<1>54. ASSUME NEW w \in Workers, CommitTurn(w) PROVE IInv'
  BY <1>54 DEF CommitTurn, Quiet, Goto, row, stage, lease, supervisor,
     requests, store, history
<1>55. ASSUME NEW w \in Workers, TurnFails(w) PROVE IInv'
  BY <1>55 DEF TurnFails, Quiet, Goto, row, stage, lease, supervisor,
     requests, store, history
<1> QED
  BY <1>1, <1>2, <1>3, <1>4, <1>5, <1>6, <1>7, <1>8, <1>9, <1>10, <1>11,
     <1>12, <1>13, <1>14, <1>15, <1>16, <1>17, <1>18, <1>19, <1>20, <1>21,
     <1>22, <1>23, <1>24, <1>25, <1>26, <1>27, <1>28, <1>29, <1>30, <1>31,
     <1>32, <1>33, <1>34, <1>35, <1>36, <1>37, <1>38, <1>39, <1>40, <1>41,
     <1>42, <1>43, <1>44, <1>45, <1>46, <1>47, <1>48, <1>49, <1>50, <1>51,
     <1>52, <1>53, <1>54, <1>55
  DEF Next, Request, Recovery, Thread, Executor

\* Of every behaviour.
LEMMA Inductive == Spec => []IInv
<1>1. Init => IInv
  <2> SUFFICES ASSUME Init PROVE IInv
    OBVIOUS
  <2>1. TypeInv
    BY ConstantsOK DEF Init, TypeInv, Assigned, TypeOK, Active, Terminal,
       Checkpoints, Alive, Working, Gone, Owners, Results, NoResult
  <2>2. Held /\ Counted /\ Shown /\ ReportMatchesRecord /\ RecordIsAnAnswer
    BY DEF Init, Held, Counted, Shown, ReportMatchesRecord, RecordIsAnAnswer,
       Answers, NoResult, IsAnswer, Carrying, Talking, PastBranch
  <2> QED
    BY <2>1, <2>2 DEF IInv
<1>2. IInv /\ [Next]_vars => IInv'
  BY InvStep
<1> QED
  BY <1>1, <1>2, PTL DEF Spec

\* A run shown as persisted has its learning record; a mock run leaves none.
THEOREM ReportIsTrue == Spec => []ReportMatchesRecord
<1>1. IInv => ReportMatchesRecord
  BY DEF IInv
<1> QED
  BY <1>1, Inductive, PTL

\* Nothing is recorded or shown that no model call of that run returned.
THEOREM RecordHasSource == Spec => []RecordIsAnAnswer
<1>1. IInv => RecordIsAnAnswer
  BY DEF IInv
<1> QED
  BY <1>1, Inductive, PTL
-----------------------------------------------------------------------------
(* Exclusive execution of an undisturbed run. *)

\* Neither disturbed nor about to be cancelled.
Calm(r) == Undisturbed(r) /\ ~cancelRequested[r]

\* Past the last write that makes a run active.
Leaving == {"compact", "fail", "failwrite", "release"}

\* Threads of one process share their owner id; the run keeps them apart.
ThreadsApart ==
  ~ProcessIsolation =>
    \A v, w \in Workers : job[v] = job[w] /\ job[v] # Nobody => v = w

Sole ==
  \A v, w \in Workers :
    /\ pc[v] \in Working /\ pc[w] \in Working
    /\ job[v] = job[w] /\ Undisturbed(job[v])
    => v = w

\* An executor holds the lease of its run, and renews it, for as long as the run is
\* active, which it is until the executor ends it.
Leased ==
  \A w \in Workers :
    pc[w] \in Working =>
      /\ status[job[w]] # "absent"
      /\ Calm(job[w]) =>
           /\ status[job[w]] \in Active =>
                owner[job[w]] = Me(w) /\ live[job[w]] /\ w \in beating
           /\ pc[w] \notin Leaving => status[job[w]] \in Active

\* The recovery pass has a run that no executor has.
Swept ==
  \A r \in Runs : sweep[r] # "idle" /\ Calm(r) =>
    /\ status[r] \in {"running", "validating", "persisting"}
    /\ sweep[r] = "requeue" => Resumable(r)
    /\ \A w \in Workers : job[w] = r => pc[w] \notin Working

\* A cancel request in flight has marked the run; what is being retried has failed.
Requested ==
  \A r \in Runs : retries[r] = 0 =>
    /\ cpc[r] # "idle" \/ status[r] = "cancelled" => cancelRequested[r]
    /\ r \in retrying /\ Calm(r) => status[r] = "failed"

\* Who is about to call the model is the first to do so.
Called ==
  \A r \in Runs :
    /\ status[r] = "absent" => calls[r] = 0
    /\ Undisturbed(r) =>
         /\ calls[r] <= 1
         /\ \A w \in Workers : job[w] = r /\ pc[w] = "prepare" => calls[r] = 0
         /\ ~cancelRequested[r] /\ status[r] = "queued" /\ calls[r] > 0 => Resumable(r)

\* Who is about to write the message of a dialogue is the first to do so.
Once ==
  /\ \A r \in Runs : Undisturbed(r) => effects[r] <= 1
  /\ \A w \in Workers :
       pc[w] = "message" /\ Undisturbed(job[w]) => effect[job[w]] = NoResult

LInv == ThreadsApart /\ Sole /\ Leased /\ Swept /\ Requested /\ Called /\ Once

\* LInv is inductive beside IInv; each conjunct is needed for another's step: Leased
\* and ThreadsApart for the claims of Sole, Sole for the writes of Leased, Leased for
\* the recovery pass of Swept, Swept for the resumed candidates of Called, and Sole for
\* the message of Once.
LEMMA LStep == ASSUME IInv, IInv', LInv, [Next]_vars PROVE LInv'
<1> USE ConstantsOK
<1> USE DEF IInv, TypeInv, Assigned, TypeOK, Held, Counted, ReportMatchesRecord,
            RecordIsAnAnswer, Answers, NoResult, IsAnswer, Results, Carrying, Talking,
            PastBranch
<1> USE DEF LInv, ThreadsApart, Sole, Leased, Swept, Requested, Called, Once, Calm,
            Undisturbed, Leaving, Working, Alive, Gone, Active, Terminal, Owners
<1> USE DEF Me, Resumable, Resumables, Fault, Lapsed, LeaseFree, Claimable, ClaimedAt,
            Renewable, HasExecutor
<1>1. ASSUME NEW r \in Runs, Create(r) PROVE LInv'
  BY <1>1, SMTT(30) DEF Create, Put, row, stage, lease, supervisor, executor, requests,
     store, history
<1>2. ASSUME NEW r \in Runs, CreateEnqueue(r) PROVE LInv'
  BY <1>2, SMTT(30) DEF CreateEnqueue, Enqueued, row, stage, lease, supervisor,
     executor, requests, store, history
<1>3. ASSUME NEW r \in Runs, RetryRead(r) PROVE LInv'
  BY <1>3, SMTT(30) DEF RetryRead, Retryable, row, stage, lease, supervisor, executor, requests,
     store, history
<1>4. ASSUME NEW r \in Runs, RetryWrite(r) PROVE LInv'
  BY <1>4, SMTT(30) DEF RetryWrite, Put, Lease, Enqueued, supervisor, executor,
     requests, store, history
<1>5. ASSUME NEW r \in Runs, CancelMark(r) PROVE LInv'
  BY <1>5, SMTT(30) DEF CancelMark, row, stage, lease, supervisor, executor, requests,
     store, history
<1>6. ASSUME NEW r \in Runs, CancelTerminate(r) PROVE LInv'
  BY <1>6, SMTT(30) DEF CancelTerminate, Orphan, row, stage, lease, supervisor,
     requests, store, history
<1>7. ASSUME NEW r \in Runs, CancelWrite(r) PROVE LInv'
  BY <1>7, SMTT(30) DEF CancelWrite, Put, Lease, supervisor, executor, requests, store,
     history
<1>8. ASSUME NEW r \in Runs, SweepClaim(r) PROVE LInv'
  BY <1>8, SMTT(30) DEF SweepClaim, Lease, Enqueued, Resumable, row, stage, lease,
     supervisor, executor, requests, store, history
<1>9. ASSUME NEW r \in Runs, SweepRequeue(r) PROVE LInv'
  BY <1>9, SMTT(30) DEF SweepRequeue, Put, Enqueued, row, stage, lease, supervisor,
     executor, requests, store, history
<1>10. ASSUME NEW r \in Runs, SweepInterrupt(r) PROVE LInv'
  BY <1>10, SMTT(30) DEF SweepInterrupt, Put, Lease, supervisor, executor, requests,
     store, history
<1>11. ASSUME NEW r \in Runs, StartNothing(r) PROVE LInv'
  BY <1>11, SMTT(30) DEF StartNothing, row, stage, lease, supervisor, executor,
     requests, store, history
<1>12. ASSUME NEW r \in Runs, SupervisorReap(r) PROVE LInv'
  BY <1>12, SMTT(30) DEF SupervisorReap, Gone, row, stage, lease, requests, store,
     history
<1>13. ASSUME NEW r \in Runs, SupervisorFail(r) PROVE LInv'
  BY <1>13, SMTT(30) DEF SupervisorFail, row, stage, lease, supervisor, executor,
     requests, store, history
<1>14. ASSUME NEW r \in Runs, SupervisorFailWrite(r) PROVE LInv'
  BY <1>14, SMTT(30) DEF SupervisorFailWrite, Put, FailRow, row, stage, lease,
     supervisor, executor, requests, store, history
<1>15. ASSUME NEW r \in Runs, Expire(r) PROVE LInv'
  BY <1>15, SMTT(30) DEF Expire, Lease, row, stage, lease, supervisor, executor,
     requests, store, history
<1>16. ASSUME NEW r \in Runs, Stall(r) PROVE LInv'
  BY <1>16, SMTT(30) DEF Stall, Lease, row, stage, lease, supervisor, executor,
     requests, store, history
<1>17. ASSUME NEW r \in Runs, HardDeadline(r) PROVE LInv'
  BY <1>17, SMTT(30) DEF HardDeadline, Orphan, Goto, row, stage, lease, requests, store,
     history
<1>18. ASSUME NEW r \in Runs, NEW w \in Workers, Start(r, w) PROVE LInv'
  BY <1>18, SMTT(30) DEF Start, Goto, row, stage, lease, supervisor, requests, store, history
<1>19. ASSUME NEW w \in Workers, Claim(w) PROVE LInv'
  BY <1>19, SMTT(30) DEF Claim, Lease, Goto, Claimable, ClaimedAt, Resumable, Me, row,
     stage, lease, supervisor, requests, store, history
<1>20. ASSUME NEW w \in Workers, ClaimRefused(w) PROVE LInv'
  <2>1. /\ pc[w] = "boot" /\ pc'[w] \notin Working
        /\ job' = job \/ job' = [job EXCEPT ![w] = Nobody]
        /\ \A v \in Workers : v # w => pc'[v] = pc[v]
        /\ UNCHANGED <<row, beating, sweep, cpc, retrying, calls, retries,
                       disturbed, artifact, effect, turn, effects>>
    BY <1>20 DEF ClaimRefused, Leave, Goto, requests, store, history
  <2>2. \A v \in Workers : pc'[v] \in Working \/ pc'[v] \in {"prepare", "message"} =>
          v # w /\ pc'[v] = pc[v] /\ job'[v] = job[v]
    BY <2>1
  <2>3. ThreadsApart' /\ Sole'
    BY <2>1, <2>2 DEF row, stage, lease
  <2>4. Leased'
    BY <2>1, <2>2 DEF row, stage, lease
  <2>5. Swept' /\ Requested' /\ Called' /\ Once'
    BY <2>1, <2>2 DEF row, stage, lease
  <2> QED BY <2>3, <2>4, <2>5
<1>21. ASSUME NEW w \in Workers, Resume(w) PROVE LInv'
  BY <1>21, SMTT(30) DEF Resume, Put, Quiet, Goto, row, stage, lease, supervisor,
     requests, store, history
<1>22. ASSUME NEW w \in Workers, PrepareFails(w) PROVE LInv'
  BY <1>22, SMTT(30) DEF PrepareFails, Quiet, Goto, row, stage, lease, supervisor,
     requests, store, history
<1>23. ASSUME NEW w \in Workers, Invoke(w) PROVE LInv'
  BY <1>23, SMTT(30) DEF Invoke, Put, Quiet, Goto, row, stage, lease, supervisor,
     requests, store, history
<1>24. ASSUME NEW w \in Workers, ModelAnswers(w) PROVE LInv'
  BY <1>24, SMTT(30) DEF ModelAnswers, Quiet, Goto, row, stage, lease, supervisor,
     requests, store, history
<1>25. ASSUME NEW w \in Workers, ModelFails(w) PROVE LInv'
  BY <1>25, SMTT(30) DEF ModelFails, Quiet, Goto, row, stage, lease, supervisor,
     requests, store, history
<1>26. ASSUME NEW w \in Workers, StoreCandidate(w) PROVE LInv'
  BY <1>26, SMTT(30) DEF StoreCandidate, Put, Quiet, Goto, row, stage, lease,
     supervisor, requests, store, history
<1>27. ASSUME NEW w \in Workers, ValidateFails(w) PROVE LInv'
  BY <1>27, SMTT(30) DEF ValidateFails, Quiet, Goto, row, stage, lease, supervisor,
     requests, store, history
<1>28. ASSUME NEW w \in Workers, Validate(w) PROVE LInv'
  BY <1>28, SMTT(30) DEF Validate, Put, Quiet, Goto, row, stage, lease, supervisor,
     requests, store, history
<1>29. ASSUME NEW w \in Workers, PassTest(w) PROVE LInv'
  <2>1. ThreadsApart' /\ Sole' /\ Leased'
    BY <1>29 DEF PassTest, Put, Quiet, Goto, row, stage, lease, supervisor,
       requests, store, history
  <2>2. Swept' /\ Requested' /\ Called' /\ Once'
    BY <1>29 DEF PassTest, Put, Quiet, Goto, row, stage, lease, supervisor,
       requests, store, history
  <2> QED BY <2>1, <2>2
<1>30. ASSUME NEW w \in Workers, MarkPersisting(w) PROVE LInv'
  BY <1>30, SMTT(30) DEF MarkPersisting, Put, Quiet, Goto, row, stage, lease,
     supervisor, requests, store, history
<1>31. ASSUME NEW w \in Workers, SaveArtifact(w) PROVE LInv'
  BY <1>31, SMTT(30) DEF SaveArtifact, Quiet, Goto, row, stage, lease, supervisor,
     requests, store, history
<1>32. ASSUME NEW w \in Workers, Apply(w) PROVE LInv'
  BY <1>32, SMTT(30) DEF Apply, Quiet, Goto, row, stage, lease, supervisor, requests,
     store, history
<1>33. ASSUME NEW w \in Workers, ApplyRejected(w) PROVE LInv'
  BY <1>33, SMTT(30) DEF ApplyRejected, Quiet, Goto, row, stage, lease, supervisor,
     requests, store, history
<1>34. ASSUME NEW w \in Workers, Commit(w) PROVE LInv'
  BY <1>34, SMTT(30) DEF Commit, Put, Quiet, Goto, row, stage, lease, supervisor,
     requests, store, history
<1>35. ASSUME NEW w \in Workers, Compact(w) PROVE LInv'
  BY <1>35, SMTT(30) DEF Compact, Quiet, Goto, row, stage, lease, supervisor, requests,
     store, history
<1>36. ASSUME NEW w \in Workers, FailRead(w) PROVE LInv'
  BY <1>36, SMTT(30) DEF FailRead, Quiet, Goto, row, stage, lease, supervisor, requests,
     store, history
<1>37. ASSUME NEW w \in Workers, FailWrite(w) PROVE LInv'
  BY <1>37, SMTT(30) DEF FailWrite, Put, FailRow, Quiet, Goto, row, stage, lease,
     supervisor, requests, store, history
<1>38. ASSUME NEW w \in Workers, Release(w) PROVE LInv'
  <2>1. /\ pc[w] = "release" /\ pc'[w] \notin Working
        /\ job' = job \/ job' = [job EXCEPT ![w] = Nobody]
        /\ \A v \in Workers : v # w => pc'[v] = pc[v]
        /\ UNCHANGED <<stage, cancelRequested, sweep, cpc, retrying, calls, retries,
                       disturbed, artifact, effect, turn, effects>>
    BY <1>38 DEF Release, Leave, Goto, requests, store, history
  <2>2. \A v \in Workers : pc'[v] \in Working \/ pc'[v] \in {"prepare", "message"} =>
          v # w /\ pc'[v] = pc[v] /\ job'[v] = job[v]
    BY <2>1
  <2>3. ThreadsApart' /\ Sole'
    BY <2>1, <2>2 DEF row, stage, lease
  <2>4. Leased'
    <3>1. \A r \in Runs : r # job[w] => owner'[r] = owner[r] /\ live'[r] = live[r]
      BY <1>38 DEF Release, Lease, lease
    <3>2. beating' = beating \ {w}
      BY <1>38 DEF Release
    <3> QED BY <1>38, <2>1, <2>2, <3>1, <3>2 DEF stage, Release
  <2>5. Swept' /\ Requested' /\ Called' /\ Once'
    BY <2>1, <2>2 DEF row, stage, lease
  <2> QED BY <2>3, <2>4, <2>5
<1>39. ASSUME NEW w \in Workers, Renew(w) PROVE LInv'
  BY <1>39, SMTT(30) DEF Renew, Lease, row, stage, lease, supervisor, executor,
     requests, store, history
<1>40. ASSUME NEW w \in Workers, HeartbeatStops(w) PROVE LInv'
  BY <1>40, SMTT(30) DEF HeartbeatStops, row, stage, lease, supervisor, requests, store,
     history
<1>41. ASSUME NEW w \in Workers, WorkerDies(w) PROVE LInv'
  <2>1. /\ ProcessIsolation /\ pc'[w] \notin Working
        /\ job' = job \/ job' = [job EXCEPT ![w] = Nobody]
        /\ \A v \in Workers : v # w => pc'[v] = pc[v]
        /\ UNCHANGED <<stage, cancelRequested, sweep, cpc, retrying, calls, retries,
                       disturbed, artifact, effect, turn, effects>>
    BY <1>41 DEF WorkerDies, Orphan, Goto, requests, store, history
  <2>2. \A v \in Workers : pc'[v] \in Working \/ pc'[v] \in {"prepare", "message"} =>
          v # w /\ pc'[v] = pc[v] /\ job'[v] = job[v]
    BY <2>1
  <2>3. ThreadsApart' /\ Sole'
    BY <2>1, <2>2 DEF row, stage, lease
  <2>4. Leased'
    <3>1. \A r \in Runs : owner[r] # w => owner'[r] = owner[r] /\ live'[r] = live[r]
      BY <1>41 DEF WorkerDies, Orphan
    <3>2. beating' = beating \ {w}
      BY <1>41 DEF WorkerDies
    <3> QED BY <1>41, <2>1, <2>2, <3>1, <3>2 DEF stage, WorkerDies
  <2>5. Swept' /\ Requested' /\ Called' /\ Once'
    BY <2>1, <2>2 DEF row, stage, lease
  <2> QED BY <2>3, <2>4, <2>5
<1>42. ASSUME NEW w \in Workers, StoreError(w) PROVE LInv'
  BY <1>42, SMTT(30) DEF StoreError, Goto, row, stage, lease, supervisor, requests,
     store, history
<1>43. CASE ServiceCrash
  BY <1>43, SMTT(30) DEF ServiceCrash, Orphan, ServiceGone, row, stage, lease, store,
     history
<1>44. CASE Shutdown
  BY <1>44, SMTT(30) DEF Shutdown, Orphan, row, stage, lease, supervisor, requests,
     store, history
<1>45. CASE Exit
  BY <1>45, SMTT(30) DEF Exit, Orphan, ServiceGone, row, stage, lease, store, history
<1>46. CASE Restart
  BY <1>46, SMTT(30) DEF Restart, row, stage, lease, supervisor, executor, requests,
     store, history
<1>47. CASE UNCHANGED vars
  BY <1>47, SMTT(30) DEF vars, row, stage, lease
<1>48. ASSUME NEW r \in Runs, TakeSlot(r) PROVE LInv'
  BY <1>48, SMTT(30) DEF TakeSlot, row, stage, lease, supervisor, executor, requests,
     store, history
<1>49. ASSUME NEW r \in Runs, NEW w \in Workers, Spawn(r, w) PROVE LInv'
  BY <1>49, SMTT(30) DEF Spawn, Goto, row, stage, lease, supervisor, requests, store,
     history
<1>50. ASSUME NEW r \in Runs, Register(r) PROVE LInv'
  BY <1>50, SMTT(30) DEF Register, row, stage, lease, supervisor, executor, requests,
     store, history
<1>51. ASSUME NEW r \in Runs, SpawnFails(r) PROVE LInv'
  BY <1>51, SMTT(30) DEF SpawnFails, Fault, row, stage, lease, supervisor, executor,
     requests, store, history
<1>52. ASSUME NEW w \in Workers, LookForMessage(w) PROVE LInv'
  BY <1>52, SMTT(30) DEF LookForMessage, Quiet, Goto, row, stage, lease, supervisor,
     requests, store, history
<1>53. ASSUME NEW w \in Workers, WriteMessage(w) PROVE LInv'
  BY <1>53, SMTT(30) DEF WriteMessage, Quiet, Goto, row, stage, lease, supervisor,
     requests, store, history
<1>54. ASSUME NEW w \in Workers, CommitTurn(w) PROVE LInv'
  BY <1>54, SMTT(30) DEF CommitTurn, Quiet, Goto, row, stage, lease, supervisor,
     requests, store, history
<1>55. ASSUME NEW w \in Workers, TurnFails(w) PROVE LInv'
  BY <1>55, SMTT(30) DEF TurnFails, Quiet, Goto, row, stage, lease, supervisor,
     requests, store, history
<1> QED
  BY <1>1, <1>2, <1>3, <1>4, <1>5, <1>6, <1>7, <1>8, <1>9, <1>10, <1>11,
     <1>12, <1>13, <1>14, <1>15, <1>16, <1>17, <1>18, <1>19, <1>20, <1>21,
     <1>22, <1>23, <1>24, <1>25, <1>26, <1>27, <1>28, <1>29, <1>30, <1>31,
     <1>32, <1>33, <1>34, <1>35, <1>36, <1>37, <1>38, <1>39, <1>40, <1>41,
     <1>42, <1>43, <1>44, <1>45, <1>46, <1>47, <1>48, <1>49, <1>50, <1>51,
     <1>52, <1>53, <1>54, <1>55
  DEF Next, Request, Recovery, Thread, Executor


\* No run is executed, swept or asked about before it is created.
LEMMA LInit == Init => LInv
BY DEF Init, LInv, ThreadsApart, Sole, Leased, Swept, Requested, Called, Once, Working,
   NoResult, IsAnswer, Undisturbed

\* Both invariants hold.
LEMMA InductiveLeases == Spec => [](IInv /\ LInv)
<1>1. Init => LInv
  BY LInit
<1>2. ASSUME IInv, IInv', LInv, [Next]_vars PROVE LInv'
  BY <1>2, LStep
<1> QED BY <1>1, <1>2, Inductive, PTL DEF Spec

\* In an undisturbed run the lease keeps every other executor out, children of
\* crashed services included.
THEOREM LeaseExcludes == Spec => []ExclusiveExecution
<1>1. ASSUME LInv PROVE ExclusiveExecution
  <2>1. ASSUME NEW r \in Runs, Undisturbed(r)
        PROVE  Cardinality({w \in Workers : job[w] = r /\ pc[w] \in Working}) <= 1
    <3> DEFINE S == {w \in Workers : job[w] = r /\ pc[w] \in Working}
    <3>1. \A v, w \in S : v = w
      BY <1>1, <2>1 DEF LInv, Sole
    <3>2. CASE S = {}
      BY <3>2, FS_EmptySet
    <3>3. CASE S # {}
      <4>1. PICK w : w \in S
        BY <3>3
      <4>2. S = {w}
        BY <3>1, <4>1
      <4> HIDE DEF S
      <4>3. Cardinality(S) = 1
        BY <4>2, FS_Singleton
      <4> QED BY <4>3 DEF S
    <3> QED BY <3>2, <3>3
  <2> QED BY <2>1 DEF ExclusiveExecution
<1> QED BY <1>1, InductiveLeases, PTL

\* The learning record of a run is written once: a Session's because of its key, a
\* dialogue's because the lease keeps a second writer from looking before the first writes.
THEOREM RecordWrittenOnce == Spec => []AppliedOnce
<1>1. IInv /\ LInv => AppliedOnce
  BY DEF IInv, Counted, LInv, Once, AppliedOnce
<1> QED BY <1>1, InductiveLeases, PTL

\* An undisturbed run is paid for once: neither the recovery of a stored candidate
\* nor the successor of an orphan calls the model again.
THEOREM CalledOnce == Spec => []OneCallUntilRetry
<1>1. LInv => OneCallUntilRetry
  BY DEF LInv, Called, OneCallUntilRetry
<1> QED BY <1>1, InductiveLeases, PTL

\* The answer an undisturbed run shows is the one in its learning record.
THEOREM ShownIsRecorded == Spec => []ShownAnswerIsRecorded
<1>1. ASSUME IInv, LInv PROVE ShownAnswerIsRecorded
  <2>1. ASSUME NEW r \in Runs, status[r] = "persisted", Undisturbed(r)
        PROVE  /\ result[r] = effect[r]
               /\ Kind[r] = "dialogue" => artifact[r] = effect[r] /\ turn[r] = effect[r]
    <3>1. calls[r] \in Nat /\ calls[r] <= 1
      BY <1>1, <2>1 DEF IInv, TypeInv, TypeOK, LInv, Called
    <3>2. \A x \in Answers(r) : x = 1
      BY <3>1 DEF Answers
    <3>3. effect[r] \in Answers(r) /\ result[r] \in Answers(r)
      BY <1>1, <2>1 DEF IInv, ReportMatchesRecord, RecordIsAnAnswer, Shown
    <3>4. Kind[r] = "dialogue" => artifact[r] \in Answers(r) /\ turn[r] \in Answers(r)
      BY <1>1, <2>1 DEF IInv, ReportMatchesRecord, RecordIsAnAnswer
    <3> QED BY <3>2, <3>3, <3>4
  <2> QED BY <2>1 DEF ShownAnswerIsRecorded
<1> QED BY <1>1, InductiveLeases, PTL

\* Nothing but the learner, a supervisor's report or a failing statement after the
\* commit takes back that a run is persisted.
THEOREM PersistedForGood == Spec => PersistedStays
<1>1. ASSUME IInv, LInv, [Next]_vars, NEW r \in Runs, status[r] = "persisted",
             status'[r] # "persisted", Calm(r), sup[r] # "failwrite"
      PROVE  \E w \in Workers : job[w] = r /\ pc[w] = "failwrite"
  <2> USE ConstantsOK, <1>1
  <2> USE DEF IInv, TypeInv, Assigned, TypeOK, Put
  <2>1. \A w \in Workers :
          job[w] = r /\ pc[w] \in Working => pc[w] \in Leaving
    BY DEF LInv, Leased, Active
  <2>2. sweep[r] = "idle" /\ cpc[r] = "idle" /\ r \notin retrying
    BY DEF LInv, Swept, Requested, Calm, Undisturbed
  <2>3. ASSUME NEW s \in Runs, Request(s) PROVE FALSE
    BY <2>2, <2>3 DEF Request, Create, CreateEnqueue, RetryRead, RetryWrite, CancelMark,
       CancelTerminate, CancelWrite, Orphan, row, stage, lease
  <2>4. ASSUME NEW s \in Runs, Recovery(s) PROVE FALSE
    BY <2>2, <2>4 DEF Recovery, SweepClaim, SweepRequeue, SweepInterrupt, stage
  <2>5. ASSUME NEW s \in Runs,
               Thread(s) \/ Expire(s) \/ SpawnFails(s) \/ Stall(s) \/ HardDeadline(s)
        PROVE  FALSE
    BY <2>5 DEF Thread, Start, TakeSlot, StartNothing, Spawn, Register, SupervisorReap, SupervisorFail,
       SupervisorFailWrite, FailRow, Expire, SpawnFails, Stall, HardDeadline, Orphan, row, stage, lease
  <2>6. ASSUME NEW w \in Workers, Executor(w)
        PROVE  job[w] = r /\ pc[w] = "failwrite"
    <3>1. job[w] = r /\ pc[w] \in Working
      BY <2>6 DEF Executor, Claim, ClaimRefused, Resume, PrepareFails, Invoke, ModelAnswers,
         ModelFails, StoreCandidate, ValidateFails, Validate, PassTest, MarkPersisting,
         SaveArtifact, Apply, LookForMessage, WriteMessage, ApplyRejected, CommitTurn,
         TurnFails, Commit, Compact, FailRead, FailWrite, FailRow,
         Release, row, stage, lease, Working
    <3>2. pc[w] \in Leaving
      BY <2>1, <3>1
    <3> QED BY <2>6, <3>1, <3>2 DEF Leaving, Executor, Claim, ClaimRefused, Resume,
         PrepareFails, Invoke, ModelAnswers, ModelFails, StoreCandidate, ValidateFails,
         Validate, PassTest, MarkPersisting, SaveArtifact, Apply, LookForMessage,
         WriteMessage, ApplyRejected, CommitTurn, TurnFails, Commit, Compact, FailRead, FailWrite, Release, row, stage, lease
  <2>7. ASSUME NEW w \in Workers,
               Renew(w) \/ HeartbeatStops(w) \/ WorkerDies(w) \/ StoreError(w)
        PROVE  FALSE
    BY <2>7 DEF Renew, HeartbeatStops, WorkerDies, StoreError, Orphan, row, stage, lease
  <2>8. ~(ServiceCrash \/ Shutdown \/ Exit \/ Restart \/ UNCHANGED vars)
    BY DEF ServiceCrash, Shutdown, Exit, ServiceGone, Restart, Orphan, vars, row, stage, lease
  <2> QED BY <2>3, <2>4, <2>5, <2>6, <2>7, <2>8 DEF Next
<1>2. ASSUME IInv, LInv, [Next]_vars
      PROVE  \A r \in Runs :
               status[r] = "persisted" /\ status'[r] # "persisted" =>
                 \/ cancelRequested[r] \/ ~Undisturbed(r)
                 \/ sup[r] = "failwrite"
                 \/ \E w \in Workers : job[w] = r /\ pc[w] = "failwrite"
  BY <1>1, <1>2 DEF Calm
<1> QED BY <1>2, InductiveLeases, PTL DEF Spec, PersistedStays
=============================================================================
