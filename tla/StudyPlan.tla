------------------------------ MODULE StudyPlan ------------------------------
(***************************************************************************)
(* What follows from the learner's Sessions: the tables record_session     *)
(* rebuilds from a document (SessionDocument, storage.py), the learner     *)
(* model (LearningModel), the queue of review tasks and the practice units *)
(* the learner works through (learning_orchestration.py).                  *)
(*                                                                         *)
(* Sessions are committed one at a time (SessionStore says how).  The      *)
(* learner's requests run beside each other; a step is one transaction, or *)
(* a read that a later step of the request relies on.  The teaching cycle  *)
(* a commit may move as well is part of Tutor.                             *)
(***************************************************************************)
EXTENDS LearningModel

CONSTANTS
  Requests,     \* requests of the learner
  MaxCommits,   \* bound: Session commits
  MaxRow,       \* bound: rows of errors or reading_answers ever written
  MaxRequests,  \* bound: requests
  MaxEvents     \* bound: commits and requests

VARIABLES
  session,      \* [Sessions -> document or Nil]
  errors,       \* the table errors: rows [id, session, status]
  answers,      \* the table reading_answers: rows [id, session, mark]
  lastId,       \* AUTOINCREMENT of either table
  made,         \* [Keys -> reviews of that key ever made]: the id of the last one
  task,         \* review_tasks: [TaskKeys -> row or Nil]
  unit,         \* practice_units: [UnitKeys -> row or Nil]
  request,      \* [Requests -> where it is and what it has read]
  commits,      \* history: how many there were
  requests      \* history: how many there were

tables == <<session, errors, answers, lastId, made, commits>>
vars == <<learner, objective, activity, tables, task, unit, request, requests>>

\* stable_key.  The key of an error's or an answer's task is the id that its row
\* happens to have.
TaskKeys == ({"error", "reading-answer"} \X (1..MaxRow)) \cup ({"writing-v2"} \X Sessions)

\* source_key: the unit of a review task, and two of today's.
Consolidation == <<"today", "consolidation">>
Primary == <<"today", "primary">>
UnitKeys == TaskKeys \cup {Consolidation, Primary}

Idle == [pc |-> "idle", goal |-> Nil, on |-> Nil, read |-> Nil, with |-> Nil]

Init ==
  /\ LearnerInit
  /\ session = [s \in Sessions |-> Nil] /\ commits = 0
  /\ errors = {} /\ answers = {} /\ lastId = [error |-> 0, answer |-> 0]
  /\ made = [key \in Keys |-> 0]
  /\ task = [k \in TaskKeys |-> Nil] /\ unit = [u \in UnitKeys |-> Nil]
  /\ request = [q \in Requests |-> Idle] /\ requests = 0

(***************************************************************************)
(* A Session is recorded                                                   *)
(***************************************************************************)
NextDocuments(s) == IF session[s] = Nil THEN Starts ELSE Successors(session[s])

\* The rows of a Session are deleted and written anew, with new ids.
Others(rows, s) == {r \in rows : r.session # s}
ErrorRows(s, d) ==
  Others(errors, s) \cup
  {[id |-> lastId.error + i, session |-> s, status |-> "active"] : i \in 1..d.errors}

Answered(d) == IF d.module = "reading" THEN SetToSeq(DOMAIN d.marks) ELSE <<>>
AnswerRows(s, d) ==
  Others(answers, s) \cup
  {[id |-> lastId.answer + i, session |-> s, mark |-> d.marks[Answered(d)[i]]] :
     i \in DOMAIN Answered(d)}

NextIds(d) ==
  [error |-> lastId.error + d.errors, answer |-> lastId.answer + Len(Answered(d))]

\* A review that is made has an id of its own, also where there was one before.
NameReviews ==
  made' = [key \in Keys |-> IF learner.review[key] = Nil /\ learner'.review[key] # Nil
                            THEN made[key] + 1 ELSE made[key]]

\* The same questions and criteria, about which something else may be said now.
Reworded(d, e) ==
  /\ e \in Worked(d)
  /\ \/ e.marks = d.marks /\ e.marks # <<>>
     \/ e.criteria = d.criteria /\ e.criteria # {}

RecordSession(s) ==
  \E d \in NextDocuments(s) :
    /\ commits < MaxCommits /\ commits + requests < MaxEvents
    /\ commits' = commits + 1
    /\ NextIds(d).error <= MaxRow /\ NextIds(d).answer <= MaxRow
    /\ lastId' = NextIds(d)
    /\ session' = [session EXCEPT ![s] = d]
    /\ errors' = ErrorRows(s, d) /\ answers' = AnswerRows(s, d)
    /\ \E touched \in BOOLEAN :
         /\ touched => session[s] # Nil /\ Reworded(session[s], d)
         /\ learner' = Ingested(learner, s, d, touched)
    /\ NameReviews
    /\ UNCHANGED <<objective, activity, task, unit, request, requests>>

\* update_error_status, of the table only: the next commit of the Session writes
\* what its document says.
ResolveErrors ==
  /\ errors' = {[r EXCEPT !.status = "resolved"] : r \in errors}
  /\ UNCHANGED <<learner, objective, activity, session, answers, lastId, made, commits, task, unit,
                 request>>

(***************************************************************************)
(* The learner model's requests                                            *)
(***************************************************************************)
Ask ==
  /\ requests < MaxRequests /\ commits + requests < MaxEvents
  /\ requests' = requests + 1
Begin(q, r) == Ask /\ request[q] = Idle /\ request' = [request EXCEPT ![q] = r]
Goto(q, pc) == request' = [request EXCEPT ![q].pc = pc]
End(q)      == request' = [request EXCEPT ![q] = Idle]

RecordEvidence(k, o, score) ==
  /\ Ask
  /\ learner' = Recorded(learner, k, o, 1, score) /\ NameReviews
  /\ UNCHANGED <<objective, activity, session, errors, answers, lastId, commits, task, unit,
                 request>>

MoveReview(key, status) ==
  /\ Ask
  /\ learner.review[key] # Nil
  /\ learner' = Set(learner, key, status)
  /\ UNCHANGED <<objective, activity, tables, task, unit, request>>

\* complete_learning_review reads the row before its transaction begins.
ReadReview(q, key) ==
  /\ learner.review[key] # Nil /\ learner.review[key].status # "dismissed"
  /\ Begin(q, [Idle EXCEPT !.pc = "answer", !.on = key, !.read = learner.review[key],
                      !.with = made[key]])
  /\ UNCHANGED <<learner, objective, activity, tables, task, unit>>

\* A commit may have removed it since, and another have made one like it: then the
\* answer is evidence all the same, the UPDATE finds no row, and the request fails
\* when that is committed.
CompleteReview(q, score, goesOn) ==
  /\ request[q].pc = "answer"
  /\ LET r == request[q]
         after == ReviewAnswered(learner, r.on, r.with, r.read, score)
         found == learner.review[r.on] # Nil /\ made[r.on] = r.with
     IN learner' = IF found THEN Completed(after, r.on, r.read, goesOn) ELSE after
  /\ End(q)
  /\ UNCHANGED <<objective, activity, tables, task, unit, requests>>

CreateObjective(o) ==
  /\ Ask
  /\ objective[o] = Nil /\ objective' = [objective EXCEPT ![o] = NewObjective("active")]
  /\ UNCHANGED <<learner, activity, tables, task, unit, request>>

\* update_learning_objective compares the revision with the one the learner saw,
\* here; the row is written in a transaction of its own.
ReadObjective(q, o) ==
  /\ objective[o] # Nil
  /\ Begin(q, [Idle EXCEPT !.pc = "edit", !.on = o, !.read = objective[o]])
  /\ UNCHANGED <<learner, objective, activity, tables, task, unit>>

WriteObjective(q, status) ==
  /\ request[q].pc = "edit"
  /\ LET o == request[q].on
     IN objective' = [objective EXCEPT ![o] = Edited(@, request[q].read, status)]
  /\ End(q)
  /\ UNCHANGED <<learner, activity, tables, task, unit, requests>>

CreateActivity(a, status, o, s) ==
  /\ Ask
  /\ activity[a] = Nil
  /\ o # Nil => objective[o] # Nil
  /\ s # Nil => session[s] # Nil
  /\ activity' = [activity EXCEPT ![a] = NewActivity(status, o, s)]
  /\ UNCHANGED <<learner, objective, tables, task, unit, request>>

\* update_learning_activity, likewise in two steps.
ReadActivity(q, a) ==
  /\ activity[a] # Nil
  /\ Begin(q, [Idle EXCEPT !.pc = "change", !.on = a, !.read = activity[a]])
  /\ UNCHANGED <<learner, objective, activity, tables, task, unit>>

WriteActivity(q, status) ==
  /\ request[q].pc = "change"
  /\ LET a == request[q].on
     IN activity' = [activity EXCEPT ![a] = Changed(@, request[q].read, status)]
  /\ End(q)
  /\ UNCHANGED <<learner, objective, tables, task, unit, requests>>

(***************************************************************************)
(* The review queue is brought up to date                                  *)
(***************************************************************************)
\* _candidate_review_tasks, without the listening items that fall due with the
\* calendar; a task of a Session leads back to it.
Unresolved == {r \in errors : r.status # "resolved"}
Wrong == {r \in answers : r.mark = "wrong"}
ToRevise(d) == d.module = "writing" /\ d.status = "awaiting_revision" /\ d.versions = {"v1"}
Candidates ==
  {<<"error", r.id>> : r \in Unresolved} \cup {<<"reading-answer", r.id>> : r \in Wrong} \cup
  {<<"writing-v2", s>> : s \in {x \in Sessions : session[x] # Nil /\ ToRevise(session[x])}}

SessionOf(k) ==
  IF k[1] = "writing-v2" THEN k[2]
  ELSE (CHOOSE r \in (IF k[1] = "error" THEN errors ELSE answers) : r.id = k[2]).session

\* GET today or the review tasks, and the first half of two other requests.
SyncReview(q) ==
  /\ Begin(q, [Idle EXCEPT !.pc = "read"])
  /\ UNCHANGED <<learner, objective, activity, tables, task, unit>>

StartTask(q, k) ==
  /\ task[k] # Nil
  /\ Begin(q, [Idle EXCEPT !.pc = "read", !.goal = "start", !.on = k])
  /\ UNCHANGED <<learner, objective, activity, tables, task, unit>>

\* materialise_today_unit, unless the day's unit is there.
MaterialiseConsolidation(q) ==
  /\ unit[Consolidation] = Nil
  /\ Begin(q, [Idle EXCEPT !.pc = "read", !.goal = "today"])
  /\ UNCHANGED <<learner, objective, activity, tables, task, unit>>

ReadCandidates(q) ==
  /\ request[q].pc = "read"
  /\ request' = [request EXCEPT ![q].pc = "write",
                    ![q].read = {[key |-> k, session |-> SessionOf(k)] : k \in Candidates}]
  /\ UNCHANGED <<learner, objective, activity, tables, task, unit, requests>>

NewTask(s) == [status |-> "pending", session |-> s, unit |-> Nil]
Closed(row) == [row EXCEPT !.status = "completed"]

\* A candidate's task is made once; an open task whose reason is gone is closed.
\* Mutant: an old task is put back into the queue.
Requeued(row, s) == IF row = Nil THEN NewTask(s) ELSE [row EXCEPT !.status = "pending"]
Queued(row, s) == IF row = Nil THEN NewTask(s) ELSE row

Synchronised(found) ==
  [k \in TaskKeys |->
     IF \E c \in found : c.key = k
     THEN Queued(task[k], (CHOOSE c \in found : c.key = k).session)
     ELSE IF task[k] # Nil /\ task[k].status \in Open THEN Closed(task[k]) ELSE task[k]]

After(goal) == IF goal = "start" THEN "look" ELSE "pick"

WriteTasks(q) ==
  /\ request[q].pc = "write"
  /\ task' = Synchronised(request[q].read)
  /\ LET r == request[q]
     IN request' = [request EXCEPT ![q] =
          IF r.goal = Nil THEN Idle ELSE [r EXCEPT !.pc = After(r.goal), !.read = Nil]]
  /\ UNCHANGED <<learner, objective, activity, tables, unit, requests>>

(***************************************************************************)
(* Practice units                                                          *)
(***************************************************************************)
NewUnit(status, s, k) == [status |-> status, session |-> s, task |-> k]

\* _create_unit: the unit of that key that is there is used again.
Created(u, status, s, k) ==
  unit' = IF unit[u] = Nil THEN [unit EXCEPT ![u] = NewUnit(status, s, k)] ELSE unit

\* start_review_task: the task is looked up, its unit made, and then the task is
\* marked, whatever it is by then.
LookUpTask(q) ==
  /\ request[q].pc = "look"
  /\ LET k == request[q].on
     IN IF task[k].status \in Open THEN Goto(q, "make") ELSE End(q)
  /\ UNCHANGED <<learner, objective, activity, tables, task, unit, requests>>

MakeUnit(q) ==
  /\ request[q].pc = "make"
  /\ LET k == request[q].on IN Created(k, "in_progress", task[k].session, k)
  /\ Goto(q, "mark")
  /\ UNCHANGED <<learner, objective, activity, tables, task, requests>>

MarkStarted(q) ==
  /\ request[q].pc = "mark"
  /\ LET k == request[q].on
     IN task' = [task EXCEPT ![k].status = "in_progress", ![k].unit = k]
  /\ End(q)
  /\ UNCHANGED <<learner, objective, activity, tables, unit, requests>>

\* The consolidation slot takes a pending task (due date and priority decide
\* which); without one it is a plan for some module.
PickTask(q) ==
  /\ request[q].pc = "pick"
  /\ LET pending == {k \in TaskKeys : task[k] # Nil /\ task[k].status = "pending"}
     IN \/ \E k \in pending :
             request' = [request EXCEPT ![q].pc = "take", ![q].on = k]
        \/ pending = {} /\ Goto(q, "plan")
  /\ UNCHANGED <<learner, objective, activity, tables, task, unit, requests>>

TakeTask(q) ==
  /\ request[q].pc = "take"
  /\ LET k == request[q].on IN Created(Consolidation, "in_progress", task[k].session, k)
  /\ Goto(q, "claim")
  /\ UNCHANGED <<learner, objective, activity, tables, task, requests>>

\* Mutant: the task is claimed whatever it has become.
ClaimedAnyway(row) == [row EXCEPT !.status = "in_progress", !.unit = Consolidation]
Claimed(row) ==
  IF row.status = "pending" THEN [row EXCEPT !.status = "in_progress", !.unit = Consolidation]
                            ELSE row

ClaimTask(q) ==
  /\ request[q].pc = "claim"
  /\ task' = [task EXCEPT ![request[q].on] = Claimed(@)]
  /\ End(q)
  /\ UNCHANGED <<learner, objective, activity, tables, unit, requests>>

PlanUnit(q) ==
  /\ request[q].pc = "plan"
  /\ Created(Consolidation, "planned", Nil, Nil)
  /\ End(q)
  /\ UNCHANGED <<learner, objective, activity, tables, task, requests>>

\* The primary slot, or an action of the progress page.
MaterialisePrimary ==
  /\ Ask
  /\ Created(Primary, "planned", Nil, Nil)
  /\ UNCHANGED <<learner, objective, activity, tables, task, request>>

\* bind_practice_unit, when a Session is started from a unit: what the unit is
\* was read before.
ReadUnit(q, u, s) ==
  /\ unit[u] # Nil /\ unit[u].status # "completed" /\ session[s] # Nil
  /\ Begin(q, [Idle EXCEPT !.pc = "bind", !.on = u, !.with = s])
  /\ UNCHANGED <<learner, objective, activity, tables, task, unit>>

BindUnit(q) ==
  /\ request[q].pc = "bind"
  /\ LET u == request[q].on
     IN unit' = [unit EXCEPT ![u].status = "in_progress", ![u].session = request[q].with]
  /\ End(q)
  /\ UNCHANGED <<learner, objective, activity, tables, task, requests>>

\* complete_review_task: the task's unit is read first, and completed with it.
ReadTask(q, k) ==
  /\ task[k] # Nil
  /\ Begin(q, [Idle EXCEPT !.pc = "complete", !.on = k, !.with = task[k].unit])
  /\ UNCHANGED <<learner, objective, activity, tables, task, unit>>

CompletedUnits(us) ==
  [u \in UnitKeys |-> IF u \in us THEN [unit[u] EXCEPT !.status = "completed"] ELSE unit[u]]

CompleteTask(q) ==
  /\ request[q].pc = "complete"
  /\ task' = [task EXCEPT ![request[q].on] = Closed(@)]
  /\ unit' = CompletedUnits({request[q].with} \ {Nil})
  /\ End(q)
  /\ UNCHANGED <<learner, objective, activity, tables, requests>>

\* finish: a unit of the finished Session is looked up, and completed with the
\* tasks that are its.
ReadFinished(q, s) ==
  /\ session[s] # Nil
  /\ \E u \in UnitKeys :
       /\ unit[u] # Nil /\ unit[u].session = s
       /\ Begin(q, [Idle EXCEPT !.pc = "finish", !.on = u])
  /\ UNCHANGED <<learner, objective, activity, tables, task, unit>>

WithTasksClosed(u) ==
  [k \in TaskKeys |->
     IF task[k] # Nil /\ task[k].unit = u /\ task[k].status \in Open THEN Closed(task[k])
                                                                    ELSE task[k]]

CompleteUnit(q) ==
  /\ request[q].pc = "finish"
  /\ unit' = CompletedUnits({request[q].on})
  /\ task' = WithTasksClosed(request[q].on)
  /\ End(q)
  /\ UNCHANGED <<learner, objective, activity, tables, requests>>

\* /api/v1/learning-objectives, /learning-activities, /mastery-evidence and
\* /learning-reviews, each in one step ...
LearnerRequest ==
  \/ \E k \in Skills, score \in {0, 100} : \E o \in Objectives \cup {Nil} :
       <<k, o>> \in Keys /\ RecordEvidence(k, o, score)
  \/ \E key \in Keys, status \in Open \cup {"dismissed"} : MoveReview(key, status)
  \/ \E o \in Objectives : CreateObjective(o)
  \/ \E a \in Activities, status \in {"planned", "completed"} :
       \E o \in Objectives \cup {Nil}, s \in Sessions \cup {Nil} : CreateActivity(a, status, o, s)

\* ... or in two.
LearnerStep(q) ==
  \/ \E key \in Keys : ReadReview(q, key)
  \/ \E score \in {0, 100}, goesOn \in BOOLEAN : CompleteReview(q, score, goesOn)
  \/ \E o \in Objectives : ReadObjective(q, o)
  \/ \E status \in {Nil, "achieved", "paused"} : WriteObjective(q, status)
  \/ \E a \in Activities : ReadActivity(q, a)
  \/ \E status \in {Nil, "in_progress", "cancelled"} : WriteActivity(q, status)

\* /api/v1/today, /practice-units, /review-tasks
QueueStep(q) ==
  \/ \E k \in TaskKeys : StartTask(q, k) \/ ReadTask(q, k)
  \/ SyncReview(q) \/ MaterialiseConsolidation(q)
  \/ ReadCandidates(q) \/ WriteTasks(q)
  \/ LookUpTask(q) \/ MakeUnit(q) \/ MarkStarted(q)
  \/ PickTask(q) \/ TakeTask(q) \/ ClaimTask(q) \/ PlanUnit(q)
  \/ CompleteTask(q)

\* what starting and finishing a Session do beside its commit
UnitStep(q) ==
  \/ \E u \in UnitKeys, s \in Sessions : ReadUnit(q, u, s)
  \/ \E s \in Sessions : ReadFinished(q, s)
  \/ BindUnit(q) \/ CompleteUnit(q)

Next ==
  \/ \E s \in Sessions : RecordSession(s)
  \/ Ask /\ ResolveErrors
  \/ LearnerRequest
  \/ MaterialisePrimary
  \/ \E q \in Requests : LearnerStep(q) \/ QueueStep(q) \/ UnitStep(q)

Spec == Init /\ [][Next]_vars

(***************************************************************************)
(* Properties                                                              *)
(***************************************************************************)
Task == [status : Open \cup {"completed"}, session : Sessions \cup {Nil},
         unit : UnitKeys \cup {Nil}]
Unit == [status : {"planned", "in_progress", "completed"}, session : Sessions \cup {Nil},
         task : TaskKeys \cup {Nil}]

ASSUME PlanConstants == MaxRow \in Nat /\ MaxHint \in Nat /\ Nil \notin Task \cup Unit

\* Every variable has its type, ids of errors are never used twice, and a task's
\* unit is one that was made for it.
TypeOK ==
  /\ LearnerTypeOK
  /\ \A s \in Sessions : session[s] # Nil => DocumentOK(session[s])
  /\ made \in [Keys -> Nat]
  /\ \A r \in errors : r.id <= lastId.error /\ \A x \in errors : x.id = r.id => x = r
  /\ \A k \in TaskKeys : task[k] # Nil =>
       /\ task[k] \in Task
       /\ task[k].unit # Nil => task[k].unit \in {k, Consolidation} /\ unit[task[k].unit] # Nil
  /\ \A u \in UnitKeys : unit[u] \in Unit \cup {Nil}

\* The learner model is what rebuilding it from the Sessions would give: each
\* Session's evidence is what its document says now, and what is computed from
\* evidence is up to date, whichever requests run beside the commits.
ModelCurrent ==
  /\ \A s \in Sessions :
       SessionRows(learner, s) = IF session[s] = Nil THEN {} ELSE Projection(s, session[s])
  /\ MasteryCurrent

\* What the learner is done with stays done: neither bringing the queue up to
\* date nor today's plan opens a completed task again, and no step a completed
\* unit.  (A request that found it open and is about to start or to bind it does.)
DoneStaysDone ==
  [][/\ \A k \in TaskKeys : task[k] # Nil /\ task[k].status = "completed" =>
          \/ task'[k].status = "completed"
          \/ \E q \in Requests : request[q].pc = "mark" /\ request[q].on = k
     /\ \A u \in UnitKeys : unit[u] # Nil /\ unit[u].status = "completed" =>
          \/ unit'[u].status = "completed"
          \/ \E q \in Requests : request[q].pc = "bind" /\ request[q].on = u]_vars
=============================================================================
