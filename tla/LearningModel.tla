---------------------------- MODULE LearningModel ----------------------------
(***************************************************************************)
(* The learner model (learning_model.py): evidence of what the learner can *)
(* do, the mastery of each skill computed from it, the reviews it          *)
(* schedules, and the objectives the learner sets.  The operations are     *)
(* functions of the tables; each is applied inside one transaction.        *)
(* Scores are per cent.  The weights of kind, confidence and recency only  *)
(* change the number an estimate has, not when it is computed nor from     *)
(* which rows, and are left out; so is the window of the 20 newest rows.   *)
(***************************************************************************)
EXTENDS SessionDocument

CONSTANTS
  Skills,       \* learning_skill_nodes
  Objectives,   \* objective_id
  Activities,   \* activity_id
  SkillOf,      \* [Objectives -> Skills]
  Sessions,     \* session_id
  SkillOfItem,  \* [Items -> Skills], by the type of the question
  CriterionSkill, \* the skill of a criterion of Writing or Speaking
  Nil

VARIABLES
  learner,      \* the tables: evidence (mastery_evidence), mastery (skill_mastery)
                \*   and review (learning_review_schedules, by stable_key)
  objective,    \* learning_objectives: [Objectives -> row or Nil]
  activity      \* learning_activities: [Activities -> row or Nil]

Keys == {key \in Skills \X (Objectives \cup {Nil}) : key[2] = Nil \/ SkillOf[key[2]] = key[1]}
Open == {"pending", "in_progress"}
ObjectiveStatuses == {"planned", "active", "achieved", "paused", "archived"}
ActivityStatuses  == {"planned", "in_progress", "completed", "cancelled"}

LearnerInit ==
  /\ learner = [evidence |-> {}, mastery |-> [k \in {} |-> {}],
                review |-> [key \in Keys |-> Nil]]
  /\ objective = [o \in Objectives |-> Nil]
  /\ activity = [a \in Activities |-> Nil]

(***************************************************************************)
(* Mastery and reviews                                                     *)
(***************************************************************************)
RowsOf(t, k) == {e \in t.evidence : e.skill = k}
Known(t, k)  == {[source |-> e.source, score |-> e.score] : e \in RowsOf(t, k)}

Estimate(known) ==
  IF known = {} THEN 0
  ELSE MapThenSumSet(LAMBDA e : e.score, known) \div Cardinality(known)

\* _interval_days
IntervalDays(score, repetitions) ==
  LET base == IF score >= 85 THEN 14 ELSE IF score >= 70 THEN 7 ELSE IF score >= 50 THEN 3 ELSE 1
  IN IF repetitions > 0 /\ score >= 70 THEN base * (IF repetitions = 1 THEN 2 ELSE 4)
                                       ELSE base

Row(key, t) == t.review[key]
OpenKeys(t, k) == {key \in Keys : key[1] = k /\ Row(key, t) # Nil /\ Row(key, t).status \in Open}

\* MIN(due_at) of the skill's open reviews; a due date is a number of days.
NextReview(t, k) ==
  IF OpenKeys(t, k) = {} THEN Nil ELSE Min({Row(key, t).due : key \in OpenKeys(t, k)})

\* The rows of some skills are made anew.
Derived(t, k) == [from |-> Known(t, k), next |-> NextReview(t, k)]
Rederived(t, K) ==
  [t EXCEPT !.mastery = [k \in DOMAIN @ \cup K |-> IF k \in K THEN Derived(t, k) ELSE @[k]]]
Recalculated(t, k) == Rederived(t, {k})

\* Mutant: the skill's next review is not looked for again.
LeftAlone(t, k) == t
Refreshed(t, k) ==
  IF k \notin DOMAIN t.mastery THEN t ELSE [t EXCEPT !.mastery[k].next = NextReview(t, k)]

\* A review that exists is opened again, whatever has become of it, and keeps its
\* repetitions.
Planned(row, known) ==
  LET reps == IF row = Nil THEN 0 ELSE row.repetitions
  IN [status |-> "pending", due |-> IntervalDays(Estimate(known), reps), repetitions |-> reps]
Scheduled(t, key) ==
  Refreshed([t EXCEPT !.review[key] = Planned(@, t.mastery[key[1]].from)], key[1])

Upserted(t, e) ==
  [t EXCEPT !.evidence = {d \in @ : d.skill # e.skill \/ d.source # e.source} \cup {e}]

\* _record_mastery_evidence_conn, which may be asked to schedule what is new.
Observed(t, e) == Recalculated(Upserted(t, e), e.skill)
ObservedAnew(t, e) ==
  IF e \in t.evidence THEN Observed(t, e)
                      ELSE Scheduled(Observed(t, e), <<e.skill, e.objective>>)

(***************************************************************************)
(* Evidence of a Session: its rows are replaced by what its document shows *)
(***************************************************************************)
SessionRows(t, s) == {e \in t.evidence : e.source[1] = s}

\* Each marked question is evidence, and each criterion.
Shown(d) ==
  {[skill |-> SkillOfItem[i], item |-> i, score |-> IF d.marks[i] = "right" THEN 100 ELSE 0] :
     i \in {j \in DOMAIN d.marks : d.marks[j] # "unmarked"}}
  \cup {[skill |-> CriterionSkill, item |-> "criterion", score |-> score] : score \in d.criteria}

Projection(s, d) ==
  {[skill |-> shown.skill, source |-> <<s, shown.item>>, score |-> shown.score,
    objective |-> Nil] : shown \in Shown(d)}

\* A skill the Session says something about, or no longer does.
Affected(t, s, rows) == {e.skill : e \in SessionRows(t, s) \cup rows}

\* Mutant: what the document no longer shows stays.
OnlyAdded(t, s, rows) == [t EXCEPT !.evidence = @ \cup rows]
Replaced(t, s, rows) == [t EXCEPT !.evidence = (@ \ SessionRows(t, s)) \cup rows]

\* The review of a skill goes with its last evidence.
Replanned(t, key) ==
  IF RowsOf(t, key[1]) = {} THEN Nil ELSE Planned(Row(key, t), Known(t, key[1]))

\* ingest_session_mastery_evidence; its loop turns once for each affected skill, and
\* each turn touches that skill alone.  Nothing is scheduled when the rows are what
\* they were; touched: what they say beside the score is not.
Ingested(t, s, d, touched) ==
  LET rows == Projection(s, d)
      changed == touched \/ SessionRows(t, s) # rows
      affected == Affected(t, s, rows)
      u == Replaced(t, s, rows)
  IN Rederived([u EXCEPT !.review =
                  [key \in Keys |-> IF changed /\ key[1] \in affected /\ key[2] = Nil
                                    THEN Replanned(u, key) ELSE @[key]]], affected)

(***************************************************************************)
(* The learner's requests                                                  *)
(***************************************************************************)
\* POST /api/v1/mastery-evidence, from a source of its own.
Recorded(t, k, o, source, score) ==
  ObservedAnew(t, [skill |-> k, source |-> <<"learner", source>>, score |-> score,
                   objective |-> o])

\* complete_learning_review, with the row it read at its start: the answer is
\* evidence, from a source named for the row (its id) and the repetition ...
Repetition(read) == read.repetitions + 1
ReviewAnswered(t, key, id, read, score) ==
  Observed(t, [skill |-> key[1], source |-> <<"review", key, id, Repetition(read)>>,
               score |-> score, objective |-> key[2]])

\* ... and the review goes on, unless the learner ends it.
Completed(t, key, read, goesOn) ==
  LET days == IntervalDays(Estimate(t.mastery[key[1]].from), Repetition(read))
  IN Refreshed([t EXCEPT !.review[key] =
       [status |-> IF goesOn THEN "pending" ELSE "completed",
        due |-> IF goesOn THEN days ELSE read.due, repetitions |-> Repetition(read)]], key[1])

\* update_learning_review_status
Set(t, key, status) == Refreshed([t EXCEPT !.review[key].status = status], key[1])

NewObjective(status) ==
  [status |-> status, revision |-> 0, achieved |-> status = "achieved"]

\* update_learning_objective, with the row it read: what is not updated is written
\* back as it was then, only the revision is counted up from what is there.
Edited(now, read, status) ==
  LET as == IF status = Nil THEN read.status ELSE status
  IN [status |-> as, revision |-> now.revision + 1, achieved |-> as = "achieved"]

\* create_learning_activity, for an objective and a Session if there are any.
NewActivity(status, o, s) ==
  [status |-> status, revision |-> 0, objective |-> o, session |-> s,
   started |-> status = "in_progress", completed |-> status = "completed"]

\* update_learning_activity.  Once started it stays so; one created completed was
\* not started until it is updated.
Changed(now, read, status) ==
  LET as == IF status = Nil THEN read.status ELSE status
  IN [now EXCEPT !.status = as, !.revision = @ + 1,
        !.started = read.started \/ as \in {"in_progress", "completed"},
        !.completed = as = "completed"]

(***************************************************************************)
(* Properties                                                              *)
(***************************************************************************)
Evidence ==
  [skill : Skills, score : 0..100, objective : Objectives \cup {Nil},
   source : (Sessions \X (Items \cup {"criterion"}))
            \cup ({"learner"} \X Nat) \cup ({"review"} \X Keys \X Nat \X Nat)]

Review == [status : Open \cup {"completed", "dismissed"}, due : Nat, repetitions : Nat]
Objective == [status : ObjectiveStatuses, revision : Nat, achieved : BOOLEAN]
Activity ==
  [status : ActivityStatuses, revision : Nat, started : BOOLEAN, completed : BOOLEAN,
   objective : Objectives \cup {Nil}, session : Sessions \cup {Nil}]

\* The sources of evidence are apart, as source_type keeps them.
ASSUME LearnerConstants ==
  /\ Scores \subseteq 0..100
  /\ SkillOf \in [Objectives -> Skills] /\ SkillOfItem \in [Items -> Skills]
  /\ CriterionSkill \in Skills
  /\ {"learner", "review"} \cap Sessions = {} /\ "criterion" \notin Items
  /\ Nil \notin Document \cup Review \cup Objective \cup Activity

LearnerTypeOK ==
  /\ learner.evidence \subseteq Evidence
  /\ \A d, e \in learner.evidence : d.skill = e.skill /\ d.source = e.source => d = e
  /\ \A key \in Keys : learner.review[key] \in Review \cup {Nil}
  /\ \A o \in Objectives : objective[o] # Nil =>
       /\ objective[o] \in Objective
       /\ objective[o].achieved <=> objective[o].status = "achieved"
  /\ \A a \in Activities : activity[a] # Nil =>
       /\ activity[a] \in Activity
       /\ activity[a].completed <=> activity[a].status = "completed"
       /\ activity[a].objective # Nil => objective[activity[a].objective] # Nil

\* What is derived is what deriving it again would give: a skill's mastery is
\* that of the evidence there is, its next review the earliest that is open.
MasteryCurrent ==
  \A k \in Skills :
    IF k \in DOMAIN learner.mastery THEN learner.mastery[k] = Derived(learner, k)
                                    ELSE RowsOf(learner, k) = {}
=============================================================================
