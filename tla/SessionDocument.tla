---------------------------- MODULE SessionDocument ----------------------------
(***************************************************************************)
(* The document of a practice Session and what each operation makes of it  *)
(* (the mutators of study_runtime.py and agent_contracts.py, the creation  *)
(* and the transitions of session_manager.py, the checks of validation.py  *)
(* that every commit passes).  SessionStore says how a commit reaches disk *)
(* and database; here an operation is a function of the document.          *)
(***************************************************************************)
EXTENDS Naturals, SequencesExt

CONSTANTS
  Items,        \* question_id or question_number
  Scores,       \* per cent, what a review can give
  MaxHint       \* three levels of hints

Modules  == {"listening", "reading", "writing", "speaking"}
Labels   == {"v1", "v2"}  \* "final" counts as a second version
Marks    == {"right", "wrong", "unmarked"}
Terminal == {"completed", "cancelled"}

\* SESSION_TRANSITIONS, without "completed"
Transitions ==
  [draft              |-> {"question_presented", "learner_working", "cancelled"},
   question_presented |-> {"learner_working", "cancelled"},
   learner_working    |-> {"awaiting_feedback", "cancelled"},
   awaiting_feedback  |-> {"awaiting_revision", "cancelled"},
   awaiting_revision  |-> {"learner_working", "awaiting_feedback", "cancelled"},
   completed          |-> {},
   cancelled          |-> {}]

\* errors is the number of its error items, all of them active.
NewDocument(module, timed) ==
  [module |-> module, timed |-> timed, status |-> "draft", submitted |-> FALSE,
   revealed |-> FALSE, hints |-> 0, versions |-> {}, criteria |-> {},
   marks |-> <<>>, errors |-> 0]

SubmitVersion(d, label) ==
  [d EXCEPT !.versions = @ \cup {label}, !.submitted = TRUE, !.status = "awaiting_feedback"]

\* The scores of another version stay in the document before the new ones, and are
\* overwritten by these wherever they are read: criteria has those that count.  The
\* errors are the priority issues of this review.
ReviewVersion(d, label, score, issues) ==
  [d EXCEPT !.criteria = {score}, !.errors = issues, !.status = "awaiting_revision"]

HintAllowed(d, level) == ~d.timed /\ level >= d.hints
Hint(d, level) == [d EXCEPT !.hints = level, !.status = "learner_working"]

\* The hint of a tutor may be a lower one.
GuidedHint(d, level) ==
  [d EXCEPT !.hints = IF level > @ THEN level ELSE @, !.status = "learner_working"]

SubmitAnswers(d, marks) ==
  [d EXCEPT !.marks = marks, !.submitted = TRUE, !.status = "awaiting_feedback"]

\* Mutant: what was submitted is not asked.
RevealAnyway(d, revealed) == TRUE
RevealAllowed(d, revealed) == revealed => d.submitted

\* The questions there are, marked anew where a new mark was found.
Marked(marks, found) ==
  [i \in DOMAIN marks \cup DOMAIN found |-> IF i \in DOMAIN found THEN found[i] ELSE marks[i]]

\* Only an item that brings the correct answer is marked anew.
ReviewAnswers(d, revealed, found, issues) ==
  [d EXCEPT !.marks = Marked(@, found), !.errors = issues, !.revealed = @ \/ revealed,
            !.status = "awaiting_revision"]

Attempt(d, item, mark) ==
  [d EXCEPT !.marks = Marked(@, [i \in {item} |-> mark]),
            !.errors = @ + (IF mark = "wrong" THEN 1 ELSE 0), !.status = "learner_working"]

ReviewListening(d, issues) == [d EXCEPT !.errors = @ + issues, !.status = "awaiting_revision"]

Evaluate(d, score) ==
  [d EXCEPT !.criteria = {score}, !.status = "awaiting_revision"]

Moved(d, status) == [d EXCEPT !.status = status]

\* validate_data: what is completed says something, and timed Reading was
\* submitted and had no hints.
Meaningful(d) ==
  \/ d.marks # <<>> \/ d.errors > 0
  \/ d.module = "writing" /\ d.versions # {}
  \/ d.criteria # {}
Valid(d) ==
  /\ d.timed => d.hints = 0
  /\ d.status = "completed" =>
       Meaningful(d) /\ (d.timed => d.submitted /\ d.marks # <<>>)

(***************************************************************************)
(* What learner or tutor can make of a document next                       *)
(***************************************************************************)
Markings == UNION {[Y -> Marks] : Y \in SUBSET Items}

Worked(d) ==
  IF d.module = "writing" THEN
         {SubmitVersion(d, label) : label \in Labels}
         \cup {ReviewVersion(d, label, score, issues) :
                 label \in d.versions, score \in Scores, issues \in 0..1}
  ELSE IF d.module = "reading" THEN
         {Hint(d, level) : level \in {l \in 1..MaxHint : HintAllowed(d, l)}}
         \cup {SubmitAnswers(d, marks) : marks \in Markings \ {<<>>}}
         \cup {GuidedHint(d, level) : level \in {l \in 1..MaxHint : ~d.timed}}
         \cup {ReviewAnswers(d, revealed, found, issues) :
                 revealed \in {r \in BOOLEAN : RevealAllowed(d, r)},
                 found \in Markings, issues \in 0..1}
  ELSE IF d.module = "listening" THEN
         {Attempt(d, item, mark) : item \in Items \ DOMAIN d.marks, mark \in {"right", "wrong"}}
         \cup {ReviewListening(d, issues) : issues \in 0..1}
  ELSE {Evaluate(d, score) : score \in Scores}

\* The start, a mutation of what is not over, a transition, and the finish, which
\* is allowed from everywhere.
Starts == {NewDocument(m, FALSE) : m \in Modules} \cup {NewDocument("reading", TRUE)}
Successors(d) ==
  {e \in (IF d.status \in Terminal THEN {} ELSE Worked(d))
         \cup {Moved(d, status) : status \in Transitions[d.status] \cup {"completed"}} : Valid(e)}

Document ==
  [module : Modules, timed : BOOLEAN, status : DOMAIN Transitions, submitted : BOOLEAN,
   revealed : BOOLEAN, hints : Nat, versions : SUBSET Labels, criteria : SUBSET Scores,
   marks : Markings, errors : Nat]

\* Nothing is revealed before the learner submitted, and timed Reading has no hints;
\* a criterion has one score.
DocumentOK(d) ==
  /\ d \in Document
  /\ \A x, y \in d.criteria : x = y
  /\ d.revealed => d.submitted
  /\ d.timed => d.hints = 0
=============================================================================
