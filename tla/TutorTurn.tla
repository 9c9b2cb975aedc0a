------------------------------ MODULE TutorTurn ------------------------------
(***************************************************************************)
(* One turn of the tutor (tutor_orchestrator.py): which answer the learner *)
(* may be given, fixed when the turn is asked for; what the bounded loop   *)
(* of planning and tools may put forward for confirmation; and what the    *)
(* validated answer makes of the thread's learning state (tutor_state.py)  *)
(* and of its teaching cycle (pedagogy.py).  The loop reads the learner's  *)
(* records and writes none of them, so it is a set of outcomes and not a   *)
(* sequence of steps.  Prompts and tool results are text and left out.     *)
(***************************************************************************)
EXTENDS Naturals, Sequences, FiniteSets

CONSTANTS
  Turns,        \* agent runs of a tutor turn
  Asks,         \* [Turns -> [kind, said, loop]]: the result's request_kind, what the
                \* learner's words and their source amount to, whether tools are planned
  MayOffer,     \* [Turns -> Seq of proposal types], the most a planner would put forward
  MaxRounds,    \* MAX_TOOL_ROUNDS
  MaxToolCalls, \* MAX_TOOL_CALLS
  PlanCalls     \* tool_calls of one plan: maxItems of the plan's schema

Policies == {"not_applicable", "progressive_hint", "review_allowed", "explicit_reveal", "locked"}
Statuses == {"withheld", "unverified", "verified", "not_applicable"}

\* The tools that need a confirmation put a proposal forward; the others read.
Offering == {"practice_session", "review_item", "learner_memory", "material_promotion"}

ASSUME TurnAssumption == MayOffer \in [Turns -> Seq(Offering)]

LeastOf(a, b) == IF a < b THEN a ELSE b

(***************************************************************************)
(* The answer                                                              *)
(***************************************************************************)
\* said: "mock" a timed or full mock is running, "other" nothing of a reading
\* question, "review" why something was wrong, "reveal" asks for the answer,
\* "attempt" the learner's answer came along, "question" none of these.
AnswerPolicy(said, stage) ==
  IF said = "mock" THEN "locked"
  ELSE IF said = "other" THEN "not_applicable"
  ELSE IF said = "review" THEN "review_allowed"
  ELSE IF said = "reveal" THEN "explicit_reveal"
  ELSE IF said = "attempt" \/ stage \in {"attempted", "reviewed"} THEN "review_allowed"
  ELSE "progressive_hint"

\* validate_tutor_result_against_policy: the answers that do not fail the run.
Permitted(policy, kind) ==
  IF policy = "locked" /\ kind = "question_explanation" THEN {}
  ELSE IF policy \in {"progressive_hint", "locked"} THEN Statuses \ {"verified"}
  ELSE Statuses

\* _derive_next_state, as far as a later turn depends on it.
Untaught == [hint |-> 0, stage |-> "not_applicable"]

StageAfter(stage, kind, status) ==
  IF status = "withheld" THEN "solving"
  ELSE IF status = "verified" THEN "reviewed"
  ELSE IF status = "unverified" THEN "attempted"
  ELSE IF kind \in {"teacher_dialogue", "small_talk"} THEN "not_applicable" ELSE stage

Learned(state, kind, status) ==
  [hint  |-> IF status = "withheld" THEN LeastOf(3, state.hint + 1) ELSE state.hint,
   stage |-> StageAfter(state.stage, kind, status)]

\* observe_tutor_turn: the phase the answer stands for, "none" for small talk.
PhaseOf(kind, status) ==
  IF kind = "small_talk" THEN "none"
  ELSE IF status = "verified" \/ kind = "writing_feedback" THEN "review"
  ELSE IF kind \in {"close_reading", "question_explanation"} THEN "teach"
  ELSE IF kind = "guided_hint" THEN "guided_practice"
  ELSE "diagnose"

(***************************************************************************)
(* The loop of planning and tools                                          *)
(***************************************************************************)
NoPlanYet == [calls |-> 0, offers |-> 0, open |-> TRUE]

\* One plan with n calls, of which as many as the budget has left are made; k of
\* these put a proposal forward, the others read or fail.
Planned(s, n, k) ==
  LET made == LeastOf(n, MaxToolCalls - s.calls)
  IN [calls |-> s.calls + made, offers |-> s.offers + LeastOf(k, made),
      open |-> s.calls + made < MaxToolCalls]

\* The next round: none if the loop has ended; a plan that needs no tools, or a
\* planner that fails, ends it and the turn is answered with what there is.
Rounds(s) ==
  IF ~s.open THEN {s}
  ELSE {[s EXCEPT !.open = FALSE]}
       \cup {Planned(s, n, k) : n \in 0..PlanCalls, k \in 0..PlanCalls}

LoopStates[n \in 0..MaxRounds] ==
  IF n = 0 THEN {NoPlanYet} ELSE UNION {Rounds(s) : s \in LoopStates[n - 1]}

\* How many of its proposals a turn may put forward.
OfferCounts ==
  [r \in Turns |->
     IF ~Asks[r].loop THEN {0}
     ELSE {LeastOf(s.offers, Len(MayOffer[r])) : s \in LoopStates[MaxRounds]}]
=============================================================================
