-------------------------------- MODULE Tutor --------------------------------
(***************************************************************************)
(* What a tutor turn leaves behind once its result is validated            *)
(* (tutor_state.py): the thread's learning state, the proposals that wait  *)
(* for the learner's confirmation, and the thread's teaching cycle         *)
(* (pedagogy.py); and what a confirmation does, learner memories           *)
(* (LearnerMemory) among it.                                               *)
(*                                                                         *)
(* A turn is persisted by the process of its agent run, which may die at   *)
(* any step and be run again; the learner's requests run beside it.  A     *)
(* step is one transaction or one read that a later one relies on.         *)
(***************************************************************************)
EXTENDS LearnerMemory, TutorTurn

CONSTANTS
  Threads,      \* study threads
  ThreadOf,     \* [Turns -> Threads]
  Offer,        \* [Turns -> [content, key]], what a learner_memory of the turn would say
  Answers,      \* [Turns -> answer statuses the model may give]
  Cycles,       \* teaching cycle ids
  Sessions,     \* formal Sessions of the threads' learning activities
  Clicks,       \* requests that resolve a proposal
  MaxRequests,  \* bound: the learner's requests
  MaxFaults     \* bound: crashes

VARIABLES
  state,        \* tutor_thread_states: [Threads -> [revision, taught]]
  committed,    \* tutor_turn_commits: [Turns -> answer_status, Nil without a row]
  proposal,     \* [Proposals -> status], "none" without a row
  reviews,      \* review tasks made from a proposal
  cycle,        \* [Cycles -> row with its events' sources, or Nil]
  persist,      \* [Turns -> the run: its answer policy, its answer, where its process is]
  click,        \* [Clicks -> what the request read and has left to do]
  requests, faults

turnVars  == <<state, committed, proposal, reviews>>
vars == <<memory, revived, state, committed, proposal, reviews, cycle, persist, click,
          requests, faults>>
memVars == <<memory, revived>>

Phases == {"diagnose", "teach", "guided_practice", "independent_practice", "assess",
           "review", "consolidate"}

Cycle ==
  [thread : Threads, phase : Phases, revision : Nat,
   status : {"active", "paused", "completed", "cancelled"},
   sources : SUBSET (({"moved", "observed"} \X Turns) \cup ({"started", "completed"} \X Sessions))]

ASSUME TutorAssumption ==
  /\ ThreadOf \in [Turns -> Threads]
  /\ Offer \in [Turns -> [content : Statements, key : Keys]]
  /\ Nil \notin Statuses /\ Nil \notin Cycle

\* ALLOWED_TEACHING_TRANSITIONS
Allowed ==
  [diagnose             |-> {"teach", "guided_practice", "independent_practice", "assess"},
   teach                |-> {"diagnose", "guided_practice"},
   guided_practice      |-> {"teach", "independent_practice", "assess"},
   independent_practice |-> {"guided_practice", "assess"},
   assess               |-> {"teach", "guided_practice", "review", "consolidate"},
   review               |-> {"teach", "guided_practice", "assess", "consolidate"},
   consolidate          |-> {"diagnose", "review"}]

\* recommend_teaching_transition: the next phase for a mastery estimate of this
\* many percent, or for none; a consolidated cycle is to be completed instead.
Estimates == {44, 54, 71, 79, 80}
Recommended(phase, known, e) ==
  [diagnose             |-> IF ~known \/ e < 45 THEN {"teach"}
                            ELSE IF e < 72 THEN {"guided_practice"} ELSE {"assess"},
   teach                |-> {"guided_practice"},
   guided_practice      |-> IF known /\ e < 45 THEN {"teach"} ELSE {"independent_practice"},
   independent_practice |-> IF known /\ e < 55 THEN {"guided_practice"} ELSE {"assess"},
   assess               |-> IF ~known \/ e < 80 THEN {"review"} ELSE {"consolidate"},
   review               |-> IF ~known \/ e < 72 THEN {"guided_practice"} ELSE {"assess"},
   consolidate          |-> {}][phase]

\* proposal:<run>:<index>, the index being its place among the turn's proposals
Proposals == {p \in Turns \X (1..MaxToolCalls) : p[2] <= Len(MayOffer[p[1]])}
TurnOf(p) == p[1]
Kind(p) == MayOffer[p[1]][p[2]]

Unasked == [pc |-> "ask", policy |-> Nil, answer |-> Nil, cycle |-> Nil, revision |-> 0]
NoClick == [pc |-> "idle", proposal |-> Nil, outcome |-> Nil]

Init ==
  /\ MemoryInit
  /\ state = [t \in Threads |-> [revision |-> 0, taught |-> Untaught]]
  /\ committed = [r \in Turns |-> Nil]
  /\ proposal = [p \in Proposals |-> "none"] /\ reviews = {}
  /\ cycle = [c \in Cycles |-> Nil]
  /\ persist = [r \in Turns |-> Unasked]
  /\ click = [q \in Clicks |-> NoClick]
  /\ requests = 0 /\ faults = 0

Ask == requests < MaxRequests /\ requests' = requests + 1

(***************************************************************************)
(* Persisting a turn                                                       *)
(***************************************************************************)
Goto(r, pc) == persist' = [persist EXCEPT ![r] = [@ EXCEPT !.pc = pc]]
Aim(r, status) == PhaseOf(Asks[r].kind, status)
AimOf(r) == Aim(r, persist[r].answer)

\* The policy is fixed when the run is made, from the state the thread has then.
AskTurn(r) ==
  /\ persist[r].pc = "ask"
  /\ persist' = [persist EXCEPT ![r] = [@ EXCEPT !.pc = "answer",
       !.policy = AnswerPolicy(Asks[r].said, state[ThreadOf[r]].taught.stage)]]
  /\ UNCHANGED <<memVars, turnVars, cycle, click, requests, faults>>

\* Mutant: a run that is persisted again counts again.
CommitAnyway(r, status, offered) ==
  LET t == ThreadOf[r]
  IN /\ committed' = [committed EXCEPT ![r] = status]
     /\ state' = [state EXCEPT ![t] =
          [revision |-> @.revision + 1, taught |-> Learned(@.taught, Asks[r].kind, status)]]
     /\ proposal' = [p \in Proposals |->
          IF TurnOf(p) = r /\ p[2] <= offered /\ proposal[p] = "none" THEN "pending" ELSE proposal[p]]
CommitOnce(r, status, offered) ==
  LET t == ThreadOf[r]
  IN IF committed[r] # Nil THEN UNCHANGED <<committed, state, proposal>>
     ELSE /\ committed' = [committed EXCEPT ![r] = status]
          /\ state' = [state EXCEPT ![t] =
               [revision |-> @.revision + 1, taught |-> Learned(@.taught, Asks[r].kind, status)]]
          /\ proposal' = [p \in Proposals |->
               IF TurnOf(p) = r /\ p[2] <= offered THEN "pending" ELSE proposal[p]]

\* The model answers and the run is persisted: nobody else sees an answer before
\* that.  A run that resumes has its answer already; one the policy forbids fails.
CommitTurn(r) ==
  /\ persist[r].pc = "answer"
  /\ \E status \in Answers[r], offered \in OfferCounts[r] :
       /\ persist[r].answer # Nil => status = persist[r].answer
       /\ IF status \in Permitted(persist[r].policy, Asks[r].kind)
          THEN /\ CommitOnce(r, status, offered)
               /\ persist' = [persist EXCEPT ![r] = [@ EXCEPT !.answer = status,
                    !.pc = IF Aim(r, status) = "none" THEN "done" ELSE "observe"]]
          ELSE Goto(r, "failed") /\ UNCHANGED <<committed, state, proposal>>
  /\ UNCHANGED <<memVars, reviews, cycle, click, requests, faults>>

Unfinished(t) ==
  {c \in Cycles : /\ cycle[c] # Nil /\ cycle[c].thread = t
                  /\ cycle[c].status \in {"active", "paused"}}

\* get_active_teaching_cycle: which cycle is the thread's unfinished one, if any ...
FindCycle(r) ==
  /\ persist[r].pc = "observe"
  /\ \/ Unfinished(ThreadOf[r]) = {} /\ Goto(r, "start")
     \/ \E c \in Unfinished(ThreadOf[r]) :
          persist' = [persist EXCEPT ![r] = [@ EXCEPT !.pc = "read", !.cycle = c]]
  /\ UNCHANGED <<memVars, turnVars, cycle, click, requests, faults>>

\* ... and, in a transaction of its own, the row: the cycle may have been finished
\* in between, and only a paused one is left alone.
ReadRow(r) ==
  /\ persist[r].pc = "read"
  /\ LET row == cycle[persist[r].cycle]
     IN persist' = [persist EXCEPT ![r] = [@ EXCEPT
          !.pc = IF row.status = "paused" THEN "done" ELSE "apply",
          !.revision = row.revision]]
  /\ UNCHANGED <<memVars, turnVars, cycle, click, requests, faults>>

NewCycle(t, phase) ==
  [thread |-> t, phase |-> phase, status |-> "active", revision |-> 0, sources |-> {}]

\* start_teaching_cycle looks again, inside its transaction, and a unique index
\* (idx_teaching_cycles_active_thread) says the same.  Mutant: neither does.
NobodyStarted(t) == TRUE
NoneUnfinished(t) == Unfinished(t) = {}

Started(t, phase) ==
  /\ NoneUnfinished(t)
  /\ \E c \in Cycles : cycle[c] = Nil /\ cycle' = [cycle EXCEPT ![c] = NewCycle(t, phase)]

\* A cycle that appeared meanwhile is an error, and the run fails.
StartCycle(r) ==
  /\ persist[r].pc = "start"
  /\ \/ Started(ThreadOf[r], AimOf(r)) /\ Goto(r, "done")
     \/ ~NoneUnfinished(ThreadOf[r]) /\ Goto(r, "failed") /\ UNCHANGED cycle
  /\ UNCHANGED <<memVars, turnVars, click, requests, faults>>

\* The transition if it is allowed, or else one observation per run; a cycle that
\* changed since its row was read is left alone.  A transition is refused, and the
\* run fails, if the cycle is not active, or if the run has moved it before (the
\* index on its events); an observation asks for neither.
Noted(row, event, phase) ==
  [row EXCEPT !.sources = @ \cup {event}, !.revision = @ + 1, !.phase = phase]
Observed(row, r) ==
  IF <<"observed", r>> \in row.sources THEN row ELSE Noted(row, <<"observed", r>>, row.phase)
MovedOn(row, seen) == row.revision # seen
Moved(row, phase) == [row EXCEPT !.phase = phase, !.revision = @ + 1]
Turned(row, status) == [row EXCEPT !.status = status, !.revision = @ + 1]

\* Mutant: a transition does not ask either.
MovesAny(row, r) == <<"moved", r>> \notin row.sources
Moves(row, r) == row.status = "active" /\ <<"moved", r>> \notin row.sources

ApplyCycle(r) ==
  /\ persist[r].pc = "apply"
  /\ LET c == persist[r].cycle
         row == cycle[c]
         Write(new, pc) == cycle' = [cycle EXCEPT ![c] = new] /\ Goto(r, pc)
     IN IF MovedOn(row, persist[r].revision) THEN Write(row, "done")
        ELSE IF AimOf(r) \in Allowed[row.phase]
        THEN IF Moves(row, r) THEN Write(Noted(row, <<"moved", r>>, AimOf(r)), "done")
             ELSE Write(row, "failed")
        ELSE Write(Observed(row, r), "done")
  /\ UNCHANGED <<memVars, turnVars, click, requests, faults>>

\* A retried run asks the model again; one that is recovered after a crash persists
\* the answer it had, if it had one.
Again(r, answer) ==
  IF persist[r].pc = "ask" THEN Unasked
  ELSE [Unasked EXCEPT !.pc = "answer", !.policy = persist[r].policy, !.answer = answer]

Retry(r) ==
  /\ persist[r].pc = "failed" /\ persist' = [persist EXCEPT ![r] = Again(r, Nil)]
  /\ UNCHANGED <<memVars, turnVars, cycle, click, requests, faults>>

Crash ==
  /\ faults < MaxFaults /\ faults' = faults + 1
  /\ persist' = [r \in Turns |->
       IF persist[r].pc \in {"failed", "done"} THEN persist[r] ELSE Again(r, persist[r].answer)]
  /\ click' = [q \in Clicks |-> NoClick]
  /\ UNCHANGED <<memVars, turnVars, cycle, requests>>

(***************************************************************************)
(* The learner's requests on a teaching cycle, and the Session's           *)
(***************************************************************************)
\* expected_revision is the one the learner saw; another is refused.
TransitionCycle(c, phase) ==
  /\ Ask
  /\ cycle[c] # Nil /\ cycle[c].status = "active" /\ phase \in Allowed[cycle[c].phase]
  /\ cycle' = [cycle EXCEPT ![c] = Moved(@, phase)]
  /\ UNCHANGED <<memVars, turnVars, persist, click, faults>>

NextStatuses(status) ==
  IF status = "active" THEN {"paused", "completed", "cancelled"}
  ELSE IF status = "paused" THEN {"active", "cancelled"} ELSE {}

SetCycleStatus(c, status) ==
  /\ Ask
  /\ cycle[c] # Nil /\ status \in NextStatuses(cycle[c].status)
  /\ cycle' = [cycle EXCEPT ![c] = Turned(@, status)]
  /\ UNCHANGED <<memVars, turnVars, persist, click, faults>>

LearnerStartsCycle(t, phase) ==
  /\ Ask /\ Started(t, phase)
  /\ UNCHANGED <<memVars, turnVars, persist, click, faults>>

\* ingest_session_teaching_cycle, inside the Session's own transaction.
IngestSession(c, s, milestone) ==
  /\ Ask
  /\ cycle[c] # Nil /\ cycle[c].status = "active"
  /\ <<milestone, s>> \notin cycle[c].sources
  /\ LET to == IF milestone = "completed" THEN "assess" ELSE "independent_practice"
         row == cycle[c]
     IN cycle' = [cycle EXCEPT ![c] =
          Noted(row, <<milestone, s>>, IF to \in Allowed[row.phase] THEN to ELSE row.phase)]
  /\ UNCHANGED <<memVars, turnVars, persist, click, faults>>

(***************************************************************************)
(* Resolving a proposal                                                    *)
(***************************************************************************)
\* resolve_tutor_proposal: the status is read here and used two steps later.
Click(q, p, decision) ==
  /\ Ask
  /\ click[q] = NoClick /\ proposal[p] \in {"pending", "failed"}
  /\ click' = [click EXCEPT ![q] = [pc |-> decision, proposal |-> p, outcome |-> Nil]]
  /\ UNCHANGED <<memVars, turnVars, cycle, persist, faults>>

Dismiss(q) ==
  /\ click[q].pc = "dismiss"
  /\ LET p == click[q].proposal
     IN proposal' = [proposal EXCEPT ![p] = IF @ = "pending" THEN "dismissed" ELSE @]
  /\ click' = [click EXCEPT ![q] = NoClick]
  /\ UNCHANGED <<memVars, state, committed, reviews, cycle, persist, requests, faults>>

Effected(q, outcome) ==
  click' = [click EXCEPT ![q] = [@ EXCEPT !.pc = "record", !.outcome = outcome]]

\* The effect of a confirmed proposal commits before the proposal says so.
ExecuteMemory(q, m) ==
  LET p == click[q].proposal
  IN /\ click[q].pc = "confirm" /\ Kind(p) = "learner_memory"
     /\ \/ /\ CreateMemory(m, Offer[TurnOf(p)].content, Offer[TurnOf(p)].key, "never", Nil, {})
           /\ Effected(q, "executed")
        \/ Effected(q, "failed") /\ UNCHANGED memVars
     /\ UNCHANGED <<turnVars, cycle, persist, requests, faults>>

\* The key of a review task is its proposal's, so it is made once; a practice or
\* a promotion is a link the learner has yet to follow.
ExecuteOther(q) ==
  LET p == click[q].proposal
  IN /\ click[q].pc = "confirm"
     /\ Kind(p) \in {"review_item", "practice_session", "material_promotion"}
     /\ reviews' = IF Kind(p) = "review_item" THEN reviews \cup {p} ELSE reviews
     /\ Effected(q, "executed")
     /\ UNCHANGED <<memVars, state, committed, proposal, cycle, persist, requests, faults>>

\* Mutant: the outcome is written whatever the proposal has become.
RecordAnyway(status, outcome) == outcome
RecordOutcome(status, outcome) ==
  IF status \in {"pending", "failed"} THEN outcome ELSE status

Record(q) ==
  /\ click[q].pc = "record"
  /\ LET p == click[q].proposal
     IN proposal' = [proposal EXCEPT ![p] = RecordOutcome(@, click[q].outcome)]
  /\ click' = [click EXCEPT ![q] = NoClick]
  /\ UNCHANGED <<memVars, state, committed, reviews, cycle, persist, requests, faults>>

LearnerEdits ==
  /\ Ask /\ MemoryNext
  /\ UNCHANGED <<turnVars, cycle, persist, click, faults>>

Next ==
  \/ \E r \in Turns :
       \/ AskTurn(r) \/ CommitTurn(r) \/ FindCycle(r) \/ ReadRow(r)
       \/ StartCycle(r) \/ ApplyCycle(r) \/ Retry(r)
  \/ Crash
  \/ \E c \in Cycles :
       \/ \E phase \in Phases : TransitionCycle(c, phase)
       \/ \E status \in {"active", "paused", "completed", "cancelled"} : SetCycleStatus(c, status)
       \/ \E s \in Sessions, milestone \in {"started", "completed"} :
            IngestSession(c, s, milestone)
  \/ \E t \in Threads : LearnerStartsCycle(t, "diagnose")
  \/ \E q \in Clicks :
       \/ \E p \in Proposals, d \in {"confirm", "dismiss"} : Click(q, p, d)
       \/ Dismiss(q) \/ ExecuteOther(q) \/ Record(q)
       \/ \E m \in Memories : ExecuteMemory(q, m)
  \/ LearnerEdits

Spec == Init /\ [][Next]_vars

(***************************************************************************)
(* Properties                                                              *)
(***************************************************************************)
\* Turns of thread t that are committed with an answer of this status.
CommittedAs(t, statuses) == {r \in Turns : ThreadOf[r] = t /\ committed[r] \in statuses}

\* A thread's learning state is what its committed turns make of it, each counted
\* once however often it was persisted: the hints given, and an answer that is
\* settled only if the learner asked for it or came with an attempt, or another
\* turn had judged one.
Taught(t) ==
  LET s == state[t]
  IN /\ s.revision = Cardinality(CommittedAs(t, Statuses))
     /\ s.taught.hint = LeastOf(3, Cardinality(CommittedAs(t, {"withheld"})))
     /\ s.taught.stage = "reviewed" =>
          \E r \in CommittedAs(t, Statuses) :
             committed[r] = "unverified" \/ Asks[r].said \in {"review", "reveal", "attempt", "other"}

\* Every variable has its type, the learning states are right, a proposal has a
\* row only if its turn is committed, and what is recommended for a cycle is a
\* transition it may make.
TypeOK ==
  /\ MemoryTypeOK
  /\ \A c \in Cycles, known \in BOOLEAN, e \in Estimates :
       cycle[c] # Nil => Recommended(cycle[c].phase, known, e) \subseteq Allowed[cycle[c].phase]
  /\ \A t \in Threads : Taught(t)
  /\ \A p \in Proposals :
       /\ proposal[p] \in {"none", "pending", "executed", "failed", "dismissed"}
       /\ proposal[p] # "none" => committed[TurnOf(p)] # Nil
  /\ reviews \subseteq Proposals
  /\ \A c \in Cycles : cycle[c] = Nil \/ cycle[c] \in Cycle
  /\ \A r \in Turns : /\ persist[r].pc \in {"ask", "answer", "observe", "read", "start", "apply",
                                          "failed", "done"}
                      /\ persist[r].pc \in {"read", "apply"} => cycle[persist[r].cycle] # Nil
  /\ \A q \in Clicks : click[q].pc \in {"idle", "confirm", "dismiss", "record"}

\* A turn that looked for the thread's cycle while c was unfinished, and is now at
\* its last step, notes itself in c, which it has not done before.
NotesItself(r, c) ==
  /\ persist[r].pc = "apply" /\ persist[r].cycle = c
  /\ <<"observed", r>> \notin cycle[c].sources
  /\ cycle'[c] = Noted(cycle[c], <<"observed", r>>, cycle[c].phase)

\* What is settled stays so, whatever is persisted again and whichever clicks
\* race: an executed or dismissed proposal keeps its status, and a finished
\* teaching cycle its status, phase and events; all it may still get is the note
\* of a turn that had looked for it before it was finished, one of each.
SettledStays ==
  [][/\ \A p \in Proposals :
          proposal[p] \in {"executed", "dismissed"} => proposal'[p] = proposal[p]
     /\ \A c \in Cycles :
          cycle[c] # Nil /\ cycle[c].status \in {"completed", "cancelled"}
            => cycle'[c] = cycle[c] \/ \E r \in Turns : NotesItself(r, c)]_vars

\* A thread has at most one unfinished teaching cycle, although a turn looks for
\* it in one transaction and starts one in the next.
OneUnfinishedCycle == \A t \in Threads : Cardinality(Unfinished(t)) <= 1
=============================================================================
