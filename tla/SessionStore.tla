----------------------------- MODULE SessionStore -----------------------------
(***************************************************************************)
(* One practice Session and its two projections: the Markdown document and *)
(* the sessions row in SQLite (session_manager.py, study_runtime.py and    *)
(* record_session in storage.py), from the request that creates it.  A     *)
(* commit writes the document, then the row, and puts the old document     *)
(* back when the row cannot be written; the process may die between any    *)
(* two of these, and the learner may change the document by hand at any    *)
(* moment.                                                                 *)
(*                                                                         *)
(* The content of a projection is its log: the operations that made it, in *)
(* order, a change by hand being one more entry.  Two projections have the *)
(* same payload hash exactly when revision, status and log are the same.   *)
(***************************************************************************)
EXTENDS Naturals, SequencesExt

CONSTANTS
  Clients,      \* whoever may be inside a request: browser tabs, CLI, Agent jobs
  Ops,          \* Idempotency-Keys: one submission or review each
  Effect,       \* [Ops -> status the operation's mutator leaves behind]
  KeyWindow,    \* applied_operations[-50:]
  MaxRevision,  \* bound on revisions
  MaxFaults,    \* bound on crashes and database errors
  MaxHands,     \* bound on changes of the document by hand
  AnyRevision,  \* expected_revision is None
  NoFile, NoRow, Nobody

Statuses == {"draft", "question_presented", "learner_working",
             "awaiting_feedback", "awaiting_revision", "completed", "cancelled"}
TerminalStatuses == {"completed", "cancelled"}

ASSUME SessionConstantsOK ==
  /\ Effect \in [Ops -> Statuses \ TerminalStatuses]
  /\ KeyWindow \in Nat \ {0}
  /\ MaxRevision \in Nat /\ MaxFaults \in Nat /\ MaxHands \in Nat
  /\ Nobody \notin Clients
  /\ AnyRevision \notin Nat
  /\ Ops \cap {"transition", "finish", "edit"} = {}

Entries == Ops \cup {"transition", "finish", "edit"}
Contents == [rev: Nat, status: Statuses, log: Seq(Entries)]
ASSUME NoRowIsNoContent == {NoRow, NoFile} \cap Contents = {}

VARIABLES
  file,     \* the Markdown document: frontmatter of sessions/<module>/<id>.md
  db,       \* sessions.payload_json
  mirror,   \* sessions.mirror_status
  lock,     \* holder of runtime_lock("session:<id>")
  pc,       \* where a client's request is
  req,      \* the request it makes
  work,     \* the payload it is about to commit
  old,      \* old_text: the document it will put back
  seen,     \* the row a client looked at last, and whether it may rely on it
  events,   \* runtime_events
  acked,    \* history: operations that were answered with success
  dropped,  \* history: operations the learner's explicit choice discarded
  torn,     \* history: a crash or a hand has parted the projections
  faults,   \* crashes and database errors so far
  hands,    \* changes by hand so far
  key,      \* the key the Session is created with: "open" until idempotency_records
            \*   has it or the learner no longer repeats the request, then "settled"
  made,     \* history: Sessions created with that key
  cut       \* history: a creation ended between its document and its record

vars == <<file, db, mirror, lock, pc, req, work, old, seen, events, acked,
          dropped, torn, faults, hands, key, made, cut>>

Draft == [rev |-> 0, status |-> "draft", log |-> <<>>]

\* SESSION_TRANSITIONS, without "completed": that goes through finish_session.
Transitions ==
  [draft              |-> {"question_presented", "learner_working", "cancelled"},
   question_presented |-> {"learner_working", "cancelled"},
   learner_working    |-> {"awaiting_feedback", "cancelled"},
   awaiting_feedback  |-> {"awaiting_revision", "cancelled"},
   awaiting_revision  |-> {"learner_working", "awaiting_feedback", "cancelled"},
   completed          |-> {},
   cancelled          |-> {}]

Requests ==
       [kind: {"submit"}, arg: Ops, expected: Nat \cup {AnyRevision}]
  \cup [kind: {"transition"}, arg: Statuses, expected: {AnyRevision}]
  \cup [kind: {"finish"}, arg: {"completed"}, expected: {AnyRevision}]
  \cup [kind: {"reconcile"}, arg: {"auto", "markdown", "sqlite"}, expected: {AnyRevision}]

NoRequest == [kind |-> "finish", arg |-> "completed", expected |-> AnyRevision]

Init ==
  /\ file = NoFile /\ db = NoRow /\ mirror = "unknown" /\ torn = FALSE
  /\ key = "open" /\ made = 0 /\ cut = FALSE
  /\ lock = Nobody
  /\ pc = [c \in Clients |-> "idle"]
  /\ req = [c \in Clients |-> NoRequest]
  /\ work = [c \in Clients |-> Draft]
  /\ old = [c \in Clients |-> Draft]
  /\ seen = [c \in Clients |-> [row |-> Draft, valid |-> FALSE]]
  /\ events = {} /\ acked = {} /\ dropped = {}
  /\ faults = 0 /\ hands = 0

-----------------------------------------------------------------------------
(* Helpers *)

OpsOf(log) == ToSet(log) \cap Ops

\* How many keyed operations a log has between two of its positions.
KeyedBetween(log, i, j) == Cardinality({k \in i+1 .. j-1 : log[k] \in Ops})

\* applied_operations keeps the last KeyWindow keys
AppliedKeys(log) ==
  {log[i] : i \in {j \in DOMAIN log :
     log[j] \in Ops /\ KeyedBetween(log, j, Len(log) + 1) < KeyWindow}}

\* assert_session_mirror_consistent: a Session without a row passes
MirrorConsistent == db = NoRow \/ file = db

\* _audit_sessions, of the health report and of every backup's verification: a
\* document without a row is a warning, projections that differ are an error.
AuditFails ==
  db # NoRow /\ (file.rev # db.rev \/ (file.rev = db.rev /\ file # db))

\* The learner has a Session to work on, and repeats the request for it no more.
\* (A repeated request leaves this Session alone, so it need not come any later.)
Known == key = "settled" /\ made = 1

LockFreeAlways == TRUE
LockFree == lock = Nobody

StaleNever(c, q) == FALSE
Stale(c, q) == q.expected # AnyRevision /\ q.expected # file.rev

\* The payload of the next revision.
Revised(x, entry, status) ==
  [rev |-> x.rev + 1, status |-> status, log |-> Append(x.log, entry)]

\* A change by hand that leaves the revision in the frontmatter alone.
Edited(x) == [x EXCEPT !.log = Append(@, "edit")]

\* A view that may no longer be relied on.
Outdated(v) == [v EXCEPT !.valid = FALSE]

Enter(c, q, x) == /\ lock' = c
                  /\ req' = [req EXCEPT ![c] = q]
                  /\ work' = [work EXCEPT ![c] = x]
Idle(c) == /\ pc' = [pc EXCEPT ![c] = "idle"]
           /\ req' = [req EXCEPT ![c] = NoRequest]
           /\ work' = [work EXCEPT ![c] = Draft]
           /\ old' = [old EXCEPT ![c] = Draft]
Leave(c) == Idle(c) /\ lock' = Nobody
LeaveLocked(c) == Idle(c) /\ lock' = lock

Ready(c) == pc[c] = "idle" /\ LockFree /\ Known

\* What a client takes home; the document of a Session without a row is not
\* guarded by its revision.
View(x) == [row |-> x, valid |-> db # NoRow]

requestVars == <<req, work, old>>
history == <<acked, dropped, torn, faults, hands>>

-----------------------------------------------------------------------------
(* start_session, under the lock of its module.  A repeated request that    *)
(* finds the record of its key is answered with the Session there is: Look. *)

Creating == {"document", "row"}
ScopeFree == \A c \in Clients : pc[c] \notin Creating
May(c) == pc[c] = "idle" /\ ScopeFree /\ key = "open"
StartStep(c, next) ==
  /\ pc' = [pc EXCEPT ![c] = next]
  /\ UNCHANGED <<lock, requestVars, events, acked, dropped, faults, hands>>

Create(c) ==
  /\ May(c) /\ made = 0
  /\ file' = Draft /\ made' = 1
  /\ StartStep(c, "document")
  /\ UNCHANGED <<db, mirror, seen, torn, key, cut>>

CreateRow(c) ==
  /\ pc[c] = "document"
  /\ db' = Draft /\ mirror' = "synced"
  /\ StartStep(c, "row")
  /\ UNCHANGED <<file, seen, torn, key, made, cut>>

\* The row cannot be written: the document goes.
CreateFails(c) ==
  /\ pc[c] = "document"
  /\ file' = NoFile /\ made' = 0
  /\ StartStep(c, "idle")
  /\ UNCHANGED <<db, mirror, seen, torn, key, cut>>

SaveRecord(c) ==
  /\ pc[c] = "row"
  /\ key' = "settled"
  /\ seen' = [seen EXCEPT ![c] = View(db)]
  /\ StartStep(c, "idle")
  /\ UNCHANGED <<file, db, mirror, torn, made, cut>>

\* The process dies, or the record cannot be written.
CreationCut(c) ==
  /\ pc[c] \in Creating
  /\ torn' = (pc[c] = "document") /\ cut' = TRUE
  /\ StartStep(c, "idle")
  /\ UNCHANGED <<file, db, mirror, seen, key, made>>

\* The request is repeated and finds no record: it makes another Session, whose
\* life is not followed.
CreateAnother(c) ==
  /\ May(c) /\ made > 0
  /\ made' = made + 1 /\ key' = "settled"
  /\ StartStep(c, "idle")
  /\ UNCHANGED <<file, db, mirror, seen, torn, cut>>

\* The learner goes on with the Session whose creation was cut off.
GoOn(c) ==
  /\ May(c) /\ made > 0
  /\ key' = "settled" /\ cut' = FALSE
  /\ StartStep(c, "idle")
  /\ UNCHANGED <<file, db, mirror, seen, torn, made>>

-----------------------------------------------------------------------------
(* Requests.  Reading row and document under the lock is one step: only a   *)
(* hand can get between, and persist_session_atomic compares them again.    *)

\* GET /sessions/<id>: the row, or the document of a Session without one.
Look(c) ==
  LET shown == IF db = NoRow THEN file ELSE db
  IN  /\ pc[c] = "idle" /\ Known
      /\ seen[c] # View(shown)
      /\ seen' = [seen EXCEPT ![c] = View(shown)]
      /\ UNCHANGED <<file, db, mirror, lock, pc, requestVars, events, history>>

\* A caller with the lock finds that the projections disagree.
Conflict(c) ==
  /\ mirror' = (IF db = NoRow THEN mirror ELSE "conflict")
  /\ UNCHANGED <<file, db, lock, pc, requestVars, seen, events, history>>

\* mutate_session: refuse a mismatch, replay a key, refuse a stale revision
\* and a finished Session, else let the mutator work on the document.  What it
\* refuses changes nothing but mirror_status.
SubmitRefused(c) ==
  /\ Ready(c) /\ ~MirrorConsistent /\ mirror # "conflict"
  /\ Conflict(c)

SubmitReplayed(c, op) ==
  /\ Ready(c) /\ MirrorConsistent
  /\ op \in AppliedKeys(file.log)
  /\ acked' = acked \cup {op}
  /\ seen' = [seen EXCEPT ![c] = View(file)]
  /\ UNCHANGED <<file, db, mirror, lock, pc, requestVars, events, dropped,
                 torn, faults, hands>>

\* Forgets the replay check.
SubmitAnyway(c, op, expected) ==
  LET q == [kind |-> "submit", arg |-> op, expected |-> expected]
  IN  /\ Ready(c) /\ MirrorConsistent
      /\ ~Stale(c, q)
      /\ file.status \notin TerminalStatuses
      /\ file.rev < MaxRevision
      /\ Enter(c, q, Revised(file, op, Effect[op]))
      /\ pc' = [pc EXCEPT ![c] = "loaded"]
      /\ UNCHANGED <<file, db, mirror, old, seen, events, history>>

Submit(c, op, expected) ==
  LET q == [kind |-> "submit", arg |-> op, expected |-> expected]
  IN  /\ Ready(c) /\ MirrorConsistent
      /\ op \notin AppliedKeys(file.log)
      /\ ~Stale(c, q)
      /\ file.status \notin TerminalStatuses
      /\ file.rev < MaxRevision
      /\ Enter(c, q, Revised(file, op, Effect[op]))
      /\ pc' = [pc EXCEPT ![c] = "loaded"]
      /\ UNCHANGED <<file, db, mirror, old, seen, events, history>>

\* transition_session and finish_session look at the document only; whether
\* the row agrees is left to persist_session_atomic.  Finishing is allowed
\* from every status.
Transition(c, to) ==
  /\ Ready(c)
  /\ to \in Transitions[file.status]
  /\ file.rev < MaxRevision
  /\ Enter(c, [kind |-> "transition", arg |-> to, expected |-> AnyRevision],
           Revised(file, "transition", to))
  /\ pc' = [pc EXCEPT ![c] = "loaded"]
  /\ UNCHANGED <<file, db, mirror, old, seen, events, history>>

Finish(c) ==
  /\ Ready(c)
  /\ file.rev < MaxRevision
  /\ Enter(c, [kind |-> "finish", arg |-> "completed", expected |-> AnyRevision],
           Revised(file, "finish", "completed"))
  /\ pc' = [pc EXCEPT ![c] = "loaded"]
  /\ UNCHANGED <<file, db, mirror, old, seen, events, history>>

-----------------------------------------------------------------------------
(* reconcile_session *)

\* Same revision, other content.
Fork(x) == db # NoRow /\ x # db /\ x.rev = db.rev
SameRevision == Fork(file)

\* Equal projections: the row is recorded once more.
ReconcileEqual(c) ==
  /\ Ready(c) /\ file = db
  /\ mirror # "synced" \/ torn
  /\ mirror' = "synced"
  /\ torn' = FALSE
  /\ UNCHANGED <<file, db, lock, pc, requestVars, seen, events, acked,
                 dropped, faults, hands>>

AutoNeverRefuses == FALSE
AutoRefuses == SameRevision

\* A same-revision fork is not decided by prefer=auto.
ReconcileRefused(c) ==
  /\ Ready(c) /\ AutoRefuses /\ mirror # "conflict"
  /\ Conflict(c)

UseMarkdownSwapped(prefer) ==
  prefer = "markdown" \/ (prefer = "auto" /\ file.rev < db.rev)

UseMarkdown(prefer) ==
  prefer = "markdown" \/ (prefer = "auto" /\ file.rev > db.rev)

Reconcile(c, prefer) ==
  LET q == [kind |-> "reconcile", arg |-> prefer, expected |-> AnyRevision]
  IN  /\ Ready(c) /\ file # db
      /\ prefer = "auto" => ~AutoRefuses
      /\ Enter(c, q, IF db = NoRow \/ UseMarkdown(prefer) THEN file ELSE db)
      /\ pc' = [pc EXCEPT ![c] = "loaded"]
      /\ UNCHANGED <<file, db, mirror, old, seen, events, history>>

-----------------------------------------------------------------------------
(* persist_session_atomic *)

Reconciling(c) == req[c].kind = "reconcile"

\* The second comparison (skipped by allow_reconcile), then old_text is read.
Recheck(c) ==
  /\ pc[c] = "loaded"
  /\ Reconciling(c) \/ MirrorConsistent
  /\ old' = [old EXCEPT ![c] = file]
  /\ pc' = [pc EXCEPT ![c] = "checked"]
  /\ UNCHANGED <<file, db, mirror, lock, req, work, seen, events, history>>

RecheckFailsLocked(c) ==
  /\ pc[c] = "loaded" /\ ~Reconciling(c) /\ ~MirrorConsistent
  /\ mirror' = "conflict"
  /\ LeaveLocked(c)
  /\ UNCHANGED <<file, db, seen, events, history>>

RecheckFails(c) ==
  /\ pc[c] = "loaded" /\ ~Reconciling(c) /\ ~MirrorConsistent
  /\ mirror' = "conflict"
  /\ Leave(c)
  /\ UNCHANGED <<file, db, seen, events, history>>

\* _write_session_document_atomic: temporary file, then rename
WriteFile(c) ==
  /\ pc[c] = "checked"
  /\ file' = work[c]
  /\ pc' = [pc EXCEPT ![c] = "written"]
  /\ UNCHANGED <<db, mirror, lock, requestVars, seen, events, history>>

\* What a commit of x does to the views clients hold: they stay good as long
\* as the row only grows.
Grows(x) == db = NoRow \/ (x.rev > db.rev /\ IsPrefix(db.log, x.log))

\* record_session, one transaction
RecordRow(c) ==
  /\ pc[c] = "written"
  /\ db' = work[c]
  /\ mirror' = "synced"
  /\ pc' = [pc EXCEPT ![c] = "recorded"]
  /\ seen' = (IF Grows(work[c]) THEN seen
              ELSE [d \in Clients |-> Outdated(seen[d])])
  /\ dropped' = (IF Reconciling(c) /\ req[c].arg # "auto" /\ db # NoRow
                 THEN dropped \cup (OpsOf(db.log) \ OpsOf(work[c].log))
                 ELSE dropped)
  /\ torn' = (torn /\ file # work[c])
  /\ UNCHANGED <<file, lock, requestVars, events, acked, faults, hands>>

\* The transaction fails: the old document goes back.
RecordFails(c) ==
  /\ pc[c] = "written" /\ faults < MaxFaults
  /\ faults' = faults + 1
  /\ pc' = [pc EXCEPT ![c] = "failed"]
  /\ UNCHANGED <<file, db, mirror, lock, requestVars, seen, events, acked,
                 dropped, torn, hands>>

RestoreNothing(c) ==
  /\ pc[c] = "failed"
  /\ Leave(c)
  /\ UNCHANGED <<file, db, mirror, seen, events, history>>

RestoreFile(c) ==
  /\ pc[c] = "failed"
  /\ file' = old[c]
  /\ Leave(c)
  /\ UNCHANGED <<db, mirror, seen, events, history>>

\* The rest of the request: mutate_session records its runtime event, the
\* lock is released and the caller gets the payload.
Answer(c) ==
  /\ pc[c] = "recorded"
  /\ \/ /\ req[c].kind = "submit"
        /\ events' = events \cup {<<work[c].rev, req[c].arg>>}
        /\ acked' = acked \cup {req[c].arg}
     \/ req[c].kind # "submit" /\ UNCHANGED <<events, acked>>
  /\ seen' = [seen EXCEPT ![c] = View(work[c])]
  /\ Leave(c)
  /\ UNCHANGED <<file, db, mirror, dropped, torn, faults, hands>>

-----------------------------------------------------------------------------
(* The environment *)

\* The process that serves c dies; the operating system frees its file lock.
Crash(c) ==
  /\ lock = c /\ faults < MaxFaults
  /\ faults' = faults + 1
  /\ torn' = (torn \/ pc[c] \in {"written", "failed"})
  /\ Leave(c)
  /\ UNCHANGED <<file, db, mirror, seen, events, acked, dropped, hands>>

\* The learner edits the document: its content changes and, at times, the
\* revision in its frontmatter with it.
HandEdit ==
  /\ hands < MaxHands /\ Known
  /\ \/ file' = Edited(file)
     \/ /\ file = db /\ file.rev < MaxRevision
        /\ file' = Revised(file, "edit", file.status)
  /\ hands' = hands + 1 /\ torn' = TRUE
  /\ UNCHANGED <<db, mirror, lock, pc, requestVars, seen, events, acked, dropped, faults>>

\* The learner copies the first version of the document back; of a Session
\* without a row it was the only copy.
HandRestore ==
  /\ hands < MaxHands /\ Known /\ file # Draft
  /\ file' = Draft
  /\ dropped' = (IF db = NoRow THEN dropped \cup OpsOf(file.log) ELSE dropped)
  /\ hands' = hands + 1 /\ torn' = TRUE
  /\ UNCHANGED <<db, mirror, lock, pc, requestVars, seen, events, acked, faults>>

Creation ==
  \E c \in Clients :
    \/ Create(c) \/ CreateRow(c) \/ CreateFails(c) \/ SaveRecord(c)
    \/ CreationCut(c) \/ CreateAnother(c) \/ GoOn(c)

Life ==
  \/ \E c \in Clients :
       \/ Look(c) \/ SubmitRefused(c)
       \/ \E op \in Ops :
            \/ SubmitReplayed(c, op)
            \/ \E e \in {AnyRevision, seen[c].row.rev} : Submit(c, op, e)
       \/ \E to \in Statuses : Transition(c, to)
       \/ Finish(c)
       \/ ReconcileEqual(c) \/ ReconcileRefused(c)
       \/ \E p \in {"auto", "markdown", "sqlite"} : Reconcile(c, p)
       \/ Recheck(c) \/ RecheckFails(c) \/ WriteFile(c)
       \/ RecordRow(c) \/ RecordFails(c) \/ RestoreFile(c) \/ Answer(c)
       \/ Crash(c)
  \/ HandEdit \/ HandRestore

Next == Creation \/ (Life /\ UNCHANGED <<key, made, cut>>)

Spec == Init /\ [][Next]_vars

-----------------------------------------------------------------------------
(* Properties *)

InSection(c) == pc[c] \notin {"idle"} \cup Creating

\* Types, and exactly the client inside persist_session_atomic has the lock.
TypeOK ==
  /\ file \in Contents \cup {NoFile}
  /\ file = NoFile <=> made = 0
  /\ db \in Contents \cup {NoRow}
  /\ mirror \in {"unknown", "synced", "conflict"}
  /\ lock \in Clients \cup {Nobody}
  /\ pc \in [Clients -> {"idle", "loaded", "checked", "written", "failed",
                         "recorded"} \cup Creating]
  /\ \A c \in Clients : InSection(c) <=> lock = c
  /\ req \in [Clients -> Requests]
  /\ work \in [Clients -> Contents]
  /\ old \in [Clients -> Contents]
  /\ seen \in [Clients -> [row: Contents, valid: BOOLEAN]]
  /\ events \subseteq Nat \X Ops
  /\ acked \subseteq Ops /\ dropped \subseteq Ops
  /\ torn \in BOOLEAN
  /\ faults \in Nat /\ hands \in Nat
  /\ key \in {"open", "settled"} /\ made \in Nat /\ cut \in BOOLEAN

\* An operation that was answered with success, or that has its runtime event,
\* is in the row for good (in the document while a Session has no row),
\* through rolled back commits, crashes and automatic reconciliation; only a
\* reconciliation that names a projection discards it.
AckedHeld ==
  file # NoFile =>
    acked \cup {e[2] : e \in events} \subseteq
      dropped \cup OpsOf(IF db = NoRow THEN file.log ELSE db.log)

\* Outside a commit the two projections agree, and a health report or a backup
\* finds nothing wrong with them, unless a crash between the two writes or a hand
\* parted them: a failed commit leaves no trace.
MirrorsAgree == Known /\ lock = Nobody /\ ~torn => db # NoRow /\ ~AuditFails

\* A request repeated under its Idempotency-Key takes effect once, whatever
\* crashed or was reconciled in between, as long as fewer than KeyWindow other
\* keys were applied since; and a creation repeated under its key gives the
\* Session there is, unless the first one was cut off before its record.
AppliedOncePerKey ==
  /\ made > 1 => cut
  /\ \A log \in {x.log : x \in {file, db} \ {NoFile, NoRow}} :
       \A i, j \in DOMAIN log :
         i < j /\ log[i] = log[j] /\ log[i] \in Ops =>
           KeyedBetween(log, i, j) >= KeyWindow

Committing(c) == pc[c] = "written" /\ pc'[c] = "recorded"

\* transition_session and finish_session read the document before anything
\* compares it: did persist_session_atomic still find the same one?
ReadsAgree(c) ==
  /\ work[c].rev = old[c].rev + 1
  /\ SubSeq(work[c].log, 1, Len(work[c].log) - 1) = old[c].log

\* A normal write extends the row by exactly the one operation: two writers,
\* a retry or a stale document never make it lose or merge operations, and a
\* completed or cancelled Session takes nothing but another finish.
CommitExtends ==
  [][\A c \in Clients :
       /\ Committing(c) /\ ~Reconciling(c) /\ db # NoRow
       /\ req[c].kind = "submit" \/ ReadsAgree(c)
       =>
         /\ db'.rev = db.rev + 1
         /\ \E x \in Entries : db'.log = Append(db.log, x)
         /\ db.status \in TerminalStatuses => req[c].kind = "finish"]_vars

\* A submission that names the revision its author looked at is applied to
\* that very content, unless a reconciliation has since put other content
\* under the same or a lower revision.
AppliedToWhatWasSeen ==
  [][\A c \in Clients :
       Committing(c) /\ req[c].expected # AnyRevision /\ seen[c].valid =>
         db'.log = Append(seen[c].row.log, req[c].arg)]_vars

Writing(c) == pc[c] = "checked" /\ pc'[c] = "written"

\* The learner changed the document that an automatic reconciliation had read and
\* chosen, before persist_session_atomic read it again as old_text.
ChangedSince(c) == req[c].arg = "auto" /\ work[c] # db /\ old[c] # work[c]

\* Neither side of a same-revision fork is ever overwritten by the program,
\* except by a reconciliation that names the projection to keep, or by a
\* commit that had found no fork in the document it replaces.  An automatic
\* reconciliation looks before its commit reads the document, and the commit does
\* not look again: a change by hand in between is lost, fork or not.
ForksKept ==
  [][SameRevision /\ (db' # db \/ \E c \in Clients : Writing(c)) =>
       \E c \in Clients :
         /\ Committing(c) \/ Writing(c)
         /\ \/ Reconciling(c) /\ (req[c].arg # "auto" \/ ChangedSince(c))
            \/ ~Fork(old[c])]_vars
=============================================================================
