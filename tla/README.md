# Yanxi in TLA+

Specifications of the parts of Yanxi (`src/src/ielts_coach`) whose correctness
depends on the order of things: who writes a row after whom, what a crash leaves
behind, what a lease or a lock keeps out. The modules are translated from the
code; line references below are to that directory unless a path says otherwise.

Contents: [the system](#the-system) · [modules](#modules) · [runs](#runs) ·
[what the runs found](#what-the-runs-found) · [proofs](#proofs) ·
[only model-checked](#only-model-checked) · [not modelled](#not-modelled) ·
[plan](#plan)

## The system

Yanxi is a local application: one FastAPI process, one SQLite database, a tree of
Markdown documents, and child processes for model calls and document work.
Everything below shares the database; nothing else is shared but files and locks.

| Component | State | Operations | What is hard | Correct means |
|---|---|---|---|---|
| **Agent run coordinator** `agent_jobs.py`, `storage_agents.py`, `agent_contracts.py`, `local_worker.py` | a row of `agent_runs` per run (status, checkpoint, result, lease), coaching artifacts, the set of scheduled runs, child processes | create, enqueue, claim, execute (invoke, store, validate, persist), fail, cancel, retry, sweep, shutdown | children outlive the service; leases expire; cancel, retry, sweep and failure reports write over each other without looking | the status says what the learning record holds; one record per run; one model call per attempt; every run settles |
| **Practice Session store** `session_manager.py`, `study_runtime.py`, `record_session`, `locking.py` | a Markdown document and a `sessions` row, a file lock, remembered idempotency keys | start, submit and review (`mutate_session`), transition, finish, reconcile, record | two writes that cannot be one transaction; edits by hand; repeated and stale requests | acknowledged work is never lost; projections agree; forks are decided explicitly |
| **Background job queue** `background_jobs.py` | rows of `local_background_jobs`, a priority queue, supervisor threads, children | submit, recover, run, cancel, shutdown | children outlive the service; supervisor threads may die | one active job per key; no job worked twice; every job settles |
| **Content imports, OCR** `content_imports.py`, `private_corpus_builder.py`, `content_audio.py` | an import's row, page texts, review draft, audio plan, package, the corpus | create, prepare, recognise, plan pages, build draft, review, package, import, delete, recover | background jobs beside each other and beside endpoints; blind writes of rows and files read earlier | what the row speaks of is on disk; a deleted import stays deleted; a review outlasts rebuilds |
| **Model providers** `model_providers.py`, `credential_store.py` | provider and health rows, the key file, a run's attempts | edit roles and keys, route a call along the chain, retry, open and close circuits | rows read before and written after a check; counts written back | one primary; attempts in order; a circuit opens for a reason |
| **Tutor** `tutor_orchestrator.py`, `tutor_state.py`, `pedagogy.py`, `storage_learner.py` | learning state and teaching cycle of a thread, proposals, learner memories and their conflicts | ask, plan and call tools, answer, commit a turn, move the cycle, confirm or dismiss, edit memories | policies and cycles read before they are used; runs persisted again; effects before guarded updates | a turn counts once; no answer before an attempt; what is settled stays; contradictions are not taught |
| **Study threads, data lifecycle, backups** `study_threads.py`, `media.py`, `data_lifecycle.py`, `backups.py` | tables, document and media files, search index, archives | add messages with attachments, upload, delete, wipe, back up, restore | two stores changed in steps; shared images | files and rows agree; a deleted thread is gone, others keep theirs; a restore is all or nothing |
| **Learner model, planning** `learning_model.py`, `learning_orchestration.py`, `study_runtime.py` | evidence, mastery, reviews, objectives, review tasks, practice units | commit a Session, ingest evidence, complete reviews, sync tasks, start, bind, finish | everything is rebuilt at each commit, beside requests that read before | the model is what the documents say; what is done stays done |
| **Vocabulary** `vocabulary.py` | words, reviews, cards | add, teach, undo, settle, review, enrich | tutor runs and enrichment beside the learner | what the learner settled is kept; streaks are earned |
| **Migrations, health** `storage.py`, `migrations.py`, `health.py` | schema version, migration journal | open, back up, add columns, migrate, audit | a start or a restore cut off anywhere; a process that trusts what it opened | what is served is of this schema, each migration done |
| Web service, auth, server | sessions, launch tokens | HTTP endpoints | bodies of the requests above | only the session's owner gets in |
| Agent gateway, Codex runtime | an external process | JSON-RPC calls | time-outs and restarts of the process | a call answers or fails |
| Content, scoring, reports, domain packs | read-mostly tables | import, validate, score | sequential | scores follow the rubric |
| Frontend, scripts, packaging | browser state | user interface | | |

How they interact: an endpoint creates a run and enqueues it; the run's executor
calls a provider route, then writes either through `mutate_session` (a practice
Session), or through an artifact, a message and the tutor's turn commit (a
dialogue), always under the key `agent:<run_id>`. A turn commit moves the
thread's teaching cycle and leaves proposals; confirming one writes a learner
memory or a review task. A Session's commit rebuilds its evidence, errors and
answers, from which the learner model and the review queue follow. Imports are
executed by background jobs. At startup the service recovers Agent runs, then imports, then
background jobs (`web/app.py:551-576`); children of an earlier service may still
be running at that time.

## Modules

| Module | Models |
|---|---|
| `AgentRuns` | the Agent run coordinator over the `agent_runs` table |
| `SessionStore` | one practice Session in its two projections |
| `JobQueue` | what the background job queue promises (abstract) |
| `BackgroundJobs` | the queue, its threads and its children; implements `JobQueue` |
| `ContentImports` | one import, its files and its jobs; runs on `JobQueue` |
| `DataHome` | threads, media, deletion, backup, restore and upgrade: one database and its files |
| `TutorTurn` | one tutor turn: answer policy, tool loop, what it makes of the learning state |
| `LearnerMemory` | learner memories and their conflicts |
| `Tutor` | turns persisted, teaching cycles, proposals; extends the two before |
| `ModelRoute` | provider settings, keys, and calls along the route |
| `SessionDocument` | what each operation makes of a Session's document |
| `LearningModel` | evidence, mastery, reviews, objectives, as functions of the tables; extends `SessionDocument` |
| `StudyPlan` | commits, learner requests, review tasks and units; extends `LearningModel` |
| `Vocabulary` | the word list and its cards |
| `…_proof` | theorems about the module it extends: `AgentRuns`, `SessionStore`, `BackgroundJobs`, `ContentImports`, `DataHome`, `Tutor`, `ModelRoute`; `Learning_proof`: about `StudyPlan` and `Vocabulary` |
| `MC…` | constants for TLC |

An action is one database transaction or one operation under a lock; local work
between two of them is merged into the next action. Where a function reads a row
and writes it back later without comparing, the read and the write are two
actions (`RetryRead`/`RetryWrite`, `CancelMark`/`CancelWrite`,
`SweepClaim`/`SweepRequeue`, `FailRead`/`FailWrite`, `ReadReview`/`CompleteReview`,
`ReadWord`/`WriteReview`, `LookForMessage`/`WriteMessage`,
`FindCycle`/`ReadRow`/`ApplyCycle`); a SELECT before a transaction's first write is outside it.
Operators defined just before the definition they resemble, and described as
mutants of it (or by what they get wrong), are broken variants; they are not
part of any specification and show that a property can fail.

### AgentRuns

*State.* `status`, `checkpoint`, `result`, `cancelRequested`, `owner` and `live`
(the lease) are columns of the row; `compacted` says whose request payload has
been removed. `scheduled`, `child`, `sup` are the memory of the service;
`pc`, `job`, `cand`, `beating` are the executors: child processes if
`ProcessIsolation`, threads otherwise. An answer of the model is the number of the
call that gave it, so the properties can tell answers apart. The learning records are
`effect` (a Session's payload, or a dialogue's message), and for a dialogue `artifact` and
`turn` (its turn commit). `effects`, `calls`, `retries`, `disturbed` (runs a supervisor has
reported as failed, or whose executor stalled) and `missed` (runs whose cancellation did
not find a child at work) are history.

*Actions.* `Create` … `CancelWrite` are requests; `Sweep*` is
`_recover_stale_runs`; `Start` is a thread that gets its slot, `TakeSlot`, `StartNothing`,
`Spawn`, `Register`, `SpawnFails`, `Supervisor*` are `_execute_process_safely`: between
`Spawn` (Popen) and `Register` (`_worker_processes`) nobody who looks for the child finds
it. `Claim` … `Release` are `_execute` in order, each
path of an exception leading to `FailRead`. A Session is written by `Apply` in one step under
its lock; a dialogue by `SaveArtifact`, `LookForMessage`, `WriteMessage` and `CommitTurn`, a
transaction each, the message being written over one that came in since it was looked for.
`Renew`, `HeartbeatStops`, `Expire` are the lease; then faults, `Shutdown`, `Exit`, `Restart`.

*Abstractions.* The clock is `Expire`: a lease lapses when no heartbeat renews it,
or through the fault "stall" although one does. Claim and the re-read of the row
are one step, likewise the sweep's. Whether validation, preparation or the
learning record's own check fails is a free choice; so is whether the turn's teaching
cycle (`Tutor`) raises after the turn is committed. A Session
remembers a run's key for fifty operations; `effect` remembers it for good
(`SessionStore` has the window). Events, provider attempts, usage and the manual backend
are left out.

### SessionStore

*State.* `file` and `db` are revision, status and the log of operations that
made the content, so equal payload hashes are equal records; `mirror` is
`mirror_status`; `lock`, `pc`, `req`, `work`, `old` are a request inside
`persist_session_atomic`; `seen` is what a client last looked at; `torn` records
that a crash or a hand has parted the projections. `key`, `made` and `cut` are about the
request that creates the Session and its idempotency record.

*Actions.* `Create`, `CreateRow`, `CreateFails`, `SaveRecord` are `start_session` under the
lock of its module, `CreationCut` the death or error in it, `CreateAnother` what a repeated
request then does, `GoOn` a learner who does not repeat it. `Submit`, `SubmitReplayed`,
`SubmitRefused` are `mutate_session`; `Transition` and `Finish` read the document only;
`Reconcile*` is `reconcile_session`; `Recheck`, `WriteFile`, `RecordRow`, `RecordFails`,
`RestoreFile`, `Answer` are the commit, step by step; `Crash` may fall between any two;
`HandEdit`, `HandRestore` change the document at any moment, inside a commit too.
`AuditFails` is what the health audit reports of a Session; `MirrorsAgree` says that it has
nothing to report outside a commit and a torn one.

*Abstractions.* One Session: a second one that a repeated creation makes is counted, and as
it touches nothing of the first, the repetition comes before any other request. What an
operation does to the payload is its entry in the log and the status it leaves (`Effect`).
The body text of the document is not hashed by the code and not modelled. A request that
waits longer than the lock's time-out is refused and changes nothing. Changes by hand never
raise the revision of an old copy.

### BackgroundJobs

*State.* The row's `status`; `queue`, `scheduled`, `processes` and the threads'
`pc`/`job` are the manager's memory and vanish with it; `child` does not.

*Actions.* The thread loop from `Take` to `WatchEnds`, `WatchCancelled`,
`MarkTimedOut`; the child from `ChildStarts` to `ChildCompletes` or
`ChildRaises`; `Cancel*`; `Shutdown`, `StopOne`, `ShutdownEnds`; `Crash` and
`Start` (recovery). `ThreadDies` is a raising statement: `_worker_loop` has no
`except`, so the thread ends.

*Abstractions.* The work is one step. The order of two ready jobs of different
kinds is in `Take`, but the checked instance has one kind only. Cancel on a
claimed but not yet registered child leaves it to the watch loop, as in the code.

*Refinement.* `Abstract` is `JobQueue` with `row <- status` and the child's stages
folded into `none`, `working`, `gone`; `ImplementsJobQueue` is its specification as a
property. A crash, a recovery that requeues, a child that outlives its service and a
late cancel all map to steps `JobQueue` names or to none.

### ContentImports

*State.* `row` keeps of the job's row and summary what decides anything; `dir`, `text`,
`draft`, `package`, `corpus` are the directory, the sidecar files and the corpus;
`queue`, `process` are `JobQueue`'s; `mem` is what an actor read before it writes.
*Actions.* `Ask` and `RequestStep` are the endpoints, each from its read to its last
write; `JobBegins` and `JobStep` the worker of a job; `Crash`, `ListActive`, `Recover`,
`RecoverQueue` the service's end and start. *Abstractions.* A request whose revision
is out of date when checked changes nothing and is left out. What pages say is
where their text comes from; segments, answers and audio files are marks.

### DataHome

*State.* `db` is the tables that refer to each other, `files` the managed roots,
`archives` the backup directory, `op` the request being handled, `sweep` the automatic
backup of this start. `version`, `columns` and `migrated` in `db` are the schema version,
the column pass of `_migrate` and the migration journal; `fresh` in `op` says that the
process has not found the database current before: true at a start and of a restore
from the command line, false of one asked of the running service. *Actions.* One per
transaction or change of the file system: `OpenDatabase` (with the backup before an
upgrade), `AddColumns`, `Migrate`, `StampVersion` at a start and at the end of a
restore; storing and registering images, storing a document, attaching, undoing;
deletion's rename, transaction, unlinking and cleaning; the snapshot, copies and
publication of a backup; a restore root by root, with its way back. *Abstractions.*
Requests run one after another (the automatic backup beside them). Content is its
hash, so an image is one row and one file. The search index holds messages;
titles, writing versions and errors in it are left out.

### TutorTurn, LearnerMemory, Tutor

*State.* `state` and `committed` are the learning state and the turn commits,
`proposal` and `reviews` the proposals and the tasks made of them, `cycle` the
teaching cycles with the sources of their events, `memory` the memories and
conflicts; `persist` is where a run is, with its policy and answer, `click` what a
request read. *Actions.* `AskTurn` fixes the policy from the state of then;
`CommitTurn` answers and commits, or fails the run whose answer the policy forbids;
`FindCycle`, `ReadRow`, `StartCycle`, `ApplyCycle` follow in transactions of their own, the
learner's clicks on the cycle between any two; `Retry`
asks the model again, `Crash` resumes with the answer there was; then the learner's
requests. *Abstractions.* An answer is private to its run until it is persisted, so
choosing and committing it are one step. The tool loop only reads the learner's
records: `LoopStates` is the set of its outcomes within the budgets (three rounds,
three calls a plan, six calls in all). What the learner wrote is what it amounts to
for the policy (`said`). The correction status follows from the answer and is left
out, as are texts, evidence quotes and revision histories.

### ModelRoute

*State.* `provider`, `keys`, `health`, `attempts` are tables and the key file;
`edit` and `call` what a request or a call has read. *Actions.* Settings requests from
their read over `LookForPrimary` to `WriteProvider`, then `LoadKeys`, `SaveKeys`,
`ReplaceKeys`; a call from `StartCall` over each attempt's `Guard`, `Connect`,
`ReadObject` or `ReadStream` to `RecordSuccess` or `ReadFailures`/`WriteFailures`;
`StartTest` is the settings page's test. *Abstractions.* What goes wrong with a call is
one of a few kinds of fault, by what the code does on it. Cooldowns end at any time.

### SessionDocument, LearningModel, StudyPlan

*State.* `session` the documents, `errors` and `answers` the tables rebuilt from them with
ids that are never used twice, `learner` the evidence, mastery and reviews, `made` the id of
a skill's last review, `task` and `unit` the queue; `request` what a request has read.
*Actions.* `RecordSession` commits any operation `SessionDocument` allows, with all that
`record_session` derives from it in one transaction; the rest are the learner's requests,
read and write apart: `CompleteReview` finds the review it read, or commits the evidence of
the answer alone if a commit has removed it since. *Abstractions.* How a commit reaches disk
is `SessionStore`. Scores are per cent; the weights of an estimate change its number and
neither its sources nor when it is computed. Dates are intervals.

### Vocabulary

*State.* `words` and `card`; `recalls` is history. *Actions.* Each request's read and
write; `ReadForIngest`/`IngestWord` is a tutor run, `OpenCard` and `Enrich` to
`StoreCard` the two ways a card is filled. *Abstractions.* Texts are where they come
from; the catalogue of seed words is who may have bundled text.

## Runs

Bounds are constants: `MaxFaults`, `MaxRetries`, `MaxCancels`, `MaxHands`, `MaxRevision`,
`MaxRequests`, `MaxArrivals`, `MaxCommits`, `MaxEdits`, `MaxCalls`, `MaxAsked`, `MaxEvents`,
`MaxRow`, `MaxArchives`, `KeysGiven` and the sets of runs, jobs, clients, requests.
`CHECK_DEADLOCK` is off throughout: an application nobody uses is idle, and a bounded one
stops when its bounds are spent.

| Run | Checks | Instance and why it is enough |
|---|---|---|
| `agent_runs_isolated` | `TypeOK`, `AppliedOnce`, `ReportMatchesRecord`, `ShownAnswerIsRecorded`, `OneCallUntilRetry`, `ExclusiveExecution`, `PersistedStays` | one dialogue run, two children, a cancel, two faults of any of the six kinds (crash or shutdown of the service, crash of a child, a child that cannot be spawned, stall, deadline, failing statement) and no retry: an orphan and its successor are what the races need; runs do not share state but the slots |
| `agent_runs_live` | `EverySettles` | thread mode, two runs (session and mock) for one slot, a crash, a retry each |
| `agent_runs_faults` | `SettlesUnlessReserved`, `CancelEnds` | one fault of each kind, a cancel at any moment, also between the spawning and the registration of a child |
| `agent_runs_livelock` | `CandidateResumes`, violated | isolation, one crash |
| `session_store` | `TypeOK`, `AckedHeld`, `MirrorsAgree`, `AppliedOncePerKey`, `CommitExtends`, `AppliedToWhatWasSeen`, `ForksKept` | two clients, two keys with a window of one (so a key can fall out), three revisions, one crash or database error, one change by hand after a creation that may fail or be cut off anywhere (Sessions with a row and without) |
| `background_jobs` | `TypeOK`, `EverySettles`, `ImplementsJobQueue` | two jobs of one key, two threads, two faults, one cancel: crash followed by a second fault during recovery is reached |
| `content_imports` | `TypeOK`, `RecordedIsThere`, `DeletedStays`, `WorkKept` | one import (they share nothing), from nothing or from a built package, a text page and a scanned one, three requests beside a preparation, an OCR and a draft job, one fault; every pair of operations overlaps with a third in between |
| `data_home` | `TypeOK`, `HomeHealthy`, `RestoreAllOrNothing`, `DeletedIsGone`, `OwnersKeep` | a database of an older release with two migrations to go, two threads and a Session that share an image, a message with an image and a document, uploads with and without an owner, three archives, four requests, or three and a fault at any step: share, back up, delete, restore fits in, and so does a restore of the archive made before the upgrade |
| `tutoring` | `TypeOK`, `ConflictsRespected`, `OneUnfinishedCycle`, `SettledStays` | two turns of one thread about a question, one with the tool loop, one without; three memories (two told already), two cycles, two clicks, two requests, one crash: the second turn may be asked before or after the first is committed, the first may find an attempt and the second judge one |
| `model_route` | `TypeOK`, `OpenedForCause` | the built-in bridge and a keyed provider, two overlapping settings requests, three calls of two runs (four of both together), three failures to trip |
| `study_plan` | `TypeOK`, `ModelCurrent`, `DoneStaysDone` | one Session of any module, committed up to four times beside three requests, two of them overlapping, five events in all; two skills, so that a new document may move evidence from one to the other |
| `vocabulary` | `WordsTypeOK`, `KeptForLearner` | one word in two spellings with one id, three overlapping requests, five in all |

Symmetry (executors, clients, requests and other ids the code does not tell apart)
is used only in runs without liveness.

*Fairness.* Weak, and only on what the operating system schedules: executor,
supervisor and sweeper threads, children, requests already accepted, the passing
of time for a lease nobody renews. A service that stopped is assumed to be
started again (`Restart`, `Start`): without it nothing can recover, and the
properties say what happens once the learner opens the application again. New
requests, faults and hand edits are never fair. An executor is fair as a whole:
it goes on, but may always fail.

*Reading the properties.* `PersistedStays` and `JobQueue` name the writers that may, as the
code stands, take an outcome back; everything else may not. Likewise `DoneStaysDone`,
`OpenedForCause`, `KeptForLearner`, `ConflictsRespected` (through `revived`), `SettledStays`
(the note of a turn that had found the cycle), `CancelEnds` (through `missed`), `OwnersKeep`
(the undoing of a message) and `HomeHealthy` (through `torn`) except, in their text, the
write that rests on an earlier read or the crash between two stores: what these do is listed
below. `WorkKept` says that what is in a draft or a page's text when nobody holds an older
copy stays there: whoever reads it later carries it over. It does not say that nothing is
lost to work that runs beside it; a writer that read before does lose what came in. The
learning state in `Tutor`'s `TypeOK` is about policies: an answer is settled only if the
learner asked for it or came with an attempt, or another turn had judged one.
`ShownAnswerIsRecorded`, `OneCallUntilRetry`, `ExclusiveExecution`, `PersistedStays` and, of
dialogues, `AppliedOnce` are about runs that are `Undisturbed`, neither retried nor stalled
nor reported by a supervisor: a retry does not look for an executor of the first attempt;
one that lives on past its lease is a second executor; and a supervisor's report ends the
heartbeat of an orphan that is still executing. What follows for the message is below.
`EverySettles` of the queue allows for a supervisor thread that died.

## What the runs found

1. **A recovered run is reserved for an owner no child has** (`CandidateResumes`;
   `storage_agents.py:348`, `agent_jobs.py:103-109`). With process isolation, the
   default, the sweep takes the lapsed lease under the service's owner id and
   spawns a child. The child's manager has an id of its own, so `claim_agent_run`
   refuses; the child exits normally, and the next sweep acts only once the
   reservation has lapsed, and takes it again. A queued run, and a stored candidate,
   may wait for ever. `docs/ARCHITECTURE_V2.md:206` promises that it resumes.
   `SettlesUnlessReserved` checks that this is the only way to be stranded.

Met while modelling, without a run of its own (the models contain the behaviour, and
the properties above are stated around it, unless said otherwise):

*Agent runs and Sessions.* A service that dies in the middle of a cancellation leaves
`cancel_requested=1` on a running row, which neither recovery nor `claim_agent_run` touches
(`storage_agents.py:370`; `docs/ARCHITECTURE_V2.md:208` promises an explicit failure).
`record` on the command line writes the row without lock or comparison, so a fork of the
same revision is overwritten without a choice (`cli.py:497`, not among `SessionStore`'s
writers; `docs/ARCHITECTURE_V2.md:212`). `resume_session` raises a conflict where
`docs/ARCHITECTURE.md:77` says that it reconciles. The idempotency record of a creation is a
transaction of its own after the row: a creation cut off before it, and repeated, makes a
second Session (`session_manager.py:127`, `cut` in `AppliedOncePerKey`). An Agent run is
created without the lock a Session has: two requests with one key that both look before
either has saved its record make two runs (`web/app.py:2524`, `2771`, not in a model).
`finish_session` completes a cancelled Session. A run cancelled after it was persisted
cannot be retried, its payload being gone. A child that dies before it claims is reported as
a failed run even while an orphan of an earlier service executes that run; the orphan's
heartbeat ends with it (`agent_jobs.py`, `disturbed`). Two executors of a disturbed dialogue
may both find no message and both write one: the later one overwrites what the learner has
read (`study_threads.py:517-555`), while the turn commit keeps the first answer and the
artifact the last; a Session is protected by its key. A child is spawned and then registered
(`agent_jobs.py:385-394`): a cancellation or a shutdown in between finds no process
(`agent_jobs.py:434-437`, `355-359`), and a child that has claimed the run by then goes on
and may persist what the learner has been shown as cancelled (`missed` in `CancelEnds`). An
automatic reconciliation chooses a projection from a document that its commit reads again
without comparing, so a change by hand in between is lost (`study_runtime.py:59-121`,
`ChangedSince` in `ForksKept`).

*Imports.* Editing a segment, an annotation or an issue after the import sets `draft_ready`,
after which the import can be packaged again and deleted, against `content_imports.py:1303`
and `private_corpus_builder.py:64`. Editing a stale draft marks it "ready". Revisions are
checked on an earlier read, so two edits of one revision both pass, and recording an issue
loses a concurrent edit. A preparation beside an OCR loses recognised text, and a rebuild of
the draft the notes made since it read the old one (`SettledNotes`, `SettledText` in
`WorkKept` leave these out). An edit that wrote back an active status leaves the import
active, without a job, until a restart; so does a request that is given the job just ending.
A blocker recorded after packaging does not stop the import. Deleting while `process_import`
runs leaves the content in the corpus; a crash between deletion's rename and its row leaves
an import that cannot be deleted.

*Threads, media, backups.* The failure path of `add_user_message` deletes every binding
of the image, other owners' included (`study_threads.py:488`), against
`data_lifecycle.py:15`; its attachment rows stay, and deleting the thread later then
removes the other owner's image. Deleting a thread without images purges every
unreferenced media row, so uploads without an owner vanish. A crash between the rename
to a tombstone and the transaction makes the next start delete the documents of a
living thread; files are unlinked inside a transaction that may still fail. An
automatic backup beside a deletion may fail its verification and still count as
recent. A crash in the middle of a restore leaves a mixture. A running service cannot
restore an archive of an older schema: the database is copied into the same file
(`backups.py:474`), which `initialise_database` takes for the one it has opened already
(`storage.py:1683`), so nothing is migrated, the audit refuses it (`health.py:78`) and
the restore is rolled back, although `tests/test_migration.py:261` restores such
an archive, in a process that had not found the database current; from the command
line it succeeds too (`RestoreAllOrNothing` says so of both).

*Tutor and memories.* Confirming a memory proposal twice while the memory is in conflict
makes a second one (`docs/TUTOR_AGENT_ARCHITECTURE.md:99`: "idempotent"); a
confirmation beside a dismissal takes effect although the proposal stays dismissed;
a failed proposal cannot be dismissed. Deciding a conflict one side of which was
discarded brings that side back (`revived`). Deleting a memory leaves its opponent
"conflicted" with no conflict to decide (`docs/TUTOR_AGENT_ARCHITECTURE.md:100`). Two
turns that both find no cycle: the second raises after its commit. A turn picks the cycle
among the unfinished ones and reads its row in another transaction (`pedagogy.py:192-203`,
`168-171`): if the learner finishes it in between, the turn's observation and a new revision are
added to the finished cycle (`pedagogy.py:480`, `574-622`; `NotesItself` in `SettledStays`),
and a turn that would move it fails after its commit. A run persisted
again after the learner moved the cycle back hits the index on cycle events and fails
each time. An "unverified" answer, which the model alone decides on, is enough for the
next turn's policy to allow the answer; and a policy is not looked at again when other
turns of the thread came in between (`base_state_revision` is recorded and not compared).

*Providers.* A row written back as read undoes another choice: a rename restores
`primary`, a stale "disabled" demotes the one just promoted, deletion looks for the
primary on its earlier read. There may be no primary left (`docs/ARCHITECTURE_V2.md:64`,
`model_providers.py:399`), and a disabled provider among the fallbacks. Two changes of
credentials lose one and share a temporary name. Lost counts keep a circuit closed,
late ones reopen it, a failure that is not retryable closes it. A stream that ends
early with some text counts as an answer.

*Learner model and planning.* Recording a Session again gives its errors and answers
new ids, so a completed review task comes back as a new one. Two syncs around a commit
may close the tasks of unresolved errors. Starting a task or binding a unit reopens
what was completed since it was read. Two overlapping answers to a review count once,
and a review dismissed meanwhile becomes pending again. An answer to a review that a commit
has removed since it was read is committed as evidence, with the mastery it gives, and only
then does the request fail (the UPDATE at `learning_model.py:1113` finds no row, line 1142
raises); if it is sent again there is no such review. A review of mode
`question_type_drill` may carry correct answers with `answer_revealed` false, past the
lock of `study_runtime.py:567`. `update_error_status` is undone by the next commit.

*Vocabulary.* A word the learner is learning becomes a candidate when a run teaches it
(`vocabulary.py:213`: "never demoted"), and undoing that deletes the learner's own
word. A word in other case or of another track has the same `item_id` and raises, each
time its run is persisted. A typing mistake is looked up in lower case only. Bundled
text may be written over the model's (`vocabulary.py:712`); an empty definition of the
model overwrites the bundled one.

## Proofs

Each module `X_proof` proves theorems about `X` for all constants that satisfy the
assumptions of `X`: any sets of runs, clients, threads, jobs, pages, Sessions, skills, words,
providers and requests, and any bounds. Every invariant and every action property the passing
runs check is among them.

| Module | Theorem | States |
|---|---|---|
| `AgentRuns_proof` | `TypeCorrect`, `ReportIsTrue`, `RecordHasSource` | `TypeOK`, `ReportMatchesRecord`, `RecordIsAnAnswer` |
| | `LeaseExcludes`, `CalledOnce`, `RecordWrittenOnce`, `ShownIsRecorded`, `PersistedForGood` | `ExclusiveExecution`, `OneCallUntilRetry`, `AppliedOnce`, `ShownAnswerIsRecorded`, `PersistedStays` |
| `SessionStore_proof` | `TypeCorrect`, `AckedStay`, `ProjectionsAgree`, `KeyAppliedOnce` | `TypeOK`, `AckedHeld`, `MirrorsAgree`, `AppliedOncePerKey` |
| | `CommitExtendsRow`, `AppliedToSeen`, `ForksStay` | `CommitExtends`, `AppliedToWhatWasSeen`, `ForksKept` |
| `BackgroundJobs_proof` | `TypeCorrect`, `JobInOnePlace`, `OneActive`, `OutcomesAreFinal` | `TypeOK`; a job is in one place; one active row per key; outcomes stay |
| | `Implements` | `ImplementsJobQueue`: every step is a step of `JobQueue` or a stutter |
| `ContentImports_proof` | `TypeCorrect`, `RecordedOnDisk`, `Deleted`, `WorkStays` | `TypeOK`, `RecordedIsThere`, `DeletedStays`, `WorkKept` |
| `DataHome_proof` | `TypeCorrect`, `ServedHealthy`, `AllOrNothing`, `DeletedGone`, `OwnersKept` | `TypeOK`, `HomeHealthy`, `RestoreAllOrNothing`, `DeletedIsGone`, `OwnersKeep` |
| `Tutor_proof` | `TypeCorrect`, `ConflictsHold`, `OneCycle`, `Settled` | `TypeOK`, `ConflictsRespected`, `OneUnfinishedCycle`, `SettledStays` |
| `ModelRoute_proof` | `TypeCorrect`, `Opened` | `TypeOK` (one primary, fallbacks in places, attempts in order), `OpenedForCause` |
| `Learning_proof` | `PlanTyped`, `ModelIsCurrent`, `DoneStays` | `TypeOK`, `ModelCurrent`, `DoneStaysDone` of `StudyPlan` |
| | `WordsTyped`, `Kept` | `WordsTypeOK`, `KeptForLearner` of `Vocabulary` |

### Assumptions

TLC evaluates each on the runs of its module. Most say that a model value is not among
the data (`Nobody`, `Nil`, `NoRow`) or what type a constant has. Those with content:

- `ConstantsOK`: the owner ids of services and of executors differ (they are UUIDs,
  `agent_jobs.py`); only results the model gave look like results.
- `SessionConstantsOK`: operations have payload statuses that do not end a Session
  (`submit` and `review` do not), and their keys differ from the other entries of a log.
- `MemoryAssumption`: what the learner has told at the start contains no contradiction
  between memories that count. Without it the first state refutes the theorem.
- `ThreadsAssumption`: no thread is called like the directory of the tombstones (ids
  are UUIDs, `study_threads.py`). `FilesAssumption`: an attachment list is not empty.
- `ProvidersAssumption`: there are finitely many providers, the built-in one among them
  and without a key; a circuit needs a failure to open.
- `ItemsAssumption`: a spelling has one `item_id`; several may share one.
- `LearnerConstants`: the sources of evidence are apart (`source_type` keeps them so), a
  question is not called like the criterion, scores are per cent. `PlanConstants`: hints
  and ids are counted.
- `ImportConstantsOK`: job and request are different things; only the three kinds of job.

### Arguments

*AgentRuns.* An executor reads the row, works, and writes, and by then the row may belong
to somebody else. `Held` says what it carries between: a candidate is an answer some
call of that very run gave; who is past the mock branch is not of the mock kind; who is about
to write `persisted` has written the record, or found it. `Counted` ties `effects` to
`effect`. Nothing in
`IInv` mentions leases: the agreement of status and record survives retries and
stalls. The second half, `LInv`, is about the lease of undisturbed runs. `Leased` (an executor
at work owns its run's live lease and renews it) excludes a second claim (`Sole`); `Swept` (the
recovery pass holds no run an executor is at) needs `Leased`; `Called` needs both.
`Once` (who is about to write a dialogue's message is the first to do so) rests on `Sole`:
nothing but the lease keeps a second writer out between looking and writing. In thread mode all
executors share an owner id, and `ThreadsApart` does what the id cannot.

*SessionStore.* `Birth` is about the creation and its key. `Held` follows the acknowledged
keys through a commit: the row has them, a document of a higher revision has them, and so
does what a client is about to write, or else it cannot get ahead of the row. `Together`
says that unless torn the two projections are equal whenever the lock is free, and the old
document is at hand inside a commit. `Commits` says what a client's copy is worth when it
writes (a revision it has read, or a decision of an automatic reconciliation), and
`KeysSpaced` that two entries of one key have a window's worth of other keys between them.

*BackgroundJobs.* `OnePlace`, `Spawned` (a waiting row never had a child) and `Present`
make `TypeOK` inductive; with them each action maps to a named `JobQueue` step.

*ContentImports.* Every write rests on a copy read earlier, so the invariant is about
copies: `Fit` is what makes a row safe to be written over the present one, whatever that is by then
(it claims nothing the disk does not have, and is not a deletion unless that happened).
`Holds` says so of every actor at every step; `Alone` that whoever is between a
rename, an insertion or a removal of the directory is alone in it, which is
what lets a crash find the directory in a known place (`Stored`). `WorkStays` is about copies
of draft and texts: `Fresh` says that whoever becomes a writer has read in that very step, so
what all writers know is never forgotten by a new one, and a writer keeps what it knows
(`ReviewStep`, `TextStep`).

*DataHome.* `Sane` is the coherence of one database, of the live one and of those in
archives, which is what makes a restore safe. `Swapped(k)` says of each root how far a
restore is with it and that what was moved away is complete, so the way back gives the
old home. `Backed` and `Storage` order images before their rows, `Deletion` the rows
before the files.

*Tutor.* Operations on memories are functions of the tables; one lemma each says that
they keep `HeldBut` and `NoticedBut`, with a set of memories excepted while an operation is
in the middle of them. `StagesEarned` and `PolicyEarned` need each other: a policy
allows an answer because of a stage, and a stage comes from an answer that a policy allowed.
An old read of a cycle is good for nothing but that the cycle exists (`CycleRead`): it may be
finished with the revision that was read, so what keeps it as it was is that a transition asks
for an active cycle and an observation for a turn that has not noted itself.

*ModelRoute.* `Editing` and `Calling` hold what was read before a write; `Attempting` says
at which place of a call its last attempt can be in which status; `Counting`
compares the count in the row with the failures since the last answer.

*Vocabulary.* `Holding` is about rows found and not looked at again: streaks only
grow with `recalls`, so an old streak is still earned.

*StudyPlan.* `LearnerOK` is about the tables of the learner model and kept by each of its
operations, functions of the tables: `RederivedIs` and `ReviewPut` say that rows derived
anew are current and leave those of other skills so (`SameDerived`: what a skill's mastery
depends on), and one lemma each (`ObservedIs`, `RecordedIs`, `CompletedIs`, `SetIs`,
`IngestedIs`) that an operation leaves every skill current and touches the evidence of no
other Session. `IngestedIs` needs a document to show one score a question and criterion
(`ShownIs`), which `WorkedOK` shows of whatever learner and tutor make of a document. An
answer to a review carries the row it read: the count it writes is stale, the mastery it
leaves is not, because it is derived after the evidence is written (`ReviewAnsweredIs`), and
next reviews are derived after the review is, if it is still there (`CompletedIs`). `Holds`
binds what a request has in hand to rows that are there; no step takes one away (`Grown`),
so a task that was looked up may have changed, but is still one. `DoneStays` goes through
the steps that write a task or a unit: all but the two excepted look at the row they write
over.

### What the proofs changed

Proofs that did not go through showed properties that held only under the bounds
of their runs. `ExclusiveExecution` and the three that depend on it fail after a crash
if an orphan is still executing and its successor dies before claiming: the
supervisor then reports the run as failed, and the orphan's lease is no longer renewed
(`disturbed`). `CommitExtends` failed after five changes
by hand, `ForksKept` in a race of an automatic reconciliation with a change by hand
(`ChangedSince`). `TypeOK` of `DataHome` and `Tutor` needed assumptions about their constants
that the code justifies. Where a proof did not need an exception it was
dropped: `RestoreAllOrNothing` and `OwnersKeep` hold in a home a crash has torn, too.
`Ingested` was a fold over the affected skills; each turn of the code's loop
(`learning_model.py:1389`) touches the rows of one skill, so it is now given skill by
skill. A review with the same scores but other words counts as a change (`Reworded`,
`learning_model.py:1340`), which the model had missed for criteria.

## Only model-checked

- Liveness (`EverySettles`, `SettlesUnlessReserved`, `CancelEnds`, and `CandidateResumes`,
  which is violated): it rests on ENABLED, which the prover does not reason about.
- The tool loop's recursive function `LoopStates` (its results are used in
  `Tutor_proof` only through what they are a subset of).

The instances are those above. `content_imports` was also run with every stage as the
initial one (7.6 million states), its inductive invariant with all stages, two faults and
two requests, and `study_plan` with four commits and two requests and with three of each,
six events (2.1 and 4.3 million states).

## Not modelled

Listed with reasons in `PROJECT.json`. In short:

- the manual backend of Agent runs, their events and receipts; the route of a provider
  that is pinned when a run is made (a call reads it when it starts);
- drafts of an answer; the Idempotency-Key of a request for an Agent run;
- analysis and segmentation of documents, the OCR engine and its installation;
- summaries, assistant messages, quotas and leases of threads;
- diagnostics (two active ones are possible), assessment runs, allocation of time;
- what single migrations rewrite, the reset of reviews from before version 10;
- the frontend, reports, scoring, content tools: sequential; the Codex runtime: an
  external process, for which the model call stands; endpoints that only validate.

## Plan

1. Diagnostics, whose start, attach and completion race, and the Idempotency-Key of Agent runs.
2. An abstract ledger (a result is recorded once, then reported), and `AgentRuns`
   shown to implement it.
