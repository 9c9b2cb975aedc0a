---------------------------- MODULE ContentImports ----------------------------
(***************************************************************************)
(* One content import (content_imports.py, private_corpus_builder.py,      *)
(* content_audio.py): its row in content_import_jobs, its directory under  *)
(* corpus/inbox with the page texts, the review draft and the structured   *)
(* package, requests of the web service, and the jobs that JobQueue runs   *)
(* in processes of their own.                                              *)
(*                                                                         *)
(* The row is read in one transaction and written blindly in a later one,  *)
(* the files likewise: each is an action, and what an actor read before it *)
(* writes is in mem.  A revision that is out of date when a request checks *)
(* it changes nothing, so only the requests that pass are modelled.        *)
(***************************************************************************)
EXTENDS Naturals, FiniteSets

CONSTANTS
  Pages,      \* pages of the import's documents
  Scanned,    \* those without a text layer
  Requests,   \* requests, each for one operation
  Jobs,       \* background jobs
  Work,       \* [Jobs -> kind and pages], which is also what makes the dedupe_key
  Recovery,   \* recover_interrupted_imports, at each start of the service
  Stages,     \* how far the import has come before the requests
  MaxFaults,  \* bound on crashes, killed jobs and failing steps
  Nil

ASSUME ImportConstantsOK ==
  /\ Scanned \subseteq Pages
  /\ \A j \in Jobs : /\ Work[j].kind \in {"prepare", "ocr", "draft"}
                     /\ Work[j].pages \subseteq Pages
  /\ Recovery \notin Jobs \cup Requests /\ Jobs \cap Requests = {}
  /\ Stages \subseteq {"new", "prepared", "drafted", "packaged", "imported"}
  /\ MaxFaults \in Nat

VARIABLES
  row,      \* content_import_jobs: status, and of the summary what decides anything
  dir,      \* the inbox directory: "none", "inbox" or "staging" (.deleting-...)
  text,     \* page-text.json: where each page's text is from
  draft,    \* review-draft.json: issues and annotations, Nil without a file
  package,  \* generated or uploaded JSONL and manifest: "none", "content", "whole"
  corpus,   \* whether the content is in the corpus
  queue, process,   \* JobQueue
  pc, mem,  \* actors: where each is and what it read
  faults

files == <<dir, text, draft, package, corpus>>
jobq  == <<queue, process>>
vars  == <<row, files, jobq, pc, mem, faults>>

Actors == Requests \cup Jobs \cup {Recovery}

Q == INSTANCE JobQueue WITH row <- queue, Key <- Work

ActiveStatuses == {"queued", "preparing", "ocr_queued", "ocr_running", "draft_building"}
Absent == {"unborn", "deleted"}
Exists == row.status \notin Absent

Extracted(p) == IF p \in Scanned THEN "none" ELSE "text"
Blank == [issues |-> {}, annotations |-> {}]

StatusAt == [new |-> "unborn", prepared |-> "ready_for_review", drafted |-> "draft_ready",
             packaged |-> "ready_to_import", imported |-> "imported"]

\* The import as a quiet sequence of operations leaves it at each stage.
AtStage(s) ==
  LET born == s # "new"
      reviewed == s \in {"drafted", "packaged", "imported"}
      packed == s \in {"packaged", "imported"}
  IN  /\ row = [status |-> StatusAt[s],
                documents |-> born,
                plan |-> IF reviewed THEN Pages \ Scanned ELSE {},
                review |-> IF reviewed THEN "ready" ELSE "none",
                manifest |-> packed]
      /\ dir = IF born THEN "inbox" ELSE "none"
      /\ text = [p \in Pages |-> IF born THEN Extracted(p) ELSE "none"]
      /\ draft = IF reviewed THEN Blank ELSE Nil
      /\ package = IF packed THEN "whole" ELSE "none"
      /\ corpus = (s = "imported")

Nothing == [row |-> Nil, text |-> Nil, draft |-> Nil]

Init ==
  /\ \E s \in Stages : AtStage(s)
  /\ Q!Init
  /\ pc = [a \in Actors |-> "idle"]
  /\ mem = [a \in Actors |-> Nothing]
  /\ faults = 0

-----------------------------------------------------------------------------
(* Steps *)

At(a, l) == pc[a] = l
Go(a, l) == pc' = [pc EXCEPT ![a] = l]

\* The actor's operation is over, or raised an exception.
End(a) == Go(a, "done") /\ mem' = [mem EXCEPT ![a] = Nothing]

ReadRow(a, l)   == Go(a, l) /\ mem' = [mem EXCEPT ![a].row = row]
ReadText(a, l)  == Go(a, l) /\ mem' = [mem EXCEPT ![a].text = text]
ReadDraft(a, l) == Go(a, l) /\ mem' = [mem EXCEPT ![a].draft = draft]

\* Mutant: INSERT OR REPLACE instead of UPDATE.
Upsert(new) == row' = new

\* update_content_import_job: an UPDATE by import_id, which raises when there
\* is no row.  Callers give the summary they hold, however old.
UpdateRow(new) == row' = IF Exists THEN new ELSE row

\* Mutant: the import is marked, not its draft.
InvalidateImport(r) == [r EXCEPT !.status = "stale"]

\* _invalidate_review_draft
Invalidate(r) == [r EXCEPT !.review = IF r.review = "none" THEN "none" ELSE "stale"]

\* _import_sidecar_path: files are only written into an existing inbox.
Inbox == dir = "inbox"

-----------------------------------------------------------------------------
(* create_import: the directory with the files, then the row *)

Create(r) ==
  /\ At(r, "idle") /\ row.status = "unborn" /\ dir = "none"
  /\ dir' = "inbox"
  /\ \E structured \in BOOLEAN : package' = IF structured THEN "whole" ELSE "none"
  /\ Go(r, "insert")
  /\ UNCHANGED <<row, text, draft, corpus, jobq, mem, faults>>

\* An upload with a manifest can be imported as it is.
InsertRow(r) ==
  /\ At(r, "insert")
  /\ LET whole == package = "whole"
     IN  row' = [row EXCEPT !.status = IF whole THEN "ready_to_import" ELSE "needs_structuring",
                            !.manifest = whole]
  /\ End(r)
  /\ UNCHANGED <<files, jobq, faults>>

\* The INSERT raises: what was stored is removed again.
InsertFails(r) ==
  /\ At(r, "insert") /\ faults < MaxFaults
  /\ faults' = faults + 1
  /\ dir' = "none" /\ package' = "none"
  /\ End(r)
  /\ UNCHANGED <<row, text, draft, corpus, jobq>>

-----------------------------------------------------------------------------
(* The requests that queue work: the row first, then the job *)

\* queue_import_preparation
AskPrepare(r) ==
  /\ At(r, "idle") /\ Exists
  /\ IF row.status \in ActiveStatuses \cup {"ready_to_import", "imported"}
     THEN Go(r, "submit_prepare") /\ UNCHANGED mem
     ELSE ReadRow(r, "queue_prepare")
  /\ UNCHANGED <<row, files, jobq, faults>>

QueuePrepare(r) ==
  /\ At(r, "queue_prepare")
  /\ UpdateRow([mem[r].row EXCEPT !.status = "queued"])
  /\ Go(r, "submit_prepare")
  /\ UNCHANGED <<files, jobq, mem, faults>>

\* queue_import_ocr and _prepared_ocr_document
AskOcr(r) ==
  /\ At(r, "idle") /\ Exists
  /\ IF row.status \in {"ocr_queued", "ocr_running"}
     THEN Go(r, "submit_ocr") /\ UNCHANGED mem
     ELSE row.documents /\ ReadRow(r, "queue_ocr")
  /\ UNCHANGED <<row, files, jobq, faults>>

QueueOcr(r) ==
  /\ At(r, "queue_ocr")
  /\ UpdateRow([mem[r].row EXCEPT !.status = "ocr_queued"])
  /\ Go(r, "submit_ocr")
  /\ UNCHANGED <<files, jobq, mem, faults>>

\* The endpoint of the review draft queues nothing in the row.
AskDraft(r) ==
  /\ At(r, "idle") /\ Exists /\ row.status # "draft_building"
  /\ Go(r, "submit_draft")
  /\ UNCHANGED <<row, files, jobq, mem, faults>>

\* A key that has an active job gets no second one.
SubmitJob(r, kind) ==
  \E j \in Jobs :
    /\ Work[j].kind = kind
    /\ \/ Q!Submit(j)
       \/ (\E k \in Jobs : Work[k] = Work[j] /\ queue[k] \in Q!Active) /\ UNCHANGED jobq

\* The row is read again, and the job is submitted if it (still) is queued.
SubmitPrepare(r) ==
  /\ At(r, "submit_prepare")
  /\ IF row.status = "queued" THEN SubmitJob(r, "prepare") ELSE UNCHANGED jobq
  /\ End(r)
  /\ UNCHANGED <<row, files, faults>>

SubmitOcr(r) ==
  /\ At(r, "submit_ocr")
  /\ IF row.status = "ocr_queued" THEN SubmitJob(r, "ocr") ELSE UNCHANGED jobq
  /\ End(r)
  /\ UNCHANGED <<row, files, faults>>

SubmitDraft(r) ==
  /\ At(r, "submit_draft")
  /\ SubmitJob(r, "draft")
  /\ End(r)
  /\ UNCHANGED <<row, files, faults>>

-----------------------------------------------------------------------------
(* Jobs: execute_background_job starts one of the three kinds *)

JobBegins(j) ==
  /\ Q!Begin(j)
  /\ Go(j, "read")
  /\ UNCHANGED <<row, files, mem, faults>>

Kind(j, kind) == Work[j].kind = kind

\* The work is over: its process records that in the queue.
JobExits(j) ==
  /\ At(j, "exit")
  /\ Q!Finish(j)
  /\ End(j)
  /\ UNCHANGED <<row, files, faults>>

\* The work raised: the process ends with the exception.
JobRaises(j) ==
  /\ At(j, "raise")
  /\ Q!Raise(j)
  /\ End(j)
  /\ UNCHANGED <<row, files, faults>>

JobKilled(j) ==
  /\ process[j] = "working" /\ faults < MaxFaults
  /\ faults' = faults + 1
  /\ Q!Raise(j)
  /\ End(j)
  /\ UNCHANGED <<row, files>>

Begun(j) == pc[j] \in {"read_text", "store_text", "read_old", "store_draft",
                       "reread", "finish"}

\* A step of the work raises, as every access to a missing inbox does.  What
\* failed is recorded over the summary that the job read first (preparation)
\* or over the current one.
JobFails(j) ==
  /\ Begun(j)
  /\ \/ ~Inbox /\ UNCHANGED faults
     \/ ~Exists /\ UNCHANGED faults
     \/ faults < MaxFaults /\ faults' = faults + 1
  /\ IF Kind(j, "prepare") THEN Go(j, "fail") /\ UNCHANGED mem
     ELSE ReadRow(j, "fail")
  /\ UNCHANGED <<row, files, jobq>>

GivenUp(r, building) ==
  [r EXCEPT !.status = "failed", !.review = IF building THEN "failed" ELSE r.review]

RecordFailure(j) ==
  /\ At(j, "fail")
  /\ UpdateRow(GivenUp(mem[j].row, Kind(j, "draft")))
  /\ Go(j, "raise")
  /\ UNCHANGED <<files, jobq, mem, faults>>

\* What a job reads first decides whether there is anything to do.
JobReads(j) ==
  /\ At(j, "read")
  /\ IF Exists /\ Kind(j, "prepare") /\ row.status \in {"ready_to_import", "imported"}
     THEN Go(j, "exit") /\ UNCHANGED mem
     ELSE IF Exists /\ (Kind(j, "ocr") => row.documents) /\ (Kind(j, "draft") => row.plan # {})
     THEN ReadRow(j, "mark")
     ELSE Go(j, "raise") /\ UNCHANGED mem
  /\ UNCHANGED <<row, files, jobq, faults>>

Working == [prepare |-> "preparing", ocr |-> "ocr_running", draft |-> "draft_building"]

JobMarks(j) ==
  /\ At(j, "mark")
  /\ LET r == mem[j].row
     IN  UpdateRow([r EXCEPT !.status = Working[Work[j].kind],
                             !.review = IF Kind(j, "draft") THEN "building" ELSE r.review])
  /\ Go(j, IF Exists THEN "read_text" ELSE "raise")
  /\ UNCHANGED <<files, jobq, mem, faults>>

\* _read_page_text_store.  OCR reads the texts when its engine is through.  A
\* draft needs a text for each page of the plan it read when it started.
JobReadsText(j) ==
  /\ At(j, "read_text") /\ Inbox
  /\ IF ~Kind(j, "draft") THEN ReadText(j, "store_text")
     ELSE IF \E p \in mem[j].row.plan : text[p] = "none"
     THEN ReadRow(j, "fail")
     ELSE Go(j, "read_old") /\ UNCHANGED mem
  /\ UNCHANGED <<row, files, jobq, faults>>

-----------------------------------------------------------------------------
(* prepare_import and run_import_ocr *)

\* Mutant: a fresh store instead of the merged one.
ExtractAgain(old) == [p \in Pages |-> Extracted(p)]

\* Pages that were recognised before keep that text.
MergeText(old) == [p \in Pages |-> IF old[p] = "ocr" THEN "ocr" ELSE Extracted(p)]

StorePrepared(j) ==
  /\ At(j, "store_text") /\ Kind(j, "prepare") /\ Inbox
  /\ text' = MergeText(mem[j].text)
  /\ Go(j, "finish")
  /\ UNCHANGED <<row, dir, draft, package, corpus, jobq, mem, faults>>

FinishPrepare(j) ==
  /\ At(j, "finish") /\ Kind(j, "prepare") /\ Inbox /\ Exists
  /\ UpdateRow([mem[j].row EXCEPT !.status = "ready_for_review", !.documents = TRUE])
  /\ Go(j, "exit")
  /\ UNCHANGED <<files, jobq, mem, faults>>

\* The engine finds text on some of the pages; the others become empty.
StoreRecognised(j) ==
  /\ At(j, "store_text") /\ Kind(j, "ocr") /\ Inbox
  /\ \E found \in SUBSET Work[j].pages :
       text' = [p \in Pages |-> IF p \in found THEN "ocr"
                                ELSE IF p \in Work[j].pages THEN "none"
                                ELSE mem[j].text[p]]
  /\ Go(j, "reread")
  /\ UNCHANGED <<row, dir, draft, package, corpus, jobq, mem, faults>>

RereadRow(j) ==
  /\ At(j, "reread") /\ Exists
  /\ ReadRow(j, "finish")
  /\ UNCHANGED <<row, files, jobq, faults>>

FinishOcr(j) ==
  /\ At(j, "finish") /\ Kind(j, "ocr") /\ Inbox /\ Exists
  /\ UpdateRow(Invalidate([mem[j].row EXCEPT !.status = "ready_for_review"]))
  /\ Go(j, "exit")
  /\ UNCHANGED <<files, jobq, mem, faults>>

-----------------------------------------------------------------------------
(* build_import_review_draft *)

ReadOldDraft(j) ==
  /\ At(j, "read_old") /\ Inbox
  /\ ReadDraft(j, "store_draft")
  /\ UNCHANGED <<row, files, jobq, faults>>

\* Mutant: the new segments without what was found in the old ones.
RebuiltBlank(old) == Blank

\* Issues and annotations of the draft before are carried over.
Rebuilt(old) == IF old = Nil THEN Blank ELSE old

StoreDraft(j) ==
  /\ At(j, "store_draft") /\ Inbox
  /\ draft' = Rebuilt(mem[j].draft)
  /\ Go(j, "reread")
  /\ UNCHANGED <<row, dir, text, package, corpus, jobq, mem, faults>>

FinishDraft(j) ==
  /\ At(j, "finish") /\ Kind(j, "draft") /\ Exists
  /\ UpdateRow([mem[j].row EXCEPT !.status = "draft_ready", !.review = "ready"])
  /\ Go(j, "exit")
  /\ UNCHANGED <<files, jobq, mem, faults>>

-----------------------------------------------------------------------------
(* Review: page plan, segments, annotations, issues, audio *)

AskPlan(r) ==
  /\ At(r, "idle") /\ Exists /\ row.documents
  /\ ReadRow(r, "plan")
  /\ UNCHANGED <<row, files, jobq, faults>>

Planned(r, plan) ==
  [r EXCEPT !.plan = plan,
            !.status = IF r.status = "draft_ready" THEN "ready_for_review" ELSE r.status]

\* update_import_page_plan: the status it read is written back.
StorePlan(r) ==
  /\ At(r, "plan")
  /\ IF Inbox
     THEN \E plan \in SUBSET Pages : UpdateRow(Invalidate(Planned(mem[r].row, plan)))
     ELSE UNCHANGED row
  /\ End(r)
  /\ UNCHANGED <<files, jobq, faults>>

\* read_import_review_draft, at the start of a change to a segment, an
\* annotation or an issue.
AskReview(r) ==
  /\ At(r, "idle") /\ Exists /\ Inbox /\ draft # Nil
  /\ \E change \in {"segment", "annotation", "issue"} : ReadDraft(r, change)
  /\ UNCHANGED <<row, files, jobq, faults>>

\* The text and the state of a segment: nothing the properties tell apart.
SegmentUpdated(old) == old
AnnotationUpdated(old, r) == [old EXCEPT !.annotations = @ \cup {r}]
IssueRecorded(old, r) == [old EXCEPT !.issues = @ \cup {r}]

\* _write_review_draft
StoreReview(r) ==
  /\ pc[r] \in {"segment", "annotation", "issue"}
  /\ IF Inbox
     THEN /\ draft' = IF At(r, "issue") THEN IssueRecorded(mem[r].draft, r)
                      ELSE IF At(r, "annotation") THEN AnnotationUpdated(mem[r].draft, r)
                      ELSE SegmentUpdated(mem[r].draft)
          /\ Go(r, "review_row")
          /\ UNCHANGED mem
     ELSE End(r) /\ UNCHANGED draft
  /\ UNCHANGED <<row, dir, text, package, corpus, jobq, faults>>

ReviewReadsRow(r) ==
  /\ At(r, "review_row")
  /\ ReadRow(r, "review_write")
  /\ UNCHANGED <<row, files, jobq, faults>>

\* Whatever the status was.
ReviewWritesRow(r) ==
  /\ At(r, "review_write")
  /\ UpdateRow([mem[r].row EXCEPT !.status = "draft_ready", !.review = "ready"])
  /\ End(r)
  /\ UNCHANGED <<files, jobq, faults>>

\* update_audio_review, after the audio's own file is written.
AskAudio(r) ==
  /\ At(r, "idle") /\ Exists /\ Inbox
  /\ ReadRow(r, "audio")
  /\ UNCHANGED <<row, files, jobq, faults>>

StoreAudio(r) ==
  /\ At(r, "audio")
  /\ LET old == mem[r].row.status
     IN  UpdateRow([mem[r].row EXCEPT !.status =
           IF old \in {"failed", "needs_structuring"} THEN "ready_for_review" ELSE old])
  /\ End(r)
  /\ UNCHANGED <<files, jobq, faults>>

-----------------------------------------------------------------------------
(* build_private_corpus_package and process_import *)

\* _blocker_scope: every issue of the model is a blocker of unknown scope.
Blocked(d) == d.issues # {}

AskPackage(r) ==
  /\ At(r, "idle") /\ Exists /\ row.status # "imported"
  /\ ReadRow(r, "compile")
  /\ UNCHANGED <<row, files, jobq, faults>>

\* The draft is read and compiled, then the JSONL files are written ...
WriteContent(r) ==
  /\ At(r, "compile")
  /\ IF Inbox /\ draft # Nil /\ ~Blocked(draft)
     THEN /\ package' = IF package = "none" THEN "content" ELSE package
          /\ Go(r, "manifest") /\ UNCHANGED mem
     ELSE End(r) /\ UNCHANGED package
  /\ UNCHANGED <<row, dir, text, draft, corpus, jobq, faults>>

\* ... then the manifest ...
WriteManifest(r) ==
  /\ At(r, "manifest")
  /\ IF Inbox THEN package' = "whole" /\ Go(r, "package_row") /\ UNCHANGED mem
     ELSE End(r) /\ UNCHANGED package
  /\ UNCHANGED <<row, dir, text, draft, corpus, jobq, faults>>

\* ... and the row gets them with the summary read at the start.
WritePackageRow(r) ==
  /\ At(r, "package_row")
  /\ UpdateRow([mem[r].row EXCEPT !.status = "ready_to_import", !.manifest = TRUE])
  /\ End(r)
  /\ UNCHANGED <<files, jobq, faults>>

AskImport(r) ==
  /\ At(r, "idle") /\ Exists /\ row.status # "imported" /\ row.manifest
  /\ ReadRow(r, "import")
  /\ UNCHANGED <<row, files, jobq, faults>>

\* import_manifest, or the exception it raises.
ImportContent(r) ==
  /\ At(r, "import")
  /\ \/ /\ Inbox /\ package = "whole"
        /\ corpus' = TRUE /\ Go(r, "import_row") /\ UNCHANGED faults
     \/ /\ ~Inbox
        /\ Go(r, "import_failed") /\ UNCHANGED <<corpus, faults>>
     \/ /\ faults < MaxFaults /\ faults' = faults + 1
        /\ Go(r, "import_failed") /\ UNCHANGED corpus
  /\ UNCHANGED <<row, dir, text, draft, package, jobq, mem>>

\* Mutant: the same status for both outcomes.
ImportedAnyway(r) == "imported"

OutcomeStatus(r) == IF At(r, "import_row") THEN "imported" ELSE "failed"

RecordImport(r) ==
  /\ pc[r] \in {"import_row", "import_failed"}
  /\ UpdateRow([mem[r].row EXCEPT !.status = OutcomeStatus(r)])
  /\ End(r)
  /\ UNCHANGED <<files, jobq, faults>>

-----------------------------------------------------------------------------
(* delete_import: move the directory away, delete the row, remove the rest *)

AskDelete(r) ==
  /\ At(r, "idle") /\ Exists /\ row.status \notin ActiveStatuses \cup {"imported"}
  /\ Go(r, "stage")
  /\ UNCHANGED <<row, files, jobq, mem, faults>>

StageInbox(r) ==
  /\ At(r, "stage")
  /\ IF Inbox THEN dir' = "staging" /\ Go(r, "delete_row") /\ UNCHANGED mem
     ELSE End(r) /\ UNCHANGED dir
  /\ UNCHANGED <<row, text, draft, package, corpus, jobq, faults>>

DeleteRow(r) ==
  /\ At(r, "delete_row")
  /\ row' = [row EXCEPT !.status = "deleted"]
  /\ Go(r, "remove")
  /\ UNCHANGED <<files, jobq, mem, faults>>

\* The DELETE raised: the directory goes back.
Unstaged == "inbox"

DeleteRowFails(r) ==
  /\ At(r, "delete_row") /\ faults < MaxFaults
  /\ faults' = faults + 1
  /\ dir' = Unstaged
  /\ End(r)
  /\ UNCHANGED <<row, text, draft, package, corpus, jobq>>

RemoveStaged(r) ==
  /\ At(r, "remove")
  /\ dir' = "none"
  /\ text' = [p \in Pages |-> "none"] /\ draft' = Nil /\ package' = "none"
  /\ End(r)
  /\ UNCHANGED <<row, corpus, jobq, faults>>

-----------------------------------------------------------------------------
(* The service goes down, with its requests and not with the jobs, and is    *)
(* started again: imports that look active are given up, then queue rows.    *)

Crash ==
  /\ faults < MaxFaults
  /\ faults' = faults + 1
  /\ pc'  = [a \in Actors |-> IF a \in Jobs THEN pc[a]
                              ELSE IF a = Recovery THEN "list" ELSE "done"]
  /\ mem' = [a \in Actors |-> IF a \in Jobs THEN mem[a] ELSE Nothing]
  /\ UNCHANGED <<row, files, jobq>>

ListActive ==
  /\ At(Recovery, "list")
  /\ IF row.status \in ActiveStatuses THEN ReadRow(Recovery, "recover")
     ELSE Go(Recovery, "queue") /\ UNCHANGED mem
  /\ UNCHANGED <<row, files, jobq, faults>>

Recover ==
  /\ At(Recovery, "recover")
  /\ UpdateRow(GivenUp(mem[Recovery].row, mem[Recovery].row.status = "draft_building"))
  /\ Go(Recovery, "queue")
  /\ UNCHANGED <<files, jobq, mem, faults>>

RecoverQueue ==
  /\ At(Recovery, "queue")
  /\ Q!GiveUp({j \in Jobs : queue[j] = "running"})
  /\ End(Recovery)
  /\ UNCHANGED <<row, files, faults>>

Ask(r) ==
  \/ Create(r) \/ AskPrepare(r) \/ AskOcr(r) \/ AskDraft(r) \/ AskPlan(r)
  \/ AskReview(r) \/ AskAudio(r) \/ AskPackage(r) \/ AskImport(r) \/ AskDelete(r)

Up == pc[Recovery] \in {"idle", "done"}

RequestStep(r) ==
  \/ InsertRow(r) \/ InsertFails(r)
  \/ QueuePrepare(r) \/ QueueOcr(r) \/ SubmitPrepare(r) \/ SubmitOcr(r) \/ SubmitDraft(r)
  \/ StorePlan(r) \/ StoreReview(r) \/ ReviewReadsRow(r) \/ ReviewWritesRow(r) \/ StoreAudio(r)
  \/ WriteContent(r) \/ WriteManifest(r) \/ WritePackageRow(r)
  \/ ImportContent(r) \/ RecordImport(r)
  \/ StageInbox(r) \/ DeleteRow(r) \/ DeleteRowFails(r) \/ RemoveStaged(r)

JobStep(j) ==
  \/ JobReads(j) \/ JobMarks(j) \/ JobReadsText(j)
  \/ StorePrepared(j) \/ FinishPrepare(j) \/ StoreRecognised(j) \/ RereadRow(j)
  \/ FinishOcr(j) \/ ReadOldDraft(j) \/ StoreDraft(j) \/ FinishDraft(j)
  \/ JobFails(j) \/ RecordFailure(j) \/ JobExits(j) \/ JobRaises(j) \/ JobKilled(j)

Next ==
  \/ \E r \in Requests : (Up /\ Ask(r)) \/ RequestStep(r)
  \/ \E j \in Jobs : (Up /\ JobBegins(j)) \/ JobStep(j)
  \/ Crash \/ ListActive \/ Recover \/ RecoverQueue

Spec == Init /\ [][Next]_vars

-----------------------------------------------------------------------------
(* Properties *)

Statuses == Absent \cup ActiveStatuses \cup
  {"needs_structuring", "ready_for_review", "draft_ready", "ready_to_import",
   "imported", "failed"}

Rows == [status: Statuses, documents: BOOLEAN, plan: SUBSET Pages,
         review: {"none", "building", "ready", "stale", "failed"}, manifest: BOOLEAN]
Texts == [Pages -> {"none", "text", "ocr"}]
Drafts == [issues: SUBSET Requests, annotations: SUBSET Requests]
Memory == [row: Rows \cup {Nil}, text: Texts \cup {Nil}, draft: Drafts \cup {Nil}]

Steps ==
  {"idle", "done", "insert", "queue_prepare", "submit_prepare", "queue_ocr", "submit_ocr",
   "submit_draft", "plan", "segment", "annotation", "issue", "review_row", "review_write",
   "audio", "compile", "manifest", "package_row", "import", "import_row", "import_failed",
   "stage", "delete_row", "remove",
   "read", "mark", "read_text", "store_text", "read_old", "store_draft", "reread", "finish",
   "fail", "raise", "exit", "list", "recover", "queue"}

ASSUME NilAssumption == Nil \notin Rows \cup Texts \cup Drafts

\* Types, and a job's process is working exactly while the job is between its
\* first and its last step.
TypeOK ==
  /\ row \in Rows
  /\ dir \in {"none", "inbox", "staging"}
  /\ text \in Texts
  /\ draft \in Drafts \cup {Nil}
  /\ package \in {"none", "content", "whole"}
  /\ corpus \in BOOLEAN
  /\ queue \in [Jobs -> Q!Active \cup Q!Ended \cup {"absent"}]
  /\ process \in [Jobs -> {"none", "working", "gone"}]
  /\ pc \in [Actors -> Steps] /\ mem \in [Actors -> Memory]
  /\ \A j \in Jobs : process[j] = "working" <=> pc[j] \notin {"idle", "done"}
  /\ faults \in 0..MaxFaults

\* What the row speaks of is there, although files and row are written apart
\* and rows from old copies: the directory itself (unless a crash struck a
\* deletion), a draft that is ready, the package that its manifest
\* names, and the content once it is imported.
RecordedIsThere ==
  Exists =>
    /\ \/ dir = "inbox"
       \/ dir = "staging" /\ pc[Recovery] # "idle"
       \/ dir = "staging" /\ \E r \in Requests : At(r, "delete_row")
    /\ row.review = "ready" => draft # Nil
    /\ row.manifest => package = "whole"
    /\ row.status = "imported" => corpus

\* A deleted import stays deleted, whichever requests and jobs of it are still
\* under way: no row and no directory of it comes back.
DeletedStays ==
  [][row.status = "deleted" => row'.status = "deleted" /\ dir' # "inbox"]_vars

\* Who has read the draft, or the page texts, and is about to write them.
Rewriting == {a \in Actors : pc[a] \in {"store_draft", "segment", "annotation", "issue"}}
Merging == {j \in Jobs : At(j, "store_text")}

Notes(d) ==
  IF d = Nil THEN {}
  ELSE ({"issue"} \X d.issues) \cup ({"annotation"} \X d.annotations)

\* What was recorded, and is known to everybody who is about to write.
SettledNotes == {n \in Notes(draft) : \A a \in Rewriting : n \in Notes(mem[a].draft)}
SettledText == {p \in Pages : text[p] = "ocr" /\ \A j \in Merging : mem[j].text[p] = "ocr"}

\* Issues, annotations and recognised text outlast all later work on the
\* import, rebuilds of the draft and repeated preparations included, once
\* nobody is left who read before they were recorded; only the OCR of a page
\* replaces what was recognised on it.  It does not say that two writers who
\* run beside each other keep each other's work: the one that read first and
\* writes last does overwrite it, and nothing in the code prevents that.
WorkKept ==
  [][dir' # "none" =>
       /\ SettledNotes \subseteq SettledNotes'
       /\ \A p \in SettledText \ SettledText' :
            \E j \in Merging \ Merging' : Kind(j, "ocr") /\ p \in Work[j].pages]_vars
=============================================================================
