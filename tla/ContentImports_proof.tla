------------------------- MODULE ContentImports_proof -------------------------
(***************************************************************************)
(* Proofs about ContentImports, for every number of pages, requests, jobs  *)
(* and faults.                                                             *)
(***************************************************************************)
EXTENDS ContentImports, TLAPS

(***************************************************************************)
(* The invariant                                                           *)
(***************************************************************************)
\* What a row speaks of is on disk.
Backed(r) ==
  /\ r.review = "ready" => draft # Nil
  /\ r.manifest => package = "whole"
  /\ r.status = "imported" => corpus

\* A row that may be written over the one there is, if that is still there.
Fit(r) ==
  /\ r.status # "unborn"
  /\ r.status = "deleted" => row.status = "deleted"
  /\ row.status # "deleted" => Backed(r)

\* The row and the directory.
Stored ==
  /\ row.status # "deleted" => Backed(row)
  /\ row.status = "unborn" => row.review = "none" /\ ~row.manifest
  /\ row.status = "deleted" => dir # "inbox"
  /\ Exists => \/ dir = "inbox"
               \/ dir = "staging" /\ pc[Recovery] # "idle"
               \/ dir = "staging" /\ \E r \in Requests : At(r, "delete_row")

\* Between these steps the directory is an actor's own.
Own == {"insert", "delete_row", "remove"}
Alone == \A a \in Actors : \A b \in Actors : pc[a] \in Own /\ pc[b] \in Own => a = b

\* Steps that write a row they have read.
Updates ==
  {"queue_prepare", "queue_ocr", "plan", "review_write", "audio", "compile", "manifest",
   "package_row", "import", "import_row", "import_failed", "recover",
   "mark", "read_text", "store_text", "read_old", "store_draft", "reread", "finish", "fail"}

\* Where an actor is before the import is there, or when it no longer matters.
Outside == {"idle", "done", "insert", "list", "queue", "read", "exit", "raise"}

\* What an actor has in memory at the step it is at, and what it relies on.
Holds(a) ==
  /\ mem[a].row # Nil => Fit(mem[a].row) /\ row.status # "unborn"
  /\ pc[a] \in Updates => mem[a].row # Nil
  /\ pc[a] \in {"segment", "annotation", "issue"} => mem[a].draft # Nil
  /\ pc[a] = "store_text" => mem[a].text # Nil
  /\ \/ pc[a] \in {"review_row", "review_write"}
     \/ pc[a] \in {"reread", "finish"} /\ Kind(a, "draft")
     => draft # Nil \/ row.status = "deleted"
  /\ pc[a] = "package_row" => package = "whole" \/ row.status = "deleted"
  /\ pc[a] = "import_row" => corpus
  /\ pc[a] \notin Outside => row.status # "unborn"
  /\ pc[a] \in Own => a \in Requests
  /\ pc[a] = "insert" => row.status = "unborn" /\ dir = "inbox"
  /\ pc[a] = "delete_row" => Exists /\ dir = "staging"
  /\ pc[a] = "remove" => row.status = "deleted" /\ dir = "staging"

Inv == TypeOK /\ Stored /\ Alone /\ (\A a \in Actors : Holds(a))
(***************************************************************************)
(* Rows                                                                    *)
(***************************************************************************)
\* A row with another status, if that is no claim the disk does not back.
LEMMA StatusPut ==
  ASSUME NEW r \in Rows, Fit(r), NEW s \in Statuses \ Absent, s = "imported" => corpus
  PROVE  [r EXCEPT !.status = s] \in Rows /\ Fit([r EXCEPT !.status = s])
<1> DEFINE new == [r EXCEPT !.status = s]
<1>1. /\ new \in Rows /\ new.status = s /\ new.review = r.review /\ new.manifest = r.manifest
  BY DEF Rows
<1> HIDE DEF new
<1> QED BY <1>1 DEF Fit, Backed, Absent, new

\* A row with another status, and the review of what is or is not there.
LEMMA ReviewPut ==
  ASSUME NEW r \in Rows, Fit(r), NEW s \in Statuses \ (Absent \cup {"imported"}),
         NEW v \in {"none", "building", "ready", "stale", "failed"},
         v = "ready" => draft # Nil \/ row.status = "deleted" \/ r.review = "ready"
  PROVE  LET new == [r EXCEPT !.status = s, !.review = v] IN new \in Rows /\ Fit(new)
<1> DEFINE new == [r EXCEPT !.status = s, !.review = v]
<1>1. new \in Rows /\ new.status = s /\ new.review = v /\ new.manifest = r.manifest
  BY DEF Rows
<1> HIDE DEF new
<1> QED BY <1>1 DEF Fit, Backed, Absent, new

\* A row that names the package.
LEMMA ManifestPut ==
  ASSUME NEW r \in Rows, Fit(r), package = "whole" \/ row.status = "deleted"
  PROVE  LET new == [r EXCEPT !.status = "ready_to_import", !.manifest = TRUE]
         IN  new \in Rows /\ Fit(new)
<1> DEFINE new == [r EXCEPT !.status = "ready_to_import", !.manifest = TRUE]
<1>1. new \in Rows /\ new.status = "ready_to_import" /\ new.review = r.review
  BY DEF Rows, Statuses
<1> HIDE DEF new
<1> QED BY <1>1 DEF Fit, Backed, new

\* A row that names the documents.
LEMMA DocumentsPut ==
  ASSUME NEW r \in Rows, Fit(r)
  PROVE  LET new == [r EXCEPT !.status = "ready_for_review", !.documents = TRUE]
         IN  new \in Rows /\ Fit(new)
<1> DEFINE new == [r EXCEPT !.status = "ready_for_review", !.documents = TRUE]
<1>1. /\ new \in Rows /\ new.status = "ready_for_review" /\ new.review = r.review
      /\ new.manifest = r.manifest
  BY DEF Rows, Statuses
<1> HIDE DEF new
<1> QED BY <1>1 DEF Fit, Backed, new

\* _invalidate_review_draft never makes a draft ready.
LEMMA InvalidateIs ==
  ASSUME NEW r \in Rows, Fit(r)
  PROVE  Invalidate(r) \in Rows /\ Fit(Invalidate(r))
<1> DEFINE v == IF r.review = "none" THEN "none" ELSE "stale"
           new == [r EXCEPT !.review = v]
<1>1. v \in {"none", "stale"}
  OBVIOUS
<1>2. Invalidate(r) = new
  BY DEF Invalidate
<1> HIDE DEF v
<1>3. new \in Rows /\ new.status = r.status /\ new.review = v /\ new.manifest = r.manifest
  BY <1>1 DEF Rows
<1> HIDE DEF new
<1> QED BY <1>1, <1>2, <1>3 DEF Fit, Backed

\* A page plan takes back that the draft is ready, and no other status.
LEMMA PlannedIs ==
  ASSUME NEW r \in Rows, Fit(r), NEW plan \in SUBSET Pages
  PROVE  Planned(r, plan) \in Rows /\ Fit(Planned(r, plan))
<1> DEFINE s == IF r.status = "draft_ready" THEN "ready_for_review" ELSE r.status
           new == [r EXCEPT !.plan = plan, !.status = s]
<1>1. s \in Statuses /\ (s = r.status \/ s = "ready_for_review")
  BY DEF Rows, Statuses
<1>2. Planned(r, plan) = new
  BY DEF Planned
<1> HIDE DEF s
<1>3. new \in Rows /\ new.status = s /\ new.review = r.review /\ new.manifest = r.manifest
  BY <1>1 DEF Rows
<1> HIDE DEF new
<1> QED BY <1>1, <1>2, <1>3 DEF Fit, Backed

\* What failed is recorded over a row without claiming anything new.
LEMMA GivenUpIs ==
  ASSUME NEW r \in Rows, Fit(r), NEW building \in BOOLEAN
  PROVE  GivenUp(r, building) \in Rows /\ Fit(GivenUp(r, building))
<1> DEFINE v == IF building THEN "failed" ELSE r.review
<1>1. /\ v \in {"none", "building", "ready", "stale", "failed"}
      /\ v = "ready" => r.review = "ready"
  BY DEF Rows
<1>2. GivenUp(r, building) = [r EXCEPT !.status = "failed", !.review = v]
  BY DEF GivenUp
<1> HIDE DEF v
<1>3. "failed" \in Statuses \ (Absent \cup {"imported"})
  BY DEF Statuses, Absent
<1> DEFINE new == [r EXCEPT !.status = "failed", !.review = v]
<1>4. new \in Rows /\ Fit(new)
  BY <1>1, <1>3, ReviewPut
<1> QED BY <1>2, <1>4

(***************************************************************************)
(* Steps                                                                   *)
(***************************************************************************)
\* A step that leaves the directory alone, keeps what rows speak of, and writes no
\* row but over one that is there.
Quiet ==
  /\ row' \in Rows
  /\ \/ row' = row
     \/ Exists /\ Exists' /\ Backed(row)'
  /\ dir' = dir
  /\ text' \in Texts /\ draft' \in Drafts \cup {Nil}
  /\ package' \in {"none", "content", "whole"} /\ corpus' \in BOOLEAN
  /\ draft # Nil => draft' # Nil
  /\ package = "whole" => package' = "whole"
  /\ corpus => corpus'

\* A step of one actor, wherever it goes and whatever it remembers.
Only(a) ==
  /\ pc' \in [Actors -> Steps] /\ mem' \in [Actors -> Memory]
  /\ \A b \in Actors \ {a} : pc'[b] = pc[b] /\ mem'[b] = mem[b]

\* Jobs and their processes.
QueueOK ==
  /\ queue \in [Jobs -> Q!Active \cup Q!Ended \cup {"absent"}]
  /\ process \in [Jobs -> {"none", "working", "gone"}]
  /\ \A j \in Jobs : process[j] = "working" <=> pc[j] \notin {"idle", "done"}

\* The updates of the row are quiet.
LEMMA UpdateIs ==
  ASSUME Inv, NEW new \in Rows, Fit(new), UpdateRow(new), UNCHANGED files
  PROVE  Quiet
<1>1. /\ row \in Rows /\ text \in Texts /\ draft \in Drafts \cup {Nil}
      /\ package \in {"none", "content", "whole"} /\ corpus \in BOOLEAN
  BY DEF Inv, TypeOK
<1>2. row' = row \/ (Exists /\ row' = new)
  BY DEF UpdateRow
<1>3. ASSUME Exists, row' = new PROVE Exists' /\ Backed(row)'
  <2>1. row.status # "deleted" /\ new.status \notin Absent
    BY <1>3 DEF Exists, Absent, Fit
  <2>2. Backed(new)
    BY <2>1 DEF Fit
  <2> QED BY <1>3, <2>1, <2>2 DEF Backed, files, Exists
<1> QED BY <1>1, <1>2, <1>3 DEF Quiet, files

\* A step that changes nothing on disk and not the row is quiet.
LEMMA IdleQuiet ==
  ASSUME Inv, UNCHANGED <<row, files>>
  PROVE  Quiet
BY DEF Inv, TypeOK, Quiet, files

\* What the others rely on stays through a quiet step.
LEMMA OthersHold ==
  ASSUME Inv, Quiet, NEW b \in Actors, pc'[b] = pc[b], mem'[b] = mem[b]
  PROVE  Holds(b)'
<1>1. row.status = "unborn" <=> row'.status = "unborn"
  BY DEF Quiet, Exists, Absent
<1>2. row.status = "deleted" <=> row'.status = "deleted"
  BY DEF Quiet, Exists, Absent
<1>3. Holds(b)
  BY DEF Inv
<1>4. Fit(mem[b].row) => Fit(mem[b].row)'
  BY <1>2 DEF Fit, Backed, Quiet
<1>5. Exists => Exists'
  BY DEF Quiet, Exists
<1>6. /\ draft # Nil \/ row.status = "deleted" => draft' # Nil \/ row'.status = "deleted"
      /\ package = "whole" \/ row.status = "deleted" => package' = "whole" \/ row'.status = "deleted"
      /\ corpus => corpus'
  BY <1>2 DEF Quiet
<1>7. dir' = dir
  BY DEF Quiet
<1> QED BY <1>1, <1>2, <1>3, <1>4, <1>5, <1>6, <1>7 DEF Holds

\* A quiet step of one actor that is alone with nothing.
LEMMA QuietKeeps ==
  ASSUME Inv, Quiet, NEW a \in Actors, Only(a), pc[a] \notin Own, pc'[a] \notin Own,
         a = Recovery => pc'[a] # "idle", Holds(a)', QueueOK', faults' \in 0..MaxFaults
  PROVE  Inv'
<1>1. TypeOK'
  BY DEF Inv, TypeOK, Quiet, Only, QueueOK
<1>2. Alone'
  BY DEF Inv, Alone, Only
<1>3. \A b \in Actors : Holds(b)'
  BY OthersHold DEF Only
<1>4. Stored'
  <2>1. row'.status # "deleted" => Backed(row)'
    BY DEF Inv, Stored, Quiet, Backed
  <2>2. row'.status = "unborn" => row' = row
    BY DEF Quiet, Exists, Absent
  <2>3. row'.status = "deleted" => row' = row
    BY DEF Quiet, Exists, Absent
  <2>4. /\ Exists' => Exists
        /\ dir' = dir
    BY DEF Quiet, Exists
  <2>5. pc[Recovery] # "idle" => pc'[Recovery] # "idle"
    BY DEF Only, Actors
  <2>6. \A r \in Requests : At(r, "delete_row") => At(r, "delete_row")'
    BY DEF Only, Actors, At, Own
  <2> QED BY <2>1, <2>2, <2>3, <2>4, <2>5, <2>6 DEF Inv, Stored
<1> QED BY <1>1, <1>2, <1>3, <1>4 DEF Inv

\* What is read into memory.
LEMMA MemoryPut ==
  ASSUME NEW m \in Memory
  PROVE  /\ \A x \in Rows : LET n == [m EXCEPT !.row = x]
                            IN  n \in Memory /\ n.row = x /\ n.text = m.text /\ n.draft = m.draft
         /\ \A x \in Texts : LET n == [m EXCEPT !.text = x]
                             IN  n \in Memory /\ n.row = m.row /\ n.text = x /\ n.draft = m.draft
         /\ \A x \in Drafts \cup {Nil} :
              LET n == [m EXCEPT !.draft = x]
              IN  n \in Memory /\ n.row = m.row /\ n.text = m.text /\ n.draft = x
BY DEF Memory

\* Every actor has a memory and a step it is at.
LEMMA MemoryOK == Inv => mem \in [Actors -> Memory] /\ pc \in [Actors -> Steps]
BY DEF Inv, TypeOK

\* Going on to another step changes that of the actor only.
LEMMA GoIs ==
  ASSUME Inv, NEW a \in Actors, NEW l \in Steps, Go(a, l), UNCHANGED mem
  PROVE  Only(a) /\ pc'[a] = l /\ mem'[a] = mem[a]
BY MemoryOK DEF Go, Only

\* An actor that is through remembers nothing.
LEMMA EndIs ==
  ASSUME Inv, NEW a \in Actors, End(a)
  PROVE  Only(a) /\ pc'[a] = "done" /\ mem'[a] = Nothing
<1>1. Nothing \in Memory
  BY DEF Nothing, Memory
<1>2. pc' = [pc EXCEPT ![a] = "done"] /\ mem' = [mem EXCEPT ![a] = Nothing]
  BY DEF End, Go
<1>3. pc' \in [Actors -> Steps] /\ pc'[a] = "done" /\ \A b \in Actors \ {a} : pc'[b] = pc[b]
  BY <1>2, MemoryOK DEF Steps
<1>4. mem' \in [Actors -> Memory] /\ mem'[a] = Nothing
      /\ \A b \in Actors \ {a} : mem'[b] = mem[b]
  BY <1>1, <1>2, MemoryOK
<1> QED BY <1>3, <1>4 DEF Only

\* Reading the row puts it into the actor's memory, and nothing else.
LEMMA ReadRowIs ==
  ASSUME Inv, NEW a \in Actors, NEW l \in Steps, ReadRow(a, l)
  PROVE  /\ Only(a) /\ pc'[a] = l
         /\ mem'[a].row = row /\ mem'[a].text = mem[a].text /\ mem'[a].draft = mem[a].draft
<1> DEFINE n == [mem[a] EXCEPT !.row = row]
<1>1. mem' = [mem EXCEPT ![a] = n] /\ pc' = [pc EXCEPT ![a] = l]
  BY DEF ReadRow, Go
<1>2. n \in Memory /\ n.row = row /\ n.text = mem[a].text /\ n.draft = mem[a].draft
  BY MemoryOK, MemoryPut DEF Inv, TypeOK
<1> HIDE DEF n
<1> QED BY <1>1, <1>2, MemoryOK DEF Only

\* Reading the page texts puts them into the actor's memory, and nothing else.
LEMMA ReadTextIs ==
  ASSUME Inv, NEW a \in Actors, NEW l \in Steps, ReadText(a, l)
  PROVE  /\ Only(a) /\ pc'[a] = l
         /\ mem'[a].row = mem[a].row /\ mem'[a].text = text /\ mem'[a].draft = mem[a].draft
<1> DEFINE n == [mem[a] EXCEPT !.text = text]
<1>1. mem' = [mem EXCEPT ![a] = n] /\ pc' = [pc EXCEPT ![a] = l]
  BY DEF ReadText, Go
<1>2. n \in Memory /\ n.row = mem[a].row /\ n.text = text /\ n.draft = mem[a].draft
  BY MemoryOK, MemoryPut DEF Inv, TypeOK
<1> HIDE DEF n
<1> QED BY <1>1, <1>2, MemoryOK DEF Only

\* Reading the review draft puts it into the actor's memory, and nothing else.
LEMMA ReadDraftIs ==
  ASSUME Inv, NEW a \in Actors, NEW l \in Steps, ReadDraft(a, l)
  PROVE  /\ Only(a) /\ pc'[a] = l
         /\ mem'[a].row = mem[a].row /\ mem'[a].text = mem[a].text /\ mem'[a].draft = draft
<1> DEFINE n == [mem[a] EXCEPT !.draft = draft]
<1>1. mem' = [mem EXCEPT ![a] = n] /\ pc' = [pc EXCEPT ![a] = l]
  BY DEF ReadDraft, Go
<1>2. n \in Memory /\ n.row = mem[a].row /\ n.text = mem[a].text /\ n.draft = draft
  BY MemoryOK, MemoryPut DEF Inv, TypeOK
<1> HIDE DEF n
<1> QED BY <1>1, <1>2, MemoryOK DEF Only

\* Between the first and the last step of a job its process works.
Within(a, l) == a \in Jobs => pc[a] \notin {"idle", "done"} /\ l \notin {"idle", "done"}

\* A step that does not touch the queue leaves jobs and processes in agreement.
LEMMA QueueStays ==
  ASSUME Inv, NEW a \in Actors, Only(a), UNCHANGED jobq, Within(a, pc'[a])
  PROVE  QueueOK'
BY DEF Inv, TypeOK, QueueOK, Only, jobq, Within, Actors

\* The row as it is may be written again.
LEMMA RowFits ==
  ASSUME Inv, row.status # "unborn"
  PROVE  row \in Rows /\ Fit(row)
BY DEF Inv, TypeOK, Stored, Fit

\* An actor that is not a job is through.
LEMMA EndKeeps ==
  ASSUME Inv, Quiet, NEW a \in Actors, a \notin Jobs, End(a), pc[a] \notin Own, UNCHANGED jobq,
         faults' \in 0..MaxFaults
  PROVE  Inv'
<1>1. Only(a) /\ pc'[a] = "done" /\ mem'[a] = Nothing
  BY EndIs
<1>2. Holds(a)'
  BY <1>1 DEF Holds, Nothing, Updates, Outside, Own
<1>3. QueueOK'
  BY <1>1, QueueStays DEF Within
<1> QED BY <1>1, <1>2, <1>3, QuietKeeps DEF Own

\* What an actor relies on at a step, beside what it remembers.
Ready(a, l) ==
  /\ \/ l \in {"review_row", "review_write"}
     \/ l \in {"reread", "finish"} /\ Kind(a, "draft")
     => draft # Nil \/ row.status = "deleted"
  /\ l = "package_row" => package = "whole" \/ row.status = "deleted"
  /\ l = "import_row" => corpus

\* An actor goes on with what it remembers.
LEMMA GoKeeps ==
  ASSUME Inv, Quiet, NEW a \in Actors, NEW l \in Steps, Go(a, l), UNCHANGED <<mem, jobq>>,
         l \notin Own \cup {"segment", "annotation", "issue", "store_text"}, pc[a] \notin Own,
         l \in Updates => pc[a] \in Updates, l \in Outside \/ row.status # "unborn",
         Ready(a, l)', Within(a, l), a = Recovery => l # "idle", faults' \in 0..MaxFaults
  PROVE  Inv'
<1>1. Only(a) /\ pc'[a] = l /\ mem'[a] = mem[a]
  BY GoIs
<1>2. row'.status # "unborn" <=> row.status # "unborn"
  BY DEF Quiet, Exists, Absent
<1>3. row'.status = "deleted" <=> row.status = "deleted"
  BY DEF Quiet, Exists, Absent
<1>4. Fit(mem[a].row) => Fit(mem[a].row)'
  BY <1>1, <1>3 DEF Fit, Backed, Quiet
<1>5. Holds(a)
  BY DEF Inv
<1>6. Holds(a)'
  BY <1>1, <1>2, <1>4, <1>5 DEF Holds, Ready, Own
<1>7. QueueOK'
  BY <1>1, QueueStays DEF Within
<1> QED BY <1>1, <1>6, <1>7, QuietKeeps

\* An actor reads the row.
LEMMA ReadKeeps ==
  ASSUME Inv, NEW a \in Actors, NEW l \in Steps, ReadRow(a, l), UNCHANGED <<row, files, jobq>>,
         l \notin Own \cup {"segment", "annotation", "issue", "store_text"}, pc[a] \notin Own,
         row.status # "unborn", Ready(a, l), Within(a, l), a = Recovery => l # "idle",
         faults' \in 0..MaxFaults
  PROVE  Inv'
<1>1. Only(a) /\ pc'[a] = l /\ mem'[a].row = row
  BY ReadRowIs
<1>2. Fit(mem[a].row)' /\ mem'[a].row # Nil
  BY <1>1, RowFits, NilAssumption DEF Fit, Backed, files
<1>3. Holds(a)'
  BY <1>1, <1>2 DEF Holds, Ready, Own, files
<1>4. QueueOK'
  BY <1>1, QueueStays DEF Within
<1> QED BY <1>1, <1>3, <1>4, IdleQuiet, QuietKeeps

(***************************************************************************)
(* Requests                                                                *)
(***************************************************************************)
\* A request is neither a job nor the recovery.
LEMMA RequestIs ==
  ASSUME NEW r \in Requests
  PROVE  r \in Actors /\ r \notin Jobs /\ r # Recovery /\ \A l : Within(r, l)
BY ImportConstantsOK DEF Actors, Within

\* Faults are counted up to their bound.
LEMMA FaultsOK == Inv => faults \in 0..MaxFaults
BY DEF Inv, TypeOK

\* What an actor remembers of the row may be written.
LEMMA RemembersRow ==
  ASSUME Inv, NEW a \in Actors, pc[a] \in Updates
  PROVE  mem[a].row \in Rows /\ Fit(mem[a].row) /\ row.status # "unborn"
<1>1. Holds(a) /\ mem[a] \in Memory
  BY MemoryOK DEF Inv
<1> QED BY <1>1 DEF Holds, Memory

\* A request reads the row.
LEMMA RequestReads ==
  ASSUME Inv, NEW r \in Requests,
         NEW l \in {"queue_prepare", "queue_ocr", "plan", "audio", "compile", "import", "review_write"},
         ReadRow(r, l), UNCHANGED <<row, files, jobq, faults>>, pc[r] \notin Own,
         row.status # "unborn", l = "review_write" => draft # Nil \/ row.status = "deleted"
  PROVE  Inv'
<1>1. /\ l \in Steps /\ l \notin Own \cup {"segment", "annotation", "issue", "store_text"}
      /\ Ready(r, l)
  BY DEF Steps, Own, Ready
<1> QED BY <1>1, ReadKeeps, RequestIs, FaultsOK

\* A request goes on without having read anything.
LEMMA RequestGoes ==
  ASSUME Inv, NEW r \in Requests, NEW l \in {"submit_prepare", "submit_ocr", "submit_draft", "stage"},
         Go(r, l), UNCHANGED <<row, files, jobq, mem, faults>>, pc[r] \notin Own,
         row.status # "unborn"
  PROVE  Inv'
<1>1. /\ l \in Steps /\ l \notin Own \cup {"segment", "annotation", "issue", "store_text"}
      /\ Ready(r, l)' /\ l \notin Updates /\ Quiet
  BY IdleQuiet DEF Steps, Own, Ready, Updates
<1> QED BY <1>1, GoKeeps, RequestIs, FaultsOK

\* The first steps of the requests, which read the row or nothing.
LEMMA AskKeeps ==
  ASSUME Inv, NEW r \in Requests,
         \/ AskPrepare(r) \/ AskOcr(r) \/ AskDraft(r) \/ AskPlan(r)
         \/ AskAudio(r) \/ AskPackage(r) \/ AskImport(r) \/ AskDelete(r)
  PROVE  Inv'
<1>1. /\ UNCHANGED <<row, files, jobq, faults>>
      /\ pc[r] \notin Own /\ row.status # "unborn"
  BY DEF AskPrepare, AskOcr, AskDraft, AskPlan, AskAudio, AskPackage, AskImport, AskDelete, At,
         Own, Exists, Absent
<1>2. \/ \E l \in {"queue_prepare", "queue_ocr", "plan", "audio", "compile", "import"} : ReadRow(r, l)
      \/ \E l \in {"submit_prepare", "submit_ocr", "submit_draft", "stage"} :
           Go(r, l) /\ UNCHANGED mem
  BY DEF AskPrepare, AskOcr, AskDraft, AskPlan, AskAudio, AskPackage, AskImport, AskDelete
<1>3. ASSUME NEW l \in {"queue_prepare", "queue_ocr", "plan", "audio", "compile", "import"},
             ReadRow(r, l)
      PROVE  Inv'
  BY <1>1, <1>3, RequestReads
<1>4. ASSUME NEW l \in {"submit_prepare", "submit_ocr", "submit_draft", "stage"},
             Go(r, l), UNCHANGED mem
      PROVE  Inv'
  BY <1>1, <1>4, RequestGoes
<1> QED BY <1>2, <1>3, <1>4

\* A change to the review needs its draft.
LEMMA AskReviewKeeps ==
  ASSUME Inv, NEW r \in Requests, AskReview(r)
  PROVE  Inv'
<1> PICK l \in {"segment", "annotation", "issue"} : ReadDraft(r, l)
  BY DEF AskReview
<1>1. /\ UNCHANGED <<row, files, jobq, faults>> /\ draft # Nil
      /\ pc[r] \notin Own /\ row.status # "unborn"
  BY DEF AskReview, At, Own, Exists, Absent
<1>2. Only(r) /\ pc'[r] = l /\ mem'[r].row = mem[r].row /\ mem'[r].draft = draft
  BY ReadDraftIs, RequestIs DEF Steps
<1>3. Quiet /\ QueueOK'
  BY <1>1, <1>2, IdleQuiet, QueueStays, RequestIs
<1>4. Fit(mem[r].row) => Fit(mem[r].row)'
  BY <1>1, <1>2 DEF Fit, Backed, files
<1>5. Holds(r)
  BY RequestIs DEF Inv
<1>6. Holds(r)'
  BY <1>1, <1>2, <1>4, <1>5 DEF Holds, Updates
<1>7. pc'[r] \notin Own
  BY <1>2 DEF Own
<1> QED BY <1>1, <1>2, <1>3, <1>6, <1>7, QuietKeeps, RequestIs, FaultsOK

\* The requests that write the row over what they have read.
LEMMA RequestUpdates ==
  ASSUME Inv, NEW r \in Requests, NEW new \in Rows, Fit(new), UpdateRow(new), End(r),
         UNCHANGED <<files, jobq, faults>>, pc[r] \notin Own
  PROVE  Inv'
BY UpdateIs, EndKeeps, RequestIs, FaultsOK

\* queue_import_preparation and queue_import_ocr write the row.
LEMMA QueueRowKeeps ==
  ASSUME Inv, NEW r \in Requests, QueuePrepare(r) \/ QueueOcr(r)
  PROVE  Inv'
<1> PICK l \in {"submit_prepare", "submit_ocr"}, s \in {"queued", "ocr_queued"} :
      UpdateRow([mem[r].row EXCEPT !.status = s]) /\ Go(r, l)
  BY DEF QueuePrepare, QueueOcr
<1> DEFINE new == [mem[r].row EXCEPT !.status = s]
<1>1. pc[r] \in Updates \ Own /\ UNCHANGED <<files, jobq, mem, faults>>
  BY DEF QueuePrepare, QueueOcr, At, Updates, Own
<1>2. new \in Rows /\ Fit(new) /\ row.status # "unborn"
  <2>1. s \in Statuses \ Absent /\ s # "imported"
    BY DEF Statuses, Absent, ActiveStatuses
  <2> QED BY <1>1, <2>1, RemembersRow, StatusPut, RequestIs
<1>3. Quiet
  BY <1>1, <1>2, UpdateIs
<1>4. /\ l \in Steps /\ l \notin Own \cup {"segment", "annotation", "issue", "store_text"}
      /\ Ready(r, l)' /\ l \notin Updates
  BY DEF Steps, Own, Ready, Updates
<1> QED BY <1>1, <1>2, <1>3, <1>4, GoKeeps, RequestIs, FaultsOK

\* update_import_page_plan writes the row, or finds no directory.
LEMMA StorePlanKeeps ==
  ASSUME Inv, NEW r \in Requests, StorePlan(r)
  PROVE  Inv'
<1>1. pc[r] \in Updates \ Own /\ UNCHANGED <<files, jobq, faults>> /\ End(r)
  BY DEF StorePlan, At, Updates, Own
<1>2. ASSUME NEW plan \in SUBSET Pages, UpdateRow(Invalidate(Planned(mem[r].row, plan)))
      PROVE  Inv'
  <2>1. /\ Invalidate(Planned(mem[r].row, plan)) \in Rows
        /\ Fit(Invalidate(Planned(mem[r].row, plan)))
    BY <1>1, RemembersRow, PlannedIs, InvalidateIs, RequestIs
  <2> QED BY <1>1, <1>2, <2>1, RequestUpdates
<1>3. CASE UNCHANGED row
  BY <1>1, <1>3, IdleQuiet, EndKeeps, RequestIs, FaultsOK
<1> QED BY <1>2, <1>3 DEF StorePlan

\* update_audio_review writes the row.
LEMMA StoreAudioKeeps ==
  ASSUME Inv, NEW r \in Requests, StoreAudio(r)
  PROVE  Inv'
<1> DEFINE old == mem[r].row.status
           s == IF old \in {"failed", "needs_structuring"} THEN "ready_for_review" ELSE old
           new == [mem[r].row EXCEPT !.status = s]
<1>1. pc[r] \in Updates \ Own /\ UNCHANGED <<files, jobq, faults>> /\ End(r) /\ UpdateRow(new)
  BY DEF StoreAudio, At, Updates, Own
<1>2. mem[r].row \in Rows /\ Fit(mem[r].row)
  BY <1>1, RemembersRow, RequestIs
<1>3. s \in Statuses /\ (s = old \/ s = "ready_for_review")
  BY <1>2 DEF Rows, Statuses
<1> HIDE DEF s
<1>4. /\ new \in Rows /\ new.status = s
      /\ new.review = mem[r].row.review /\ new.manifest = mem[r].row.manifest
  BY <1>2, <1>3 DEF Rows
<1> HIDE DEF new
<1>5. Fit(new)
  BY <1>2, <1>3, <1>4 DEF Fit, Backed
<1> QED BY <1>1, <1>4, <1>5, RequestUpdates

\* The last steps of a review, a package and an import write what is on disk by then.
LEMMA RequestWritesKeep ==
  ASSUME Inv, NEW r \in Requests, ReviewWritesRow(r) \/ WritePackageRow(r) \/ RecordImport(r)
  PROVE  Inv'
<1>1. pc[r] \in Updates \ Own /\ UNCHANGED <<files, jobq, faults>> /\ End(r)
  BY DEF ReviewWritesRow, WritePackageRow, RecordImport, At, Updates, Own
<1>2. mem[r].row \in Rows /\ Fit(mem[r].row) /\ Holds(r)
  BY <1>1, RemembersRow, RequestIs DEF Inv
<1>3. CASE ReviewWritesRow(r)
  <2> DEFINE new == [mem[r].row EXCEPT !.status = "draft_ready", !.review = "ready"]
  <2>1. UpdateRow(new) /\ (draft # Nil \/ row.status = "deleted")
    BY <1>2, <1>3 DEF ReviewWritesRow, Holds, At
  <2>2. "draft_ready" \in Statuses \ (Absent \cup {"imported"})
    BY DEF Statuses, Absent
  <2>3. new \in Rows /\ Fit(new)
    BY <1>2, <2>1, <2>2, ReviewPut
  <2> QED BY <1>1, <2>1, <2>3, RequestUpdates
<1>4. CASE WritePackageRow(r)
  <2> DEFINE new == [mem[r].row EXCEPT !.status = "ready_to_import", !.manifest = TRUE]
  <2>1. UpdateRow(new) /\ (package = "whole" \/ row.status = "deleted")
    BY <1>2, <1>4 DEF WritePackageRow, Holds, At
  <2>2. new \in Rows /\ Fit(new)
    BY <1>2, <2>1, ManifestPut
  <2> QED BY <1>1, <2>1, <2>2, RequestUpdates
<1>5. CASE RecordImport(r)
  <2> DEFINE s == OutcomeStatus(r)
             new == [mem[r].row EXCEPT !.status = s]
  <2>1. UpdateRow(new)
    BY <1>5 DEF RecordImport
  <2>2. s \in Statuses \ Absent /\ (s = "imported" => corpus)
    BY <1>2, <1>5 DEF RecordImport, OutcomeStatus, Holds, At, Statuses, Absent
  <2> HIDE DEF s
  <2>3. new \in Rows /\ Fit(new)
    BY <1>2, <2>2, StatusPut
  <2> QED BY <1>1, <2>1, <2>3, RequestUpdates
<1> QED BY <1>3, <1>4, <1>5

\* A request that has written the draft reads the row.
LEMMA ReviewReadsRowKeeps ==
  ASSUME Inv, NEW r \in Requests, ReviewReadsRow(r)
  PROVE  Inv'
<1>1. Holds(r) /\ pc[r] = "review_row"
  BY RequestIs DEF Inv, ReviewReadsRow, At
<1>2. row.status # "unborn" /\ (draft # Nil \/ row.status = "deleted")
  BY <1>1 DEF Holds, Outside
<1>3. pc[r] \notin Own
  BY <1>1 DEF Own
<1> QED BY <1>2, <1>3, RequestReads DEF ReviewReadsRow

\* A submission makes a job or none.
LEMMA QueueTypes ==
  ASSUME Inv
  PROVE  /\ queue \in [Jobs -> Q!Active \cup Q!Ended \cup {"absent"}]
         /\ process \in [Jobs -> {"none", "working", "gone"}]
BY DEF Inv, TypeOK

\* A submission leaves the row and the files, and ends the request.
LEMMA SubmitKeeps ==
  ASSUME Inv, NEW r \in Requests, NEW kind, SubmitJob(r, kind) \/ UNCHANGED jobq, End(r),
         UNCHANGED <<row, files, faults>>, pc[r] \notin Own
  PROVE  Inv'
<1>1. Only(r) /\ pc'[r] = "done" /\ mem'[r] = Nothing
  BY EndIs, RequestIs
<1>2. Holds(r)'
  BY <1>1 DEF Holds, Nothing, Updates, Outside, Own
<1>3. process' = process /\ queue' \in [Jobs -> Q!Active \cup Q!Ended \cup {"absent"}]
  <2>1. CASE UNCHANGED jobq
    BY <2>1, QueueTypes DEF jobq
  <2>2. ASSUME NEW j \in Jobs, Q!Submit(j)
        PROVE  process' = process /\ queue' \in [Jobs -> Q!Active \cup Q!Ended \cup {"absent"}]
    BY <2>2, QueueTypes DEF Q!Submit, Q!Active
  <2> QED BY <2>1, <2>2 DEF SubmitJob
<1>4. \A j \in Jobs : pc'[j] = pc[j]
  BY <1>1, RequestIs DEF Only, Actors
<1>5. QueueOK'
  BY <1>3, <1>4, QueueTypes DEF QueueOK, Inv, TypeOK
<1> QED BY <1>1, <1>2, <1>5, IdleQuiet, QuietKeeps, RequestIs, FaultsOK DEF Own

\* The requests that submit a job, or find there is none to submit.
LEMMA SubmitsKeep ==
  ASSUME Inv, NEW r \in Requests, SubmitPrepare(r) \/ SubmitOcr(r) \/ SubmitDraft(r)
  PROVE  Inv'
<1>1. End(r) /\ UNCHANGED <<row, files, faults>> /\ pc[r] \notin Own
  BY DEF SubmitPrepare, SubmitOcr, SubmitDraft, At, Own
<1>2. (\E kind \in {"prepare", "ocr", "draft"} : SubmitJob(r, kind)) \/ UNCHANGED jobq
  BY DEF SubmitPrepare, SubmitOcr, SubmitDraft
<1> QED BY <1>1, <1>2, SubmitKeeps

\* What a draft becomes.
LEMMA DraftIs ==
  ASSUME NEW d \in Drafts, NEW r \in Requests
  PROVE  /\ SegmentUpdated(d) = d
         /\ AnnotationUpdated(d, r) \in Drafts
         /\ AnnotationUpdated(d, r).issues = d.issues
         /\ d.annotations \subseteq AnnotationUpdated(d, r).annotations
         /\ IssueRecorded(d, r) \in Drafts
         /\ d.issues \subseteq IssueRecorded(d, r).issues
         /\ IssueRecorded(d, r).annotations = d.annotations
BY DEF SegmentUpdated, AnnotationUpdated, IssueRecorded, Drafts

\* A change of the review writes the draft, or finds no directory.
LEMMA StoreReviewKeeps ==
  ASSUME Inv, NEW r \in Requests, StoreReview(r)
  PROVE  Inv'
<1>1. /\ pc[r] \in {"segment", "annotation", "issue"} /\ UNCHANGED <<row, dir, text, package, corpus, jobq, faults>>
      /\ Holds(r) /\ mem[r] \in Memory
  BY MemoryOK, RequestIs DEF StoreReview, Inv
<1>2. row.status # "unborn" /\ mem[r].draft \in Drafts /\ pc[r] \notin Own
  BY <1>1 DEF Holds, Outside, Memory, Own
<1>3. CASE Inbox
  <2>1. draft' \in Drafts /\ Go(r, "review_row") /\ UNCHANGED mem
    BY <1>1, <1>2, <1>3, DraftIs DEF StoreReview
  <2>2. draft' # Nil
    BY <2>1, NilAssumption
  <2>3. Quiet
    BY <1>1, <2>1, <2>2 DEF Quiet, Inv, TypeOK
  <2>4. /\ "review_row" \in Steps
        /\ "review_row" \notin Own \cup {"segment", "annotation", "issue", "store_text"} \cup Updates
        /\ Ready(r, "review_row")'
    BY <2>2 DEF Steps, Own, Ready, Updates
  <2> QED BY <1>1, <1>2, <2>1, <2>3, <2>4, GoKeeps, RequestIs, FaultsOK
<1>4. CASE ~Inbox
  <2>1. End(r) /\ UNCHANGED draft
    BY <1>4 DEF StoreReview
  <2> QED BY <1>1, <1>2, <2>1, IdleQuiet, EndKeeps, RequestIs, FaultsOK DEF files
<1> QED BY <1>3, <1>4

\* Writing the package.
LEMMA PackageKeeps ==
  ASSUME Inv, NEW r \in Requests, WriteContent(r) \/ WriteManifest(r)
  PROVE  Inv'
<1>1. /\ pc[r] \in Updates \ Own /\ UNCHANGED <<row, dir, text, draft, corpus, jobq, faults>>
      /\ row.status # "unborn"
  BY RemembersRow, RequestIs DEF WriteContent, WriteManifest, At, Updates, Own
<1>2. CASE End(r) /\ UNCHANGED package
  BY <1>1, <1>2, IdleQuiet, EndKeeps, RequestIs, FaultsOK DEF files
<1>3. ASSUME NEW l \in {"manifest", "package_row"}, Go(r, l), UNCHANGED mem,
             package' \in {"content", "whole"}, package = "whole" => package' = "whole",
             l = "package_row" => package' = "whole"
      PROVE  Inv'
  <2>1. Quiet
    BY <1>1, <1>3 DEF Quiet, Inv, TypeOK
  <2>2. /\ l \in Steps /\ l \notin Own \cup {"segment", "annotation", "issue", "store_text"}
        /\ Ready(r, l)'
    BY <1>3 DEF Steps, Own, Ready
  <2> QED BY <1>1, <1>3, <2>1, <2>2, GoKeeps, RequestIs, FaultsOK
<1>4. package \in {"none", "content", "whole"}
  BY DEF Inv, TypeOK
<1>5. CASE WriteContent(r)
  BY <1>2, <1>3, <1>4, <1>5 DEF WriteContent
<1>6. CASE WriteManifest(r)
  BY <1>2, <1>3, <1>6 DEF WriteManifest
<1> QED BY <1>5, <1>6

\* import_manifest brings the content into the corpus, or raises.
LEMMA ImportKeeps ==
  ASSUME Inv, NEW r \in Requests, ImportContent(r)
  PROVE  Inv'
<1>1. /\ pc[r] \in Updates \ Own /\ UNCHANGED <<row, dir, text, draft, package, jobq, mem>>
      /\ row.status # "unborn"
  BY RemembersRow, RequestIs DEF ImportContent, At, Updates, Own
<1>2. faults' \in 0..MaxFaults
  BY FaultsOK, ImportConstantsOK DEF ImportContent
<1>3. PICK l \in {"import_row", "import_failed"} : Go(r, l) /\ (l = "import_row" => corpus')
                                                   /\ (corpus' = TRUE \/ corpus' = corpus)
  BY DEF ImportContent
<1>4. Quiet
  <2>1. corpus \in BOOLEAN
    BY DEF Inv, TypeOK
  <2>2. corpus' \in BOOLEAN
    BY <1>3, <2>1
  <2>3. corpus => corpus'
    BY <1>3
  <2> QED BY <1>1, <2>2, <2>3 DEF Quiet, Inv, TypeOK
<1>5. /\ l \in Steps /\ l \notin Own \cup {"segment", "annotation", "issue", "store_text"}
      /\ Ready(r, l)'
  BY <1>3 DEF Steps, Own, Ready
<1> QED BY <1>1, <1>2, <1>3, <1>4, <1>5, GoKeeps, RequestIs

(***************************************************************************)
(* The directory and its owner                                             *)
(***************************************************************************)
\* What the others rely on stays unless the import is deleted, and nobody relies on
\* anything before it is there.
Onward ==
  \/ row.status = "unborn"
  \/ /\ row'.status # "unborn"
     /\ row.status = "deleted" => row'.status = "deleted"
     /\ row'.status # "deleted" => /\ draft # Nil => draft' # Nil
                                   /\ package = "whole" => package' = "whole"

\* A step of the directory's owner, who is alone with it.
LEMMA OwnerKeeps ==
  ASSUME Inv, NEW r \in Requests, Only(r), \A b \in Actors \ {r} : pc[b] \notin Own,
         Onward, Holds(r)', Stored', UNCHANGED <<corpus, jobq>>,
         row' \in Rows, dir' \in {"none", "inbox", "staging"}, text' \in Texts,
         draft' \in Drafts \cup {Nil}, package' \in {"none", "content", "whole"},
         faults' \in 0..MaxFaults
  PROVE  Inv'
<1>1. QueueOK'
  BY QueueStays, RequestIs
<1>2. TypeOK'
  BY <1>1 DEF Inv, TypeOK, Only, QueueOK
<1>3. Alone'
  BY DEF Alone, Only
<1>4. ASSUME NEW b \in Actors \ {r} PROVE Holds(b)'
  <2>1. Holds(b) /\ pc'[b] = pc[b] /\ mem'[b] = mem[b] /\ pc[b] \notin Own
    BY DEF Inv, Only
  <2>2. CASE row.status = "unborn"
    <3>1. mem[b].row = Nil /\ pc[b] \in Outside
      BY <2>1, <2>2 DEF Holds
    <3>2. pc[b] \notin Updates \cup {"segment", "annotation", "issue", "store_text", "review_row",
                                     "review_write", "reread", "finish", "package_row", "import_row"}
      BY <3>1 DEF Outside, Updates
    <3> QED BY <2>1, <3>1, <3>2 DEF Holds, Own
  <2>3. CASE row.status # "unborn"
    <3>1. Fit(mem[b].row) => Fit(mem[b].row)'
      BY <2>1, <2>3 DEF Fit, Backed, Onward
    <3> QED BY <2>1, <2>3, <3>1 DEF Holds, Onward, Own
  <2> QED BY <2>2, <2>3
<1> QED BY <1>2, <1>3, <1>4, RequestIs DEF Inv

\* Who makes the directory is alone with it, for there was none.
LEMMA CreateKeeps ==
  ASSUME Inv, NEW r \in Requests, Create(r)
  PROVE  Inv'
<1>1. /\ row.status = "unborn" /\ dir = "none" /\ dir' = "inbox"
      /\ UNCHANGED <<row, text, draft, corpus, jobq, mem, faults>>
      /\ package' \in {"none", "whole"}
  BY DEF Create
<1>2. Only(r) /\ pc'[r] = "insert" /\ mem'[r] = mem[r]
  BY GoIs, RequestIs DEF Create, Steps
<1>3. \A b \in Actors : pc[b] \notin Own
  BY <1>1 DEF Inv, Holds, Own
<1>4. Holds(r)'
  <2>1. mem[r].row = Nil
    BY <1>1, RequestIs DEF Inv, Holds
  <2> QED BY <1>1, <1>2, <2>1 DEF Holds, Updates, Outside
<1>5. Stored'
  BY <1>1 DEF Inv, Stored, Backed, Exists, Absent
<1> QED BY <1>1, <1>2, <1>3, <1>4, <1>5, OwnerKeeps, FaultsOK DEF Inv, TypeOK, Onward

\* Who is at one of these steps is the only one.
LEMMA AloneIs ==
  ASSUME Inv, NEW r \in Requests, pc[r] \in Own
  PROVE  Holds(r) /\ \A b \in Actors \ {r} : pc[b] \notin Own
BY RequestIs DEF Inv, Alone

\* Who is through relies on nothing.
LEMMA ThroughHolds ==
  ASSUME NEW r \in Actors, pc'[r] = "done", mem'[r] = Nothing
  PROVE  Holds(r)'
BY DEF Holds, Nothing, Updates, Outside, Own

\* The row of a new import names what was uploaded.
LEMMA InsertRowKeeps ==
  ASSUME Inv, NEW r \in Requests, InsertRow(r)
  PROVE  Inv'
<1> DEFINE whole == package = "whole"
           s == IF whole THEN "ready_to_import" ELSE "needs_structuring"
           new == [row EXCEPT !.status = s, !.manifest = whole]
<1>1. pc[r] = "insert" /\ End(r) /\ UNCHANGED <<files, jobq, faults>> /\ row' = new
  BY DEF InsertRow, At
<1>2. row.status = "unborn" /\ dir = "inbox" /\ row.review = "none" /\ row \in Rows
      /\ \A b \in Actors \ {r} : pc[b] \notin Own
  BY <1>1, AloneIs DEF Own, Holds, Inv, Stored, TypeOK
<1>3. Only(r) /\ pc'[r] = "done" /\ mem'[r] = Nothing
  BY <1>1, EndIs, RequestIs
<1>4. s \in Statuses \ (Absent \cup {"imported"}) /\ whole \in BOOLEAN
  BY DEF Statuses, Absent
<1> HIDE DEF s
<1>5. new \in Rows /\ new.status = s /\ new.review = "none" /\ new.manifest = whole
  BY <1>2, <1>4 DEF Rows
<1> HIDE DEF new
<1>6. Stored'
  BY <1>1, <1>2, <1>4, <1>5 DEF Stored, Backed, files, Absent
<1> QED BY <1>1, <1>2, <1>3, <1>5, <1>6, ThroughHolds, OwnerKeeps, RequestIs, FaultsOK
           DEF Inv, TypeOK, Onward, files

\* A failed INSERT leaves nothing behind, and nobody relies on it.
LEMMA InsertFailsKeeps ==
  ASSUME Inv, NEW r \in Requests, InsertFails(r)
  PROVE  Inv'
<1>1. /\ pc[r] = "insert" /\ End(r) /\ UNCHANGED <<row, text, draft, corpus, jobq>>
      /\ dir' = "none" /\ package' = "none"
  BY DEF InsertFails, At
<1>2. row.status = "unborn" /\ \A b \in Actors \ {r} : pc[b] \notin Own
  BY <1>1, AloneIs DEF Own, Holds
<1>3. Only(r) /\ pc'[r] = "done" /\ mem'[r] = Nothing
  BY <1>1, EndIs, RequestIs
<1>4. faults' \in 0..MaxFaults
  BY FaultsOK, ImportConstantsOK DEF InsertFails
<1>5. Stored'
  BY <1>1, <1>2 DEF Inv, Stored, Backed, Exists, Absent
<1> QED BY <1>1, <1>2, <1>3, <1>4, <1>5, ThroughHolds, OwnerKeeps, RequestIs
           DEF Inv, TypeOK, Onward

\* Who moves the directory away is alone with it, for it was there.
LEMMA StageInboxKeeps ==
  ASSUME Inv, NEW r \in Requests, StageInbox(r)
  PROVE  Inv'
<1>1. /\ pc[r] = "stage" /\ UNCHANGED <<row, text, draft, package, corpus, jobq, faults>>
      /\ Holds(r)
  BY RequestIs DEF StageInbox, At, Inv
<1>2. row.status # "unborn" /\ pc[r] \notin Own
  BY <1>1 DEF Holds, Outside, Own
<1>3. CASE Inbox
  <2>1. dir = "inbox" /\ dir' = "staging" /\ UNCHANGED mem
    BY <1>3 DEF StageInbox, Inbox
  <2>2. Only(r) /\ pc'[r] = "delete_row" /\ mem'[r] = mem[r]
    BY <1>3, GoIs, RequestIs DEF StageInbox, Steps
  <2>3. \A b \in Actors : pc[b] \notin Own
    BY <1>2, <2>1 DEF Inv, Holds, Own
  <2>4. row.status # "deleted"
    BY <2>1 DEF Inv, Stored
  <2>5. Fit(mem[r].row) => Fit(mem[r].row)'
    BY <1>1, <2>2 DEF Fit, Backed
  <2>6. Holds(r)'
    BY <1>1, <1>2, <2>1, <2>2, <2>4, <2>5 DEF Holds, Updates, Exists, Absent
  <2>7. Stored'
    BY <1>1, <1>2, <2>1, <2>2, <2>4 DEF Inv, Stored, Backed, At
  <2> QED BY <1>1, <1>2, <2>1, <2>2, <2>3, <2>6, <2>7, OwnerKeeps, FaultsOK
             DEF Inv, TypeOK, Onward
<1>4. CASE ~Inbox
  BY <1>1, <1>2, <1>4, IdleQuiet, EndKeeps, RequestIs, FaultsOK DEF StageInbox, files
<1> QED BY <1>3, <1>4

\* The row is deleted by who has moved the directory away.
LEMMA DeleteRowKeeps ==
  ASSUME Inv, NEW r \in Requests, DeleteRow(r)
  PROVE  Inv'
<1> DEFINE new == [row EXCEPT !.status = "deleted"]
<1>1. pc[r] = "delete_row" /\ Go(r, "remove") /\ UNCHANGED <<files, jobq, mem, faults>> /\ row' = new
  BY DEF DeleteRow, At
<1>2. /\ Holds(r) /\ row.status \notin Absent /\ dir = "staging" /\ row \in Rows
      /\ \A b \in Actors \ {r} : pc[b] \notin Own
  BY <1>1, AloneIs DEF Own, Holds, Exists, Inv, TypeOK
<1>3. Only(r) /\ pc'[r] = "remove" /\ mem'[r] = mem[r]
  BY <1>1, GoIs, RequestIs DEF Steps
<1>4. new \in Rows /\ new.status = "deleted"
  BY <1>2 DEF Rows, Statuses, Absent
<1> HIDE DEF new
<1>5. Stored'
  BY <1>1, <1>2, <1>4 DEF Stored, Exists, Absent, files
<1>6. Fit(mem[r].row) => Fit(mem[r].row)'
  BY <1>1, <1>3, <1>4 DEF Fit, Backed
<1>7. Holds(r)'
  BY <1>1, <1>2, <1>3, <1>4, <1>6 DEF Holds, Updates, files, Absent
<1> QED BY <1>1, <1>2, <1>3, <1>4, <1>5, <1>7, OwnerKeeps, FaultsOK
           DEF Inv, TypeOK, Onward, files

\* A failed DELETE puts the directory back, with the row still there.
LEMMA DeleteRowFailsKeeps ==
  ASSUME Inv, NEW r \in Requests, DeleteRowFails(r)
  PROVE  Inv'
<1>1. /\ pc[r] = "delete_row" /\ End(r) /\ UNCHANGED <<row, text, draft, package, corpus, jobq>>
      /\ dir' = "inbox"
  BY DEF DeleteRowFails, At, Unstaged
<1>2. row.status \notin Absent /\ \A b \in Actors \ {r} : pc[b] \notin Own
  BY <1>1, AloneIs DEF Own, Holds, Exists
<1>3. Only(r) /\ pc'[r] = "done" /\ mem'[r] = Nothing
  BY <1>1, EndIs, RequestIs
<1>4. faults' \in 0..MaxFaults
  BY FaultsOK, ImportConstantsOK DEF DeleteRowFails
<1>5. Stored'
  BY <1>1, <1>2 DEF Inv, Stored, Backed, Absent
<1> QED BY <1>1, <1>2, <1>3, <1>4, <1>5, ThroughHolds, OwnerKeeps, RequestIs
           DEF Inv, TypeOK, Onward, Absent

\* What was moved away is removed when nobody relies on it any more.
LEMMA RemoveStagedKeeps ==
  ASSUME Inv, NEW r \in Requests, RemoveStaged(r)
  PROVE  Inv'
<1>1. /\ pc[r] = "remove" /\ End(r) /\ UNCHANGED <<row, corpus, jobq, faults>>
      /\ dir' = "none" /\ text' = [p \in Pages |-> "none"] /\ draft' = Nil /\ package' = "none"
  BY DEF RemoveStaged, At
<1>2. row.status = "deleted" /\ \A b \in Actors \ {r} : pc[b] \notin Own
  BY <1>1, AloneIs DEF Own, Holds
<1>3. Only(r) /\ pc'[r] = "done" /\ mem'[r] = Nothing
  BY <1>1, EndIs, RequestIs
<1>4. text' \in Texts
  BY <1>1 DEF Texts
<1>5. Stored'
  BY <1>1, <1>2 DEF Stored, Exists, Absent
<1> QED BY <1>1, <1>2, <1>3, <1>4, <1>5, ThroughHolds, OwnerKeeps, RequestIs, FaultsOK
           DEF Inv, TypeOK, Onward

(***************************************************************************)
(* Jobs                                                                    *)
(***************************************************************************)
\* A job is an actor that never owns the directory.
LEMMA JobIs ==
  ASSUME Inv, NEW j \in Jobs
  PROVE  j \in Actors /\ j # Recovery /\ Holds(j) /\ pc[j] \notin Own /\ mem[j] \in Memory
BY ImportConstantsOK, MemoryOK DEF Inv, Actors, Holds

\* A job's process starts or ends with its first or last step.
LEMMA ProcessPut ==
  ASSUME Inv, NEW j \in Jobs, Only(j),
         NEW p \in {"working", "gone"}, process' = [process EXCEPT ![j] = p],
         p = "working" <=> pc'[j] \notin {"idle", "done"},
         queue' \in [Jobs -> Q!Active \cup Q!Ended \cup {"absent"}]
  PROVE  QueueOK'
<1>1. \A k \in Jobs \ {j} : pc'[k] = pc[k]
  BY DEF Only, Actors
<1> QED BY <1>1, QueueTypes DEF QueueOK, Inv, TypeOK

\* The step that starts a job.
LEMMA JobBeginsKeeps ==
  ASSUME Inv, NEW j \in Jobs, JobBegins(j)
  PROVE  Inv'
<1>1. UNCHANGED <<row, files, mem, faults>> /\ Go(j, "read")
  BY DEF JobBegins
<1>2. Only(j) /\ pc'[j] = "read" /\ mem'[j] = mem[j]
  BY <1>1, JobIs, GoIs DEF Steps
<1>3. Fit(mem[j].row) => Fit(mem[j].row)'
  BY <1>1, <1>2 DEF Fit, Backed, files
<1>4. Holds(j)'
  BY <1>1, <1>2, <1>3, JobIs DEF Holds, Updates, Outside, Own
<1>5. /\ process' = [process EXCEPT ![j] = "working"]
      /\ queue' \in [Jobs -> Q!Active \cup Q!Ended \cup {"absent"}]
  BY QueueTypes DEF JobBegins, Q!Begin, Q!Active
<1>6. QueueOK'
  BY <1>2, <1>5, ProcessPut
<1> QED BY <1>1, <1>2, <1>4, <1>6, IdleQuiet, QuietKeeps, JobIs, FaultsOK DEF Own

\* The steps that end one.
LEMMA JobEnds ==
  ASSUME Inv, NEW j \in Jobs, Q!Finish(j) \/ Q!Raise(j), End(j), UNCHANGED <<row, files>>,
         faults' \in 0..MaxFaults
  PROVE  Inv'
<1>1. Only(j) /\ pc'[j] = "done" /\ mem'[j] = Nothing
  BY JobIs, EndIs
<1>2. process' = [process EXCEPT ![j] = "gone"]
  BY DEF Q!Finish, Q!Raise
<1>3. queue' \in [Jobs -> Q!Active \cup Q!Ended \cup {"absent"}]
  <2>1. CASE Q!Finish(j)
    <3> DEFINE s == IF queue[j] = "running" THEN "completed" ELSE queue[j]
    <3>1. queue' = [queue EXCEPT ![j] = s]
      BY <2>1, QueueTypes DEF Q!Finish
    <3>2. s \in Q!Active \cup Q!Ended \cup {"absent"}
      BY QueueTypes DEF Q!Ended
    <3> HIDE DEF s
    <3> QED BY <3>1, <3>2, QueueTypes
  <2>2. CASE Q!Raise(j)
    <3>1. Q!Failed({j}) \in [Jobs -> Q!Active \cup Q!Ended \cup {"absent"}]
      BY QueueTypes DEF Q!Failed, Q!Ended
    <3> QED BY <2>2, <3>1, QueueTypes DEF Q!Raise
  <2> QED BY <2>1, <2>2
<1>4. QueueOK'
  BY <1>1, <1>2, <1>3, ProcessPut
<1> QED BY <1>1, <1>4, IdleQuiet, QuietKeeps, ThroughHolds, JobIs DEF Own

\* A job ends by itself, with an exception, or killed.
LEMMA JobEndsKeep ==
  ASSUME Inv, NEW j \in Jobs, JobExits(j) \/ JobRaises(j) \/ JobKilled(j)
  PROVE  Inv'
<1>1. (Q!Finish(j) \/ Q!Raise(j)) /\ End(j) /\ UNCHANGED <<row, files>>
  BY DEF JobExits, JobRaises, JobKilled
<1>2. faults' \in 0..MaxFaults
  BY FaultsOK, ImportConstantsOK DEF JobExits, JobRaises, JobKilled
<1> QED BY <1>1, <1>2, JobEnds

\* A job at work goes on with what it remembers.
LEMMA JobGoes ==
  ASSUME Inv, Quiet, NEW j \in Jobs,
         NEW l \in {"read_text", "read_old", "reread", "finish", "fail", "raise", "exit"},
         Go(j, l), UNCHANGED <<mem, jobq>>, pc[j] \notin {"idle", "done"},
         pc[j] \in Updates \/ l \in {"raise", "exit"},
         l \in {"reread", "finish"} /\ Kind(j, "draft") => draft' # Nil \/ row'.status = "deleted",
         faults' \in 0..MaxFaults
  PROVE  Inv'
<1>1. /\ l \in Steps /\ l \notin Own \cup {"segment", "annotation", "issue", "store_text"}
      /\ Ready(j, l)' /\ Within(j, l) /\ (l \in {"raise", "exit"} => l \in Outside \ Updates)
  BY DEF Steps, Own, Ready, Within, Outside, Updates
<1>2. l \in Outside \/ row.status # "unborn"
  BY <1>1, JobIs, RemembersRow
<1> QED BY <1>1, <1>2, GoKeeps, JobIs

\* A job at work reads the row.
LEMMA JobReadsRow ==
  ASSUME Inv, NEW j \in Jobs, NEW l \in {"mark", "fail", "finish"}, ReadRow(j, l),
         UNCHANGED <<row, files, jobq>>, pc[j] \notin {"idle", "done"}, row.status # "unborn",
         l = "finish" /\ Kind(j, "draft") => draft # Nil \/ row.status = "deleted",
         faults' \in 0..MaxFaults
  PROVE  Inv'
<1>1. /\ l \in Steps /\ l \notin Own \cup {"segment", "annotation", "issue", "store_text"}
      /\ Ready(j, l) /\ Within(j, l)
  BY DEF Steps, Own, Ready, Within
<1> QED BY <1>1, ReadKeeps, JobIs

\* A job reads the row, or finds nothing to do.
LEMMA JobReadsKeeps ==
  ASSUME Inv, NEW j \in Jobs, JobReads(j)
  PROVE  Inv'
<1>1. UNCHANGED <<row, files, jobq, faults>> /\ pc[j] = "read"
  BY DEF JobReads, At
<1>2. CASE Exists /\ ReadRow(j, "mark")
  BY <1>1, <1>2, JobReadsRow, FaultsOK DEF Exists, Absent
<1>3. ASSUME NEW l \in {"raise", "exit"}, Go(j, l), UNCHANGED mem PROVE Inv'
  BY <1>1, <1>3, JobGoes, IdleQuiet, FaultsOK
<1> QED BY <1>2, <1>3 DEF JobReads

\* A job that fails goes on to record that.
LEMMA JobFailsKeeps ==
  ASSUME Inv, NEW j \in Jobs, JobFails(j)
  PROVE  Inv'
<1>1. UNCHANGED <<row, files, jobq>> /\ pc[j] \in Updates /\ pc[j] \notin {"idle", "done"}
  BY DEF JobFails, Begun, Updates
<1>2. row.status # "unborn"
  BY <1>1, RemembersRow, JobIs
<1>3. faults' \in 0..MaxFaults
  BY FaultsOK, ImportConstantsOK DEF JobFails
<1>4. CASE Go(j, "fail") /\ UNCHANGED mem
  BY <1>1, <1>3, <1>4, JobGoes, IdleQuiet
<1>5. CASE ReadRow(j, "fail")
  BY <1>1, <1>2, <1>3, <1>5, JobReadsRow
<1> QED BY <1>4, <1>5 DEF JobFails

\* A job writes the row.
LEMMA JobUpdates ==
  ASSUME Inv, NEW j \in Jobs, NEW new \in Rows, Fit(new), UpdateRow(new),
         NEW l \in {"read_text", "raise", "exit"}, Go(j, l), UNCHANGED <<files, jobq, mem, faults>>,
         pc[j] \in Updates
  PROVE  Inv'
<1>1. pc[j] \notin {"idle", "done"}
  BY DEF Updates
<1> QED BY <1>1, UpdateIs, JobGoes, FaultsOK

\* A job marks the row as worked upon.
LEMMA JobMarksKeeps ==
  ASSUME Inv, NEW j \in Jobs, JobMarks(j)
  PROVE  Inv'
<1> DEFINE m == mem[j].row
           s == Working[Work[j].kind]
           v == IF Kind(j, "draft") THEN "building" ELSE m.review
           new == [m EXCEPT !.status = s, !.review = v]
<1>1. /\ pc[j] \in Updates /\ UNCHANGED <<files, jobq, mem, faults>> /\ UpdateRow(new)
      /\ Go(j, "read_text") \/ Go(j, "raise")
  BY DEF JobMarks, At, Updates
<1>2. m \in Rows /\ Fit(m)
  BY <1>1, RemembersRow, JobIs
<1>3. s \in Statuses \ (Absent \cup {"imported"})
  BY ImportConstantsOK DEF Working, Statuses, Absent, ActiveStatuses
<1>4. v \in {"none", "building", "ready", "stale", "failed"} /\ (v = "ready" => m.review = "ready")
  BY <1>2 DEF Rows
<1> HIDE DEF s, v, m
<1>5. new \in Rows /\ Fit(new)
  BY <1>2, <1>3, <1>4, ReviewPut
<1> QED BY <1>1, <1>5, JobUpdates

\* A job writes its outcome into the row, whatever its outcome.
LEMMA JobWritesKeep ==
  ASSUME Inv, NEW j \in Jobs,
         RecordFailure(j) \/ FinishPrepare(j) \/ FinishOcr(j) \/ FinishDraft(j)
  PROVE  Inv'
<1> DEFINE m == mem[j].row
<1>1. /\ pc[j] \in Updates /\ UNCHANGED <<files, jobq, mem, faults>>
      /\ Go(j, "raise") \/ Go(j, "exit")
  BY DEF RecordFailure, FinishPrepare, FinishOcr, FinishDraft, At, Updates
<1>2. m \in Rows /\ Fit(m)
  BY <1>1, RemembersRow, JobIs
<1>3. CASE RecordFailure(j)
  <2>1. UpdateRow(GivenUp(m, Kind(j, "draft"))) /\ Kind(j, "draft") \in BOOLEAN
    BY <1>3 DEF RecordFailure, Kind
  <2>2. GivenUp(m, Kind(j, "draft")) \in Rows /\ Fit(GivenUp(m, Kind(j, "draft")))
    BY <1>2, <2>1, GivenUpIs
  <2> QED BY <1>1, <2>1, <2>2, JobUpdates
<1>4. CASE FinishPrepare(j)
  <2> DEFINE new == [m EXCEPT !.status = "ready_for_review", !.documents = TRUE]
  <2>1. UpdateRow(new) /\ new \in Rows /\ Fit(new)
    BY <1>2, <1>4, DocumentsPut DEF FinishPrepare
  <2> QED BY <1>1, <2>1, JobUpdates
<1>5. CASE FinishOcr(j)
  <2> DEFINE new == [m EXCEPT !.status = "ready_for_review"]
  <2>1. "ready_for_review" \in Statuses \ Absent
    BY DEF Statuses, Absent
  <2>2. new \in Rows /\ Fit(new)
    BY <1>2, <2>1, StatusPut
  <2>3. UpdateRow(Invalidate(new)) /\ Invalidate(new) \in Rows /\ Fit(Invalidate(new))
    BY <1>5, <2>2, InvalidateIs DEF FinishOcr
  <2> QED BY <1>1, <2>3, JobUpdates
<1>6. CASE FinishDraft(j)
  <2> DEFINE new == [m EXCEPT !.status = "draft_ready", !.review = "ready"]
  <2>1. draft # Nil \/ row.status = "deleted"
    BY <1>6, JobIs DEF FinishDraft, Holds, At
  <2>2. "draft_ready" \in Statuses \ (Absent \cup {"imported"})
    BY DEF Statuses, Absent
  <2>3. UpdateRow(new) /\ new \in Rows /\ Fit(new)
    BY <1>2, <1>6, <2>1, <2>2, ReviewPut DEF FinishDraft
  <2> QED BY <1>1, <2>3, JobUpdates
<1> QED BY <1>3, <1>4, <1>5, <1>6

\* What a job writes over the texts it has read is text.
LEMMA TextIs ==
  ASSUME NEW old \in Texts
  PROVE  /\ MergeText(old) \in Texts
         /\ \A p \in Pages : old[p] = "ocr" => MergeText(old)[p] = "ocr"
BY DEF MergeText, Extracted, Texts

\* A job reads the texts it will merge into, or sees whether there are any.
LEMMA JobReadsTextKeeps ==
  ASSUME Inv, NEW j \in Jobs, JobReadsText(j)
  PROVE  Inv'
<1>1. UNCHANGED <<row, files, jobq, faults>> /\ pc[j] = "read_text"
  BY DEF JobReadsText, At
<1>2. pc[j] \in Updates /\ mem[j].row # Nil /\ row.status # "unborn"
  BY <1>1, JobIs DEF Updates, Holds, Outside
<1>3. CASE ReadText(j, "store_text")
  <2>1. Only(j) /\ pc'[j] = "store_text" /\ mem'[j].row = mem[j].row /\ mem'[j].text = text
    BY <1>3, ReadTextIs, JobIs DEF Steps
  <2>2. Fit(mem[j].row) => Fit(mem[j].row)'
    BY <1>1, <2>1 DEF Fit, Backed, files
  <2>3. text # Nil
    BY NilAssumption DEF Inv, TypeOK
  <2>4. Holds(j)'
    BY <1>1, <1>2, <2>1, <2>2, <2>3, JobIs DEF Holds, Own
  <2>5. QueueOK'
    BY <1>1, <2>1, QueueStays, JobIs DEF Within
  <2> QED BY <1>1, <2>1, <2>4, <2>5, IdleQuiet, QuietKeeps, JobIs, FaultsOK DEF Own
<1>4. CASE ReadRow(j, "fail")
  BY <1>1, <1>2, <1>4, JobReadsRow, FaultsOK
<1>5. CASE Go(j, "read_old") /\ UNCHANGED mem
  BY <1>1, <1>2, <1>5, JobGoes, IdleQuiet, FaultsOK
<1> QED BY <1>3, <1>4, <1>5 DEF JobReadsText

\* A draft job reads the draft it will replace.
LEMMA ReadOldDraftKeeps ==
  ASSUME Inv, NEW j \in Jobs, ReadOldDraft(j)
  PROVE  Inv'
<1>1. UNCHANGED <<row, files, jobq, faults>> /\ pc[j] = "read_old"
  BY DEF ReadOldDraft, At
<1>2. mem[j].row # Nil /\ row.status # "unborn"
  BY <1>1, JobIs DEF Updates, Holds, Outside
<1>3. Only(j) /\ pc'[j] = "store_draft" /\ mem'[j].row = mem[j].row
  BY ReadDraftIs, JobIs DEF ReadOldDraft, Steps
<1>4. Fit(mem[j].row) => Fit(mem[j].row)'
  BY <1>1, <1>3 DEF Fit, Backed, files
<1>5. Holds(j)'
  BY <1>1, <1>2, <1>3, <1>4, JobIs DEF Holds, Own
<1>6. QueueOK'
  BY <1>1, <1>3, QueueStays, JobIs DEF Within
<1> QED BY <1>1, <1>3, <1>5, <1>6, IdleQuiet, QuietKeeps, JobIs, FaultsOK DEF Own

\* A job reads the row again before it writes it.
LEMMA RereadRowKeeps ==
  ASSUME Inv, NEW j \in Jobs, RereadRow(j)
  PROVE  Inv'
<1>1. UNCHANGED <<row, files, jobq, faults>> /\ pc[j] = "reread" /\ ReadRow(j, "finish")
  BY DEF RereadRow, At
<1>2. row.status # "unborn" /\ (Kind(j, "draft") => draft # Nil \/ row.status = "deleted")
  BY <1>1, JobIs DEF Holds, Outside
<1> QED BY <1>1, <1>2, JobReadsRow, FaultsOK

\* A preparation or an OCR job writes the texts.
LEMMA StoreTextKeeps ==
  ASSUME Inv, NEW j \in Jobs, StorePrepared(j) \/ StoreRecognised(j)
  PROVE  Inv'
<1>1. /\ pc[j] = "store_text" /\ ~Kind(j, "draft")
      /\ Go(j, "reread") \/ Go(j, "finish")
      /\ UNCHANGED <<row, dir, draft, package, corpus, jobq, mem, faults>>
  BY DEF StorePrepared, StoreRecognised, At, Kind
<1>2. mem[j].text \in Texts
  BY <1>1, JobIs DEF Holds, Memory
<1>3. text' \in Texts
  <2>1. CASE StorePrepared(j)
    BY <1>2, <2>1, TextIs DEF StorePrepared
  <2>2. CASE StoreRecognised(j)
    BY <1>2, <2>2 DEF StoreRecognised, Texts
  <2> QED BY <2>1, <2>2
<1>4. Quiet
  BY <1>1, <1>3 DEF Quiet, Inv, TypeOK
<1> QED BY <1>1, <1>4, JobGoes, FaultsOK DEF Updates

\* A rebuilt draft is the one before, or a blank one.
LEMMA RebuiltIs ==
  ASSUME NEW old \in Drafts \cup {Nil}
  PROVE  Rebuilt(old) \in Drafts /\ (old # Nil => Rebuilt(old) = old)
BY DEF Rebuilt, Blank, Drafts

\* A draft job writes the draft.
LEMMA StoreDraftKeeps ==
  ASSUME Inv, NEW j \in Jobs, StoreDraft(j)
  PROVE  Inv'
<1>1. /\ pc[j] = "store_draft" /\ Go(j, "reread") /\ draft' = Rebuilt(mem[j].draft)
      /\ UNCHANGED <<row, dir, text, package, corpus, jobq, mem, faults>>
  BY DEF StoreDraft, At
<1>2. draft' \in Drafts /\ draft' # Nil
  BY <1>1, JobIs, RebuiltIs, NilAssumption DEF Memory
<1>3. Quiet
  BY <1>1, <1>2 DEF Quiet, Inv, TypeOK
<1> QED BY <1>1, <1>2, <1>3, JobGoes, FaultsOK DEF Updates

(***************************************************************************)
(* The service goes down and recovers                                      *)
(***************************************************************************)
\* A crash ends the requests and leaves the jobs, the row and the files.
LEMMA CrashKeeps == Inv /\ Crash => Inv'
<1> SUFFICES ASSUME Inv, Crash PROVE Inv'
  OBVIOUS
<1>1. UNCHANGED <<row, dir, text, draft, package, corpus, queue, process>> /\ faults' \in 0..MaxFaults
  BY FaultsOK, ImportConstantsOK DEF Crash, files, jobq
<1>2. /\ pc' \in [Actors -> Steps] /\ mem' \in [Actors -> Memory]
      /\ \A j \in Jobs : pc'[j] = pc[j] /\ mem'[j] = mem[j]
      /\ \A a \in Actors \ Jobs : pc'[a] \in {"list", "done"} /\ mem'[a] = Nothing
      /\ pc'[Recovery] = "list"
  <2>1. Nothing \in Memory
    BY DEF Nothing, Memory
  <2>2. Recovery \in Actors \ Jobs
    BY ImportConstantsOK DEF Actors
  <2> QED BY <2>1, <2>2, MemoryOK DEF Crash, Actors, Steps
<1>3. TypeOK'
  BY <1>1, <1>2 DEF Inv, TypeOK
<1>4. Alone'
  BY <1>2 DEF Inv, Alone, Own
<1>5. Stored'
  BY <1>1, <1>2 DEF Inv, Stored, Backed, Exists
<1>6. ASSUME NEW a \in Actors PROVE Holds(a)'
  <2>1. CASE a \in Jobs
    <3>1. pc'[a] = pc[a] /\ mem'[a] = mem[a] /\ Holds(a)
      BY <1>2, <2>1 DEF Inv
    <3>2. Fit(mem[a].row) => Fit(mem[a].row)'
      BY <1>1, <3>1 DEF Fit, Backed
    <3> QED BY <1>1, <3>1, <3>2 DEF Holds, Exists
  <2>2. CASE a \notin Jobs
    BY <1>2, <2>2 DEF Holds, Nothing, Updates, Outside, Own
  <2> QED BY <2>1, <2>2
<1> QED BY <1>3, <1>4, <1>5, <1>6 DEF Inv

\* The recovery is neither a request nor a job.
LEMMA RecoveryIs == Recovery \in Actors /\ Recovery \notin Jobs /\ \A l : Within(Recovery, l)
BY ImportConstantsOK DEF Actors, Within

\* The recovery gives up an import that looks active, and then the jobs.
LEMMA RecoveryKeeps == Inv /\ (ListActive \/ Recover \/ RecoverQueue) => Inv'
<1> SUFFICES ASSUME Inv, ListActive \/ Recover \/ RecoverQueue PROVE Inv'
  OBVIOUS
<1>1. pc[Recovery] \in {"list", "recover", "queue"} /\ UNCHANGED <<files, faults>>
  BY DEF ListActive, Recover, RecoverQueue, At
<1>2. pc[Recovery] \notin Own
  BY <1>1 DEF Own
<1>3. /\ {"recover", "queue"} \subseteq Steps
      /\ \A l \in {"recover", "queue"} :
           /\ l \notin Own \cup {"segment", "annotation", "issue", "store_text"}
           /\ Ready(Recovery, l) /\ Ready(Recovery, l)'
      /\ "queue" \in Outside \ Updates
  BY DEF Steps, Own, Ready, Outside, Updates
<1>4. CASE ListActive
  <2>1. UNCHANGED <<row, files, jobq, faults>>
    BY <1>4 DEF ListActive
  <2>2. CASE row.status \in ActiveStatuses /\ ReadRow(Recovery, "recover")
    <3>1. row.status # "unborn"
      BY <2>2 DEF ActiveStatuses
    <3> QED BY <1>2, <1>3, <2>1, <2>2, <3>1, ReadKeeps, RecoveryIs, FaultsOK
  <2>3. CASE Go(Recovery, "queue") /\ UNCHANGED mem
    BY <1>2, <1>3, <2>1, <2>3, GoKeeps, IdleQuiet, RecoveryIs, FaultsOK
  <2> QED BY <1>4, <2>2, <2>3 DEF ListActive
<1>5. CASE Recover
  <2> DEFINE m == mem[Recovery].row
             new == GivenUp(m, m.status = "draft_building")
  <2>1. UpdateRow(new) /\ Go(Recovery, "queue") /\ pc[Recovery] \in Updates
        /\ UNCHANGED <<files, jobq, mem, faults>>
    BY <1>5 DEF Recover, At, Updates
  <2>2. new \in Rows /\ Fit(new)
    BY <2>1, RemembersRow, RecoveryIs, GivenUpIs
  <2> QED BY <1>2, <1>3, <2>1, <2>2, UpdateIs, GoKeeps, RecoveryIs, FaultsOK
<1>6. CASE RecoverQueue
  <2> DEFINE js == {j \in Jobs : queue[j] = "running"}
  <2>1. /\ End(Recovery) /\ UNCHANGED <<row, files, faults>>
        /\ queue' = Q!Failed(js) /\ process' = process
    BY <1>6 DEF RecoverQueue, Q!GiveUp
  <2>2. Only(Recovery) /\ pc'[Recovery] = "done" /\ mem'[Recovery] = Nothing
    BY <2>1, EndIs, RecoveryIs
  <2>3. queue' \in [Jobs -> Q!Active \cup Q!Ended \cup {"absent"}]
    BY <2>1, QueueTypes DEF Q!Failed, Q!Ended
  <2>4. \A j \in Jobs : pc'[j] = pc[j]
    BY <2>2, RecoveryIs DEF Only, Actors
  <2>5. QueueOK'
    BY <2>1, <2>3, <2>4, QueueTypes DEF QueueOK, Inv, TypeOK
  <2> QED BY <1>2, <2>1, <2>2, <2>5, ThroughHolds, IdleQuiet, QuietKeeps, RecoveryIs, FaultsOK DEF Own
<1> QED BY <1>4, <1>5, <1>6

(***************************************************************************)
(* The invariant holds                                                     *)
(***************************************************************************)
\* Each of the quiet imports at the start fits its files.
LEMMA InvInit == Init => Inv
<1> SUFFICES ASSUME Init PROVE Inv
  OBVIOUS
<1> PICK s \in Stages : AtStage(s)
  BY DEF Init
<1>1. s \in {"new", "prepared", "drafted", "packaged", "imported"}
  BY ImportConstantsOK
<1>2. /\ pc = [a \in Actors |-> "idle"] /\ mem = [a \in Actors |-> Nothing] /\ faults = 0
      /\ queue = [j \in Jobs |-> "absent"] /\ process = [j \in Jobs |-> "none"]
  BY DEF Init, Q!Init
<1>3. Nothing \in Memory
  BY DEF Nothing, Memory
<1>4. row \in Rows
  <2> DEFINE st == StatusAt[s]
             plan == IF s \in {"drafted", "packaged", "imported"} THEN Pages \ Scanned ELSE {}
             review == IF s \in {"drafted", "packaged", "imported"} THEN "ready" ELSE "none"
             manifest == s \in {"packaged", "imported"}
             documents == s # "new"
  <2>1. row = [status |-> st, documents |-> documents, plan |-> plan, review |-> review,
               manifest |-> manifest]
    BY DEF AtStage
  <2>2. st \in Statuses
    BY <1>1 DEF StatusAt, Statuses, Absent
  <2>3. /\ documents \in BOOLEAN /\ plan \in SUBSET Pages /\ manifest \in BOOLEAN
        /\ review \in {"none", "building", "ready", "stale", "failed"}
    OBVIOUS
  <2> HIDE DEF st, plan, review, manifest, documents
  <2> QED BY <2>1, <2>2, <2>3 DEF Rows
<1>5. /\ row.status = StatusAt[s] /\ (row.review = "ready" <=> s \in {"drafted", "packaged", "imported"})
      /\ (row.review = "ready" \/ row.review = "none")
      /\ row.manifest <=> s \in {"packaged", "imported"}
  BY DEF AtStage
<1>6. /\ dir = IF s # "new" THEN "inbox" ELSE "none"
      /\ draft = IF s \in {"drafted", "packaged", "imported"} THEN Blank ELSE Nil
      /\ package = IF s \in {"packaged", "imported"} THEN "whole" ELSE "none"
      /\ corpus = (s = "imported")
  BY DEF AtStage
<1>7. text \in Texts
  BY DEF AtStage, Extracted, Texts
<1>8. Blank \in Drafts
  BY DEF Blank, Drafts
<1>9. TypeOK
  <2>1. pc \in [Actors -> Steps] /\ mem \in [Actors -> Memory]
    BY <1>2, <1>3 DEF Steps
  <2>2. /\ queue \in [Jobs -> Q!Active \cup Q!Ended \cup {"absent"}]
        /\ process \in [Jobs -> {"none", "working", "gone"}]
        /\ \A j \in Jobs : process[j] = "working" <=> pc[j] \notin {"idle", "done"}
    BY <1>2 DEF Actors
  <2>3. faults \in 0..MaxFaults
    BY <1>2, ImportConstantsOK
  <2>4. draft \in Drafts \cup {Nil} /\ package \in {"none", "content", "whole"}
        /\ dir \in {"none", "inbox", "staging"} /\ corpus \in BOOLEAN
    BY <1>6, <1>8
  <2> QED BY <1>4, <1>7, <2>1, <2>2, <2>3, <2>4 DEF TypeOK
<1>10. Stored
  <2>1. Blank # Nil
    BY <1>8, NilAssumption
  <2>2. /\ row.status = "unborn" <=> s = "new"
        /\ row.status = "imported" <=> s = "imported"
        /\ row.status # "deleted"
    BY <1>1, <1>5 DEF StatusAt
  <2> QED BY <1>5, <1>6, <2>1, <2>2 DEF Stored, Backed, Exists, Absent
<1>11. Alone /\ \A a \in Actors : Holds(a)
  BY <1>2 DEF Alone, Own, Holds, Nothing, Updates, Outside
<1> QED BY <1>9, <1>10, <1>11 DEF Inv

\* Every step keeps the invariant.
LEMMA InvStep == Inv /\ [Next]_vars => Inv'
<1> SUFFICES ASSUME Inv, [Next]_vars PROVE Inv'
  OBVIOUS
<1>1. ASSUME NEW r \in Requests, Ask(r) PROVE Inv'
  BY <1>1, CreateKeeps, AskKeeps, AskReviewKeeps DEF Ask
<1>2. ASSUME NEW r \in Requests, RequestStep(r) PROVE Inv'
  BY <1>2, InsertRowKeeps, InsertFailsKeeps, QueueRowKeeps, SubmitsKeep, StorePlanKeeps,
     StoreReviewKeeps, ReviewReadsRowKeeps, RequestWritesKeep, StoreAudioKeeps, PackageKeeps,
     ImportKeeps, StageInboxKeeps, DeleteRowKeeps, DeleteRowFailsKeeps, RemoveStagedKeeps
     DEF RequestStep
<1>3. ASSUME NEW j \in Jobs, JobStep(j) PROVE Inv'
  BY <1>3, JobReadsKeeps, JobMarksKeeps, JobReadsTextKeeps, StoreTextKeeps, JobWritesKeep,
     RereadRowKeeps, ReadOldDraftKeeps, StoreDraftKeeps, JobFailsKeeps, JobEndsKeep DEF JobStep
<1>4. CASE UNCHANGED vars
  <2>1. UNCHANGED <<row, dir, text, draft, package, corpus, queue, process, pc, mem, faults>>
    BY <1>4 DEF vars, files, jobq
  <2>2. TypeOK' /\ Stored' /\ Alone'
    BY <2>1 DEF Inv, TypeOK, Stored, Alone, Backed, Exists, At
  <2>3. \A a \in Actors : Holds(a)'
    BY <2>1 DEF Inv, Holds, Fit, Backed, Exists, Kind
  <2> QED BY <2>2, <2>3 DEF Inv
<1> QED BY <1>1, <1>2, <1>3, <1>4, JobBeginsKeeps, CrashKeeps, RecoveryKeeps DEF Next

\* The inductive invariant holds in every state.
LEMMA Invariant == Spec => []Inv
<1>1. Inv /\ [Next]_vars => Inv'
  BY InvStep
<1> QED BY InvInit, <1>1, PTL DEF Spec

\* Every variable has its type, and a job's process works exactly while the job is under way.
THEOREM TypeCorrect == Spec => []TypeOK
<1>1. Inv => TypeOK
  BY DEF Inv
<1> QED BY <1>1, Invariant, PTL

\* What the row speaks of is on disk, however many requests and jobs write it from
\* what they read before (content_imports.py, private_corpus_builder.py).
THEOREM RecordedOnDisk == Spec => []RecordedIsThere
<1>1. Inv => RecordedIsThere
  <2> SUFFICES ASSUME Inv, Exists PROVE RecordedIsThere
    BY DEF RecordedIsThere
  <2>1. row.status # "deleted" /\ Stored
    BY DEF Exists, Absent, Inv
  <2> QED BY <2>1 DEF Stored, Backed, RecordedIsThere, Exists
<1> QED BY <1>1, Invariant, PTL

(***************************************************************************)
(* Steps: what a deletion, the review and the texts of the pages keep      *)
(***************************************************************************)
\* Steps that do not write the row but by update_content_import_job.
LEMMA RowStep ==
  ASSUME Inv, [Next]_vars, row.status = "deleted"
  PROVE  row'.status = "deleted"
<1>1. ~Exists
  BY DEF Exists, Absent
<1>2. ASSUME NEW new, UpdateRow(new) PROVE row' = row
  BY <1>1, <1>2 DEF UpdateRow
<1>3. ASSUME NEW r \in Requests, Ask(r) PROVE row' = row
  BY <1>3 DEF Ask, Create, AskPrepare, AskOcr, AskDraft, AskPlan, AskReview, AskAudio,
              AskPackage, AskImport, AskDelete
<1>4. ASSUME NEW r \in Requests, RequestStep(r) PROVE row'.status = "deleted"
  <2>1. CASE InsertRow(r)
    BY <2>1, AloneIs DEF InsertRow, At, Own, Holds
  <2>2. CASE DeleteRow(r)
    <3>1. row \in Rows
      BY DEF Inv, TypeOK
    <3> QED BY <2>2, <3>1 DEF DeleteRow, Rows
  <2>3. CASE \/ QueuePrepare(r) \/ QueueOcr(r) \/ StorePlan(r) \/ ReviewWritesRow(r) \/ StoreAudio(r)
             \/ WritePackageRow(r) \/ RecordImport(r)
    <3>1. row' = row
      BY <1>2, <2>3 DEF QueuePrepare, QueueOcr, StorePlan, ReviewWritesRow, StoreAudio,
                        WritePackageRow, RecordImport
    <3> QED BY <3>1
  <2>4. CASE \/ InsertFails(r) \/ SubmitPrepare(r) \/ SubmitOcr(r) \/ SubmitDraft(r)
             \/ StoreReview(r) \/ ReviewReadsRow(r) \/ WriteContent(r) \/ WriteManifest(r)
             \/ ImportContent(r) \/ StageInbox(r) \/ DeleteRowFails(r) \/ RemoveStaged(r)
    <3>1. row' = row
      BY <2>4 DEF InsertFails, SubmitPrepare, SubmitOcr, SubmitDraft, StoreReview, ReviewReadsRow,
                  WriteContent, WriteManifest, ImportContent, StageInbox, DeleteRowFails, RemoveStaged
    <3> QED BY <3>1
  <2> QED BY <1>4, <2>1, <2>2, <2>3, <2>4 DEF RequestStep
<1>5. ASSUME NEW j \in Jobs, JobStep(j) PROVE row' = row
  <2>1. CASE JobMarks(j) \/ RecordFailure(j) \/ FinishPrepare(j) \/ FinishOcr(j) \/ FinishDraft(j)
    BY <1>2, <2>1 DEF JobMarks, RecordFailure, FinishPrepare, FinishOcr, FinishDraft
  <2>2. CASE \/ JobReads(j) \/ JobReadsText(j) \/ StorePrepared(j) \/ StoreRecognised(j)
             \/ RereadRow(j) \/ ReadOldDraft(j) \/ StoreDraft(j) \/ JobFails(j)
             \/ JobExits(j) \/ JobRaises(j) \/ JobKilled(j)
    BY <2>2 DEF JobReads, JobReadsText, StorePrepared, StoreRecognised, RereadRow, ReadOldDraft,
                StoreDraft, JobFails, JobExits, JobRaises, JobKilled
  <2> QED BY <1>5, <2>1, <2>2 DEF JobStep
<1>6. CASE Crash \/ ListActive \/ Recover \/ RecoverQueue
  BY <1>2, <1>6 DEF Crash, ListActive, Recover, RecoverQueue
<1>7. ASSUME NEW j \in Jobs, JobBegins(j) PROVE row' = row
  BY <1>7 DEF JobBegins
<1>8. CASE UNCHANGED vars
  BY <1>8 DEF vars
<1> QED BY <1>3, <1>4, <1>5, <1>6, <1>7, <1>8 DEF Next

\* A deleted import stays deleted: what its requests and jobs still write finds no row,
\* and nobody brings its directory back (delete_import).
THEOREM Deleted == Spec => DeletedStays
<1>1. Inv /\ Inv' /\ [Next]_vars =>
        [row.status = "deleted" => row'.status = "deleted" /\ dir' # "inbox"]_vars
  <2> SUFFICES ASSUME Inv, Inv', [Next]_vars, row.status = "deleted"
               PROVE  row'.status = "deleted" /\ dir' # "inbox"
    OBVIOUS
  <2>1. row'.status = "deleted"
    BY RowStep
  <2> QED BY <2>1 DEF Inv, Stored
<1> QED BY <1>1, Invariant, PTL DEF Spec, DeletedStays

\* The steps that write the review draft or the page texts.
LEMMA WorkStep ==
  ASSUME [Next]_vars
  PROVE  \/ UNCHANGED <<text, draft>>
         \/ \E r \in Requests : StoreReview(r) \/ RemoveStaged(r)
         \/ \E j \in Jobs : StorePrepared(j) \/ StoreRecognised(j) \/ StoreDraft(j)
<1>1. ASSUME NEW r \in Requests, Ask(r) PROVE UNCHANGED <<text, draft>>
  BY <1>1 DEF Ask, Create, AskPrepare, AskOcr, AskDraft, AskPlan, AskReview, AskAudio,
              AskPackage, AskImport, AskDelete, files
<1>2. ASSUME NEW r \in Requests, RequestStep(r), ~StoreReview(r), ~RemoveStaged(r)
      PROVE  UNCHANGED <<text, draft>>
  BY <1>2 DEF RequestStep, InsertRow, InsertFails, QueuePrepare, QueueOcr, SubmitPrepare, SubmitOcr,
              SubmitDraft, StorePlan, ReviewReadsRow, ReviewWritesRow, StoreAudio, WriteContent,
              WriteManifest, WritePackageRow, ImportContent, RecordImport, StageInbox, DeleteRow,
              DeleteRowFails, files
<1>3. ASSUME NEW j \in Jobs, JobStep(j), ~StorePrepared(j), ~StoreRecognised(j), ~StoreDraft(j)
      PROVE  UNCHANGED <<text, draft>>
  BY <1>3 DEF JobStep, JobReads, JobMarks, JobReadsText, FinishPrepare, RereadRow, FinishOcr,
              ReadOldDraft, FinishDraft, JobFails, RecordFailure, JobExits, JobRaises, JobKilled, files
<1>4. ASSUME NEW j \in Jobs, JobBegins(j) PROVE UNCHANGED <<text, draft>>
  BY <1>4 DEF JobBegins, files
<1>5. CASE Crash \/ ListActive \/ Recover \/ RecoverQueue
  BY <1>5 DEF Crash, ListActive, Recover, RecoverQueue, files
<1>6. CASE UNCHANGED vars
  BY <1>6 DEF vars, files
<1> QED BY <1>1, <1>2, <1>3, <1>4, <1>5, <1>6 DEF Next

\* The others keep their place and their memory.
Others(a) == \A b \in Actors \ {a} : pc'[b] = pc[b] /\ mem'[b] = mem[b]

\* Where a read draft, or read texts, are about to be written.
DraftSteps == {"store_draft", "segment", "annotation", "issue"}
Elsewhere(a) == Others(a) /\ pc'[a] \notin DraftSteps \cup {"store_text"}

\* Going on, reading the row and ending lead elsewhere.
LEMMA GoesElsewhere ==
  ASSUME Inv, NEW a \in Actors, NEW l, l \notin DraftSteps \cup {"store_text"},
         ReadRow(a, l) \/ (Go(a, l) /\ UNCHANGED mem)
  PROVE  Elsewhere(a)
<1>1. pc' = [pc EXCEPT ![a] = l]
  BY DEF ReadRow, Go
<1>2. \A b \in Actors \ {a} : mem'[b] = mem[b]
  BY MemoryOK DEF ReadRow
<1> QED BY <1>1, <1>2, MemoryOK DEF Elsewhere, Others

LEMMA EndsElsewhere ==
  ASSUME Inv, NEW a \in Actors, End(a)
  PROVE  Elsewhere(a)
BY EndIs DEF Elsewhere, Others, Only, DraftSteps

\* Reading the draft or the texts leads to where they will be written.
LEMMA ReadsAre ==
  ASSUME Inv, NEW a \in Actors, NEW l
  PROVE  /\ ReadDraft(a, l) => Others(a) /\ pc'[a] = l /\ mem'[a].draft = draft
         /\ ReadText(a, l) => Others(a) /\ pc'[a] = l /\ mem'[a].text = text
<1>1. ReadDraft(a, l) => Others(a) /\ pc'[a] = l /\ mem'[a].draft = draft
  <2> SUFFICES ASSUME ReadDraft(a, l) PROVE Others(a) /\ pc'[a] = l /\ mem'[a].draft = draft
    OBVIOUS
  <2> DEFINE n == [mem[a] EXCEPT !.draft = draft]
  <2>1. mem' = [mem EXCEPT ![a] = n] /\ pc' = [pc EXCEPT ![a] = l]
    BY DEF ReadDraft, Go
  <2>2. n.draft = draft
    BY MemoryOK, MemoryPut DEF Inv, TypeOK
  <2> HIDE DEF n
  <2> QED BY <2>1, <2>2, MemoryOK DEF Others
<1>2. ReadText(a, l) => Others(a) /\ pc'[a] = l /\ mem'[a].text = text
  <2> SUFFICES ASSUME ReadText(a, l) PROVE Others(a) /\ pc'[a] = l /\ mem'[a].text = text
    OBVIOUS
  <2> DEFINE n == [mem[a] EXCEPT !.text = text]
  <2>1. mem' = [mem EXCEPT ![a] = n] /\ pc' = [pc EXCEPT ![a] = l]
    BY DEF ReadText, Go
  <2>2. n.text = text
    BY MemoryOK, MemoryPut DEF Inv, TypeOK
  <2> HIDE DEF n
  <2> QED BY <2>1, <2>2, MemoryOK DEF Others
<1> QED BY <1>1, <1>2

\* Whoever is about to write was so before, or reads in this very step.
Fresh(a) ==
  \/ pc'[a] = pc[a] /\ mem'[a] = mem[a]
  \/ pc'[a] \notin DraftSteps \cup {"store_text"}
  \/ pc'[a] \in DraftSteps /\ mem'[a].draft = draft /\ draft' = draft
  \/ pc'[a] = "store_text" /\ mem'[a].text = text /\ text' = text

LEMMA FreshOthers ==
  ASSUME NEW a \in Actors, Others(a), Fresh(a)
  PROVE  \A b \in Actors : Fresh(b)
BY DEF Others, Fresh

LEMMA FreshElsewhere ==
  ASSUME NEW a \in Actors, Elsewhere(a)
  PROVE  \A b \in Actors : Fresh(b)
BY FreshOthers DEF Elsewhere, Fresh

LEMMA RequestFresh ==
  ASSUME Inv, NEW r \in Requests, Ask(r) \/ RequestStep(r)
  PROVE  \A b \in Actors : Fresh(b)
<1>0. r \in Actors
  BY RequestIs
<1>1. CASE AskReview(r)
  <2>1. PICK l \in {"segment", "annotation", "issue"} : ReadDraft(r, l) /\ draft' = draft
    BY <1>1 DEF AskReview, files
  <2>2. Others(r) /\ Fresh(r)
    BY <1>0, <2>1, ReadsAre DEF Fresh, DraftSteps
  <2> QED BY <1>0, <2>2, FreshOthers
<1>2. CASE Create(r) \/ AskPrepare(r) \/ AskOcr(r) \/ AskDraft(r) \/ AskPlan(r)
  <2>1. Elsewhere(r)
    BY <1>0, <1>2, GoesElsewhere DEF Create, AskPrepare, AskOcr, AskDraft, AskPlan, DraftSteps
  <2> QED BY <1>0, <2>1, FreshElsewhere
<1>3. CASE AskAudio(r) \/ AskPackage(r) \/ AskImport(r) \/ AskDelete(r)
  <2>1. Elsewhere(r)
    BY <1>0, <1>3, GoesElsewhere DEF AskAudio, AskPackage, AskImport, AskDelete, DraftSteps
  <2> QED BY <1>0, <2>1, FreshElsewhere
<1>4. CASE \/ InsertRow(r) \/ InsertFails(r) \/ SubmitPrepare(r) \/ SubmitOcr(r) \/ SubmitDraft(r)
           \/ StorePlan(r) \/ ReviewWritesRow(r) \/ StoreAudio(r) \/ WritePackageRow(r)
           \/ RecordImport(r) \/ DeleteRowFails(r) \/ RemoveStaged(r)
  <2>1. End(r)
    BY <1>4 DEF InsertRow, InsertFails, SubmitPrepare, SubmitOcr, SubmitDraft, StorePlan,
                ReviewWritesRow, StoreAudio, WritePackageRow, RecordImport, DeleteRowFails, RemoveStaged
  <2> QED BY <1>0, <2>1, EndsElsewhere, FreshElsewhere
<1>5. CASE QueuePrepare(r) \/ QueueOcr(r) \/ ReviewReadsRow(r) \/ StoreReview(r) \/ DeleteRow(r)
  <2>1. Elsewhere(r)
    BY <1>0, <1>5, GoesElsewhere, EndsElsewhere
       DEF QueuePrepare, QueueOcr, ReviewReadsRow, StoreReview, DeleteRow, DraftSteps
  <2> QED BY <1>0, <2>1, FreshElsewhere
<1>6. CASE WriteContent(r) \/ WriteManifest(r) \/ ImportContent(r) \/ StageInbox(r)
  <2>1. Elsewhere(r)
    BY <1>0, <1>6, GoesElsewhere, EndsElsewhere
       DEF WriteContent, WriteManifest, ImportContent, StageInbox, DraftSteps
  <2> QED BY <1>0, <2>1, FreshElsewhere
<1> QED BY <1>1, <1>2, <1>3, <1>4, <1>5, <1>6 DEF Ask, RequestStep

LEMMA JobFresh ==
  ASSUME Inv, NEW j \in Jobs, JobBegins(j) \/ JobStep(j)
  PROVE  \A b \in Actors : Fresh(b)
<1>0. j \in Actors
  BY JobIs
<1>1. CASE ReadOldDraft(j)
  <2>1. ReadDraft(j, "store_draft") /\ draft' = draft
    BY <1>1 DEF ReadOldDraft, files
  <2>2. Others(j) /\ Fresh(j)
    BY <1>0, <2>1, ReadsAre DEF Fresh, DraftSteps
  <2> QED BY <1>0, <2>2, FreshOthers
<1>2. CASE JobReadsText(j)
  <2>1. CASE ReadText(j, "store_text")
    <3>1. text' = text
      BY <1>2 DEF JobReadsText, files
    <3>2. Others(j) /\ Fresh(j)
      BY <1>0, <2>1, <3>1, ReadsAre DEF Fresh
    <3> QED BY <1>0, <3>2, FreshOthers
  <2>2. CASE ReadRow(j, "fail") \/ (Go(j, "read_old") /\ UNCHANGED mem)
    <3>1. Elsewhere(j)
      BY <1>0, <2>2, GoesElsewhere DEF DraftSteps
    <3> QED BY <1>0, <3>1, FreshElsewhere
  <2> QED BY <1>2, <2>1, <2>2 DEF JobReadsText
<1>3. CASE JobExits(j) \/ JobRaises(j) \/ JobKilled(j)
  <2>1. End(j)
    BY <1>3 DEF JobExits, JobRaises, JobKilled
  <2> QED BY <1>0, <2>1, EndsElsewhere, FreshElsewhere
<1>4. CASE JobBegins(j) \/ JobReads(j) \/ JobMarks(j) \/ JobFails(j) \/ RecordFailure(j)
  <2>1. Elsewhere(j)
    BY <1>0, <1>4, GoesElsewhere DEF JobBegins, JobReads, JobMarks, JobFails, RecordFailure, DraftSteps
  <2> QED BY <1>0, <2>1, FreshElsewhere
<1>5. CASE \/ StorePrepared(j) \/ FinishPrepare(j) \/ StoreRecognised(j) \/ RereadRow(j)
           \/ FinishOcr(j) \/ StoreDraft(j) \/ FinishDraft(j)
  <2>1. Elsewhere(j)
    BY <1>0, <1>5, GoesElsewhere
       DEF StorePrepared, FinishPrepare, StoreRecognised, RereadRow, FinishOcr, StoreDraft,
           FinishDraft, DraftSteps
  <2> QED BY <1>0, <2>1, FreshElsewhere
<1> QED BY <1>1, <1>2, <1>3, <1>4, <1>5 DEF JobStep

LEMMA AllFresh ==
  ASSUME Inv, [Next]_vars
  PROVE  \A b \in Actors : Fresh(b)
<1>1. CASE ListActive \/ Recover \/ RecoverQueue
  <2>1. Elsewhere(Recovery)
    BY <1>1, GoesElsewhere, EndsElsewhere, RecoveryIs DEF ListActive, Recover, RecoverQueue, DraftSteps
  <2> QED BY <2>1, FreshElsewhere, RecoveryIs
<1>2. CASE Crash
  <2>1. ASSUME NEW b \in Actors PROVE (pc'[b] = pc[b] /\ mem'[b] = mem[b]) \/ pc'[b] \in {"list", "done"}
    BY <1>2 DEF Crash
  <2> QED BY <2>1 DEF Fresh, DraftSteps
<1>3. CASE UNCHANGED vars
  BY <1>3 DEF vars, Fresh
<1> QED BY <1>1, <1>2, <1>3, RequestFresh, JobFresh DEF Next

\* The review notes of a draft, through one step.
LEMMA ReviewStep ==
  ASSUME Inv, [Next]_vars, draft # Nil, draft' # Nil
  PROVE  \E a \in Actors :
           \/ draft' = draft
           \/ /\ pc[a] \in {"store_draft", "segment", "annotation", "issue"}
              /\ pc'[a] # pc[a]
              /\ mem[a].draft # Nil => /\ mem[a].draft.issues \subseteq draft'.issues
                                       /\ mem[a].draft.annotations \subseteq draft'.annotations
<1>1. CASE draft' = draft
  BY <1>1, RecoveryIs
<1>2. ASSUME NEW r \in Requests, StoreReview(r), draft' # draft
      PROVE  /\ pc[r] \in {"store_draft", "segment", "annotation", "issue"} /\ pc'[r] # pc[r]
             /\ mem[r].draft.issues \subseteq draft'.issues
             /\ mem[r].draft.annotations \subseteq draft'.annotations
  <2>1. pc[r] \in {"segment", "annotation", "issue"} /\ Go(r, "review_row") /\ mem[r] \in Memory /\ Holds(r)
    BY <1>2, MemoryOK, RequestIs DEF StoreReview, Inv
  <2>2. pc'[r] = "review_row" /\ mem[r].draft \in Drafts
    BY <2>1, MemoryOK, RequestIs DEF Go, Holds, Memory
  <2>3. \/ draft' = IssueRecorded(mem[r].draft, r)
        \/ draft' = AnnotationUpdated(mem[r].draft, r)
        \/ draft' = SegmentUpdated(mem[r].draft)
    BY <1>2 DEF StoreReview
  <2>4. /\ mem[r].draft.issues \subseteq draft'.issues
        /\ mem[r].draft.annotations \subseteq draft'.annotations
    BY <2>2, <2>3, DraftIs
  <2> QED BY <2>1, <2>2, <2>4
<1>3. ASSUME NEW j \in Jobs, StoreDraft(j)
      PROVE  /\ pc[j] = "store_draft" /\ pc'[j] # pc[j]
             /\ mem[j].draft # Nil => draft' = mem[j].draft
  <2>1. pc[j] = "store_draft" /\ pc' = [pc EXCEPT ![j] = "reread"] /\ draft' = Rebuilt(mem[j].draft)
    BY <1>3 DEF StoreDraft, At, Go
  <2>2. pc'[j] = "reread"
    BY <2>1, MemoryOK, JobIs
  <2> QED BY <2>1, <2>2, JobIs, RebuiltIs DEF Memory
<1>4. ASSUME NEW r \in Requests, RemoveStaged(r) PROVE FALSE
  BY <1>4 DEF RemoveStaged
<1>5. ASSUME NEW j \in Jobs, StorePrepared(j) \/ StoreRecognised(j) PROVE draft' = draft
  BY <1>5 DEF StorePrepared, StoreRecognised
<1> QED BY <1>1, <1>2, <1>3, <1>4, <1>5, WorkStep, RequestIs, JobIs

\* The recognised text of the pages, through one step.
LEMMA TextStep ==
  ASSUME Inv, [Next]_vars, text' # text, dir' # "none"
  PROVE  \E j \in Jobs :
           /\ At(j, "store_text") /\ pc'[j] # "store_text"
           /\ \A p \in Pages :
                mem[j].text[p] = "ocr" =>
                  \/ text'[p] = "ocr"
                  \/ Kind(j, "ocr") /\ p \in Work[j].pages
<1>1. ASSUME NEW r \in Requests, StoreReview(r) \/ RemoveStaged(r) PROVE FALSE
  <2>1. CASE StoreReview(r)
    BY <2>1 DEF StoreReview
  <2>2. CASE RemoveStaged(r)
    BY <2>2 DEF RemoveStaged
  <2> QED BY <1>1, <2>1, <2>2
<1>2. ASSUME NEW j \in Jobs, StoreDraft(j) PROVE FALSE
  BY <1>2 DEF StoreDraft
<1>3. PICK j \in Jobs : StorePrepared(j) \/ StoreRecognised(j)
  BY <1>1, <1>2, WorkStep
<1>4. At(j, "store_text") /\ (Go(j, "finish") \/ Go(j, "reread"))
  BY <1>3 DEF StorePrepared, StoreRecognised
<1>5. pc'[j] # "store_text"
  BY <1>4, MemoryOK, JobIs DEF Go
<1>6. mem[j].text \in Texts
  BY <1>4, JobIs DEF Holds, Memory, At
<1>7. CASE StorePrepared(j)
  BY <1>4, <1>5, <1>6, <1>7, TextIs DEF StorePrepared
<1>8. CASE StoreRecognised(j)
  BY <1>4, <1>5, <1>6, <1>8 DEF StoreRecognised
<1> QED BY <1>3, <1>7, <1>8

\* What a draft notes grows with its issues and annotations.
LEMMA NotesGrow ==
  ASSUME NEW d \in Drafts, NEW e \in Drafts,
         d.issues \subseteq e.issues, d.annotations \subseteq e.annotations
  PROVE  Notes(d) \subseteq Notes(e)
<1>1. d # Nil /\ e # Nil
  BY NilAssumption
<1> QED BY <1>1 DEF Notes

\* The notes that every writer knows stay, and every writer still knows them.
LEMMA NotesKept ==
  ASSUME Inv, [Next]_vars, dir' # "none"
  PROVE  SettledNotes \subseteq SettledNotes'
<1>1. draft = Nil \/ draft' # Nil
  <2>1. ASSUME NEW r \in Requests, StoreReview(r), draft' # draft PROVE draft' # Nil
    <3>1. mem[r].draft \in Drafts
      BY <2>1, MemoryOK, RequestIs DEF StoreReview, Inv, Holds, Memory
    <3>2. draft' \in Drafts
      BY <2>1, <3>1, DraftIs DEF StoreReview
    <3> QED BY <3>2, NilAssumption
  <2>2. ASSUME NEW j \in Jobs, StoreDraft(j) PROVE draft' # Nil
    BY <2>2, JobIs, RebuiltIs, NilAssumption DEF StoreDraft, Memory
  <2>3. ASSUME NEW r \in Requests, RemoveStaged(r) PROVE FALSE
    BY <2>3 DEF RemoveStaged
  <2>4. ASSUME NEW j \in Jobs, StorePrepared(j) \/ StoreRecognised(j) PROVE draft' = draft
    BY <2>4 DEF StorePrepared, StoreRecognised
  <2> QED BY <2>1, <2>2, <2>3, <2>4, WorkStep
<1>2. ASSUME NEW n \in SettledNotes PROVE n \in Notes(draft')
  <2>1. n \in Notes(draft) /\ draft # Nil /\ draft' # Nil
    BY <1>1, <1>2 DEF SettledNotes, Notes
  <2>2. PICK a \in Actors :
          \/ draft' = draft
          \/ /\ pc[a] \in {"store_draft", "segment", "annotation", "issue"}
             /\ mem[a].draft # Nil => /\ mem[a].draft.issues \subseteq draft'.issues
                                      /\ mem[a].draft.annotations \subseteq draft'.annotations
    BY <2>1, ReviewStep
  <2>3. CASE draft' # draft
    <3>1. n \in Notes(mem[a].draft)
      BY <1>2, <2>2, <2>3 DEF SettledNotes, Rewriting
    <3>2. mem[a].draft # Nil
      BY <3>1 DEF Notes
    <3>3. mem[a].draft \in Drafts /\ draft' \in Drafts
      BY <2>1, <3>2, MemoryOK, InvStep DEF Memory, Inv, TypeOK
    <3> QED BY <2>2, <2>3, <3>1, <3>2, <3>3, NotesGrow
  <2> QED BY <2>1, <2>3
<1>3. ASSUME NEW n \in SettledNotes, NEW a \in Actors,
             pc'[a] \in {"store_draft", "segment", "annotation", "issue"}
      PROVE  n \in Notes(mem'[a].draft)
  <2>1. Fresh(a)
    BY AllFresh
  <2> QED BY <1>3, <2>1 DEF Fresh, DraftSteps, SettledNotes, Rewriting
<1> QED BY <1>2, <1>3 DEF SettledNotes, Rewriting, Notes

\* So does the recognised text that every writer knows, but for the pages of an OCR
\* job that writes.
LEMMA TextKept ==
  ASSUME Inv, [Next]_vars, dir' # "none", NEW p \in SettledText \ SettledText'
  PROVE  \E j \in Merging \ Merging' : Kind(j, "ocr") /\ p \in Work[j].pages
<1>1. p \in Pages /\ text[p] = "ocr" /\ \A j \in Jobs : At(j, "store_text") => mem[j].text[p] = "ocr"
  BY DEF SettledText, Merging
<1>2. CASE text'[p] = "ocr"
  <2>1. PICK j \in Jobs : pc'[j] = "store_text" /\ mem'[j].text[p] # "ocr"
    BY <1>1, <1>2 DEF SettledText, Merging, At
  <2>2. Fresh(j)
    BY AllFresh, JobIs
  <2> QED BY <1>1, <2>1, <2>2 DEF Fresh, DraftSteps, At
<1>3. CASE text'[p] # "ocr"
  <2>1. PICK j \in Jobs :
          /\ At(j, "store_text") /\ pc'[j] # "store_text"
          /\ mem[j].text[p] = "ocr" =>
               \/ text'[p] = "ocr"
               \/ Kind(j, "ocr") /\ p \in Work[j].pages
    BY <1>1, <1>3, TextStep
  <2> QED BY <1>1, <1>3, <2>1 DEF Merging, At
<1> QED BY <1>2, <1>3

\* What was recorded in the review or recognised outlasts all later work, once nobody is
\* left who read before: every writer carries over what it read
\* (build_import_review_draft, _write_review_draft, prepare_import, run_import_ocr).
THEOREM WorkStays == Spec => WorkKept
<1>1. Inv /\ [Next]_vars =>
        [dir' # "none" =>
           /\ SettledNotes \subseteq SettledNotes'
           /\ \A p \in SettledText \ SettledText' :
                \E j \in Merging \ Merging' : Kind(j, "ocr") /\ p \in Work[j].pages]_vars
  BY NotesKept, TextKept
<1> QED BY <1>1, Invariant, PTL DEF Spec, WorkKept
=============================================================================
