------------------------------- MODULE DataHome -------------------------------
(***************************************************************************)
(* The learner's data home: study threads and their attachments            *)
(* (study_threads.py), the media registry and its files (media.py,         *)
(* storage.py), deletion and wiping (data_lifecycle.py), backup,           *)
(* verification and restore (backups.py, health.py), and the upgrade of a  *)
(* database of an older release (storage.py, migrations.py).               *)
(*                                                                         *)
(* Everything here keeps two stores in step, the SQLite database and the   *)
(* files of the managed roots, and nothing but the order of its steps does *)
(* so.  A step is one transaction or one change of the file system.  The   *)
(* requests run one after another; the automatic backup of a start runs    *)
(* beside them.  An exception may surface, or the process die, between any *)
(* two steps (MaxFaults bounds how often).                                 *)
(***************************************************************************)
EXTENDS Naturals, Sequences, FiniteSets, FiniteSetsExt

CONSTANTS
  Threads,      \* ids of study threads
  Images,       \* images, by content hash: one asset row and one file each
  Messages,     \* ids of user messages that bring files; also the id of the document
                \*   one brings
  Files,        \* [Messages -> Seq of images and the message's own document]
  Owners,       \* owners POST /media names: Sessions, and Nil for none
  Keep,         \* AUTOMATIC_BACKUP_KEEP
  Upgrades,     \* versioned migrations from the older release to this one
  MaxArchives,  \* bound: archives in the backup directory
  MaxFaults,    \* bound: exceptions and crashes
  MaxRequests,  \* bound: requests, the creation of threads aside
  MaxEvents,    \* bound: requests and faults together
  Nil

Roots == <<"study-threads", "media">>   \* MANAGED_ROOTS, those with a store here
ASSUME UpgradesAssumption == Upgrades \in Nat
ASSUME BoundsAssumption == MaxFaults \in Nat /\ MaxRequests \in Nat
ASSUME FilesAssumption ==
  \A m \in Messages : Files[m] \in Seq(Images \cup {m}) /\ Files[m] # <<>>
\* No thread is called like the directory of the tombstones, or has no name.
ASSUME ThreadsAssumption ==
  Nil \notin Threads /\ \A t \in Threads : <<".deleted", t>> \notin Threads \cup {Nil}

VARIABLES
  db,        \* the tables threads, messages, indexed (learning_history_fts), rows
             \*   (media_assets), bound (media_bindings) and attached
             \*   (study_thread_attachments), the schema version, whether
             \*   tables have their columns, and how many migrations are completed;
             \*   Nil while the database file is missing
  files,     \* the files of the managed roots
  archives,  \* the backup directory
  op,        \* the request being handled
  sweep,     \* the automatic backup of this start
  made,      \* thread and message ids given out so far
  torn,      \* history: a request was cut off with only one store changed
  requests,  \* requests so far, the creation of threads aside
  faults     \* exceptions and crashes so far

vars == <<db, files, archives, op, sweep, made, torn, requests, faults>>

\* The files: a thread's document, the same under study-threads/.deleted, an image.
Doc(t, m)  == [root |-> "study-threads", place |-> t, name |-> m]
Tomb(t, m) == [root |-> "study-threads", place |-> <<".deleted", t>>, name |-> m]
Image(i)   == [root |-> "media", place |-> Nil, name |-> i]

Under(fs, root) == {f \in fs : f.root = root}
Documents(fs, t) == {f \in fs : f.place = t}
Tombs(fs) == {f \in Under(fs, "study-threads") : f.place \in {<<".deleted", t>> : t \in Threads}}

EmptyDatabase ==
  [threads |-> {}, messages |-> {}, indexed |-> {}, rows |-> {}, bound |-> {},
   attached |-> {}, version |-> "current", columns |-> TRUE, migrated |-> Upgrades]
OldDatabase == [EmptyDatabase EXCEPT !.version = "old", !.columns = FALSE, !.migrated = 0]

NoRequest ==
  [kind |-> "none", pc |-> "idle", thread |-> Nil, message |-> Nil, next |-> 0,
   stored |-> {}, media |-> {}, archive |-> Nil, before |-> Nil, moved |-> {},
   fresh |-> FALSE]
Starting == [NoRequest EXCEPT !.kind = "start", !.pc = "open", !.fresh = TRUE]

NoSweep == [pc |-> "idle", db |-> Nil, files |-> {}]

Init ==
  /\ db = OldDatabase /\ files = {} /\ archives = {}
  /\ op = Starting /\ sweep = NoSweep
  /\ made = {} /\ torn = FALSE /\ requests = 0 /\ faults = 0

At(kind, pc) == op.kind = kind /\ op.pc = pc
Goto(pc) == op' = [op EXCEPT !.pc = pc]
Return == op' = NoRequest
Ask == /\ op = NoRequest /\ requests < MaxRequests /\ requests + faults < MaxEvents
       /\ requests' = requests + 1
OnlyRequest == UNCHANGED <<archives, sweep, made, torn, requests, faults>>

(***************************************************************************)
(* Opening the database, at a start and at the end of a restore            *)
(***************************************************************************)
Archive(kind, d, fs) ==
  [kind |-> kind, at |-> 1 + Max({a.at : a \in archives} \cup {0}), db |-> d, files |-> fs]
Unlocked == sweep.pc \in {"idle", "due"}      \* backup.lock

\* The service serves: the tombstones of earlier deletions are removed, and the
\* automatic backup begins.  A restore looks at what it has made.
Opened ==
  IF op.kind = "restore" THEN Goto("health") /\ UNCHANGED <<files, sweep>>
  ELSE Return /\ files' = files \ Tombs(files) /\ sweep' = [NoSweep EXCEPT !.pc = "due"]

\* initialise_database asks the process first, then the database: one this process
\* has found current is current, and it goes by the file, which a restore keeps.
Trusted == ~op.fresh \/ db = Nil \/ db.version = "current"

OpenDatabase ==
  /\ op.pc = "open"
  /\ IF Trusted
     THEN Opened /\ db' = (IF db = Nil THEN EmptyDatabase ELSE db) /\ UNCHANGED archives
     ELSE /\ Unlocked /\ archives' = archives \cup {Archive("migration", db, files)}
          /\ Goto("columns") /\ UNCHANGED <<db, files, sweep>>
  /\ UNCHANGED <<made, torn, requests, faults>>

\* The pass of _migrate over all tables is made every time and adds what is missing;
\* columns is whether it has been through once.
AddColumns ==
  /\ op.pc = "columns"
  /\ db' = [db EXCEPT !.columns = TRUE]
  /\ Goto("upgrade")
  /\ UNCHANGED files /\ OnlyRequest

\* apply_versioned_migrations: each commits with its journal entry, and one that is
\* completed there is passed over.
Migrate ==
  /\ op.pc = "upgrade" /\ db.migrated < Upgrades
  /\ db' = [db EXCEPT !.migrated = @ + 1]
  /\ UNCHANGED <<files, op>> /\ OnlyRequest

StampVersion ==
  /\ op.pc = "upgrade" /\ db.migrated = Upgrades
  /\ db' = [db EXCEPT !.version = "current"]
  /\ Opened
  /\ UNCHANGED <<archives, made, torn, requests, faults>>

(***************************************************************************)
(* Study threads and uploads                                               *)
(***************************************************************************)
CreateThread(t) ==
  /\ op = NoRequest /\ t \notin made
  /\ db' = [db EXCEPT !.threads = @ \cup {t}]
  /\ made' = made \cup {t}
  /\ UNCHANGED <<files, archives, op, sweep, torn, requests, faults>>

\* The triggers of the search index: messages that came are put in, messages that
\* went, by themselves or with their thread, are taken out.
\* Mutant: the deletion has no trigger.
NeverForgotten(d, messages) ==
  [d EXCEPT !.messages = messages,
            !.indexed = @ \cup {m[1] : m \in messages \ d.messages}]
Indexed(d, messages) ==
  [d EXCEPT !.messages = messages,
            !.indexed = (@ \cup {m[1] : m \in messages \ d.messages})
                          \ {m[1] : m \in d.messages \ messages}]

\* What search_learning_history can come up with, from the index or, when that has
\* nothing, from the table.
Found(d) == d.indexed \cup {m[1] : m \in d.messages}

\* add_user_message commits the message before it looks at its files.
AddUserMessage(t, m) ==
  /\ Ask /\ t \in db.threads /\ m \notin made
  /\ db' = Indexed(db, db.messages \cup {<<m, t>>})
  /\ op' = [NoRequest EXCEPT !.kind = "message", !.pc = "store", !.thread = t,
                             !.message = m, !.next = 1]
  /\ made' = made \cup {m}
  /\ UNCHANGED <<files, archives, sweep, torn, faults>>

\* POST /media: the image may or may not name the Session it is for.
UploadMedia(i, owner) ==
  /\ Ask
  /\ op' = [NoRequest EXCEPT !.kind = "upload", !.pc = "store", !.thread = owner,
                             !.media = {i}]
  /\ UNCHANGED <<db, files>> /\ UNCHANGED <<archives, sweep, made, torn, faults>>

Item == IF op.kind = "upload" THEN CHOOSE i \in op.media : TRUE
                              ELSE Files[op.message][op.next]

\* import_image_bytes writes the file, if it is not there, and then registers it.
StoreImage ==
  /\ op.pc = "store" /\ Item \in Images
  /\ files' = files \cup {Image(Item)}
  /\ Goto("register")
  /\ UNCHANGED db /\ OnlyRequest

\* One row per content hash; the owner, if any, is bound to it.
Registered(d, i, owner) ==
  [d EXCEPT !.rows = @ \cup {i},
            !.bound = @ \cup (IF owner = Nil THEN {} ELSE {<<i, owner>>})]

RegisterImage ==
  /\ op.pc = "register"
  /\ db' = Registered(db, Item, op.thread)
  /\ IF op.kind = "upload" THEN Return ELSE Goto("attach")
  /\ UNCHANGED files /\ OnlyRequest

StoreDocument ==
  /\ op.pc = "store" /\ Item \notin Images
  /\ files' = files \cup {Doc(op.thread, Item)}
  /\ Goto("attach")
  /\ UNCHANGED db /\ OnlyRequest

Attach ==
  /\ op.pc = "attach"
  /\ db' = [db EXCEPT !.attached = @ \cup
              {[thread |-> op.thread, message |-> op.message, item |-> Item]}]
  /\ IF op.next = Len(Files[op.message])
     THEN Return
     ELSE op' = [op EXCEPT !.pc = "store", !.next = @ + 1, !.stored = @ \cup {Item}]
  /\ UNCHANGED files /\ OnlyRequest

\* The handler of a failed attachment.  Every binding of the media it stored
\* goes, whoever's it is; the foreign key keeps the rows of the attachments,
\* without their message.
Undone(d, m, t, stored) ==
  [Indexed(d, d.messages \ {<<m, t>>})
     EXCEPT !.bound = {b \in @ : b[1] \notin stored},
            !.attached = {IF a.message = m THEN [a EXCEPT !.message = Nil] ELSE a : a \in @}]

UndoMessage ==
  /\ At("message", "undo")
  /\ db' = Undone(db, op.message, op.thread, op.stored)
  /\ Goto("undo files")
  /\ UNCHANGED files /\ OnlyRequest

UndoFiles ==
  /\ At("message", "undo files")
  /\ files' = files \ {Doc(op.thread, m) : m \in op.stored \ Images}
  /\ op' = [op EXCEPT !.pc = "unlink", !.media = op.stored \cap Images]
  /\ UNCHANGED db /\ OnlyRequest

(***************************************************************************)
(* Deleting a thread                                                       *)
(***************************************************************************)
DeleteThread(t) ==
  /\ Ask /\ t \in made
  /\ files' = {IF f.place = t THEN Tomb(t, f.name) ELSE f : f \in files}
  /\ op' = [NoRequest EXCEPT !.kind = "delete", !.pc = "rows", !.thread = t]
  /\ UNCHANGED db /\ UNCHANGED <<archives, sweep, made, torn, faults>>

\* The tombstone goes back to its place when the transaction fails.
Untombed(t) == {IF f.place = <<".deleted", t>> THEN Doc(t, f.name) ELSE f : f \in files}

\* Mutant: the bindings of the thread's images go, instead of the thread's bindings.
UnbindImages(d, t) ==
  [Indexed(d, {m \in d.messages : m[2] # t}) EXCEPT
            !.threads = @ \ {t}, !.attached = {a \in @ : a.thread # t},
            !.bound = {b \in @ : b[1] \notin {a.item : a \in {x \in d.attached : x.thread = t}}}]
Removed(d, t) ==
  [Indexed(d, {m \in d.messages : m[2] # t}) EXCEPT
            !.threads = @ \ {t}, !.bound = {b \in @ : b[2] # t},
            !.attached = {a \in @ : a.thread # t}]

AttachedImages(t) == {a.item : a \in {x \in db.attached : x.thread = t}} \cap Images

DeleteRows ==
  /\ At("delete", "rows")
  /\ IF op.thread \in db.threads
     THEN /\ db' = Removed(db, op.thread)
          /\ op' = [op EXCEPT !.pc = "rmtree", !.media = AttachedImages(op.thread)]
          /\ UNCHANGED files
     ELSE /\ files' = Untombed(op.thread)
          /\ Return
          /\ UNCHANGED db
  /\ OnlyRequest

RemoveTombstone ==
  /\ At("delete", "rmtree")
  /\ files' = {f \in files : f.place # <<".deleted", op.thread>>}
  /\ Goto("unlink")
  /\ UNCHANGED db /\ OnlyRequest

\* purge_unreferenced_media: an empty request means every row of the registry.
\* Mutant: only the bindings are looked at.
Unbound(requested) ==
  {i \in IF requested = {} THEN db.rows ELSE requested \cap db.rows :
     \A b \in db.bound : b[1] # i}
Unreferenced(requested) ==
  {i \in IF requested = {} THEN db.rows ELSE requested \cap db.rows :
     /\ \A b \in db.bound : b[1] # i
     /\ \A a \in db.attached : a.item # i}

\* The files go while the transaction that deletes their rows is still open.
PurgeUnlink ==
  /\ op.pc = "unlink"
  /\ files' = files \ {Image(i) : i \in Unreferenced(op.media)}
  /\ Goto("commit")
  /\ UNCHANGED db /\ OnlyRequest

PurgeCommit ==
  /\ op.pc = "commit"
  /\ db' = [db EXCEPT !.rows = @ \ Unreferenced(op.media)]
  /\ Return
  /\ UNCHANGED files /\ OnlyRequest

(***************************************************************************)
(* Backups.  A request's backup meets no other change, so it is one step;  *)
(* the automatic one is a snapshot of the database, then root by root.     *)
(***************************************************************************)
CreateBackup ==
  /\ Ask /\ Unlocked /\ Cardinality(archives) < MaxArchives
  /\ archives' = archives \cup {Archive("manual", db, files)}
  /\ UNCHANGED <<db, files, op, sweep, made, torn, faults>>

\* run_automatic_backup_sweep: nothing to do after a recent backup of any kind.
SweepSnapshot ==
  /\ sweep.pc = "due"
  /\ \/ /\ db # Nil /\ Cardinality(archives) < MaxArchives
        /\ sweep' = [pc |-> "study-threads", db |-> db, files |-> {}]
     \/ /\ db = Nil \/ archives # {}
        /\ sweep' = NoSweep
  /\ UNCHANGED <<db, files, archives, op, made, torn, requests, faults>>

SweepCopy(k) ==
  /\ sweep.pc = Roots[k]
  /\ sweep' = [sweep EXCEPT !.files = @ \cup Under(files, Roots[k]),
                            !.pc = IF k = Len(Roots) THEN "publish" ELSE Roots[k + 1]]
  /\ UNCHANGED <<db, files, archives, op, made, torn, requests, faults>>

\* _prune_automatic_backups: the oldest automatic archives beyond Keep.
Pruned(as) ==
  LET Automatic == {a \in as : a.kind = "automatic"}
  IN {a \in as : a \in Automatic => Cardinality({b \in Automatic : b.at > a.at}) < Keep}

SweepPublish ==
  /\ sweep.pc = "publish"
  /\ archives' = Pruned(archives \cup {Archive("automatic", sweep.db, sweep.files)})
  /\ sweep' = NoSweep
  /\ UNCHANGED <<db, files, op, made, torn, requests, faults>>

(***************************************************************************)
(* Verification and restore                                                *)
(***************************************************************************)
\* _audit_media
ImagesThere(d, fs) == \A i \in d.rows : Image(i) \in fs

\* audit_data_home, without the Sessions and the corpora.
Audit(d, fs, version) == d # Nil /\ d.version = version /\ ImagesThere(d, fs)
Healthy(d, fs) == Audit(d, fs, "current")

\* verify_backup: an archive's payload is audited as a data home of its own, of
\* the release it was made by.
Verified(archive) ==
  archive.db # Nil /\ Audit(archive.db, archive.files, archive.db.version)

\* Asked of the service, or of the command line, a process of its own.
Restore(archive, fresh) ==
  /\ Ask /\ Unlocked /\ Cardinality(archives) < MaxArchives
  /\ Verified(archive)
  /\ archives' = archives \cup {Archive("pre-restore", db, files)}
  /\ op' = [NoRequest EXCEPT !.kind = "restore", !.pc = "move", !.next = 1,
                             !.archive = archive, !.fresh = fresh,
                             !.before = Archive("pre-restore", db, files)]
  /\ UNCHANGED <<db, files, sweep, made, torn, faults>>

Root == Roots[op.next]
NextRoot ==
  IF op.next = Len(Roots) THEN [op EXCEPT !.pc = "database"]
                          ELSE [op EXCEPT !.pc = "move", !.next = @ + 1]

\* A root the archive has nothing of keeps what it holds.
SkipRoot ==
  /\ At("restore", "move") /\ Under(op.archive.files, Root) = {}
  /\ op' = NextRoot
  /\ UNCHANGED <<db, files>> /\ OnlyRequest

MoveRoot ==
  /\ At("restore", "move") /\ Under(op.archive.files, Root) # {}
  /\ files' = files \ Under(files, Root)
  /\ op' = [op EXCEPT !.pc = "install", !.moved = @ \cup Under(files, Root)]
  /\ UNCHANGED db /\ OnlyRequest

InstallRoot ==
  /\ At("restore", "install")
  /\ files' = files \cup Under(op.archive.files, Root)
  /\ op' = [NextRoot EXCEPT !.stored = @ \cup {Root}]
  /\ UNCHANGED db /\ OnlyRequest

InstallDatabase ==
  /\ At("restore", "database")
  /\ db' = op.archive.db
  /\ Goto("open")
  /\ UNCHANGED files /\ OnlyRequest

Finished ==
  /\ At("restore", "health") /\ Healthy(db, files)
  /\ Return
  /\ UNCHANGED <<db, files>> /\ OnlyRequest

\* Mutant: what was installed goes, what was moved away stays away.
NothingMovedBack == {f \in files : f.root \notin op.stored}
RolledBackFiles == {f \in files : f.root \notin op.stored} \cup op.moved

\* The database comes back from the safety archive, once it was touched.
\* Mutant: the database is not put back.
DatabaseStays == db
RolledBackDatabase ==
  IF op.before.db # Nil /\ op.pc \in {"database", "open", "columns", "upgrade", "health"}
  THEN op.before.db ELSE db

(***************************************************************************)
(* wipe_learner_data                                                       *)
(***************************************************************************)
Wipe ==
  /\ Ask
  /\ db' = Nil
  /\ op' = [NoRequest EXCEPT !.kind = "wipe", !.pc = "roots", !.next = 1]
  /\ UNCHANGED files /\ UNCHANGED <<archives, sweep, made, torn, faults>>

WipeRoot ==
  /\ At("wipe", "roots")
  /\ files' = files \ Under(files, Root)
  /\ op' = IF op.next = Len(Roots) THEN [op EXCEPT !.pc = "recreate"]
                                   ELSE [op EXCEPT !.next = @ + 1]
  /\ UNCHANGED db /\ OnlyRequest

Recreate ==
  /\ At("wipe", "recreate")
  /\ db' = EmptyDatabase
  /\ Return
  /\ UNCHANGED files /\ OnlyRequest

(***************************************************************************)
(* Faults                                                                  *)
(***************************************************************************)
\* A lost commit of the purge, or a restore stopped on its way.
HalfDone == op.pc = "commit" \/ (op.kind = "restore" /\ (op.moved # {} \/ op.stored # {}))

Faults == faults < MaxFaults /\ requests + faults < MaxEvents /\ faults' = faults + 1
Fault == Faults /\ op # NoRequest

\* An exception inside _store_attachment: the documents already listed are undone.
AttachmentFails ==
  /\ Fault
  /\ op.kind = "message" /\ op.pc \in {"store", "register", "attach"}
  /\ Goto("undo")
  /\ UNCHANGED <<db, files, archives, sweep, made, torn, requests>>

DeleteFails ==
  /\ Fault /\ At("delete", "rows")
  /\ files' = Untombed(op.thread)
  /\ Return
  /\ UNCHANGED <<db, archives, sweep, made, torn, requests>>

\* rmtree could not remove the tombstone: the next start retries.
TombstoneStays ==
  /\ Fault /\ At("delete", "rmtree")
  /\ Goto("unlink")
  /\ UNCHANGED <<db, files, archives, sweep, made, torn, requests>>

\* An exception, or the audit at the end says no.
RestoreFails ==
  /\ op.kind = "restore"
  /\ Fault \/ (op.pc = "health" /\ ~Healthy(db, files) /\ UNCHANGED faults)
  /\ files' = RolledBackFiles
  /\ db' = RolledBackDatabase
  /\ Return
  /\ UNCHANGED <<archives, sweep, made, torn, requests>>

\* Any other exception ends the request where it is; a database that is missing
\* is created, empty, by the next use.
RequestFails ==
  /\ Fault
  /\ op.kind \in {"upload", "wipe"} \/ op.pc \in {"unlink", "commit"}
  /\ db' = IF db = Nil THEN EmptyDatabase ELSE db
  /\ Return
  /\ torn' = (torn \/ HalfDone)
  /\ UNCHANGED <<files, archives, sweep, made, requests>>

\* The service dies, or does not come up, and is started.
Restart ==
  /\ Faults
  /\ op' = Starting /\ sweep' = NoSweep
  /\ torn' = (torn \/ HalfDone)
  /\ UNCHANGED <<db, files, archives, made, requests>>

Next ==
  \/ OpenDatabase \/ AddColumns \/ Migrate \/ StampVersion
  \/ \E t \in Threads : CreateThread(t) \/ DeleteThread(t)
  \/ \E t \in Threads, m \in Messages : AddUserMessage(t, m)
  \/ \E i \in Images, owner \in Owners : UploadMedia(i, owner)
  \/ StoreImage \/ RegisterImage \/ StoreDocument \/ Attach
  \/ UndoMessage \/ UndoFiles
  \/ DeleteRows \/ RemoveTombstone \/ PurgeUnlink \/ PurgeCommit
  \/ CreateBackup \/ SweepSnapshot \/ SweepPublish
  \/ \E k \in DOMAIN Roots : SweepCopy(k)
  \/ \E archive \in archives, fresh \in BOOLEAN : Restore(archive, fresh)
  \/ SkipRoot \/ MoveRoot \/ InstallRoot \/ InstallDatabase \/ Finished
  \/ Wipe \/ WipeRoot \/ Recreate
  \/ AttachmentFails \/ DeleteFails \/ TombstoneStays \/ RestoreFails
  \/ RequestFails \/ Restart

Spec == Init /\ [][Next]_vars

(***************************************************************************)
(* Properties                                                              *)
(***************************************************************************)
Names == Images \cup Messages
Database ==
  [threads : SUBSET Threads, messages : SUBSET (Messages \X Threads),
   indexed : SUBSET Messages, rows : SUBSET Images,
   bound : SUBSET (Images \X (Threads \cup (Owners \ {Nil}))),
   attached : SUBSET [thread : Threads, message : Messages \cup {Nil}, item : Names],
   version : {"old", "current"}, columns : BOOLEAN, migrated : 0..Upgrades]
ASSUME NilAssumption == Nil \notin Database

File ==
  {Doc(t, m) : t \in Threads, m \in Messages} \cup {Tomb(t, m) : t \in Threads, m \in Messages}
    \cup {Image(i) : i \in Images}

\* Every variable has its type; what messages, attachments and bindings refer to
\* is there, whatever is undone or purged meanwhile.
TypeOK ==
  /\ db = Nil => op.kind \in {"wipe", "start"}
  /\ db # Nil =>
       /\ db \in Database
       /\ \A m \in db.messages : m[2] \in db.threads
       /\ \A b \in db.bound : b[1] \in db.rows
       /\ \A a \in db.attached :
            a.thread \in db.threads /\ (a.item \in Images => a.item \in db.rows)
  /\ files \subseteq File
  /\ \A a \in archives :
       a.kind \in {"manual", "automatic", "pre-restore", "migration"}
  /\ faults <= MaxFaults
  /\ made \subseteq Threads \cup Messages /\ torn \in BOOLEAN /\ requests <= MaxRequests

UpToDate(d) == [d EXCEPT !.version = "current", !.columns = TRUE, !.migrated = Upgrades]

\* What is served is of this release's schema with every migration done, however
\* often starts and restores were cut off; and a registered image has its file,
\* outside the window in which a purge or a restore has changed one store and not
\* yet the other.
HomeHealthy ==
  op.kind \in {"start", "restore", "wipe"} \/
  /\ db = UpToDate(db)
  /\ torn \/ op.pc = "commit" \/ Healthy(db, files)

\* A restore leaves the archived home, its database brought up to date (a root the
\* archive has nothing of keeps its files), or it raises and leaves the home as it
\* was: after an exception, and when the service is to restore an archive of an
\* older schema, as it takes the database for the one it had opened.
RestoreAllOrNothing ==
  [][op.kind = "restore" /\ op'.kind = "none" =>
       IF faults' = faults /\ (op.fresh \/ op.archive.db.version = "current")
       THEN /\ db' = UpToDate(op.archive.db)
            /\ \A k \in DOMAIN Roots :
                 Under(files', Roots[k]) =
                   Under(IF Under(op.archive.files, Roots[k]) = {}
                         THEN op.before.files ELSE op.archive.files, Roots[k])
       ELSE db' = op.before.db /\ files' = op.before.files]_vars

\* When a deletion has returned, nothing refers to the thread any more, a search
\* finds no message but those of living threads, none of its documents is in its
\* place, and each image it had attached is gone unless somebody else holds it.
DeletedIsGone ==
  [][op.kind = "delete" /\ op.pc = "commit" /\ op'.kind = "none" /\ faults' = faults =>
       /\ op.thread \notin db'.threads
       /\ Found(db') = {m[1] : m \in {x \in db'.messages : x[2] \in db'.threads}}
       /\ Documents(files', op.thread) = {}
       /\ \A b \in db'.bound : b[2] # op.thread
       /\ \A i \in op.media :
            \/ i \notin db'.rows /\ Image(i) \notin files'
            \/ \E b \in db'.bound : b[1] = i
            \/ \E a \in db'.attached : a.item = i]_vars

\* Short of a restore and a wipe, a request leaves alone what another owner has: a
\* binding, the image behind it, and the documents attached to other threads.
\* (The undoing of a failed message does not: it drops every binding.)
OwnersKeep ==
  [][op.kind \notin {"restore", "wipe"} /\ op'.kind \notin {"restore", "wipe"}
       /\ op.pc # "undo" /\ db # Nil =>
       /\ \A b \in db.bound : b[2] \notin {op.thread, op'.thread} =>
            b \in db'.bound /\ (Image(b[1]) \in files => Image(b[1]) \in files')
       /\ \A t \in Threads \ {op.thread, op'.thread} :
            Documents(files, t) \subseteq Documents(files', t)]_vars
=============================================================================
