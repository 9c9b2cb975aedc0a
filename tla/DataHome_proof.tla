---------------------------- MODULE DataHome_proof ----------------------------
(***************************************************************************)
(* Proofs about DataHome, for every number of threads, messages, images    *)
(* and archives, of migrations, requests and faults.                       *)
(***************************************************************************)
EXTENDS DataHome, TLAPS

(***************************************************************************)
(* The invariant                                                           *)
(***************************************************************************)
\* A database is coherent: what its tables refer to is there, a message has one
\* thread and an id that was given out, the search index has the messages and no
\* other, and this release's schema has every migration behind it.
Sane(d, ids) ==
  /\ d \in Database
  /\ \A m \in d.messages : m[1] \in ids /\ m[2] \in d.threads
  /\ \A m, n \in d.messages : m[1] = n[1] => m = n
  /\ d.indexed = {m[1] : m \in d.messages}
  /\ \A b \in d.bound : b[1] \in d.rows
  /\ \A a \in d.attached : a.thread \in d.threads /\ (a.item \in Images => a.item \in d.rows)
  /\ d.version = "current" => d.columns /\ d.migrated = Upgrades

Backup(a, ids) ==
  /\ a.kind \in {"manual", "automatic", "pre-restore", "migration"}
  /\ Sane(a.db, ids) /\ a.files \subseteq File

\* Where a request can be.
Kinds == {"none", "start", "message", "upload", "delete", "restore", "wipe"}
Opening  == {"open", "columns", "upgrade"}
Storing  == {"store", "register", "attach"}
Swapping == {"move", "install", "database"}
Places == Opening \cup Storing \cup Swapping \cup
  {"idle", "undo", "undo files", "rows", "rmtree", "unlink", "commit", "health", "roots",
   "recreate"}

Shaped(o) ==
  o \in [kind : Kinds, pc : Places, thread : Threads \cup Owners \cup {Nil},
         message : Messages \cup {Nil}, next : Nat,
         stored : SUBSET (Images \cup Messages \cup {"study-threads", "media"}),
         media : SUBSET Images, archive : {o.archive}, before : {o.before},
         moved : SUBSET File, fresh : BOOLEAN]

Request ==
  /\ Shaped(op)
  /\ op.kind = "none" => op.pc = "idle"
  /\ op.kind = "start" => op.pc \in Opening /\ op.fresh
  /\ op.kind = "message" =>
       /\ op.pc \in Storing \cup {"undo", "undo files", "unlink", "commit"}
       /\ op.thread \in Threads /\ op.message \in Messages
       /\ op.stored \subseteq Images \cup Messages
       /\ op.pc \in Storing => op.next \in DOMAIN Files[op.message]
  /\ op.kind = "upload" =>
       /\ op.pc \in {"store", "register"} /\ op.thread \in Owners
       /\ \E i \in Images : op.media = {i}
  /\ op.kind = "delete" =>
       op.pc \in {"rows", "rmtree", "unlink", "commit"} /\ op.thread \in Threads
  /\ op.kind = "restore" =>
       op.pc \in Opening \cup Swapping \cup {"health"} /\ op.next \in {1, 2}
  /\ op.kind = "wipe" => op.pc \in {"roots", "recreate"} /\ op.next \in {1, 2}

\* The database is there, coherent and of this release, but for a request that
\* replaces it or brings it up to date.
Stored ==
  /\ db # Nil => Sane(db, made)
  /\ db = Nil => (op.kind = "start" /\ op.pc = "open") \/ op.kind = "wipe"
  /\ op.kind = "wipe" => db = Nil
  /\ op.kind \notin {"start", "restore", "wipe"} => db.version = "current"
  /\ op.pc = "upgrade" => db.columns
  /\ files \subseteq File

Saved ==
  /\ \A a \in archives : Backup(a, made)
  /\ sweep \in [pc : {"idle", "due", "study-threads", "media", "publish"},
                db : {sweep.db}, files : SUBSET File]
  /\ sweep.pc \notin {"idle", "due"} => Sane(sweep.db, made)

Counted ==
  /\ made \subseteq Threads \cup Messages /\ torn \in BOOLEAN
  /\ requests \in Nat /\ requests <= MaxRequests /\ faults \in Nat /\ faults <= MaxFaults

\* A registered image has its file, outside a restore and the end of a purge.
Backed ==
  ~torn =>
    /\ op.kind # "restore" /\ op.pc # "commit" /\ db # Nil => ImagesThere(db, files)
    /\ op.pc = "commit" => \A i \in db.rows \ Unreferenced(op.media) : Image(i) \in files

\* An image is stored before it is registered, and registered before it is attached.
Storage ==
  /\ op.pc = "register" => Item \in Images /\ Image(Item) \in files
  /\ op.pc = "attach" => (Item \in Images => Item \in db.rows)
  /\ op.kind = "message" /\ op.pc \in Storing => op.thread \in db.threads

\* A deletion leaves nothing of its thread behind, and takes the files of an image
\* nobody holds before it takes the row.
Deletion ==
  /\ op.kind = "delete" =>
       /\ Documents(files, op.thread) = {}
       /\ op.pc # "rows" => /\ op.thread \notin db.threads
                            /\ \A b \in db.bound : b[2] # op.thread
                            /\ op.media \subseteq db.rows
  /\ op.pc = "commit" => \A i \in Unreferenced(op.media) : Image(i) \notin files

\* Root k of a restore: not reached yet, or passed over; moved away; or replaced.
Passed(k) == op.pc \notin {"move", "install"} \/ k < op.next
Away(k) == op.pc = "install" /\ k = op.next
Has(k) == Under(op.archive.files, Roots[k]) # {}

Swapped(k) ==
  LET root == Roots[k]
  IN /\ root \in op.stored <=> Passed(k) /\ Has(k)
     /\ Under(files, root) = IF root \in op.stored THEN Under(op.archive.files, root)
                             ELSE IF Away(k) THEN {} ELSE Under(op.before.files, root)
     /\ Under(op.moved, root) = IF root \in op.stored \/ Away(k)
                                THEN Under(op.before.files, root) ELSE {}

\* A restore can put back what it found: nothing of it is lost before it is done.
Restoring ==
  op.kind = "restore" =>
    /\ Backup(op.archive, made) /\ ImagesThere(op.archive.db, op.archive.files)
    /\ Backup(op.before, made) /\ op.before.db.version = "current"
    /\ ~torn => ImagesThere(op.before.db, op.before.files)
    /\ Swapped(1) /\ Swapped(2)
    /\ op.pc = "install" => Has(op.next)
    /\ op.pc \in Swapping => db = op.before.db
    /\ op.pc = "open" => db = op.archive.db
    /\ op.pc \in {"columns", "upgrade"} => op.fresh
    /\ op.pc \notin Swapping => UpToDate(db) = UpToDate(op.archive.db)
    /\ op.pc = "health" =>
         IF op.fresh \/ op.archive.db.version = "current" THEN db.version = "current"
                                                          ELSE db.version # "current"

Homes == Request /\ Stored /\ Saved /\ Backed /\ Storage /\ Deletion /\ Restoring
Inv == Homes /\ Counted

(***************************************************************************)
(* What the operations make of a database                                  *)
(***************************************************************************)
\* The tables of a database, and that nothing else is in it.
LEMMA Tables ==
  ASSUME NEW d \in Database
  PROVE  /\ d.threads \in SUBSET Threads /\ d.messages \in SUBSET (Messages \X Threads)
         /\ d.indexed \in SUBSET Messages /\ d.rows \in SUBSET Images
         /\ d.bound \in SUBSET (Images \X (Threads \cup (Owners \ {Nil})))
         /\ d.attached \in SUBSET [thread : Threads, message : Messages \cup {Nil}, item : Names]
         /\ d.version \in {"old", "current"} /\ d.columns \in BOOLEAN
         /\ d.migrated \in 0..Upgrades
         /\ d # Nil
BY NilAssumption DEF Database

\* A database is its tables and its schema.
LEMMA SameDatabase ==
  ASSUME NEW d \in Database, NEW e \in Database,
         d.threads = e.threads, d.messages = e.messages, d.indexed = e.indexed,
         d.rows = e.rows, d.bound = e.bound, d.attached = e.attached,
         d.version = e.version, d.columns = e.columns, d.migrated = e.migrated
  PROVE  d = e
BY DEF Database

\* The schema alone changes.
LEMMA UpToDateIs ==
  ASSUME NEW d \in Database
  PROVE  LET e == UpToDate(d)
         IN /\ e \in Database
            /\ e.threads = d.threads /\ e.messages = d.messages /\ e.indexed = d.indexed
            /\ e.rows = d.rows /\ e.bound = d.bound /\ e.attached = d.attached
            /\ e.version = "current" /\ e.columns = TRUE /\ e.migrated = Upgrades
<1>1. Upgrades \in 0..Upgrades
  BY UpgradesAssumption
<1> QED BY <1>1 DEF Database, UpToDate

\* Brought up to date, databases with the same tables are the same.
LEMMA SameUpToDate ==
  ASSUME NEW d \in Database, NEW e \in Database,
         d.threads = e.threads, d.messages = e.messages, d.indexed = e.indexed,
         d.rows = e.rows, d.bound = e.bound, d.attached = e.attached
  PROVE  UpToDate(d) = UpToDate(e)
<1> DEFINE x == UpToDate(d)
           y == UpToDate(e)
<1>1. /\ x \in Database /\ y \in Database
      /\ x.threads = y.threads /\ x.messages = y.messages /\ x.indexed = y.indexed
      /\ x.rows = y.rows /\ x.bound = y.bound /\ x.attached = y.attached
      /\ x.version = y.version /\ x.columns = y.columns /\ x.migrated = y.migrated
  BY UpToDateIs
<1> HIDE DEF x, y
<1>2. x = y
  BY <1>1, SameDatabase
<1> QED BY <1>2 DEF x, y

\* A new database is coherent.
LEMMA EmptyIs ==
  /\ EmptyDatabase \in Database
  /\ EmptyDatabase.version = "current" /\ EmptyDatabase.rows = {}
  /\ \A ids : Sane(EmptyDatabase, ids)
BY UpgradesAssumption DEF EmptyDatabase, Database, Sane

\* So is the database of an older release this starts with.
LEMMA OldIs ==
  /\ OldDatabase \in Database
  /\ OldDatabase.rows = {}
  /\ \A ids : Sane(OldDatabase, ids)
<1>1. 0 \in 0..Upgrades
  BY UpgradesAssumption
<1>2. /\ OldDatabase \in Database
      /\ OldDatabase.threads = {} /\ OldDatabase.messages = {} /\ OldDatabase.indexed = {}
      /\ OldDatabase.rows = {} /\ OldDatabase.bound = {} /\ OldDatabase.attached = {}
      /\ OldDatabase.version = "old"
  BY <1>1 DEF OldDatabase, EmptyDatabase, Database
<1> QED BY <1>2 DEF Sane

\* Ids given out later take nothing from a database's coherence.
LEMMA SaneGrows ==
  ASSUME NEW d, NEW ids, NEW more, ids \subseteq more, Sane(d, ids)
  PROVE  Sane(d, more)
BY DEF Sane

\* AddColumns: the schema alone changes.
LEMMA ColumnsIs ==
  ASSUME NEW d, NEW ids, Sane(d, ids)
  PROVE  LET e == [d EXCEPT !.columns = TRUE]
         IN Sane(e, ids) /\ e.rows = d.rows /\ e.bound = d.bound /\ e.version = d.version
            /\ e.columns /\ UpToDate(e) = UpToDate(d)
<1> DEFINE e == [d EXCEPT !.columns = TRUE]
<1>1. /\ e \in Database
      /\ e.threads = d.threads /\ e.messages = d.messages /\ e.indexed = d.indexed
      /\ e.rows = d.rows /\ e.bound = d.bound /\ e.attached = d.attached
      /\ e.version = d.version /\ e.columns = TRUE /\ e.migrated = d.migrated
  BY DEF Sane, Database
<1> HIDE DEF e
<1>2. Sane(e, ids)
  BY <1>1 DEF Sane
<1>3. UpToDate(e) = UpToDate(d)
  BY <1>1, SameUpToDate DEF Sane
<1> QED BY <1>1, <1>2, <1>3 DEF e

\* Migrate: one more migration is behind a database that needed one.
LEMMA MigratedIs ==
  ASSUME NEW d, NEW ids, Sane(d, ids), d.migrated < Upgrades
  PROVE  LET e == [d EXCEPT !.migrated = @ + 1]
         IN Sane(e, ids) /\ e.rows = d.rows /\ e.bound = d.bound /\ e.version = d.version
            /\ e.columns = d.columns /\ UpToDate(e) = UpToDate(d)
<1> DEFINE n == d.migrated + 1
           e == [d EXCEPT !.migrated = n]
<1>1. n \in 0..Upgrades
  BY UpgradesAssumption DEF Sane, Database
<1> HIDE DEF n
<1>2. /\ e \in Database
      /\ e.threads = d.threads /\ e.messages = d.messages /\ e.indexed = d.indexed
      /\ e.rows = d.rows /\ e.bound = d.bound /\ e.attached = d.attached
      /\ e.version = d.version /\ e.columns = d.columns
  BY <1>1 DEF Sane, Database
<1>3. d.version # "current"
  BY UpgradesAssumption DEF Sane
<1> HIDE DEF e
<1>4. Sane(e, ids)
  BY <1>2, <1>3 DEF Sane
<1>5. UpToDate(e) = UpToDate(d)
  BY <1>2, SameUpToDate DEF Sane
<1> QED BY <1>2, <1>4, <1>5 DEF e, n

\* StampVersion: with every migration behind it a database may be stamped.
LEMMA StampedIs ==
  ASSUME NEW d, NEW ids, Sane(d, ids), d.migrated = Upgrades, d.columns
  PROVE  LET e == [d EXCEPT !.version = "current"]
         IN Sane(e, ids) /\ e.rows = d.rows /\ e.bound = d.bound /\ e.version = "current"
            /\ UpToDate(e) = UpToDate(d)
<1> DEFINE e == [d EXCEPT !.version = "current"]
<1>1. /\ e \in Database
      /\ e.threads = d.threads /\ e.messages = d.messages /\ e.indexed = d.indexed
      /\ e.rows = d.rows /\ e.bound = d.bound /\ e.attached = d.attached
      /\ e.version = "current" /\ e.columns = d.columns /\ e.migrated = d.migrated
  BY DEF Sane, Database
<1> HIDE DEF e
<1>2. Sane(e, ids)
  BY <1>1 DEF Sane
<1>3. UpToDate(e) = UpToDate(d)
  BY <1>1, SameUpToDate DEF Sane
<1> QED BY <1>1, <1>2, <1>3 DEF e

\* A database of this release is up to date.
LEMMA CurrentIs ==
  ASSUME NEW d, NEW ids, Sane(d, ids), d.version = "current"
  PROVE  d = UpToDate(d)
<1> DEFINE e == UpToDate(d)
<1>1. /\ e \in Database
      /\ e.threads = d.threads /\ e.messages = d.messages /\ e.indexed = d.indexed
      /\ e.rows = d.rows /\ e.bound = d.bound /\ e.attached = d.attached
      /\ e.version = d.version /\ e.columns = TRUE /\ e.migrated = d.migrated
  BY UpToDateIs DEF Sane
<1>2. d.columns = TRUE
  BY Tables DEF Sane
<1> HIDE DEF e
<1>3. e = d
  BY <1>1, <1>2, SameDatabase DEF Sane
<1> QED BY <1>3 DEF e

\* CreateThread adds a thread and nothing else.
LEMMA ThreadIs ==
  ASSUME NEW d, NEW ids, Sane(d, ids), NEW t \in Threads
  PROVE  LET e == [d EXCEPT !.threads = @ \cup {t}]
         IN Sane(e, ids) /\ e.rows = d.rows /\ e.bound = d.bound /\ e.version = d.version
<1> DEFINE x == d.threads \cup {t}
           e == [d EXCEPT !.threads = x]
<1>1. x \in SUBSET Threads
  BY Tables DEF Sane
<1>2. d.threads \subseteq x
  OBVIOUS
<1> HIDE DEF x
<1>3. /\ e \in Database
      /\ e.threads = x /\ e.messages = d.messages /\ e.indexed = d.indexed
      /\ e.rows = d.rows /\ e.bound = d.bound /\ e.attached = d.attached
      /\ e.version = d.version /\ e.columns = d.columns /\ e.migrated = d.migrated
  BY <1>1 DEF Sane, Database
<1> HIDE DEF e
<1>4. Sane(e, ids)
  BY <1>2, <1>3 DEF Sane
<1> QED BY <1>3, <1>4 DEF e, x

\* The triggers change the messages and the index of them, no other table.
LEMMA IndexedIs ==
  ASSUME NEW d \in Database, NEW messages \in SUBSET (Messages \X Threads)
  PROVE  LET e == Indexed(d, messages)
         IN /\ e \in Database
            /\ e.threads = d.threads /\ e.messages = messages
            /\ e.indexed = (d.indexed \cup {m[1] : m \in messages \ d.messages})
                             \ {m[1] : m \in d.messages \ messages}
            /\ e.rows = d.rows /\ e.bound = d.bound /\ e.attached = d.attached
            /\ e.version = d.version /\ e.columns = d.columns /\ e.migrated = d.migrated
<1> DEFINE x == (d.indexed \cup {m[1] : m \in messages \ d.messages})
                  \ {m[1] : m \in d.messages \ messages}
           e == [d EXCEPT !.messages = messages, !.indexed = x]
<1>1. x \in SUBSET Messages
  BY Tables
<1>2. Indexed(d, messages) = e
  BY DEF Indexed
<1> HIDE DEF x
<1>3. /\ e \in Database
      /\ e.threads = d.threads /\ e.messages = messages /\ e.indexed = x
      /\ e.rows = d.rows /\ e.bound = d.bound /\ e.attached = d.attached
      /\ e.version = d.version /\ e.columns = d.columns /\ e.migrated = d.migrated
  BY <1>1 DEF Database
<1> HIDE DEF e
<1> QED BY <1>2, <1>3 DEF x

\* A message with a new id, in a thread that is there, leaves a database coherent.
LEMMA MessageIs ==
  ASSUME NEW d, NEW ids, Sane(d, ids), NEW m \in Messages, m \notin ids, NEW t \in d.threads
  PROVE  LET e == Indexed(d, d.messages \cup {<<m, t>>})
         IN /\ Sane(e, ids \cup {m})
            /\ e.threads = d.threads /\ e.rows = d.rows /\ e.bound = d.bound
            /\ e.version = d.version
<1> DEFINE new == d.messages \cup {<<m, t>>}
           e == Indexed(d, new)
<1>1. d \in Database /\ t \in Threads /\ new \in SUBSET (Messages \X Threads)
  BY Tables DEF Sane
<1>2. /\ e \in Database
      /\ e.threads = d.threads /\ e.messages = new
      /\ e.indexed = (d.indexed \cup {n[1] : n \in new \ d.messages}) \ {n[1] : n \in d.messages \ new}
      /\ e.rows = d.rows /\ e.bound = d.bound /\ e.attached = d.attached
      /\ e.version = d.version /\ e.columns = d.columns /\ e.migrated = d.migrated
  BY <1>1, IndexedIs
<1> HIDE DEF e
<1>3. e.indexed = {n[1] : n \in new}
  BY <1>2 DEF Sane
<1>4. /\ \A n \in new : n[1] \in ids \cup {m} /\ n[2] \in e.threads
      /\ \A n, o \in new : n[1] = o[1] => n = o
  BY <1>2 DEF Sane
<1> HIDE DEF new
<1>5. Sane(e, ids \cup {m})
  BY <1>2, <1>3, <1>4 DEF Sane
<1> QED BY <1>2, <1>5 DEF e, new

\* The triggers take a message's id from the index with the message.
LEMMA ForgottenIs ==
  ASSUME NEW d, NEW ids, Sane(d, ids), NEW messages \in SUBSET d.messages
  PROVE  LET e == Indexed(d, messages)
         IN /\ Sane(e, ids) /\ e.messages = messages
            /\ e.threads = d.threads /\ e.rows = d.rows /\ e.bound = d.bound
            /\ e.attached = d.attached /\ e.version = d.version
<1> DEFINE e == Indexed(d, messages)
<1>1. d \in Database /\ messages \in SUBSET (Messages \X Threads)
  BY Tables DEF Sane
<1>2. /\ e \in Database
      /\ e.threads = d.threads /\ e.messages = messages
      /\ e.indexed = (d.indexed \cup {n[1] : n \in messages \ d.messages})
                       \ {n[1] : n \in d.messages \ messages}
      /\ e.rows = d.rows /\ e.bound = d.bound /\ e.attached = d.attached
      /\ e.version = d.version /\ e.columns = d.columns /\ e.migrated = d.migrated
  BY <1>1, IndexedIs
<1> HIDE DEF e
<1>3. e.indexed = {n[1] : n \in messages}
  BY <1>2 DEF Sane
<1>4. Sane(e, ids)
  BY <1>2, <1>3 DEF Sane
<1> QED BY <1>2, <1>4 DEF e

\* Registering an image adds its row and its binding.
LEMMA RegisteredIs ==
  ASSUME NEW d, NEW ids, Sane(d, ids), NEW i \in Images,
         NEW owner \in Threads \cup Owners \cup {Nil}
  PROVE  LET e == Registered(d, i, owner)
         IN /\ Sane(e, ids) /\ e.threads = d.threads /\ e.version = d.version
            /\ e.rows = d.rows \cup {i} /\ d.bound \subseteq e.bound
<1> DEFINE x == d.rows \cup {i}
           y == d.bound \cup (IF owner = Nil THEN {} ELSE {<<i, owner>>})
           e == [d EXCEPT !.rows = x, !.bound = y]
<1>1. /\ x \in SUBSET Images
      /\ y \in SUBSET (Images \X (Threads \cup (Owners \ {Nil})))
  BY Tables DEF Sane
<1>2. d.rows \subseteq x /\ \A b \in y : b[1] \in x
  BY DEF Sane
<1>3. Registered(d, i, owner) = e /\ d.bound \subseteq y
  BY DEF Registered
<1> HIDE DEF x, y
<1>4. /\ e \in Database
      /\ e.threads = d.threads /\ e.messages = d.messages /\ e.indexed = d.indexed
      /\ e.rows = x /\ e.bound = y /\ e.attached = d.attached
      /\ e.version = d.version /\ e.columns = d.columns /\ e.migrated = d.migrated
  BY <1>1 DEF Sane, Database
<1> HIDE DEF e
<1>5. Sane(e, ids)
  BY <1>2, <1>4 DEF Sane
<1> QED BY <1>3, <1>4, <1>5 DEF x

\* An attachment of a stored item, by a thread that is there.
LEMMA AttachedIs ==
  ASSUME NEW d, NEW ids, Sane(d, ids), NEW t \in d.threads, NEW m \in Messages,
         NEW i \in Names, i \in Images => i \in d.rows
  PROVE  LET e == [d EXCEPT !.attached = @ \cup {[thread |-> t, message |-> m, item |-> i]}]
         IN Sane(e, ids) /\ e.threads = d.threads /\ e.rows = d.rows /\ e.bound = d.bound
            /\ e.version = d.version
<1> DEFINE a == [thread |-> t, message |-> m, item |-> i]
           x == d.attached \cup {a}
           e == [d EXCEPT !.attached = x]
<1>1. x \in SUBSET [thread : Threads, message : Messages \cup {Nil}, item : Names]
  BY Tables DEF Sane
<1>2. \A b \in x : b.thread \in d.threads /\ (b.item \in Images => b.item \in d.rows)
  BY DEF Sane
<1> HIDE DEF x
<1>3. /\ e \in Database
      /\ e.threads = d.threads /\ e.messages = d.messages /\ e.indexed = d.indexed
      /\ e.rows = d.rows /\ e.bound = d.bound /\ e.attached = x
      /\ e.version = d.version /\ e.columns = d.columns /\ e.migrated = d.migrated
  BY <1>1 DEF Sane, Database
<1> HIDE DEF e
<1>4. Sane(e, ids)
  BY <1>2, <1>3 DEF Sane
<1> QED BY <1>3, <1>4 DEF e, x, a

\* The undoing of a message takes no row, and leaves the database coherent.
LEMMA UndoneIs ==
  ASSUME NEW d, NEW ids, NEW m, NEW t, NEW stored, Sane(d, ids)
  PROVE  LET e == Undone(d, m, t, stored)
         IN Sane(e, ids) /\ e.threads = d.threads /\ e.rows = d.rows /\ e.version = d.version
<1> DEFINE c == Indexed(d, d.messages \ {<<m, t>>})
           x == {b \in c.bound : b[1] \notin stored}
           y == {IF a.message = m THEN [a EXCEPT !.message = Nil] ELSE a : a \in c.attached}
           e == [c EXCEPT !.bound = x, !.attached = y]
<1>1. /\ Sane(c, ids)
      /\ c.threads = d.threads /\ c.rows = d.rows /\ c.version = d.version
  BY ForgottenIs
<1>0. Undone(d, m, t, stored) = e
  BY DEF Undone
<1> HIDE DEF c
<1>2. /\ x \in SUBSET (Images \X (Threads \cup (Owners \ {Nil})))
      /\ \A b \in x : b[1] \in c.rows
  BY <1>1, Tables DEF Sane
<1>3. \A a \in c.attached :
        LET b == IF a.message = m THEN [a EXCEPT !.message = Nil] ELSE a
        IN /\ b \in [thread : Threads, message : Messages \cup {Nil}, item : Names]
           /\ b.thread = a.thread /\ b.item = a.item
  BY <1>1, Tables DEF Sane
<1>4. /\ y \in SUBSET [thread : Threads, message : Messages \cup {Nil}, item : Names]
      /\ \A b \in y : b.thread \in c.threads /\ (b.item \in Images => b.item \in c.rows)
  BY <1>1, <1>3 DEF Sane
<1> HIDE DEF x, y
<1>5. /\ e \in Database
      /\ e.threads = c.threads /\ e.messages = c.messages /\ e.indexed = c.indexed
      /\ e.rows = c.rows /\ e.bound = x /\ e.attached = y
      /\ e.version = c.version /\ e.columns = c.columns /\ e.migrated = c.migrated
  BY <1>1, <1>2, <1>4 DEF Sane, Database
<1> HIDE DEF e
<1>6. Sane(e, ids)
  BY <1>1, <1>2, <1>4, <1>5 DEF Sane
<1> QED BY <1>0, <1>1, <1>5, <1>6

\* The deletion of a thread takes every reference to it, and no row.
LEMMA RemovedIs ==
  ASSUME NEW d, NEW ids, Sane(d, ids), NEW t
  PROVE  LET e == Removed(d, t)
         IN /\ Sane(e, ids) /\ e.rows = d.rows /\ e.version = d.version
            /\ t \notin e.threads /\ e.bound = {b \in d.bound : b[2] # t}
<1> DEFINE c == Indexed(d, {m \in d.messages : m[2] # t})
           w == c.threads \ {t}
           x == {b \in c.bound : b[2] # t}
           y == {a \in c.attached : a.thread # t}
           e == [c EXCEPT !.threads = w, !.bound = x, !.attached = y]
<1>1. /\ Sane(c, ids) /\ c.messages = {m \in d.messages : m[2] # t}
      /\ c.threads = d.threads /\ c.rows = d.rows /\ c.version = d.version /\ c.bound = d.bound
  BY ForgottenIs
<1>2. Removed(d, t) = e
  BY DEF Removed
<1> HIDE DEF c
<1>3. /\ w \in SUBSET Threads
      /\ x \in SUBSET (Images \X (Threads \cup (Owners \ {Nil})))
      /\ y \in SUBSET [thread : Threads, message : Messages \cup {Nil}, item : Names]
  BY <1>1, Tables DEF Sane
<1>4. /\ \A m \in c.messages : m[2] \in w
      /\ \A b \in x : b[1] \in c.rows
      /\ \A a \in y : a.thread \in w /\ (a.item \in Images => a.item \in c.rows)
      /\ t \notin w
  BY <1>1 DEF Sane
<1>5. x = {b \in d.bound : b[2] # t}
  BY <1>1
<1> HIDE DEF w, x, y
<1>6. /\ e \in Database
      /\ e.threads = w /\ e.messages = c.messages /\ e.indexed = c.indexed
      /\ e.rows = c.rows /\ e.bound = x /\ e.attached = y
      /\ e.version = c.version /\ e.columns = c.columns /\ e.migrated = c.migrated
  BY <1>1, <1>3 DEF Sane, Database
<1> HIDE DEF e
<1>7. Sane(e, ids)
  BY <1>1, <1>4, <1>6 DEF Sane
<1> QED BY <1>1, <1>2, <1>4, <1>5, <1>6, <1>7

\* The rows of images nothing refers to can go.
LEMMA PurgedIs ==
  ASSUME NEW d, NEW ids, Sane(d, ids), NEW gone,
         \A i \in gone : (\A b \in d.bound : b[1] # i) /\ (\A a \in d.attached : a.item # i)
  PROVE  LET e == [d EXCEPT !.rows = @ \ gone]
         IN /\ Sane(e, ids) /\ e.rows = d.rows \ gone
            /\ e.threads = d.threads /\ e.bound = d.bound /\ e.attached = d.attached
            /\ e.messages = d.messages /\ e.indexed = d.indexed /\ e.version = d.version
<1> DEFINE x == d.rows \ gone
           e == [d EXCEPT !.rows = x]
<1>1. x \in SUBSET Images
  BY Tables DEF Sane
<1>2. /\ \A b \in d.bound : b[1] \in x
      /\ \A a \in d.attached : a.item \in Images => a.item \in x
  BY DEF Sane
<1> HIDE DEF x
<1>3. /\ e \in Database
      /\ e.threads = d.threads /\ e.messages = d.messages /\ e.indexed = d.indexed
      /\ e.rows = x /\ e.bound = d.bound /\ e.attached = d.attached
      /\ e.version = d.version /\ e.columns = d.columns /\ e.migrated = d.migrated
  BY <1>1 DEF Sane, Database
<1> HIDE DEF e
<1>4. Sane(e, ids)
  BY <1>2, <1>3 DEF Sane
<1> QED BY <1>3, <1>4 DEF e, x

(***************************************************************************)
(* Requests                                                                *)
(***************************************************************************)
\* The fields of no request.
LEMMA NoRequestIs ==
  /\ Shaped(NoRequest)
  /\ NoRequest.kind = "none" /\ NoRequest.pc = "idle" /\ NoRequest.thread = Nil
  /\ NoRequest.next = 0 /\ NoRequest.stored = {} /\ NoRequest.media = {}
  /\ NoRequest.moved = {} /\ NoRequest.fresh = FALSE
<1>1. /\ NoRequest.archive = Nil /\ NoRequest.before = Nil
      /\ NoRequest.kind = "none" /\ NoRequest.pc = "idle" /\ NoRequest.thread = Nil
      /\ NoRequest.next = 0 /\ NoRequest.stored = {} /\ NoRequest.media = {}
      /\ NoRequest.moved = {} /\ NoRequest.fresh = FALSE
  BY DEF NoRequest
<1> DEFINE k == "none" pc == "idle" n == 0 st == {} me == {} mo == {} f == FALSE
<1>2. /\ k \in Kinds /\ pc \in Places /\ n \in Nat /\ f \in BOOLEAN
      /\ st \in SUBSET (Images \cup Messages \cup {"study-threads", "media"})
      /\ me \in SUBSET Images /\ mo \in SUBSET File
  BY DEF Kinds, Places
<1>3. NoRequest = [kind |-> k, pc |-> pc, thread |-> Nil, message |-> Nil, next |-> n,
                   stored |-> st, media |-> me, archive |-> Nil, before |-> Nil,
                   moved |-> mo, fresh |-> f]
  BY DEF NoRequest
<1> HIDE DEF k, pc, n, st, me, mo, f
<1>4. Shaped(NoRequest)
  BY <1>1, <1>2, <1>3 DEF Shaped
<1> QED BY <1>1, <1>4

\* The fields of a start.
LEMMA StartingIs ==
  Shaped(Starting) /\ Starting.kind = "start" /\ Starting.pc = "open" /\ Starting.fresh
BY NoRequestIs DEF Starting, Shaped, Kinds, Places, Opening

\* Goto changes where a request is, and nothing else of it.
LEMMA GotoIs ==
  ASSUME Shaped(op), NEW pc \in Places, Goto(pc)
  PROVE  /\ Shaped(op') /\ op'.pc = pc /\ op'.kind = op.kind /\ op'.thread = op.thread
         /\ op'.message = op.message /\ op'.next = op.next /\ op'.stored = op.stored
         /\ op'.media = op.media /\ op'.archive = op.archive /\ op'.before = op.before
         /\ op'.moved = op.moved /\ op'.fresh = op.fresh /\ Item' = Item
<1>1. /\ Shaped(op') /\ op'.pc = pc /\ op'.kind = op.kind /\ op'.thread = op.thread
      /\ op'.message = op.message /\ op'.next = op.next /\ op'.stored = op.stored
      /\ op'.media = op.media /\ op'.archive = op.archive /\ op'.before = op.before
      /\ op'.moved = op.moved /\ op'.fresh = op.fresh
  BY DEF Goto, Shaped
<1> QED BY <1>1 DEF Item

\* Which requests can be where.
LEMMA PlaceIs ==
  ASSUME Request
  PROVE  /\ op.pc \in {"store", "register"} => op.kind \in {"message", "upload"}
         /\ op.pc \in {"attach", "undo", "undo files"} => op.kind = "message"
         /\ op.pc \in {"unlink", "commit"} => op.kind \in {"message", "delete"}
         /\ op.pc \in {"rows", "rmtree"} => op.kind = "delete"
         /\ op.pc \in Opening => op.kind \in {"start", "restore"}
         /\ op.pc \in Swapping \cup {"health"} => op.kind = "restore"
         /\ op.kind \in Kinds
BY DEF Request, Shaped, Kinds, Opening, Storing, Swapping

\* What an invariant says of the request at work is void once it has returned.
LEMMA ReturnKeeps ==
  ASSUME Return
  PROVE  Request' /\ Storage' /\ Deletion' /\ Restoring' /\ op'.kind = "none" /\ op'.pc = "idle"
BY NoRequestIs DEF Return, Request, Storage, Deletion, Restoring, Storing

\* Archives and sweep stay what they are when only ids are given out.
LEMMA SavedKept ==
  ASSUME Saved, UNCHANGED <<archives, sweep>>, made \subseteq made'
  PROVE  Saved'
BY SaneGrows DEF Saved, Backup

\* What is saved of the home as it is.
LEMMA ArchiveIs ==
  ASSUME Stored, db # Nil, NEW kind \in {"manual", "pre-restore", "migration"}
  PROVE  LET a == Archive(kind, db, files)
         IN Backup(a, made) /\ a.db = db /\ a.files = files
BY DEF Archive, Backup, Stored

(***************************************************************************)
(* Each action keeps the invariant: opening the database                   *)
(***************************************************************************)
\* The process's word is taken for the database, or the migration backup is made.
LEMMA OpenDatabaseKeeps == ASSUME Homes, OpenDatabase PROVE Homes'
<1>1. /\ op.pc = "open" /\ op.kind \in {"start", "restore"} /\ Shaped(op)
      /\ UNCHANGED <<made, torn>>
      /\ db # Nil => Sane(db, made)
  BY PlaceIs DEF Homes, OpenDatabase, Opening, Stored, Request
<1>2. ASSUME Trusted, op.kind = "restore" PROVE Homes'
  <2>1. db # Nil
    BY <1>2 DEF Homes, Stored
  <2>2. Goto("health") /\ UNCHANGED <<db, files, archives, sweep>>
    BY <1>2, <2>1 DEF OpenDatabase, Opened
  <2>3. "health" \in Places
    BY DEF Places
  <2>4. /\ Shaped(op') /\ op'.pc = "health" /\ op'.kind = op.kind /\ op'.thread = op.thread
        /\ op'.message = op.message /\ op'.next = op.next /\ op'.stored = op.stored
        /\ op'.media = op.media /\ op'.archive = op.archive /\ op'.before = op.before
        /\ op'.moved = op.moved /\ op'.fresh = op.fresh
    BY <1>1, <2>2, <2>3, GotoIs
  <2>5. Request' /\ Storage' /\ Deletion' /\ Backed'
    BY <1>2, <2>4 DEF Homes, Request, Storage, Deletion, Backed, Storing
  <2>6. Stored'
    BY <1>1, <1>2, <2>2, <2>4 DEF Homes, Stored
  <2>7. Saved'
    BY <1>1, <2>2, SavedKept DEF Homes
  <2>8. Restoring'
    <3>1. Swapped(1)' /\ Swapped(2)'
      BY <1>1, <1>2, <2>2, <2>4 DEF Homes, Restoring, Swapped, Passed, Away, Has
    <3>2. db = op.archive.db /\ (op.fresh => db.version = "current")
      BY <1>1, <1>2, <2>1 DEF Homes, Restoring, Swapping, Trusted
    <3> QED BY <1>1, <1>2, <2>2, <2>4, <3>1, <3>2 DEF Homes, Restoring, Swapping
  <2> QED BY <2>5, <2>6, <2>7, <2>8 DEF Homes
<1>3. ASSUME Trusted, op.kind = "start" PROVE Homes'
  <2>1. /\ Return /\ files' = files \ Tombs(files) /\ sweep' = [NoSweep EXCEPT !.pc = "due"]
        /\ db' = (IF db = Nil THEN EmptyDatabase ELSE db) /\ UNCHANGED archives
    BY <1>3 DEF OpenDatabase, Opened
  <2>2. Request' /\ Storage' /\ Deletion' /\ Restoring' /\ op'.kind = "none" /\ op'.pc = "idle"
    BY <2>1, ReturnKeeps
  <2>3. Sane(db', made) /\ db'.version = "current" /\ (db = Nil => db'.rows = {})
    BY <1>1, <1>3, <2>1, EmptyIs DEF Trusted, Homes, Request
  <2>4. Stored'
    BY <1>1, <2>1, <2>2, <2>3, Tables DEF Homes, Stored, Sane
  <2>5. Saved'
    BY <1>1, <2>1 DEF Homes, Saved, NoSweep
  <2>6. Backed'
    <3>1. \A i \in Images : Image(i) \in files => Image(i) \in files'
      BY <2>1 DEF Tombs, Under, Image
    <3>2. db' = db \/ db'.rows = {}
      BY <2>1, <2>3
    <3>3. db'.rows \subseteq Images
      BY <2>3, Tables DEF Sane
    <3> QED BY <1>1, <1>3, <2>1, <2>2, <3>1, <3>2, <3>3 DEF Homes, Backed, ImagesThere
  <2> QED BY <2>2, <2>4, <2>5, <2>6 DEF Homes
<1>4. ASSUME ~Trusted PROVE Homes'
  <2>1. /\ Goto("columns") /\ UNCHANGED <<db, files, sweep>>
        /\ archives' = archives \cup {Archive("migration", db, files)}
        /\ op.fresh /\ db # Nil
    BY <1>4 DEF OpenDatabase, Trusted
  <2>2. "columns" \in Places
    BY DEF Places, Opening
  <2>3. /\ Shaped(op') /\ op'.pc = "columns" /\ op'.kind = op.kind /\ op'.thread = op.thread
        /\ op'.message = op.message /\ op'.next = op.next /\ op'.stored = op.stored
        /\ op'.media = op.media /\ op'.archive = op.archive /\ op'.before = op.before
        /\ op'.moved = op.moved /\ op'.fresh = op.fresh
    BY <1>1, <2>1, <2>2, GotoIs
  <2>4. Request' /\ Storage' /\ Deletion' /\ Backed'
    BY <1>1, <2>1, <2>3 DEF Homes, Request, Storage, Deletion, Backed, Storing, Opening
  <2>5. Stored'
    BY <1>1, <2>1, <2>3 DEF Homes, Stored
  <2>6. Saved'
    BY <1>1, <2>1, ArchiveIs DEF Homes, Saved
  <2>7. Restoring'
    <3>1. op.kind = "restore" => Swapped(1)' /\ Swapped(2)'
      BY <1>1, <2>1, <2>3 DEF Homes, Restoring, Swapped, Passed, Away, Has
    <3> QED BY <1>1, <2>1, <2>3, <3>1 DEF Homes, Restoring, Swapping
  <2> QED BY <2>4, <2>5, <2>6, <2>7 DEF Homes
<1> QED BY <1>1, <1>2, <1>3, <1>4

\* The two steps of an upgrade that go on with it.
LEMMA UpgradeKeeps ==
  ASSUME Homes, AddColumns \/ Migrate
  PROVE  Homes'
<1>1. /\ op.pc \in {"columns", "upgrade"} /\ op.kind \in {"start", "restore"} /\ Shaped(op)
      /\ UNCHANGED <<made, torn, files, archives, sweep>> /\ db # Nil /\ Sane(db, made)
  BY PlaceIs DEF Homes, AddColumns, Migrate, Opening, Stored, Request, OnlyRequest
<1>2. /\ Sane(db', made) /\ db'.rows = db.rows /\ UpToDate(db') = UpToDate(db) /\ db'.columns
  <2>1. CASE AddColumns
    BY <1>1, <2>1, ColumnsIs DEF AddColumns
  <2>2. CASE Migrate
    BY <1>1, <2>2, MigratedIs DEF Migrate, Homes, Stored
  <2> QED BY <2>1, <2>2
<1>3. /\ Shaped(op') /\ op'.pc = "upgrade" /\ op'.kind = op.kind /\ op'.thread = op.thread
      /\ op'.message = op.message /\ op'.next = op.next /\ op'.stored = op.stored
      /\ op'.media = op.media /\ op'.archive = op.archive /\ op'.before = op.before
      /\ op'.moved = op.moved /\ op'.fresh = op.fresh
  <2>1. "upgrade" \in Places
    BY DEF Places, Opening
  <2> QED BY <1>1, <2>1, GotoIs DEF AddColumns, Migrate
<1>4. db' # Nil
  BY <1>2, Tables DEF Sane
<1>5. Request' /\ Storage' /\ Deletion' /\ Backed'
  BY <1>1, <1>2, <1>3, <1>4
     DEF Homes, Request, Storage, Deletion, Backed, Storing, Opening, ImagesThere
<1>6. Stored'
  BY <1>1, <1>2, <1>3, <1>4 DEF Homes, Stored
<1>7. Saved'
  BY <1>1, SavedKept DEF Homes
<1>8. Restoring'
  <2>1. op.kind = "restore" => Swapped(1)' /\ Swapped(2)'
    BY <1>1, <1>3 DEF Homes, Restoring, Swapped, Passed, Away, Has
  <2> QED BY <1>1, <1>2, <1>3, <2>1 DEF Homes, Restoring, Swapping
<1> QED BY <1>5, <1>6, <1>7, <1>8 DEF Homes

\* The upgrade's end: the service serves, or the restore looks at its work.
LEMMA StampVersionKeeps == ASSUME Homes, StampVersion PROVE Homes'
<1>1. /\ op.pc = "upgrade" /\ op.kind \in {"start", "restore"} /\ Shaped(op)
      /\ UNCHANGED <<made, torn, archives>> /\ db # Nil /\ Sane(db, made)
      /\ db.columns /\ db.migrated = Upgrades
  BY PlaceIs DEF Homes, StampVersion, Opening, Stored, Request
<1>2. /\ Sane(db', made) /\ db'.rows = db.rows /\ UpToDate(db') = UpToDate(db)
      /\ db'.version = "current" /\ db' # Nil
  BY <1>1, StampedIs, Tables DEF StampVersion, Sane
<1>3. CASE op.kind = "restore"
  <2>1. Goto("health") /\ UNCHANGED <<files, sweep>>
    BY <1>3 DEF StampVersion, Opened
  <2>2. "health" \in Places
    BY DEF Places
  <2>3. /\ Shaped(op') /\ op'.pc = "health" /\ op'.kind = op.kind /\ op'.thread = op.thread
        /\ op'.message = op.message /\ op'.next = op.next /\ op'.stored = op.stored
        /\ op'.media = op.media /\ op'.archive = op.archive /\ op'.before = op.before
        /\ op'.moved = op.moved /\ op'.fresh = op.fresh
    BY <1>1, <2>1, <2>2, GotoIs
  <2>4. Request' /\ Storage' /\ Deletion' /\ Backed'
    BY <1>3, <2>3 DEF Homes, Request, Storage, Deletion, Backed, Storing
  <2>5. Stored'
    BY <1>1, <1>2, <1>3, <2>1, <2>3 DEF Homes, Stored
  <2>6. Saved'
    BY <1>1, <2>1, SavedKept DEF Homes
  <2>7. Restoring'
    <3>1. Swapped(1)' /\ Swapped(2)'
      BY <1>1, <1>3, <2>1, <2>3 DEF Homes, Restoring, Swapped, Passed, Away, Has
    <3> QED BY <1>1, <1>2, <1>3, <2>3, <3>1 DEF Homes, Restoring, Swapping
  <2> QED BY <2>4, <2>5, <2>6, <2>7 DEF Homes
<1>4. CASE op.kind = "start"
  <2>1. Return /\ files' = files \ Tombs(files) /\ sweep' = [NoSweep EXCEPT !.pc = "due"]
    BY <1>4 DEF StampVersion, Opened
  <2>2. Request' /\ Storage' /\ Deletion' /\ Restoring' /\ op'.kind = "none" /\ op'.pc = "idle"
    BY <2>1, ReturnKeeps
  <2>3. Stored'
    BY <1>1, <1>2, <2>1, <2>2 DEF Homes, Stored
  <2>4. Saved'
    BY <1>1, <2>1 DEF Homes, Saved, NoSweep
  <2>5. Backed'
    <3>1. \A i \in Images : Image(i) \in files => Image(i) \in files'
      BY <2>1 DEF Tombs, Under, Image
    <3>2. db'.rows \subseteq Images
      BY <1>2, Tables DEF Sane
    <3> QED BY <1>1, <1>2, <1>4, <2>2, <3>1, <3>2 DEF Homes, Backed, ImagesThere
  <2> QED BY <2>2, <2>3, <2>4, <2>5 DEF Homes
<1> QED BY <1>1, <1>3, <1>4

(***************************************************************************)
(* Threads and uploads                                                     *)
(***************************************************************************)
\* The item being stored is an image, or the document of the message.
LEMMA ItemIs ==
  ASSUME Request, op.pc \in Storing
  PROVE  /\ Item \in Names
         /\ op.kind = "upload" => Item \in Images
         /\ op.kind = "message" => Item \in Images \cup {op.message}
<1>1. op.kind \in {"message", "upload"}
  BY PlaceIs DEF Storing
<1>2. CASE op.kind = "upload"
  <2>1. PICK i \in Images : op.media = {i}
    BY <1>2 DEF Request
  <2>2. Item \in op.media
    BY <1>2, <2>1 DEF Item
  <2> QED BY <1>2, <2>1, <2>2 DEF Names
<1>3. CASE op.kind = "message"
  <2>1. op.message \in Messages /\ op.next \in DOMAIN Files[op.message]
    BY <1>3 DEF Request
  <2>2. Files[op.message] \in Seq(Images \cup {op.message})
    BY <2>1, FilesAssumption
  <2>3. Files[op.message][op.next] \in Images \cup {op.message}
    BY <2>1, <2>2
  <2> QED BY <1>3, <2>1, <2>3 DEF Item, Names
<1> QED BY <1>1, <1>2, <1>3

\* Between two requests the home is of this release.
LEMMA IdleIs ==
  ASSUME Homes, op = NoRequest
  PROVE  /\ db # Nil /\ Sane(db, made) /\ db.version = "current"
         /\ ~torn => ImagesThere(db, files)
BY NoRequestIs DEF Homes, Stored, Backed

\* A thread is created.
LEMMA CreateThreadKeeps ==
  ASSUME Homes, Counted, NEW t \in Threads, CreateThread(t) PROVE Homes'
<1>1. /\ op = NoRequest /\ UNCHANGED <<files, archives, op, sweep, torn>>
      /\ made' = made \cup {t} /\ db # Nil /\ Sane(db, made) /\ db.version = "current"
      /\ ~torn => ImagesThere(db, files)
  BY IdleIs DEF CreateThread
<1>2. /\ Sane(db', made) /\ db'.rows = db.rows /\ db'.version = db.version /\ db' # Nil
  <2>1. db' = [db EXCEPT !.threads = @ \cup {t}]
    BY DEF CreateThread
  <2>2. /\ Sane(db', made) /\ db'.rows = db.rows /\ db'.version = db.version
    BY <1>1, <2>1, ThreadIs
  <2> QED BY <2>2, Tables DEF Sane
<1>3. Sane(db', made')
  BY <1>1, <1>2, SaneGrows
<1>4. Return
  BY <1>1 DEF Return
<1>5. Request' /\ Storage' /\ Deletion' /\ Restoring' /\ op'.kind = "none" /\ op'.pc = "idle"
  BY <1>4, ReturnKeeps
<1>6. Stored' /\ Backed'
  BY <1>1, <1>2, <1>3, <1>5 DEF Homes, Stored, Backed, ImagesThere
<1>7. Saved'
  BY <1>1, SavedKept DEF Homes
<1> QED BY <1>5, <1>6, <1>7 DEF Homes

\* A message is committed, and its files are to be stored.
LEMMA AddUserMessageKeeps ==
  ASSUME Homes, NEW t \in Threads, NEW m \in Messages, AddUserMessage(t, m) PROVE Homes'
<1>1. /\ op = NoRequest /\ t \in db.threads /\ m \notin made
      /\ UNCHANGED <<files, archives, sweep, torn>>
      /\ made' = made \cup {m} /\ db # Nil /\ Sane(db, made) /\ db.version = "current"
      /\ ~torn => ImagesThere(db, files)
  BY IdleIs DEF AddUserMessage, Ask
<1>2. /\ Sane(db', made') /\ db'.rows = db.rows /\ db'.version = db.version
      /\ db'.threads = db.threads /\ db' # Nil
  <2>1. db' = Indexed(db, db.messages \cup {<<m, t>>})
    BY DEF AddUserMessage
  <2>2. /\ Sane(db', made') /\ db'.rows = db.rows /\ db'.version = db.version
        /\ db'.threads = db.threads
    BY <1>1, <2>1, MessageIs
  <2> QED BY <2>2, Tables DEF Sane
<1>3. /\ Shaped(op') /\ op'.kind = "message" /\ op'.pc = "store" /\ op'.thread = t
      /\ op'.message = m /\ op'.next = 1 /\ op'.stored = {}
  BY NoRequestIs DEF AddUserMessage, Shaped, Kinds, Places, Storing
<1>4. 1 \in DOMAIN Files[m]
  <2>1. Files[m] \in Seq(Images \cup {m}) /\ Files[m] # <<>>
    BY FilesAssumption
  <2> QED BY <2>1
<1>5. Request'
  BY <1>3, <1>4 DEF Request, Storing
<1>6. Storage' /\ Deletion' /\ Restoring'
  BY <1>1, <1>2, <1>3 DEF Storage, Deletion, Restoring
<1>7. Stored' /\ Backed'
  BY <1>1, <1>2, <1>3 DEF Homes, Stored, Backed, ImagesThere
<1>8. Saved'
  BY <1>1, SavedKept DEF Homes
<1> QED BY <1>5, <1>6, <1>7, <1>8 DEF Homes

\* An image is to be stored for an owner, or for nobody.
LEMMA UploadMediaKeeps ==
  ASSUME Homes, NEW i \in Images, NEW owner \in Owners, UploadMedia(i, owner) PROVE Homes'
<1>1. /\ op = NoRequest /\ UNCHANGED <<db, files, archives, sweep, made, torn>>
      /\ db # Nil /\ Sane(db, made) /\ db.version = "current"
      /\ ~torn => ImagesThere(db, files)
  BY IdleIs DEF UploadMedia, Ask
<1>2. /\ Shaped(op') /\ op'.kind = "upload" /\ op'.pc = "store" /\ op'.thread = owner
      /\ op'.media = {i}
  <2> DEFINE one == {i}
  <2>1. one \in SUBSET Images
    OBVIOUS
  <2>2. op' = [NoRequest EXCEPT !.kind = "upload", !.pc = "store", !.thread = owner,
                                !.media = one]
    BY DEF UploadMedia
  <2> HIDE DEF one
  <2>3. /\ Shaped(op') /\ op'.kind = "upload" /\ op'.pc = "store" /\ op'.thread = owner
        /\ op'.media = one
    BY <2>1, <2>2, NoRequestIs DEF Shaped, Kinds, Places, Storing
  <2> QED BY <2>3 DEF one
<1>3. Request'
  BY <1>2 DEF Request, Storing
<1>4. Storage' /\ Deletion' /\ Restoring'
  BY <1>1, <1>2 DEF Storage, Deletion, Restoring
<1>5. Stored' /\ Backed'
  BY <1>1, <1>2 DEF Homes, Stored, Backed
<1>6. Saved'
  BY <1>1, SavedKept DEF Homes
<1> QED BY <1>3, <1>4, <1>5, <1>6 DEF Homes

\* The file of an image, or a message's document, comes into its place.
LEMMA StoreKeeps ==
  ASSUME Homes, StoreImage \/ StoreDocument
  PROVE  Homes'
<1>1. /\ op.pc = "store" /\ op.kind \in {"message", "upload"} /\ Request /\ Shaped(op)
      /\ UNCHANGED <<db, archives, sweep, made, torn>> /\ db # Nil /\ Sane(db, made)
      /\ db.version = "current" /\ ~torn => ImagesThere(db, files)
  BY PlaceIs DEF Homes, Stored, Backed, StoreImage, StoreDocument, OnlyRequest, Request
<1>2. /\ Item \in Names
      /\ op.kind = "upload" => Item \in Images
      /\ op.kind = "message" => Item \in Images \cup {op.message}
  BY <1>1, ItemIs DEF Storing
<1>3. CASE StoreImage
  <2>1. Item \in Images /\ files' = files \cup {Image(Item)} /\ Goto("register")
    BY <1>3 DEF StoreImage
  <2>2. "register" \in Places
    BY DEF Places, Storing
  <2>3. /\ Shaped(op') /\ op'.pc = "register" /\ op'.kind = op.kind /\ op'.thread = op.thread
        /\ op'.message = op.message /\ op'.next = op.next /\ op'.stored = op.stored
        /\ op'.media = op.media /\ Item' = Item
    BY <1>1, <2>1, <2>2, GotoIs
  <2>4. Request'
    BY <1>1, <2>3 DEF Request, Storing
  <2>5. Storage' /\ Deletion' /\ Restoring'
    BY <1>1, <2>1, <2>3 DEF Homes, Storage, Deletion, Restoring, Storing
  <2>6. files' \subseteq File
    BY <2>1 DEF Homes, Stored, File
  <2>7. Stored' /\ Backed'
    BY <1>1, <2>1, <2>3, <2>6 DEF Homes, Stored, Backed, ImagesThere
  <2>8. Saved'
    BY <1>1, SavedKept DEF Homes
  <2> QED BY <2>4, <2>5, <2>7, <2>8 DEF Homes
<1>4. CASE StoreDocument
  <2>1. /\ Item \notin Images /\ files' = files \cup {Doc(op.thread, Item)} /\ Goto("attach")
    BY <1>4 DEF StoreDocument
  <2>2. "attach" \in Places
    BY DEF Places, Storing
  <2>3. /\ Shaped(op') /\ op'.pc = "attach" /\ op'.kind = op.kind /\ op'.thread = op.thread
        /\ op'.message = op.message /\ op'.next = op.next /\ op'.stored = op.stored
        /\ op'.media = op.media /\ Item' = Item
    BY <1>1, <2>1, <2>2, GotoIs
  <2>4. op.kind = "message" /\ op.thread \in Threads /\ Item = op.message /\ Item \in Messages
    BY <1>1, <1>2, <2>1 DEF Request
  <2>5. Request'
    BY <1>1, <2>3, <2>4 DEF Request, Storing
  <2>6. Storage' /\ Deletion' /\ Restoring'
    BY <1>1, <2>1, <2>3, <2>4 DEF Homes, Storage, Deletion, Restoring, Storing
  <2>7. files' \subseteq File
    BY <2>1, <2>4 DEF Homes, Stored, File
  <2>8. Stored' /\ Backed'
    BY <1>1, <2>1, <2>3, <2>4, <2>7 DEF Homes, Stored, Backed, ImagesThere
  <2>9. Saved'
    BY <1>1, SavedKept DEF Homes
  <2> QED BY <2>5, <2>6, <2>8, <2>9 DEF Homes
<1> QED BY <1>3, <1>4

\* An image is registered once its file is there.
LEMMA RegisterImageKeeps == ASSUME Homes, RegisterImage PROVE Homes'
<1>1. /\ op.pc = "register" /\ op.kind \in {"message", "upload"} /\ Request /\ Shaped(op)
      /\ UNCHANGED <<files, archives, sweep, made, torn>> /\ db # Nil /\ Sane(db, made)
      /\ db.version = "current"
      /\ Item \in Images /\ Image(Item) \in files
  BY PlaceIs DEF Homes, Stored, Storage, RegisterImage, OnlyRequest, Request
<1>2. /\ Sane(db', made) /\ db'.threads = db.threads /\ db'.version = db.version
      /\ db'.rows = db.rows \cup {Item} /\ db' # Nil
  <2>1. db' = Registered(db, Item, op.thread)
    BY DEF RegisterImage
  <2>2. op.thread \in Threads \cup Owners \cup {Nil}
    BY <1>1 DEF Shaped
  <2>3. /\ Sane(db', made) /\ db'.threads = db.threads /\ db'.version = db.version
        /\ db'.rows = db.rows \cup {Item}
    BY <1>1, <2>1, <2>2, RegisteredIs
  <2> QED BY <2>3, Tables DEF Sane
<1>3. ~torn => ImagesThere(db', files')
  BY <1>1, <1>2 DEF Homes, Backed, ImagesThere
<1>4. Saved'
  BY <1>1, SavedKept DEF Homes
<1>5. CASE op.kind = "upload"
  <2>1. Request' /\ Storage' /\ Deletion' /\ Restoring' /\ op'.kind = "none" /\ op'.pc = "idle"
    BY <1>5, ReturnKeeps DEF RegisterImage
  <2>2. Stored' /\ Backed'
    BY <1>1, <1>2, <1>3, <2>1 DEF Homes, Stored, Backed
  <2> QED BY <1>4, <2>1, <2>2 DEF Homes
<1>6. CASE op.kind = "message"
  <2>1. Goto("attach") /\ "attach" \in Places
    BY <1>6 DEF RegisterImage, Places, Storing
  <2>2. /\ Shaped(op') /\ op'.pc = "attach" /\ op'.kind = op.kind /\ op'.thread = op.thread
        /\ op'.message = op.message /\ op'.next = op.next /\ op'.stored = op.stored
        /\ op'.media = op.media /\ Item' = Item
    BY <1>1, <2>1, GotoIs
  <2>3. Request'
    BY <1>1, <1>6, <2>2 DEF Request, Storing
  <2>4. Storage' /\ Deletion' /\ Restoring'
    BY <1>1, <1>2, <1>6, <2>2 DEF Homes, Storage, Deletion, Restoring, Storing
  <2>5. Stored' /\ Backed'
    BY <1>1, <1>2, <1>3, <1>6, <2>2 DEF Homes, Stored, Backed
  <2> QED BY <1>4, <2>3, <2>4, <2>5 DEF Homes
<1> QED BY <1>1, <1>5, <1>6

\* An item is attached once it is stored and, an image, registered.
LEMMA AttachKeeps == ASSUME Homes, Attach PROVE Homes'
<1>1. /\ op.pc = "attach" /\ op.kind = "message" /\ Request /\ Shaped(op)
      /\ UNCHANGED <<files, archives, sweep, made, torn>> /\ db # Nil /\ Sane(db, made)
      /\ db.version = "current" /\ op.thread \in db.threads /\ op.message \in Messages
      /\ op.thread \in Threads /\ op.next \in DOMAIN Files[op.message]
      /\ op.stored \subseteq Images \cup Messages /\ op.next \in Nat
  BY PlaceIs DEF Homes, Stored, Storage, Attach, OnlyRequest, Request, Storing, Shaped
<1>2. Item \in Names /\ (Item \in Images => Item \in db.rows)
  BY <1>1, ItemIs DEF Homes, Storage, Storing
<1>3. /\ Sane(db', made) /\ db'.threads = db.threads /\ db'.version = db.version
      /\ db'.rows = db.rows /\ db' # Nil
  <2>1. db' = [db EXCEPT !.attached = @ \cup
                 {[thread |-> op.thread, message |-> op.message, item |-> Item]}]
    BY DEF Attach
  <2>2. /\ Sane(db', made) /\ db'.threads = db.threads /\ db'.version = db.version
        /\ db'.rows = db.rows
    BY <1>1, <1>2, <2>1, AttachedIs
  <2> QED BY <2>2, Tables DEF Sane
<1>4. ~torn => ImagesThere(db', files')
  BY <1>1, <1>3 DEF Homes, Backed, ImagesThere
<1>5. Saved'
  BY <1>1, SavedKept DEF Homes
<1>6. CASE op.next = Len(Files[op.message])
  <2>1. Request' /\ Storage' /\ Deletion' /\ Restoring' /\ op'.kind = "none" /\ op'.pc = "idle"
    BY <1>6, ReturnKeeps DEF Attach
  <2>2. Stored' /\ Backed'
    BY <1>1, <1>3, <1>4, <2>1 DEF Homes, Stored, Backed
  <2> QED BY <1>5, <2>1, <2>2 DEF Homes
<1>7. CASE op.next # Len(Files[op.message])
  <2> DEFINE n == op.next + 1
             st == op.stored \cup {Item}
  <2>1. n \in Nat /\ st \in SUBSET (Images \cup Messages)
    BY <1>1, <1>2 DEF Names
  <2>2. n \in DOMAIN Files[op.message]
    <3>1. Files[op.message] \in Seq(Images \cup {op.message})
      BY <1>1, FilesAssumption
    <3> QED BY <1>1, <1>7, <3>1
  <2>3. op' = [op EXCEPT !.pc = "store", !.next = n, !.stored = st]
    BY <1>7 DEF Attach
  <2> HIDE DEF n, st
  <2>4. /\ Shaped(op') /\ op'.pc = "store" /\ op'.kind = op.kind /\ op'.thread = op.thread
        /\ op'.message = op.message /\ op'.next = n /\ op'.stored = st
    BY <1>1, <2>1, <2>3 DEF Shaped, Places, Storing
  <2>5. Request'
    BY <1>1, <2>1, <2>2, <2>4 DEF Request, Storing
  <2>6. Storage' /\ Deletion' /\ Restoring'
    BY <1>1, <1>3, <2>4 DEF Storage, Deletion, Restoring
  <2>7. Stored' /\ Backed'
    BY <1>1, <1>3, <1>4, <2>4 DEF Homes, Stored, Backed
  <2> QED BY <1>5, <2>5, <2>6, <2>7 DEF Homes
<1> QED BY <1>6, <1>7

(***************************************************************************)
(* Undoing a message, deleting a thread, purging images                    *)
(***************************************************************************)
\* What a file is can be told from its place.
LEMMA FileIs ==
  ASSUME NEW f \in File
  PROVE  /\ f.place \in Threads => f.name \in Messages /\ f = Doc(f.place, f.name)
         /\ \A t \in Threads : f.place = <<".deleted", t>> => f.name \in Messages /\ f = Tomb(t, f.name)
         /\ f.place = Nil => \E i \in Images : f = Image(i)
         /\ f.root \in {"study-threads", "media"}
         /\ f.root = "media" <=> f.place = Nil
BY ThreadsAssumption DEF File, Doc, Tomb, Image

\* An image's file is no thread's document and no tombstone.
LEMMA ImageIs ==
  ASSUME NEW i \in Images
  PROVE  /\ Image(i) \in File /\ Image(i).place = Nil /\ Image(i).root = "media"
         /\ \A j \in Images : Image(i) = Image(j) => i = j
         /\ \A t \in Threads : Image(i).place # t /\ Image(i).place # <<".deleted", t>>
BY ThreadsAssumption DEF File, Image

\* The undoing of a message takes its bindings: the rows stay, so do their files.
LEMMA UndoMessageKeeps == ASSUME Homes, UndoMessage PROVE Homes'
<1>1. /\ op.pc = "undo" /\ op.kind = "message" /\ Request /\ Shaped(op)
      /\ UNCHANGED <<files, archives, sweep, made, torn>> /\ db # Nil /\ Sane(db, made)
      /\ db.version = "current" /\ Goto("undo files") /\ "undo files" \in Places
  BY DEF Homes, Stored, UndoMessage, At, OnlyRequest, Request, Places
<1>2. /\ Sane(db', made) /\ db'.version = db.version /\ db'.rows = db.rows /\ db' # Nil
  <2>1. db' = Undone(db, op.message, op.thread, op.stored)
    BY DEF UndoMessage
  <2> DEFINE e == Undone(db, op.message, op.thread, op.stored)
  <2>3. Sane(e, made) /\ e.version = db.version /\ e.rows = db.rows
    <3>1. Sane(db, made)
      BY <1>1
    <3> QED BY <3>1, UndoneIs
  <2> HIDE DEF e
  <2>2. Sane(db', made) /\ db'.version = db.version /\ db'.rows = db.rows
    BY <2>1, <2>3 DEF e
  <2> QED BY <2>2, Tables DEF Sane
<1>3. /\ Shaped(op') /\ op'.pc = "undo files" /\ op'.kind = op.kind /\ op'.thread = op.thread
      /\ op'.message = op.message /\ op'.next = op.next /\ op'.stored = op.stored
  BY <1>1, GotoIs
<1>4. Request'
  BY <1>1, <1>3 DEF Request, Storing
<1>5. Storage' /\ Deletion' /\ Restoring'
  BY <1>1, <1>3 DEF Storage, Deletion, Restoring, Storing
<1>6. Stored' /\ Backed'
  BY <1>1, <1>2, <1>3 DEF Homes, Stored, Backed, ImagesThere
<1>7. Saved'
  BY <1>1, SavedKept DEF Homes
<1> QED BY <1>4, <1>5, <1>6, <1>7 DEF Homes

\* The undoing of a message takes documents, never an image's file.
LEMMA UndoFilesKeeps == ASSUME Homes, UndoFiles PROVE Homes'
<1>1. /\ op.pc = "undo files" /\ op.kind = "message" /\ Request /\ Shaped(op)
      /\ UNCHANGED <<db, archives, sweep, made, torn>> /\ db # Nil /\ Sane(db, made)
      /\ db.version = "current" /\ op.thread \in Threads
      /\ files' = files \ {Doc(op.thread, m) : m \in op.stored \ Images}
  BY DEF Homes, Stored, UndoFiles, At, OnlyRequest, Request
<1>2. /\ Shaped(op') /\ op'.pc = "unlink" /\ op'.kind = op.kind /\ op'.thread = op.thread
      /\ op'.message = op.message /\ op'.next = op.next /\ op'.stored = op.stored
  <2> DEFINE me == op.stored \cap Images
  <2>1. me \in SUBSET Images /\ op' = [op EXCEPT !.pc = "unlink", !.media = me]
    BY DEF UndoFiles
  <2> HIDE DEF me
  <2> QED BY <1>1, <2>1 DEF Shaped, Places
<1>3. Request'
  BY <1>1, <1>2 DEF Request, Storing
<1>4. Storage' /\ Deletion' /\ Restoring'
  BY <1>1, <1>2 DEF Storage, Deletion, Restoring, Storing
<1>5. \A i \in Images : Image(i) \in files => Image(i) \in files'
  <2>1. \A m : Doc(op.thread, m).root = "study-threads"
    BY DEF Doc
  <2> QED BY <1>1, <2>1, ImageIs
<1>6. db.rows \subseteq Images
  BY <1>1, Tables DEF Sane
<1>7. Stored' /\ Backed'
  BY <1>1, <1>2, <1>5, <1>6 DEF Homes, Stored, Backed, ImagesThere
<1>8. Saved'
  BY <1>1, SavedKept DEF Homes
<1> QED BY <1>3, <1>4, <1>7, <1>8 DEF Homes

\* The documents of a thread go under its tombstone.
LEMMA DeleteThreadKeeps ==
  ASSUME Homes, NEW t \in Threads, DeleteThread(t) PROVE Homes'
<1>1. /\ op = NoRequest /\ UNCHANGED <<db, archives, sweep, made, torn>>
      /\ db # Nil /\ Sane(db, made) /\ db.version = "current"
      /\ ~torn => ImagesThere(db, files)
      /\ files' = {IF f.place = t THEN Tomb(t, f.name) ELSE f : f \in files}
      /\ files \subseteq File
  BY IdleIs DEF DeleteThread, Ask, Homes, Stored
<1>2. Shaped(op') /\ op'.kind = "delete" /\ op'.pc = "rows" /\ op'.thread = t
  BY NoRequestIs DEF DeleteThread, Shaped, Kinds, Places
<1>3. \A f \in files : f.place = t => Tomb(t, f.name) \in File /\ Tomb(t, f.name).place # t
  BY <1>1, FileIs, ThreadsAssumption DEF File, Tomb
<1>4. files' \subseteq File /\ Documents(files', t) = {}
  BY <1>1, <1>3 DEF Documents
<1>5. \A i \in Images : Image(i) \in files => Image(i) \in files'
  <2> SUFFICES ASSUME NEW f \in files, f.place # t
               PROVE  f \in {IF g.place = t THEN Tomb(t, g.name) ELSE g : g \in files}
    BY <1>1, ImageIs
  <2>1. f = IF f.place = t THEN Tomb(t, f.name) ELSE f
    OBVIOUS
  <2> QED BY <2>1
<1>6. db.rows \subseteq Images
  BY <1>1, Tables DEF Sane
<1>7. Request'
  BY <1>2 DEF Request
<1>8. Storage' /\ Deletion' /\ Restoring'
  BY <1>2, <1>4 DEF Storage, Deletion, Restoring
<1>9. Stored' /\ Backed'
  BY <1>1, <1>2, <1>4, <1>5, <1>6 DEF Homes, Stored, Backed, ImagesThere
<1>10. Saved'
  BY <1>1, SavedKept DEF Homes
<1> QED BY <1>7, <1>8, <1>9, <1>10 DEF Homes

\* The documents go back into their place, when there was nothing to delete or the
\* transaction failed.
LEMMA UntombKeeps ==
  ASSUME Homes, At("delete", "rows"), files' = Untombed(op.thread), Return,
         UNCHANGED <<db, archives, sweep, made, torn>>
  PROVE  Homes'
<1>1. /\ op.kind = "delete" /\ op.pc = "rows" /\ op.thread \in Threads
      /\ db # Nil /\ Sane(db, made) /\ db.version = "current" /\ files \subseteq File
  BY DEF Homes, Stored, Request, At
<1>2. Request' /\ Storage' /\ Deletion' /\ Restoring' /\ op'.kind = "none" /\ op'.pc = "idle"
  BY ReturnKeeps
<1>3. \A f \in files : f.place = <<".deleted", op.thread>> => Doc(op.thread, f.name) \in File
  BY <1>1, FileIs DEF File
<1>4. files' \subseteq File
  BY <1>1, <1>3 DEF Untombed
<1>5. \A i \in Images : Image(i) \in files => Image(i) \in files'
  BY <1>1, ImageIs DEF Untombed
<1>6. db.rows \subseteq Images
  BY <1>1, Tables DEF Sane
<1>7. Stored' /\ Backed'
  BY <1>1, <1>2, <1>4, <1>5, <1>6 DEF Homes, Stored, Backed, ImagesThere
<1>8. Saved'
  BY SavedKept DEF Homes
<1> QED BY <1>2, <1>7, <1>8 DEF Homes

\* The rows of a thread go, or its documents go back into their place.
LEMMA DeleteRowsKeeps == ASSUME Homes, DeleteRows PROVE Homes'
<1>1. /\ op.kind = "delete" /\ op.pc = "rows" /\ op.thread \in Threads /\ Request /\ Shaped(op)
      /\ db # Nil /\ Sane(db, made) /\ db.version = "current"
      /\ UNCHANGED <<archives, sweep, made, torn>>
  BY DEF Homes, Stored, Request, DeleteRows, At, OnlyRequest
<1>2. CASE op.thread \in db.threads
  <2> DEFINE me == AttachedImages(op.thread)
  <2>1. /\ db' = Removed(db, op.thread) /\ UNCHANGED files
        /\ op' = [op EXCEPT !.pc = "rmtree", !.media = me]
    BY <1>2 DEF DeleteRows
  <2>2. me \in SUBSET Images /\ me \subseteq db.rows
    BY <1>1 DEF AttachedImages, Sane
  <2> HIDE DEF me
  <2>3. /\ Sane(db', made) /\ db'.rows = db.rows /\ db'.version = db.version
        /\ op.thread \notin db'.threads /\ db'.bound = {b \in db.bound : b[2] # op.thread}
    BY <1>1, <2>1, RemovedIs
  <2>4. db' # Nil
    BY <2>3, Tables DEF Sane
  <2>5. /\ Shaped(op') /\ op'.pc = "rmtree" /\ op'.kind = op.kind /\ op'.thread = op.thread
        /\ op'.media = me
    BY <1>1, <2>1, <2>2 DEF Shaped, Places
  <2>6. Request'
    BY <1>1, <2>5 DEF Request
  <2>7. Storage' /\ Deletion' /\ Restoring'
    BY <1>1, <2>1, <2>2, <2>3, <2>5 DEF Homes, Storage, Deletion, Restoring, Documents
  <2>8. Stored' /\ Backed'
    BY <1>1, <2>1, <2>3, <2>4, <2>5 DEF Homes, Stored, Backed, ImagesThere
  <2>9. Saved'
    BY <1>1, SavedKept DEF Homes
  <2> QED BY <2>6, <2>7, <2>8, <2>9 DEF Homes
<1>3. CASE op.thread \notin db.threads
  BY <1>1, <1>3, UntombKeeps DEF DeleteRows
<1> QED BY <1>2, <1>3

\* Whether the tombstone was removed, or stays for the next start.
LEMMA TombstoneKeeps == ASSUME Homes, RemoveTombstone \/ TombstoneStays PROVE Homes'
<1>1. /\ op.kind = "delete" /\ op.pc = "rmtree" /\ op.thread \in Threads /\ Request /\ Shaped(op)
      /\ db # Nil /\ Sane(db, made) /\ db.version = "current"
      /\ UNCHANGED <<db, archives, sweep, made, torn>>
      /\ Goto("unlink") /\ "unlink" \in Places
      /\ files' = files \/ files' = {f \in files : f.place # <<".deleted", op.thread>>}
  BY DEF Homes, Stored, Request, RemoveTombstone, TombstoneStays, At, OnlyRequest, Places
<1>2. /\ Shaped(op') /\ op'.pc = "unlink" /\ op'.kind = op.kind /\ op'.thread = op.thread
      /\ op'.media = op.media
  BY <1>1, GotoIs
<1>3. Request'
  BY <1>1, <1>2 DEF Request
<1>4. Storage' /\ Deletion' /\ Restoring'
  BY <1>1, <1>2 DEF Homes, Storage, Deletion, Restoring, Documents
<1>5. files' \subseteq files /\ \A i \in Images : Image(i) \in files => Image(i) \in files'
  BY <1>1, ImageIs
<1>6. db.rows \subseteq Images
  BY <1>1, Tables DEF Sane
<1>7. Stored' /\ Backed'
  BY <1>1, <1>2, <1>5, <1>6 DEF Homes, Stored, Backed, ImagesThere
<1>8. Saved'
  BY <1>1, SavedKept DEF Homes
<1> QED BY <1>3, <1>4, <1>7, <1>8 DEF Homes

\* From here the images nobody holds have a row and no file, until the commit.
LEMMA PurgeUnlinkKeeps == ASSUME Homes, PurgeUnlink PROVE Homes'
<1>1. /\ op.pc = "unlink" /\ op.kind \in {"message", "delete"} /\ Request /\ Shaped(op)
      /\ db # Nil /\ Sane(db, made) /\ db.version = "current"
      /\ UNCHANGED <<db, archives, sweep, made, torn>>
      /\ Goto("commit") /\ "commit" \in Places
      /\ files' = files \ {Image(i) : i \in Unreferenced(op.media)}
  BY PlaceIs DEF Homes, Stored, Request, PurgeUnlink, OnlyRequest, Places
<1>2. /\ Shaped(op') /\ op'.pc = "commit" /\ op'.kind = op.kind /\ op'.thread = op.thread
      /\ op'.message = op.message /\ op'.stored = op.stored /\ op'.next = op.next
      /\ op'.media = op.media
  BY <1>1, GotoIs
<1>3. Request'
  BY <1>1, <1>2 DEF Request, Storing
<1>4. db.rows \subseteq Images /\ Unreferenced(op.media) \subseteq db.rows
  BY <1>1, Tables DEF Sane, Unreferenced
<1>5. \A i \in db.rows : Image(i) \in files' <=> Image(i) \in files /\ i \notin Unreferenced(op.media)
  BY <1>1, <1>4, ImageIs
<1>6. Unreferenced(op.media)' = Unreferenced(op.media)
  BY <1>1, <1>2 DEF Unreferenced
<1>7. Storage' /\ Restoring'
  BY <1>1, <1>2 DEF Storage, Restoring, Storing
<1>8. Deletion'
  BY <1>1, <1>2, <1>4, <1>5, <1>6 DEF Homes, Deletion, Documents
<1>9. Stored'
  BY <1>1, <1>2 DEF Homes, Stored
<1>10. Backed'
  BY <1>1, <1>2, <1>4, <1>5, <1>6 DEF Homes, Backed, ImagesThere
<1>11. Saved'
  BY <1>1, SavedKept DEF Homes
<1> QED BY <1>3, <1>7, <1>8, <1>9, <1>10, <1>11 DEF Homes

\* What the commit of a purge does to the database.
LEMMA PurgeCommitIs ==
  ASSUME Homes, PurgeCommit
  PROVE  /\ Sane(db', made) /\ db'.rows = db.rows \ Unreferenced(op.media)
         /\ db'.threads = db.threads /\ db'.bound = db.bound /\ db'.attached = db.attached
         /\ db'.messages = db.messages /\ db'.indexed = db.indexed /\ db'.version = db.version
<1>1. Sane(db, made)
  BY PlaceIs DEF Homes, PurgeCommit, Stored
<1>2. \A i \in Unreferenced(op.media) :
        (\A b \in db.bound : b[1] # i) /\ (\A a \in db.attached : a.item # i)
  BY DEF Unreferenced
<1>3. db' = [db EXCEPT !.rows = @ \ Unreferenced(op.media)]
  BY DEF PurgeCommit
<1> DEFINE gone == Unreferenced(op.media)
<1> HIDE DEF gone
<1>4. db' = [db EXCEPT !.rows = @ \ gone]
  BY <1>3 DEF gone
<1>5. \A i \in gone : (\A b \in db.bound : b[1] # i) /\ (\A a \in db.attached : a.item # i)
  BY <1>2 DEF gone
<1>6. /\ Sane(db', made) /\ db'.rows = db.rows \ gone
      /\ db'.threads = db.threads /\ db'.bound = db.bound /\ db'.attached = db.attached
      /\ db'.messages = db.messages /\ db'.indexed = db.indexed /\ db'.version = db.version
  BY <1>1, <1>4, <1>5, PurgedIs
<1> QED BY <1>6 DEF gone

\* The commit of a purge brings database and files in step again.
LEMMA PurgeCommitKeeps == ASSUME Homes, PurgeCommit PROVE Homes'
<1>1. /\ op.pc = "commit" /\ op.kind \in {"message", "delete"} /\ Return
      /\ db # Nil /\ Sane(db, made) /\ db.version = "current"
      /\ UNCHANGED <<files, archives, sweep, made, torn>>
  BY PlaceIs DEF Homes, Stored, PurgeCommit, OnlyRequest
<1>2. /\ Sane(db', made) /\ db'.rows = db.rows \ Unreferenced(op.media)
      /\ db'.version = db.version
  BY PurgeCommitIs
<1>3. db' # Nil
  BY <1>2, Tables DEF Sane
<1>4. Request' /\ Storage' /\ Deletion' /\ Restoring' /\ op'.kind = "none" /\ op'.pc = "idle"
  BY <1>1, ReturnKeeps
<1>5. Stored' /\ Backed'
  BY <1>1, <1>2, <1>3, <1>4 DEF Homes, Stored, Backed, ImagesThere
<1>6. Saved'
  BY <1>1, SavedKept DEF Homes
<1> QED BY <1>4, <1>5, <1>6 DEF Homes

(***************************************************************************)
(* Backups                                                                 *)
(***************************************************************************)
\* A step that leaves the home alone keeps what it says about the home.
LEMMA HomeUntouched ==
  ASSUME Homes, UNCHANGED <<db, files, op, made, torn>>
  PROVE  Request' /\ Stored' /\ Backed' /\ Storage' /\ Deletion' /\ Restoring'
<1>1. Request'
  BY DEF Homes, Request, Shaped
<1>2. Stored'
  BY DEF Homes, Stored
<1>3. Backed'
  BY DEF Homes, Backed, ImagesThere, Unreferenced
<1>4. Storage'
  BY DEF Homes, Storage, Item
<1>5. Deletion'
  BY DEF Homes, Deletion, Unreferenced
<1>6. Restoring'
  BY DEF Homes, Restoring, Swapped, Passed, Away, Has, Backup
<1> QED BY <1>1, <1>2, <1>3, <1>4, <1>5, <1>6

\* A backup on request saves the home as it is.
LEMMA CreateBackupKeeps == ASSUME Homes, CreateBackup PROVE Homes'
<1>1. /\ op = NoRequest /\ UNCHANGED <<db, files, op, sweep, made, torn>> /\ db # Nil
      /\ archives' = archives \cup {Archive("manual", db, files)}
  BY IdleIs DEF CreateBackup, Ask
<1>2. Backup(Archive("manual", db, files), made)
  BY <1>1, ArchiveIs DEF Homes
<1>3. Saved'
  BY <1>1, <1>2 DEF Homes, Saved
<1> QED BY <1>1, <1>3, HomeUntouched DEF Homes

\* The automatic backup works beside the requests.
LEMMA SweepKeeps ==
  ASSUME Homes, SweepSnapshot \/ (\E k \in DOMAIN Roots : SweepCopy(k)) \/ SweepPublish
  PROVE  Homes'
<1>1. UNCHANGED <<db, files, op, made, torn>>
  BY DEF SweepSnapshot, SweepCopy, SweepPublish
<1>2. files \subseteq File
  BY DEF Homes, Stored
<1>3. CASE SweepSnapshot
  <2>1. UNCHANGED archives
    BY <1>3 DEF SweepSnapshot
  <2>3. CASE db # Nil /\ sweep' = [pc |-> "study-threads", db |-> db, files |-> {}]
    <3>1. Sane(db, made)
      BY <2>3 DEF Homes, Stored
    <3>2. /\ sweep'.pc = "study-threads" /\ sweep'.db = db
          /\ sweep' \in [pc : {"idle", "due", "study-threads", "media", "publish"},
                         db : {sweep'.db}, files : SUBSET File]
      BY <2>3
    <3>3. Saved'
      BY <1>1, <2>1, <3>1, <3>2 DEF Homes, Saved
    <3> QED BY <1>1, <3>3, HomeUntouched DEF Homes
  <2>4. Saved' => Homes'
    BY <1>1, HomeUntouched DEF Homes
  <2>5. CASE sweep' = NoSweep
    <3>1. Saved'
      BY <1>1, <2>1, <2>5 DEF Homes, Saved, NoSweep
    <3> QED BY <2>4, <3>1
  <2> QED BY <1>3, <2>3, <2>5 DEF SweepSnapshot
<1>4. ASSUME NEW k \in DOMAIN Roots, SweepCopy(k) PROVE Homes'
  <2> DEFINE fs == sweep.files \cup Under(files, Roots[k])
             pc == IF k = Len(Roots) THEN "publish" ELSE Roots[k + 1]
  <2>1. k \in {1, 2}
    BY DEF Roots
  <2>2. pc \in {"media", "publish"}
    BY <2>1 DEF Roots
  <2>3. fs \in SUBSET File
    BY <1>2 DEF Under, Homes, Saved
  <2>4. /\ sweep' = [sweep EXCEPT !.files = fs, !.pc = pc] /\ UNCHANGED archives
        /\ sweep.pc = Roots[k]
    BY <1>4 DEF SweepCopy
  <2>5. sweep.pc \notin {"idle", "due"}
    BY <2>1, <2>4 DEF Roots
  <2> HIDE DEF fs, pc
  <2>6. Saved'
    BY <1>1, <2>2, <2>3, <2>4, <2>5 DEF Homes, Saved
  <2> QED BY <1>1, <2>6, HomeUntouched DEF Homes
<1>5. CASE SweepPublish
  <2>1. /\ sweep.pc = "publish" /\ sweep' = NoSweep
        /\ archives' = Pruned(archives \cup {Archive("automatic", sweep.db, sweep.files)})
    BY <1>5 DEF SweepPublish
  <2>2. Backup(Archive("automatic", sweep.db, sweep.files), made)
    BY <2>1 DEF Homes, Saved, Backup, Archive
  <2>3. archives' \subseteq archives \cup {Archive("automatic", sweep.db, sweep.files)}
    BY <2>1 DEF Pruned
  <2>4. Saved'
    BY <1>1, <2>1, <2>2, <2>3 DEF Homes, Saved, NoSweep
  <2> QED BY <1>1, <2>4, HomeUntouched DEF Homes
<1> QED BY <1>3, <1>4, <1>5

(***************************************************************************)
(* Restore                                                                 *)
(***************************************************************************)
\* The two roots share no file, and there is no third.
LEMMA RootsAre ==
  /\ Roots[1] = "study-threads" /\ Roots[2] = "media" /\ Len(Roots) = 2
  /\ \A f \in File : f.root = Roots[1] \/ f.root = Roots[2]
BY FileIs DEF Roots

\* A restore starts from a verified archive, and has saved the home as it is.
LEMMA RestoreKeeps ==
  ASSUME Homes, NEW a \in archives, NEW fresh \in BOOLEAN, Restore(a, fresh)
  PROVE  Homes'
<1> DEFINE b == Archive("pre-restore", db, files)
<1>1. /\ op = NoRequest /\ UNCHANGED <<db, files, sweep, made, torn>>
      /\ db # Nil /\ Sane(db, made) /\ db.version = "current"
      /\ ~torn => ImagesThere(db, files)
      /\ Verified(a) /\ archives' = archives \cup {b}
  BY IdleIs DEF Restore, Ask
<1>2. Backup(b, made) /\ b.db = db /\ b.files = files
  BY <1>1, ArchiveIs DEF Homes
<1>3. Backup(a, made) /\ ImagesThere(a.db, a.files)
  BY <1>1 DEF Homes, Saved, Verified, Audit
<1>4. op' = [NoRequest EXCEPT !.kind = "restore", !.pc = "move", !.next = 1,
                              !.archive = a, !.fresh = fresh, !.before = b]
  BY DEF Restore
<1> HIDE DEF b
<1>5. /\ Shaped(op') /\ op'.kind = "restore" /\ op'.pc = "move" /\ op'.next = 1
      /\ op'.archive = a /\ op'.before = b /\ op'.stored = {} /\ op'.moved = {}
      /\ op'.fresh = fresh
  <2>1. /\ op'.kind = "restore" /\ op'.pc = "move" /\ op'.next = 1
        /\ op'.archive = a /\ op'.before = b /\ op'.stored = {} /\ op'.moved = {}
        /\ op'.fresh = fresh
    BY <1>4, NoRequestIs DEF Shaped
  <2>2. {op'.archive} = {a} /\ {op'.before} = {b}
    BY <2>1
  <2>3. "restore" \in Kinds /\ "move" \in Places
    BY DEF Kinds, Places, Swapping
  <2> QED BY <1>4, <2>1, <2>2, <2>3, NoRequestIs DEF Shaped
<1>6. Request'
  BY <1>5 DEF Request, Swapping
<1>7. Storage' /\ Deletion'
  BY <1>5 DEF Storage, Deletion, Storing
<1>8. Stored' /\ Backed'
  BY <1>1, <1>5 DEF Homes, Stored, Backed
<1>9. Saved'
  BY <1>1, <1>2 DEF Homes, Saved
<1>10. Restoring'
  <2>1. Swapped(1)' /\ Swapped(2)'
    BY <1>1, <1>2, <1>5 DEF Swapped, Passed, Away, Has, Under
  <2> QED BY <1>1, <1>2, <1>3, <1>5, <2>1 DEF Restoring, Swapping
<1> QED BY <1>6, <1>7, <1>8, <1>9, <1>10 DEF Homes

\* On to the next root, or to the database.
LEMMA NextRootIs ==
  ASSUME Shaped(op), op.next \in {1, 2}
  PROVE  LET o == NextRoot
         IN /\ Shaped(o) /\ o.kind = op.kind /\ o.stored = op.stored /\ o.moved = op.moved
            /\ o.archive = op.archive /\ o.before = op.before /\ o.fresh = op.fresh
            /\ o.thread = op.thread /\ o.media = op.media
            /\ op.next = 1 => o.pc = "move" /\ o.next = 2
            /\ op.next = 2 => o.pc = "database" /\ o.next = 2
<1>1. "move" \in Places /\ "database" \in Places /\ Len(Roots) = 2
  BY RootsAre DEF Places, Swapping
<1>2. CASE op.next = 1
  <2>1. op.next # Len(Roots) /\ op.next + 1 = 2
    BY <1>1, <1>2
  <2> DEFINE pc == "move"
             n == op.next + 1
  <2>2. NextRoot = [op EXCEPT !.pc = pc, !.next = n]
    BY <2>1 DEF NextRoot
  <2>3. pc \in Places /\ n \in Nat
    BY <1>1, <2>1
  <2> HIDE DEF pc, n
  <2>4. LET o == NextRoot
        IN /\ Shaped(o) /\ o.kind = op.kind /\ o.stored = op.stored /\ o.moved = op.moved
           /\ o.archive = op.archive /\ o.before = op.before /\ o.fresh = op.fresh
           /\ o.thread = op.thread /\ o.media = op.media /\ o.pc = pc /\ o.next = n
    BY <2>2, <2>3 DEF Shaped
  <2> QED BY <1>2, <2>1, <2>4 DEF pc, n
<1>3. CASE op.next = 2
  <2>1. NextRoot = [op EXCEPT !.pc = "database"]
    BY <1>1, <1>3 DEF NextRoot
  <2> QED BY <1>1, <1>3, <2>1 DEF Shaped
<1> QED BY <1>2, <1>3

\* A root the archive has nothing of is passed over.
LEMMA SkipRootKeeps == ASSUME Homes, SkipRoot PROVE Homes'
<1>1. /\ op.kind = "restore" /\ op.pc = "move" /\ Request /\ Shaped(op) /\ op.next \in {1, 2}
      /\ UNCHANGED <<db, files, archives, sweep, made, torn>> /\ op' = NextRoot
      /\ ~Has(op.next) /\ db # Nil
  BY DEF Homes, Request, Stored, SkipRoot, At, OnlyRequest, Has, Root
<1>2. /\ Shaped(op') /\ op'.kind = op.kind /\ op'.stored = op.stored /\ op'.moved = op.moved
      /\ op'.archive = op.archive /\ op'.before = op.before /\ op'.fresh = op.fresh
      /\ op.next = 1 => op'.pc = "move" /\ op'.next = 2
      /\ op.next = 2 => op'.pc = "database" /\ op'.next = 2
  BY <1>1, NextRootIs
<1>3. Request'
  BY <1>1, <1>2 DEF Request, Swapping
<1>4. Storage' /\ Deletion' /\ Stored' /\ Backed'
  BY <1>1, <1>2 DEF Homes, Storage, Deletion, Storing, Stored, Backed
<1>5. Saved'
  BY <1>1, SavedKept DEF Homes
<1>6. Restoring'
  <2>1. Swapped(1) /\ Swapped(2)
    BY <1>1 DEF Homes, Restoring
  <2>2. Swapped(1)' /\ Swapped(2)'
    BY <1>1, <1>2, <2>1 DEF Swapped, Passed, Away, Has
  <2> QED BY <1>1, <1>2, <2>2 DEF Homes, Restoring, Swapping
<1> QED BY <1>3, <1>4, <1>5, <1>6 DEF Homes

\* A root is moved away, whole.
LEMMA MoveRootKeeps == ASSUME Homes, MoveRoot PROVE Homes'
<1>1. /\ op.kind = "restore" /\ op.pc = "move" /\ Request /\ Shaped(op) /\ op.next \in {1, 2}
      /\ UNCHANGED <<db, archives, sweep, made, torn>>
      /\ files' = files \ Under(files, Roots[op.next]) /\ files \subseteq File
      /\ Has(op.next) /\ db # Nil
  BY DEF Homes, Request, Stored, MoveRoot, At, OnlyRequest, Has, Root
<1>2. /\ Shaped(op') /\ op'.kind = op.kind /\ op'.pc = "install" /\ op'.next = op.next
      /\ op'.stored = op.stored /\ op'.moved = op.moved \cup Under(files, Roots[op.next])
      /\ op'.archive = op.archive /\ op'.before = op.before /\ op'.fresh = op.fresh
  <2> DEFINE mo == op.moved \cup Under(files, Root)
  <2>1. mo \in SUBSET File /\ "install" \in Places
    BY <1>1 DEF Shaped, Under, Places, Swapping
  <2>2. op' = [op EXCEPT !.pc = "install", !.moved = mo] /\ Root = Roots[op.next]
    BY DEF MoveRoot, Root
  <2> HIDE DEF mo
  <2>3. /\ Shaped(op') /\ op'.kind = op.kind /\ op'.pc = "install" /\ op'.next = op.next
        /\ op'.stored = op.stored /\ op'.moved = mo
        /\ op'.archive = op.archive /\ op'.before = op.before /\ op'.fresh = op.fresh
    BY <1>1, <2>1, <2>2 DEF Shaped
  <2> QED BY <2>2, <2>3 DEF mo
<1>3. Request'
  BY <1>1, <1>2 DEF Request, Swapping
<1>4. Storage' /\ Deletion' /\ Stored' /\ Backed'
  BY <1>1, <1>2 DEF Homes, Storage, Deletion, Storing, Stored, Backed
<1>5. Saved'
  BY <1>1, SavedKept DEF Homes
<1>6. Restoring'
  <2>1. Swapped(1) /\ Swapped(2)
    BY <1>1 DEF Homes, Restoring
  <2>2. \A k \in {1, 2} : k # op.next => Roots[k] # Roots[op.next]
    BY <1>1, RootsAre
  <2>3. ASSUME NEW k \in {1, 2} PROVE Swapped(k)'
    <3>1. Swapped(k)
      BY <2>1, <2>3
    <3>2. CASE k = op.next
      <4>1. Under(files', Roots[k]) = {}
        BY <1>1, <3>2 DEF Under
      <4>2. Roots[k] \notin op.stored /\ Under(files, Roots[k]) = Under(op.before.files, Roots[k])
        BY <1>1, <3>1, <3>2 DEF Swapped, Passed, Away
      <4>3. Under(op'.moved, Roots[k]) = Under(files, Roots[k])
        BY <1>1, <1>2, <3>1, <3>2 DEF Swapped, Passed, Away, Under
      <4> QED BY <1>1, <1>2, <3>2, <4>1, <4>2, <4>3 DEF Swapped, Passed, Away, Has
    <3>3. CASE k # op.next
      <4>1. Under(files', Roots[k]) = Under(files, Roots[k])
        BY <1>1, <2>2, <3>3 DEF Under
      <4>2. Under(op'.moved, Roots[k]) = Under(op.moved, Roots[k])
        BY <1>1, <1>2, <2>2, <3>3 DEF Under
      <4> QED BY <1>1, <1>2, <3>1, <3>3, <4>1, <4>2 DEF Swapped, Passed, Away, Has
    <3> QED BY <3>2, <3>3
  <2>4. Has(op.next)'
    BY <1>1, <1>2 DEF Has
  <2> QED BY <1>1, <1>2, <2>3, <2>4 DEF Homes, Restoring, Swapping
<1> QED BY <1>3, <1>4, <1>5, <1>6 DEF Homes

\* The archive's files take the place of what was moved away.
LEMMA InstallRootKeeps == ASSUME Homes, InstallRoot PROVE Homes'
<1>1. /\ op.kind = "restore" /\ op.pc = "install" /\ Request /\ Shaped(op) /\ op.next \in {1, 2}
      /\ UNCHANGED <<db, archives, sweep, made, torn>>
      /\ files' = files \cup Under(op.archive.files, Roots[op.next]) /\ files \subseteq File
      /\ Has(op.next) /\ db # Nil /\ op.archive.files \subseteq File
  BY DEF Homes, Request, Stored, InstallRoot, At, OnlyRequest, Restoring, Root, Backup
<1>2. /\ Shaped(op') /\ op'.kind = op.kind /\ op'.moved = op.moved
      /\ op'.stored = op.stored \cup {Roots[op.next]}
      /\ op'.archive = op.archive /\ op'.before = op.before /\ op'.fresh = op.fresh
      /\ op.next = 1 => op'.pc = "move" /\ op'.next = 2
      /\ op.next = 2 => op'.pc = "database" /\ op'.next = 2
  <2> DEFINE o == NextRoot
             st == o.stored \cup {Root}
  <2>1. /\ Shaped(o) /\ o.kind = op.kind /\ o.stored = op.stored /\ o.moved = op.moved
        /\ o.archive = op.archive /\ o.before = op.before /\ o.fresh = op.fresh
        /\ op.next = 1 => o.pc = "move" /\ o.next = 2
        /\ op.next = 2 => o.pc = "database" /\ o.next = 2
    BY <1>1, NextRootIs
  <2>2. op' = [o EXCEPT !.stored = st]
    BY DEF InstallRoot
  <2>3. Root = Roots[op.next] /\ Root \in {"study-threads", "media"}
    BY <1>1, RootsAre DEF Root
  <2> HIDE DEF o
  <2>4. st \in SUBSET (Images \cup Messages \cup {"study-threads", "media"})
    BY <2>1, <2>3 DEF Shaped
  <2>5. st = op.stored \cup {Roots[op.next]}
    BY <2>1, <2>3
  <2> HIDE DEF st
  <2>6. /\ Shaped(op') /\ op'.kind = op.kind /\ op'.moved = op.moved /\ op'.stored = st
        /\ op'.archive = op.archive /\ op'.before = op.before /\ op'.fresh = op.fresh
        /\ op'.pc = o.pc /\ op'.next = o.next
    BY <2>1, <2>2, <2>4 DEF Shaped
  <2> QED BY <2>1, <2>5, <2>6
<1>3. Request'
  BY <1>1, <1>2 DEF Request, Swapping
<1>4. files' \subseteq File
  BY <1>1 DEF Under
<1>5. Storage' /\ Deletion' /\ Stored' /\ Backed'
  BY <1>1, <1>2, <1>4 DEF Homes, Storage, Deletion, Storing, Stored, Backed
<1>6. Saved'
  BY <1>1, SavedKept DEF Homes
<1>7. Restoring'
  <2>1. Swapped(1) /\ Swapped(2)
    BY <1>1 DEF Homes, Restoring
  <2>2. \A k \in {1, 2} : k # op.next => Roots[k] # Roots[op.next]
    BY <1>1, RootsAre
  <2>3. ASSUME NEW k \in {1, 2} PROVE Swapped(k)'
    <3>1. Swapped(k)
      BY <2>1, <2>3
    <3>2. CASE k = op.next
      <4>1. Under(files, Roots[k]) = {} /\ Under(op.moved, Roots[k]) = Under(op.before.files, Roots[k])
        BY <1>1, <3>1, <3>2 DEF Swapped, Passed, Away
      <4>2. Under(files', Roots[k]) = Under(op.archive.files, Roots[k])
        BY <1>1, <3>2, <4>1 DEF Under
      <4>3. Roots[k] \in op'.stored /\ Passed(k)' /\ Has(k)'
        BY <1>1, <1>2, <3>2 DEF Passed, Has
      <4> QED BY <1>2, <4>1, <4>2, <4>3 DEF Swapped
    <3>3. CASE k # op.next
      <4>1. Under(files', Roots[k]) = Under(files, Roots[k])
        BY <1>1, <2>2, <3>3 DEF Under
      <4>2. Roots[k] \in op'.stored <=> Roots[k] \in op.stored
        BY <1>2, <2>2, <3>3
      <4>3. (Passed(k)' <=> Passed(k)) /\ ~Away(k) /\ ~Away(k)' /\ (Has(k)' <=> Has(k))
        BY <1>1, <1>2, <3>3 DEF Passed, Away, Has
      <4> QED BY <1>2, <3>1, <4>1, <4>2, <4>3 DEF Swapped
    <3> QED BY <3>2, <3>3
  <2> QED BY <1>1, <1>2, <2>3 DEF Homes, Restoring, Swapping
<1> QED BY <1>3, <1>5, <1>6, <1>7 DEF Homes

\* The archive's database takes the place of the one that was saved.
LEMMA InstallDatabaseKeeps == ASSUME Homes, InstallDatabase PROVE Homes'
<1>1. /\ op.kind = "restore" /\ op.pc = "database" /\ Request /\ Shaped(op)
      /\ UNCHANGED <<files, archives, sweep, made, torn>> /\ db' = op.archive.db
      /\ Goto("open") /\ "open" \in Places /\ Sane(db', made) /\ files \subseteq File
  BY DEF Homes, Request, Stored, InstallDatabase, At, OnlyRequest, Places, Opening, Restoring,
         Backup
<1>2. /\ Shaped(op') /\ op'.pc = "open" /\ op'.kind = op.kind /\ op'.thread = op.thread
      /\ op'.message = op.message /\ op'.next = op.next /\ op'.stored = op.stored
      /\ op'.media = op.media /\ op'.archive = op.archive /\ op'.before = op.before
      /\ op'.moved = op.moved /\ op'.fresh = op.fresh
  BY <1>1, GotoIs
<1>3. db' # Nil
  BY <1>1, Tables DEF Sane
<1>4. Request'
  BY <1>1, <1>2 DEF Request, Opening
<1>5. Storage' /\ Deletion' /\ Stored' /\ Backed'
  BY <1>1, <1>2, <1>3 DEF Homes, Storage, Deletion, Storing, Stored, Backed
<1>6. Saved'
  BY <1>1, SavedKept DEF Homes
<1>7. Restoring'
  <2>1. Swapped(1)' /\ Swapped(2)'
    BY <1>1, <1>2 DEF Homes, Restoring, Swapped, Passed, Away, Has
  <2> QED BY <1>1, <1>2, <2>1 DEF Homes, Restoring, Swapping
<1> QED BY <1>4, <1>5, <1>6, <1>7 DEF Homes

\* A restore returns only when it has found the home healthy.
LEMMA FinishedKeeps == ASSUME Homes, Finished PROVE Homes'
<1>1. /\ op.kind = "restore" /\ UNCHANGED <<db, files, archives, sweep, made, torn>> /\ Return
      /\ db # Nil /\ Sane(db, made) /\ db.version = "current" /\ ImagesThere(db, files)
  BY DEF Homes, Stored, Finished, At, OnlyRequest, Healthy, Audit
<1>2. Request' /\ Storage' /\ Deletion' /\ Restoring' /\ op'.kind = "none" /\ op'.pc = "idle"
  BY <1>1, ReturnKeeps
<1>3. Stored' /\ Backed'
  BY <1>1, <1>2 DEF Homes, Stored, Backed, ImagesThere
<1>4. Saved'
  BY <1>1, SavedKept DEF Homes
<1> QED BY <1>2, <1>3, <1>4 DEF Homes

\* What a restore puts back is what it found.
LEMMA RolledBackIs ==
  ASSUME Homes, op.kind = "restore"
  PROVE  RolledBackFiles = op.before.files /\ RolledBackDatabase = op.before.db
<1>1. /\ Shaped(op) /\ op.moved \subseteq File /\ files \subseteq File
      /\ op.before.files \subseteq File /\ Sane(op.before.db, made)
      /\ op.pc \in Opening \cup Swapping \cup {"health"}
      /\ Swapped(1) /\ Swapped(2)
  BY DEF Homes, Request, Stored, Restoring, Shaped, Backup
<1>2. RolledBackDatabase = op.before.db
  <2>1. op.before.db # Nil
    BY <1>1, Tables DEF Sane
  <2>2. op.pc \in Swapping => db = op.before.db
    BY DEF Homes, Restoring
  <2> QED BY <1>1, <2>1, <2>2 DEF RolledBackDatabase, Opening, Swapping
<1>3. ASSUME NEW f \in File PROVE f \in RolledBackFiles <=> f \in op.before.files
  <2>1. PICK k \in {1, 2} : f.root = Roots[k]
    BY RootsAre
  <2>2. /\ f \in files <=> f \in Under(files, Roots[k])
        /\ f \in op.moved <=> f \in Under(op.moved, Roots[k])
        /\ f \in op.before.files <=> f \in Under(op.before.files, Roots[k])
    BY <2>1 DEF Under
  <2>3. f \in RolledBackFiles <=> (f \in files /\ Roots[k] \notin op.stored) \/ f \in op.moved
    BY <2>1 DEF RolledBackFiles
  <2>4. Swapped(k)
    BY <1>1, <2>1
  <2> QED BY <2>2, <2>3, <2>4 DEF Swapped
<1>4. RolledBackFiles \subseteq File
  BY <1>1 DEF RolledBackFiles
<1> QED BY <1>1, <1>2, <1>3, <1>4

\* A restore that fails leaves the home it found.
LEMMA RestoreFailsKeeps == ASSUME Homes, RestoreFails PROVE Homes'
<1>1. /\ op.kind = "restore" /\ UNCHANGED <<archives, sweep, made, torn>> /\ Return
      /\ files' = op.before.files /\ db' = op.before.db
  BY RolledBackIs DEF RestoreFails
<1>2. /\ Sane(db', made) /\ db'.version = "current" /\ files' \subseteq File
      /\ ~torn => ImagesThere(db', files')
  BY <1>1 DEF Homes, Restoring, Backup
<1>3. db' # Nil
  BY <1>2, Tables DEF Sane
<1>4. Request' /\ Storage' /\ Deletion' /\ Restoring' /\ op'.kind = "none" /\ op'.pc = "idle"
  BY <1>1, ReturnKeeps
<1>5. Stored' /\ Backed'
  BY <1>1, <1>2, <1>3, <1>4 DEF Stored, Backed, ImagesThere
<1>6. Saved'
  BY <1>1, SavedKept DEF Homes
<1> QED BY <1>4, <1>5, <1>6 DEF Homes

(***************************************************************************)
(* Wiping, and faults                                                      *)
(***************************************************************************)
\* A wipe begins with the database.
LEMMA WipeKeeps == ASSUME Homes, Wipe PROVE Homes'
<1>1. /\ op = NoRequest /\ UNCHANGED <<files, archives, sweep, made, torn>> /\ db' = Nil
      /\ op' = [NoRequest EXCEPT !.kind = "wipe", !.pc = "roots", !.next = 1]
      /\ files \subseteq File
  BY DEF Wipe, Ask, Homes, Stored
<1>2. Shaped(op') /\ op'.kind = "wipe" /\ op'.pc = "roots" /\ op'.next = 1
  BY <1>1, NoRequestIs DEF Shaped, Kinds, Places
<1>3. Request'
  BY <1>2 DEF Request
<1>4. Storage' /\ Deletion' /\ Restoring' /\ Stored' /\ Backed'
  BY <1>1, <1>2 DEF Storage, Deletion, Restoring, Stored, Backed, Storing
<1>5. Saved'
  BY <1>1, SavedKept DEF Homes
<1> QED BY <1>3, <1>4, <1>5 DEF Homes

\* A wipe goes on root by root.
LEMMA WipeRootKeeps == ASSUME Homes, WipeRoot PROVE Homes'
<1>1. /\ op.kind = "wipe" /\ op.pc = "roots" /\ Shaped(op) /\ op.next \in {1, 2}
      /\ UNCHANGED <<db, archives, sweep, made, torn>> /\ db = Nil
      /\ files' \subseteq files /\ files \subseteq File
  BY DEF WipeRoot, At, OnlyRequest, Homes, Stored, Request
<1>2. /\ Shaped(op') /\ op'.kind = "wipe" /\ op'.pc \in {"roots", "recreate"}
      /\ op'.next \in {1, 2}
  <2>1. CASE op.next = Len(Roots)
    <3>1. op' = [op EXCEPT !.pc = "recreate"] /\ "recreate" \in Places
      BY <2>1 DEF WipeRoot, Places
    <3> QED BY <1>1, <3>1 DEF Shaped
  <2>2. CASE op.next # Len(Roots)
    <3> DEFINE n == op.next + 1
    <3>1. n \in {1, 2} /\ n \in Nat
      BY <1>1, <2>2, RootsAre
    <3>2. op' = [op EXCEPT !.next = n]
      BY <2>2 DEF WipeRoot
    <3> HIDE DEF n
    <3> QED BY <1>1, <3>1, <3>2 DEF Shaped
  <2> QED BY <2>1, <2>2
<1>3. Request'
  BY <1>2 DEF Request
<1>4. Storage' /\ Deletion' /\ Restoring' /\ Stored' /\ Backed'
  BY <1>1, <1>2 DEF Storage, Deletion, Restoring, Stored, Backed, Storing
<1>5. Saved'
  BY <1>1, SavedKept DEF Homes
<1> QED BY <1>3, <1>4, <1>5 DEF Homes

\* A wipe ends with an empty database.
LEMMA RecreateKeeps == ASSUME Homes, Recreate PROVE Homes'
<1>1. /\ Return /\ UNCHANGED <<files, archives, sweep, made, torn>> /\ db' = EmptyDatabase
      /\ files \subseteq File
  BY DEF Recreate, OnlyRequest, Homes, Stored
<1>2. Request' /\ Storage' /\ Deletion' /\ Restoring' /\ op'.kind = "none" /\ op'.pc = "idle"
  BY <1>1, ReturnKeeps
<1>3. Sane(db', made) /\ db' # Nil /\ db'.version = "current" /\ db'.rows = {}
  BY <1>1, EmptyIs, Tables
<1>4. Stored' /\ Backed'
  BY <1>1, <1>2, <1>3 DEF Stored, Backed, ImagesThere
<1>5. Saved'
  BY <1>1, SavedKept DEF Homes
<1> QED BY <1>2, <1>4, <1>5 DEF Homes

\* An exception while files are stored leads to the undoing of the message.
LEMMA AttachmentFailsKeeps == ASSUME Homes, AttachmentFails PROVE Homes'
<1>1. /\ op.kind = "message" /\ op.pc \in Storing /\ Request /\ Shaped(op)
      /\ UNCHANGED <<db, files, archives, sweep, made, torn>>
      /\ Goto("undo") /\ "undo" \in Places /\ db # Nil
  BY DEF AttachmentFails, Homes, Request, Stored, Places, Storing
<1>2. /\ Shaped(op') /\ op'.pc = "undo" /\ op'.kind = op.kind /\ op'.thread = op.thread
      /\ op'.message = op.message /\ op'.next = op.next /\ op'.stored = op.stored
  BY <1>1, GotoIs
<1>3. Request'
  BY <1>1, <1>2 DEF Request, Storing
<1>4. Storage' /\ Deletion' /\ Restoring'
  BY <1>1, <1>2 DEF Storage, Deletion, Restoring, Storing
<1>5. Stored' /\ Backed'
  BY <1>1, <1>2 DEF Homes, Stored, Backed, Storing
<1>6. Saved'
  BY <1>1, SavedKept DEF Homes
<1> QED BY <1>3, <1>4, <1>5, <1>6 DEF Homes

\* A request that ends where it is, is noted if it had changed one store only.
LEMMA RequestFailsKeeps == ASSUME Homes, Counted, RequestFails PROVE Homes'
<1>1. /\ UNCHANGED <<files, archives, sweep, made>> /\ Return
      /\ torn' = (torn \/ HalfDone) /\ torn \in BOOLEAN
      /\ op.kind \in {"message", "upload", "delete", "wipe"}
      /\ op.kind # "restore" /\ op.kind # "start" /\ files \subseteq File
      /\ op.pc = "commit" => torn'
      /\ db' = IF db = Nil THEN EmptyDatabase ELSE db
  BY PlaceIs DEF RequestFails, Homes, Stored, Counted, HalfDone
<1>2. Request' /\ Storage' /\ Deletion' /\ Restoring' /\ op'.kind = "none" /\ op'.pc = "idle"
  BY <1>1, ReturnKeeps
<1>3. CASE db = Nil
  <2>1. Sane(db', made) /\ db' # Nil /\ db'.version = "current" /\ db'.rows = {}
    BY <1>1, <1>3, EmptyIs, Tables
  <2>2. Stored' /\ Backed'
    BY <1>1, <1>2, <2>1 DEF Stored, Backed, ImagesThere
  <2>3. Saved'
    BY <1>1, SavedKept DEF Homes
  <2> QED BY <1>2, <2>2, <2>3 DEF Homes
<1>4. CASE db # Nil
  <2>1. db' = db /\ db.version = "current" /\ op.kind # "wipe"
    BY <1>1, <1>4 DEF Homes, Stored
  <2>2. Stored' /\ Backed'
    BY <1>1, <1>2, <1>4, <2>1 DEF Homes, Stored, Backed, ImagesThere
  <2>3. Saved'
    BY <1>1, SavedKept DEF Homes
  <2> QED BY <1>2, <2>2, <2>3 DEF Homes
<1> QED BY <1>3, <1>4

\* A start finds database and files in step, unless one of them was cut off with
\* only one store changed.
LEMMA CutOff ==
  ASSUME Homes, Counted, ~torn, ~HalfDone, db # Nil
  PROVE  ImagesThere(db, files)
<1>1. op.pc # "commit"
  BY DEF HalfDone
<1>2. CASE op.kind # "restore"
  BY <1>1, <1>2 DEF Homes, Backed
<1>3. CASE op.kind = "restore"
  <2>1. op.moved = {} /\ op.stored = {}
    BY <1>3 DEF HalfDone
  <2>2. /\ Swapped(1) /\ Swapped(2) /\ ImagesThere(op.archive.db, op.archive.files)
        /\ ImagesThere(op.before.db, op.before.files)
        /\ op.before.files \subseteq File /\ op.archive.files \subseteq File
        /\ Sane(op.archive.db, made) /\ Sane(op.before.db, made) /\ Sane(db, made)
    BY <1>3 DEF Homes, Restoring, Backup, Stored
  <2>3. Roots[2] = "media" /\ Under(files, "media") = Under(op.before.files, "media")
    BY <2>1, <2>2, RootsAre DEF Swapped, Under
  <2>4. CASE op.pc \in Swapping
    <3>1. db = op.before.db
      BY <1>3, <2>4 DEF Homes, Restoring
    <3>2. \A i \in Images : Image(i) \in op.before.files => Image(i) \in files
      BY <2>3, ImageIs DEF Under
    <3>3. db.rows \subseteq Images
      BY <2>2, Tables DEF Sane
    <3> QED BY <2>2, <3>1, <3>2, <3>3 DEF ImagesThere
  <2>5. CASE op.pc \notin Swapping
    <3>1. Passed(2)
      BY <2>5 DEF Passed, Swapping
    <3>2. Under(op.archive.files, "media") = {}
      BY <2>1, <2>2, <2>3, <3>1 DEF Swapped, Has
    <3>3. op.archive.db.rows = {}
      <4>1. op.archive.db.rows \subseteq Images
        BY <2>2, Tables DEF Sane
      <4> QED BY <2>2, <3>2, <4>1, ImageIs DEF ImagesThere, Under
    <3>4. db.rows = op.archive.db.rows
      <4>1. UpToDate(db) = UpToDate(op.archive.db)
        BY <1>3, <2>5 DEF Homes, Restoring
      <4>2. UpToDate(db).rows = db.rows /\ UpToDate(op.archive.db).rows = op.archive.db.rows
        BY <2>2, UpToDateIs DEF Sane
      <4> QED BY <4>1, <4>2
    <3> QED BY <3>3, <3>4 DEF ImagesThere
  <2> QED BY <2>4, <2>5
<1> QED BY <1>2, <1>3

\* The same, when the service dies.
LEMMA RestartKeeps == ASSUME Homes, Counted, Restart PROVE Homes'
<1>1. /\ UNCHANGED <<db, files, archives, made>> /\ op' = Starting /\ sweep' = NoSweep
      /\ torn' = (torn \/ HalfDone) /\ torn \in BOOLEAN /\ files \subseteq File
  BY DEF Restart, Homes, Stored, Counted
<1>2. Shaped(op') /\ op'.kind = "start" /\ op'.pc = "open" /\ op'.fresh
  BY <1>1, StartingIs
<1>3. Request'
  BY <1>2 DEF Request, Opening
<1>4. Storage' /\ Deletion' /\ Restoring'
  BY <1>2 DEF Storage, Deletion, Restoring, Storing
<1>5. Stored'
  BY <1>1, <1>2 DEF Homes, Stored
<1>6. Backed'
  BY <1>1, <1>2, CutOff DEF Backed, ImagesThere
<1>7. Saved'
  BY <1>1 DEF Homes, Saved, NoSweep
<1> QED BY <1>3, <1>4, <1>5, <1>6, <1>7 DEF Homes

(***************************************************************************)
(* The theorems                                                            *)
(***************************************************************************)
\* The counters stay within their bounds.
LEMMA CountsKept == ASSUME Counted, Next PROVE Counted'
<1> USE BoundsAssumption DEF Counted
<1>1. CASE OpenDatabase \/ AddColumns \/ Migrate \/ StampVersion
  BY <1>1 DEF OpenDatabase, AddColumns, Migrate, StampVersion, OnlyRequest
<1>2. CASE \E t \in Threads : CreateThread(t) \/ DeleteThread(t)
  BY <1>2 DEF CreateThread, DeleteThread, Ask
<1>3. CASE \E t \in Threads, m \in Messages : AddUserMessage(t, m)
  BY <1>3 DEF AddUserMessage, Ask
<1>4. CASE \E i \in Images, owner \in Owners : UploadMedia(i, owner)
  BY <1>4 DEF UploadMedia, Ask
<1>5. CASE StoreImage \/ RegisterImage \/ StoreDocument \/ Attach \/ UndoMessage \/ UndoFiles
  BY <1>5 DEF StoreImage, RegisterImage, StoreDocument, Attach, UndoMessage, UndoFiles, OnlyRequest
<1>6. CASE DeleteRows \/ RemoveTombstone \/ PurgeUnlink \/ PurgeCommit
  BY <1>6 DEF DeleteRows, RemoveTombstone, PurgeUnlink, PurgeCommit, OnlyRequest
<1>7. CASE CreateBackup
  BY <1>7 DEF CreateBackup, Ask
<1>14. CASE SweepSnapshot \/ SweepPublish \/ \E k \in DOMAIN Roots : SweepCopy(k)
  <2>1. UNCHANGED <<made, torn, requests, faults>>
    BY <1>14 DEF SweepSnapshot, SweepPublish, SweepCopy
  <2> QED BY <2>1
<1>8. CASE \E a \in archives, fresh \in BOOLEAN : Restore(a, fresh)
  BY <1>8 DEF Restore, Ask
<1>9. CASE SkipRoot \/ MoveRoot \/ InstallRoot \/ InstallDatabase \/ Finished
  BY <1>9 DEF SkipRoot, MoveRoot, InstallRoot, InstallDatabase, Finished, OnlyRequest
<1>10. CASE Wipe \/ WipeRoot \/ Recreate
  BY <1>10 DEF Wipe, WipeRoot, Recreate, Ask, OnlyRequest
<1>11. CASE AttachmentFails \/ DeleteFails \/ TombstoneStays
  BY <1>11 DEF AttachmentFails, DeleteFails, TombstoneStays, Fault, Faults
<1>12. CASE RestoreFails
  BY <1>12 DEF RestoreFails, Fault, Faults
<1>13. CASE RequestFails \/ Restart
  <2>1. /\ UNCHANGED <<made, requests>> /\ Faults /\ torn' = (torn \/ HalfDone)
    BY <1>13 DEF RequestFails, Restart, Fault
  <2>2. torn' \in BOOLEAN
    BY <2>1
  <2> QED BY <2>1, <2>2 DEF Faults
<1> QED BY <1>1, <1>2, <1>3, <1>4, <1>5, <1>6, <1>7, <1>8, <1>9, <1>10, <1>11, <1>12, <1>13, <1>14
   DEF Next

\* The home of an older release, without archives, satisfies the invariant.
LEMMA InvInit == Init => Inv
<1> SUFFICES ASSUME Init PROVE Inv
  OBVIOUS
<1>1. /\ db = OldDatabase /\ files = {} /\ archives = {} /\ op = Starting /\ sweep = NoSweep
      /\ made = {} /\ torn = FALSE /\ requests = 0 /\ faults = 0
  BY DEF Init
<1>2. Shaped(op) /\ op.kind = "start" /\ op.pc = "open" /\ op.fresh
  BY <1>1, StartingIs
<1>3. Sane(db, made) /\ db.rows = {} /\ db # Nil
  BY <1>1, OldIs, Tables
<1>4. Request
  BY <1>2 DEF Request, Opening
<1>5. Stored /\ Backed /\ Storage /\ Deletion /\ Restoring
  BY <1>1, <1>2, <1>3 DEF Stored, Backed, Storage, Deletion, Restoring, ImagesThere, Storing
<1>6. Saved
  BY <1>1 DEF Saved, NoSweep
<1>7. Counted
  <2>1. torn \in BOOLEAN
    BY <1>1
  <2> QED BY <1>1, <2>1, BoundsAssumption DEF Counted
<1> QED BY <1>4, <1>5, <1>6, <1>7 DEF Inv, Homes

\* Every step keeps the invariant, one lemma above for each action.
LEMMA InvStep == ASSUME Inv, [Next]_vars PROVE Inv'
<1> USE DEF Inv
<1>1. ASSUME Next PROVE Inv'
  <2>1. Counted'
    BY <1>1, CountsKept
  <2>2. Homes'
    <3>1. CASE OpenDatabase \/ AddColumns \/ Migrate \/ StampVersion
      BY <3>1, OpenDatabaseKeeps, UpgradeKeeps, StampVersionKeeps
    <3>2. CASE \E t \in Threads : CreateThread(t) \/ DeleteThread(t)
      BY <3>2, CreateThreadKeeps, DeleteThreadKeeps
    <3>3. CASE \E t \in Threads, m \in Messages : AddUserMessage(t, m)
      BY <3>3, AddUserMessageKeeps
    <3>4. CASE \E i \in Images, owner \in Owners : UploadMedia(i, owner)
      BY <3>4, UploadMediaKeeps
    <3>5. CASE StoreImage \/ RegisterImage \/ StoreDocument \/ Attach \/ UndoMessage \/ UndoFiles
      BY <3>5, StoreKeeps, RegisterImageKeeps, AttachKeeps, UndoMessageKeeps, UndoFilesKeeps
    <3>6. CASE DeleteRows \/ RemoveTombstone \/ PurgeUnlink \/ PurgeCommit
      BY <3>6, DeleteRowsKeeps, TombstoneKeeps, PurgeUnlinkKeeps, PurgeCommitKeeps
    <3>7. CASE CreateBackup
      BY <3>7, CreateBackupKeeps
    <3>8. CASE SweepSnapshot \/ SweepPublish \/ \E k \in DOMAIN Roots : SweepCopy(k)
      BY <3>8, SweepKeeps
    <3>9. CASE \E a \in archives, fresh \in BOOLEAN : Restore(a, fresh)
      BY <3>9, RestoreKeeps
    <3>10. CASE SkipRoot \/ MoveRoot \/ InstallRoot \/ InstallDatabase \/ Finished
      BY <3>10, SkipRootKeeps, MoveRootKeeps, InstallRootKeeps, InstallDatabaseKeeps, FinishedKeeps
    <3>11. CASE Wipe \/ WipeRoot \/ Recreate
      BY <3>11, WipeKeeps, WipeRootKeeps, RecreateKeeps
    <3>12. CASE AttachmentFails \/ TombstoneStays
      BY <3>12, AttachmentFailsKeeps, TombstoneKeeps
    <3>13. CASE DeleteFails
      BY <3>13, UntombKeeps DEF DeleteFails
    <3>14. CASE RestoreFails \/ RequestFails \/ Restart
      BY <3>14, RestoreFailsKeeps, RequestFailsKeeps, RestartKeeps
    <3> QED BY <1>1, <3>1, <3>2, <3>3, <3>4, <3>5, <3>6, <3>7, <3>8, <3>9, <3>10, <3>11, <3>12,
               <3>13, <3>14 DEF Next
  <2> QED BY <2>1, <2>2
<1>2. ASSUME UNCHANGED vars PROVE Inv'
  <2>1. UNCHANGED <<db, files, archives, op, sweep, made, torn, requests, faults>>
    BY <1>2 DEF vars
  <2>2. Saved'
    BY <2>1, SavedKept DEF Homes
  <2>3. Counted'
    BY <2>1 DEF Counted
  <2> QED BY <2>1, <2>2, <2>3, HomeUntouched DEF Homes
<1> QED BY <1>1, <1>2

\* The invariant holds in every state.
LEMMA Invariant == Spec => []Inv
<1>1. Inv /\ [Next]_vars => Inv'
  BY InvStep
<1> QED BY InvInit, <1>1, PTL DEF Spec

\* Every variable has its type, and what the tables refer to is there, whatever is
\* undone, purged, restored or cut off meanwhile.
THEOREM TypeCorrect == Spec => []TypeOK
<1>1. Inv => TypeOK
  BY DEF Inv, Homes, Stored, Saved, Counted, Sane, Backup, TypeOK
<1> QED BY <1>1, Invariant, PTL

\* What is served is of this release's schema, and its images have their files
\* (health.py), short of a purge or a restore that was cut off.
THEOREM ServedHealthy == Spec => []HomeHealthy
<1>1. ASSUME Inv, op.kind \notin {"start", "restore", "wipe"} 
      PROVE  db = UpToDate(db) /\ (torn \/ op.pc = "commit" \/ Healthy(db, files))
  <2>1. db # Nil /\ Sane(db, made) /\ db.version = "current"
    BY <1>1 DEF Inv, Homes, Stored
  <2>2. db = UpToDate(db)
    BY <2>1, CurrentIs
  <2>3. torn \/ op.pc = "commit" \/ ImagesThere(db, files)
    BY <1>1, <2>1 DEF Inv, Homes, Backed
  <2> QED BY <2>1, <2>2, <2>3 DEF Healthy, Audit
<1>2. Inv => HomeHealthy
  BY <1>1 DEF HomeHealthy
<1> QED BY <1>2, Invariant, PTL

\* An archive's images come with it.
LEMMA RestoredImages ==
  ASSUME Inv, op.kind = "restore", op.pc = "health"
  PROVE  ImagesThere(db, files)
<1>1. /\ Swapped(2) /\ ImagesThere(op.archive.db, op.archive.files)
      /\ UpToDate(db) = UpToDate(op.archive.db)
      /\ Sane(op.archive.db, made) /\ Sane(db, made)
  BY DEF Inv, Homes, Restoring, Backup, Stored, Swapping
<1>2. db.rows = op.archive.db.rows
  <2>1. UpToDate(db).rows = db.rows /\ UpToDate(op.archive.db).rows = op.archive.db.rows
    BY <1>1, UpToDateIs DEF Sane
  <2> QED BY <1>1, <2>1
<1>3. Passed(2) /\ Roots[2] = "media"
  BY RootsAre DEF Passed
<1>4. SUFFICES ASSUME NEW i \in db.rows PROVE Image(i) \in files
  BY DEF ImagesThere
<1>5. Image(i) \in Under(op.archive.files, "media")
  <2>1. i \in Images
    BY <1>1, Tables DEF Sane
  <2> QED BY <1>1, <1>2, <2>1, ImageIs DEF ImagesThere, Under
<1>6. Has(2)
  BY <1>3, <1>5 DEF Has
<1>7. Under(files, "media") = Under(op.archive.files, "media")
  BY <1>1, <1>3, <1>6 DEF Swapped
<1> QED BY <1>5, <1>7 DEF Under

\* A restore ends by finishing, or by failing.
LEMMA RestoreEnds ==
  ASSUME Inv, Next, op.kind = "restore", op'.kind = "none"
  PROVE  Finished \/ RestoreFails
<1>1. Request /\ Shaped(op) /\ op # NoRequest
  BY NoRequestIs DEF Inv, Homes, Request
<1>2. \A pc : Goto(pc) => op'.kind = op.kind
  BY <1>1 DEF Goto, Shaped
<1>3. ~(OpenDatabase \/ AddColumns \/ Migrate \/ StampVersion)
  <2>1. db # Nil
    BY DEF Inv, Homes, Stored
  <2> QED BY <1>2, <2>1 DEF OpenDatabase, AddColumns, Migrate, StampVersion, Opened
<1>4. op' # op
  OBVIOUS
<1>5. /\ \A t \in Threads : ~CreateThread(t) /\ ~DeleteThread(t)
      /\ \A t \in Threads, m \in Messages : ~AddUserMessage(t, m)
      /\ \A i \in Images, owner \in Owners : ~UploadMedia(i, owner)
      /\ ~CreateBackup /\ \A a \in archives, fresh \in BOOLEAN : ~Restore(a, fresh)
      /\ ~Wipe
  BY <1>1 DEF CreateThread, DeleteThread, AddUserMessage, UploadMedia, CreateBackup, Restore,
              Wipe, Ask
<1>6. ~(StoreImage \/ RegisterImage \/ StoreDocument \/ Attach \/ UndoMessage \/ UndoFiles)
  BY <1>1, PlaceIs DEF StoreImage, RegisterImage, StoreDocument, Attach, UndoMessage, UndoFiles, At
<1>7. ~(DeleteRows \/ RemoveTombstone \/ PurgeUnlink \/ PurgeCommit)
  BY <1>1, PlaceIs DEF DeleteRows, RemoveTombstone, PurgeUnlink, PurgeCommit, At
<1>8. ~(SweepSnapshot \/ SweepPublish \/ \E k \in DOMAIN Roots : SweepCopy(k))
  BY <1>4 DEF SweepSnapshot, SweepPublish, SweepCopy
<1>9. ~(SkipRoot \/ MoveRoot \/ InstallRoot \/ InstallDatabase)
  <2>1. NextRoot.kind = op.kind /\ Shaped(NextRoot)
    BY <1>1, NextRootIs DEF Request
  <2>2. SkipRoot => op'.kind = op.kind
    BY <2>1 DEF SkipRoot
  <2>3. MoveRoot => op'.kind = op.kind
    BY <1>1 DEF MoveRoot, Shaped
  <2>4. InstallRoot => op'.kind = op.kind
    BY <2>1 DEF InstallRoot, Shaped
  <2>5. InstallDatabase => op'.kind = op.kind
    BY <1>2 DEF InstallDatabase
  <2> QED BY <2>2, <2>3, <2>4, <2>5
<1>10. ~(WipeRoot \/ Recreate \/ AttachmentFails \/ DeleteFails \/ TombstoneStays)
  BY <1>1 DEF WipeRoot, Recreate, AttachmentFails, DeleteFails, TombstoneStays, At
<1>11. ~(RequestFails \/ Restart)
  BY <1>1, PlaceIs, StartingIs DEF RequestFails, Restart
<1> QED BY <1>3, <1>5, <1>6, <1>7, <1>8, <1>9, <1>10, <1>11 DEF Next

\* A restore leaves the archived home, or the home it found (backups.py).
THEOREM AllOrNothing == Spec => RestoreAllOrNothing
<1>1. ASSUME Inv, Next, op.kind = "restore", op'.kind = "none"
      PROVE  IF faults' = faults /\ (op.fresh \/ op.archive.db.version = "current")
             THEN /\ db' = UpToDate(op.archive.db)
                  /\ \A k \in DOMAIN Roots :
                       Under(files', Roots[k]) =
                         Under(IF Under(op.archive.files, Roots[k]) = {}
                               THEN op.before.files ELSE op.archive.files, Roots[k])
             ELSE db' = op.before.db /\ files' = op.before.files
  <2>1. Finished \/ RestoreFails
    BY <1>1, RestoreEnds
  <2>2. CASE Finished
    <3>1. /\ op.pc = "health" /\ UNCHANGED <<db, files, faults>> /\ db.version = "current"
          /\ Sane(db, made)
      BY <1>1, <2>2 DEF Finished, At, OnlyRequest, Healthy, Audit, Inv, Homes, Stored
    <3>2. /\ op.fresh \/ op.archive.db.version = "current"
          /\ UpToDate(db) = UpToDate(op.archive.db)
          /\ Swapped(1) /\ Swapped(2)
      BY <1>1, <3>1 DEF Inv, Homes, Restoring, Swapping
    <3>3. db' = UpToDate(op.archive.db)
      BY <3>1, <3>2, CurrentIs
    <3>4. ASSUME NEW k \in DOMAIN Roots
          PROVE  Under(files', Roots[k]) =
                   Under(IF Under(op.archive.files, Roots[k]) = {}
                         THEN op.before.files ELSE op.archive.files, Roots[k])
      <4>1. k \in {1, 2}
        BY <3>4 DEF Roots
      <4>2. Swapped(k) /\ Passed(k) /\ ~Away(k) /\ files' = files
        BY <3>1, <3>2, <4>1 DEF Passed, Away
      <4> QED BY <4>2 DEF Swapped, Has
    <3> QED BY <3>1, <3>2, <3>3, <3>4
  <2>3. CASE RestoreFails
    <3>1. db' = op.before.db /\ files' = op.before.files
      BY <1>1, <2>3, RolledBackIs DEF RestoreFails, Inv
    <3>2. ASSUME faults' = faults, op.fresh \/ op.archive.db.version = "current" PROVE FALSE
      <4>0. faults \in Nat
        BY <1>1 DEF Inv, Counted
      <4>1. op.pc = "health" /\ ~Healthy(db, files)
        BY <2>3, <3>2, <4>0 DEF RestoreFails, Fault, Faults
      <4>2. db # Nil /\ db.version = "current"
        BY <1>1, <3>2, <4>1 DEF Inv, Homes, Restoring, Stored
      <4> QED BY <1>1, <4>1, <4>2, RestoredImages DEF Healthy, Audit
    <3> QED BY <3>1, <3>2
  <2> QED BY <2>1, <2>2, <2>3
<1>2. Inv /\ [Next]_vars =>
        [op.kind = "restore" /\ op'.kind = "none" =>
           IF faults' = faults /\ (op.fresh \/ op.archive.db.version = "current")
           THEN /\ db' = UpToDate(op.archive.db)
                /\ \A k \in DOMAIN Roots :
                     Under(files', Roots[k]) =
                       Under(IF Under(op.archive.files, Roots[k]) = {}
                             THEN op.before.files ELSE op.archive.files, Roots[k])
           ELSE db' = op.before.db /\ files' = op.before.files]_vars
  BY <1>1
<1> QED BY <1>2, Invariant, PTL DEF Spec, RestoreAllOrNothing

\* Once a deletion has returned, nothing of the thread can be found, and of its
\* images only those somebody else holds (data_lifecycle.py).
THEOREM DeletedGone == Spec => DeletedIsGone
<1>1. ASSUME Inv, Next, op.kind = "delete", op.pc = "commit", op'.kind = "none", faults' = faults
      PROVE  PurgeCommit
  <2>1. Shaped(op) /\ op # NoRequest /\ op # op'
    BY <1>1, NoRequestIs DEF Inv, Homes, Request
  <2>2. faults \in Nat
    BY <1>1 DEF Inv, Counted
  <2>3. ~(OpenDatabase \/ AddColumns \/ Migrate \/ StampVersion)
    BY <1>1 DEF OpenDatabase, AddColumns, Migrate, StampVersion
  <2>4. /\ \A t \in Threads : ~CreateThread(t) /\ ~DeleteThread(t)
        /\ \A t \in Threads, m \in Messages : ~AddUserMessage(t, m)
        /\ \A i \in Images, owner \in Owners : ~UploadMedia(i, owner)
        /\ ~CreateBackup /\ \A a \in archives, fresh \in BOOLEAN : ~Restore(a, fresh)
        /\ ~Wipe
    BY <2>1 DEF CreateThread, DeleteThread, AddUserMessage, UploadMedia, CreateBackup, Restore,
                Wipe, Ask
  <2>5. ~(StoreImage \/ RegisterImage \/ StoreDocument \/ Attach \/ UndoMessage \/ UndoFiles)
    BY <1>1 DEF StoreImage, RegisterImage, StoreDocument, Attach, UndoMessage, UndoFiles, At
  <2>6. ~(DeleteRows \/ RemoveTombstone \/ PurgeUnlink)
    BY <1>1 DEF DeleteRows, RemoveTombstone, PurgeUnlink, At
  <2>7. ~(SweepSnapshot \/ SweepPublish \/ \E k \in DOMAIN Roots : SweepCopy(k))
    BY <2>1 DEF SweepSnapshot, SweepPublish, SweepCopy
  <2>8. ~(SkipRoot \/ MoveRoot \/ InstallRoot \/ InstallDatabase \/ Finished)
    BY <1>1 DEF SkipRoot, MoveRoot, InstallRoot, InstallDatabase, Finished, At
  <2>9. ~(WipeRoot \/ Recreate \/ AttachmentFails \/ DeleteFails \/ TombstoneStays \/ RestoreFails)
    BY <1>1 DEF WipeRoot, Recreate, AttachmentFails, DeleteFails, TombstoneStays, RestoreFails, At
  <2>10. ~(RequestFails \/ Restart)
    BY <1>1, <2>2 DEF RequestFails, Restart, Fault, Faults
  <2> QED BY <1>1, <2>3, <2>4, <2>5, <2>6, <2>7, <2>8, <2>9, <2>10 DEF Next
<1>2. ASSUME Inv, PurgeCommit, op.kind = "delete"
      PROVE  /\ op.thread \notin db'.threads
             /\ Found(db') = {m[1] : m \in {x \in db'.messages : x[2] \in db'.threads}}
             /\ Documents(files', op.thread) = {}
             /\ \A b \in db'.bound : b[2] # op.thread
             /\ \A i \in op.media :
                  \/ i \notin db'.rows /\ Image(i) \notin files'
                  \/ \E b \in db'.bound : b[1] = i
                  \/ \E a \in db'.attached : a.item = i
  <2>1. op.pc = "commit" /\ UNCHANGED files
    BY <1>2 DEF PurgeCommit
  <2>2. /\ Documents(files, op.thread) = {} /\ op.thread \notin db.threads
        /\ \A b \in db.bound : b[2] # op.thread
        /\ op.media \subseteq db.rows
        /\ \A i \in Unreferenced(op.media) : Image(i) \notin files
    BY <1>2, <2>1 DEF Inv, Homes, Deletion
  <2>3. /\ Sane(db', made) /\ db'.rows = db.rows \ Unreferenced(op.media)
        /\ db'.threads = db.threads /\ db'.bound = db.bound /\ db'.attached = db.attached
        /\ db'.messages = db.messages /\ db'.indexed = db.indexed
    BY <1>2, PurgeCommitIs DEF Inv
  <2>4. Found(db') = {m[1] : m \in {x \in db'.messages : x[2] \in db'.threads}}
    <3>1. {x \in db'.messages : x[2] \in db'.threads} = db'.messages
      BY <2>3 DEF Sane
    <3> QED BY <2>3, <3>1 DEF Sane, Found
  <2>5. ASSUME NEW i \in op.media, i \notin Unreferenced(op.media)
        PROVE  (\E b \in db.bound : b[1] = i) \/ (\E a \in db.attached : a.item = i)
    BY <2>2, <2>5 DEF Unreferenced
  <2> QED BY <2>1, <2>2, <2>3, <2>4, <2>5
<1>3. Inv /\ [Next]_vars =>
        [op.kind = "delete" /\ op.pc = "commit" /\ op'.kind = "none" /\ faults' = faults =>
           /\ op.thread \notin db'.threads
           /\ Found(db') = {m[1] : m \in {x \in db'.messages : x[2] \in db'.threads}}
           /\ Documents(files', op.thread) = {}
           /\ \A b \in db'.bound : b[2] # op.thread
           /\ \A i \in op.media :
                \/ i \notin db'.rows /\ Image(i) \notin files'
                \/ \E b \in db'.bound : b[1] = i
                \/ \E a \in db'.attached : a.item = i]_vars
  BY <1>1, <1>2
<1> QED BY <1>3, Invariant, PTL DEF Spec, DeletedIsGone

(***************************************************************************)
(* What other owners have                                                  *)
(***************************************************************************)
OthersStay ==
  /\ \A b \in db.bound : b[2] \notin {op.thread, op'.thread} =>
       b \in db'.bound /\ (Image(b[1]) \in files => Image(b[1]) \in files')
  /\ \A t \in Threads \ {op.thread, op'.thread} : Documents(files, t) \subseteq Documents(files', t)

\* A step that takes neither a binding nor a file leaves everybody what they have.
LEMMA NothingTaken ==
  ASSUME db.bound \subseteq db'.bound, files \subseteq files'
  PROVE  OthersStay
BY DEF OthersStay, Documents

\* The bindings and files of the steps that add to the home, or leave it alone.
LEMMA Additions ==
  ASSUME Homes, op.kind \notin {"restore", "wipe"}, db # Nil,
         \/ AddColumns \/ Migrate \/ StoreImage \/ RegisterImage \/ StoreDocument \/ Attach
         \/ PurgeCommit \/ \E t \in Threads : CreateThread(t)
         \/ \E t \in Threads, m \in Messages : AddUserMessage(t, m)
         \/ \E i \in Images, owner \in Owners : UploadMedia(i, owner)
  PROVE  OthersStay
<1>1. Sane(db, made) /\ db \in Database /\ Request /\ Shaped(op)
  BY DEF Homes, Stored, Request, Sane
<1>2. CASE AddColumns
  BY <1>1, <1>2, ColumnsIs, NothingTaken DEF AddColumns
<1>3. CASE Migrate
  BY <1>1, <1>3, MigratedIs, NothingTaken DEF Migrate
<1>4. CASE StoreImage \/ StoreDocument
  BY <1>4, NothingTaken DEF StoreImage, StoreDocument
<1>5. CASE RegisterImage
  <2>1. Item \in Images /\ op.thread \in Threads \cup Owners \cup {Nil}
    BY <1>1, <1>5 DEF RegisterImage, Homes, Storage, Shaped
  <2>2. db' = Registered(db, Item, op.thread) /\ UNCHANGED files
    BY <1>5 DEF RegisterImage
  <2>3. db.bound \subseteq db'.bound
    BY <1>1, <2>1, <2>2, RegisteredIs
  <2> QED BY <2>2, <2>3, NothingTaken
<1>6. CASE Attach
  <2>1. /\ Item \in Names /\ (Item \in Images => Item \in db.rows)
        /\ op.thread \in db.threads /\ op.message \in Messages
    BY <1>1, <1>6, ItemIs, PlaceIs DEF Attach, Homes, Storage, Storing, Request
  <2>2. /\ UNCHANGED files
        /\ db' = [db EXCEPT !.attached = @ \cup
                    {[thread |-> op.thread, message |-> op.message, item |-> Item]}]
    BY <1>6 DEF Attach
  <2>3. db'.bound = db.bound
    BY <1>1, <2>1, <2>2, AttachedIs
  <2> QED BY <2>2, <2>3, NothingTaken
<1>7. CASE PurgeCommit
  BY <1>7, PurgeCommitIs, NothingTaken DEF PurgeCommit
<1>8. ASSUME NEW t \in Threads, CreateThread(t) PROVE OthersStay
  BY <1>1, <1>8, ThreadIs, NothingTaken DEF CreateThread
<1>9. ASSUME NEW t \in Threads, NEW m \in Messages, AddUserMessage(t, m) PROVE OthersStay
  <2>1. /\ m \notin made /\ t \in db.threads /\ UNCHANGED files
        /\ db' = Indexed(db, db.messages \cup {<<m, t>>})
    BY <1>9 DEF AddUserMessage
  <2>2. db'.bound = db.bound
    BY <1>1, <2>1, MessageIs
  <2> QED BY <2>1, <2>2, NothingTaken
<1>10. ASSUME NEW i \in Images, NEW owner \in Owners, UploadMedia(i, owner) PROVE OthersStay
  BY <1>10, NothingTaken DEF UploadMedia
<1> QED BY <1>2, <1>3, <1>4, <1>5, <1>6, <1>7, <1>8, <1>9, <1>10

\* A start removes tombstones, and no document in its place.
LEMMA StartTakes ==
  ASSUME Homes, op.kind = "start", db # Nil, OpenDatabase \/ StampVersion
  PROVE  OthersStay
<1>1. Sane(db, made) /\ db \in Database
  BY DEF Homes, Stored, Sane
<1>2. db'.bound = db.bound
  <2>1. CASE OpenDatabase
    BY <2>1 DEF OpenDatabase
  <2>2. CASE StampVersion
    <3>1. db.columns /\ db.migrated = Upgrades /\ db' = [db EXCEPT !.version = "current"]
      BY <2>2 DEF StampVersion, Homes, Stored
    <3> QED BY <1>1, <3>1, StampedIs
  <2> QED BY <2>1, <2>2
<1>3. files' = files \/ files' = files \ Tombs(files)
  BY DEF OpenDatabase, StampVersion, Opened
<1>4. \A f \in Tombs(files) : \E t \in Threads : f.place = <<".deleted", t>>
  BY DEF Tombs, Under
<1>5. \A i \in Images : Image(i) \in files => Image(i) \in files'
  BY <1>3, <1>4, ImageIs
<1>6. \A t \in Threads : Documents(files, t) \subseteq Documents(files', t)
  BY <1>3, <1>4, ThreadsAssumption DEF Documents
<1>7. \A b \in db.bound : b[1] \in Images
  BY <1>1, Tables
<1> QED BY <1>2, <1>5, <1>6, <1>7 DEF OthersStay

\* A deletion, and the undoing of a message's files, take the documents of their own
\* thread, and the bindings of its own.
LEMMA OwnFilesTaken ==
  ASSUME Homes, db # Nil,
         \/ UndoFiles \/ DeleteRows \/ RemoveTombstone \/ DeleteFails
         \/ \E t \in Threads : DeleteThread(t)
  PROVE  OthersStay
<1>1. /\ Sane(db, made) /\ Shaped(op) /\ files \subseteq File
      /\ \A b \in db.bound : b[1] \in Images
  BY Tables DEF Homes, Stored, Request, Sane
<1>2. CASE UndoFiles
  <2>1. UNCHANGED db /\ files' = files \ {Doc(op.thread, m) : m \in op.stored \ Images}
    BY <1>2 DEF UndoFiles
  <2>2. op.thread \in Threads /\ \A m : Doc(op.thread, m).place = op.thread
    BY <1>2 DEF UndoFiles, At, Homes, Request, Doc
  <2>3. \A i \in Images : Image(i) \in files => Image(i) \in files'
    BY <2>1, <2>2, ImageIs
  <2>4. \A t \in Threads \ {op.thread} : Documents(files, t) \subseteq Documents(files', t)
    BY <2>1, <2>2 DEF Documents
  <2> QED BY <1>1, <2>1, <2>3, <2>4 DEF OthersStay
<1>3. CASE RemoveTombstone
  <2>1. /\ UNCHANGED db /\ files' = {f \in files : f.place # <<".deleted", op.thread>>}
        /\ op.thread \in Threads
    BY <1>3 DEF RemoveTombstone, At, Homes, Request
  <2>2. \A i \in Images : Image(i) \in files => Image(i) \in files'
    BY <2>1, ImageIs
  <2>3. \A t \in Threads : Documents(files, t) \subseteq Documents(files', t)
    BY <2>1, ThreadsAssumption DEF Documents
  <2> QED BY <1>1, <2>1, <2>2, <2>3 DEF OthersStay
<1>4. ASSUME op.thread \in Threads, UNCHANGED db, files' = Untombed(op.thread) PROVE OthersStay
  <2>1. \A f \in files : f.place # <<".deleted", op.thread>> => f \in files'
    BY <1>4 DEF Untombed
  <2>2. \A i \in Images : Image(i) \in files => Image(i) \in files'
    BY <1>4, <2>1, ImageIs
  <2>3. \A t \in Threads : Documents(files, t) \subseteq Documents(files', t)
    BY <1>4, <2>1, ThreadsAssumption DEF Documents
  <2> QED BY <1>1, <1>4, <2>2, <2>3 DEF OthersStay
<1>5. CASE DeleteFails
  BY <1>4, <1>5 DEF DeleteFails, At, Homes, Request
<1>6. CASE DeleteRows
  <2>1. op.thread \in Threads
    BY <1>6 DEF DeleteRows, At, Homes, Request
  <2>2. CASE op.thread \notin db.threads
    BY <1>4, <1>6, <2>1, <2>2 DEF DeleteRows
  <2>3. CASE op.thread \in db.threads
    <3>1. db' = Removed(db, op.thread) /\ UNCHANGED files
      BY <1>6, <2>3 DEF DeleteRows
    <3>2. db'.bound = {b \in db.bound : b[2] # op.thread}
      BY <1>1, <3>1, RemovedIs
    <3> QED BY <3>1, <3>2 DEF OthersStay
  <2> QED BY <2>2, <2>3
<1>7. ASSUME NEW d \in Threads, DeleteThread(d) PROVE OthersStay
  <2>1. /\ UNCHANGED db /\ op'.thread = d
        /\ files' = {IF f.place = d THEN Tomb(d, f.name) ELSE f : f \in files}
    BY <1>7, NoRequestIs DEF DeleteThread, Shaped
  <2>2. \A f \in files : f.place # d => f \in files'
    BY <2>1
  <2>3. \A i \in Images : Image(i) \in files => Image(i) \in files'
    BY <2>2, ImageIs
  <2>4. \A t \in Threads \ {d} : Documents(files, t) \subseteq Documents(files', t)
    BY <2>2 DEF Documents
  <2> QED BY <1>1, <2>1, <2>3, <2>4 DEF OthersStay
<1> QED BY <1>2, <1>3, <1>5, <1>6, <1>7

\* A purge takes the files of images nobody is bound to.
LEMMA PurgeTakes ==
  ASSUME Homes, db # Nil, PurgeUnlink
  PROVE  OthersStay
<1>1. Sane(db, made) /\ \A b \in db.bound : b[1] \in Images
  BY Tables DEF Homes, Stored, Sane
<1>2. UNCHANGED db /\ files' = files \ {Image(i) : i \in Unreferenced(op.media)}
  BY DEF PurgeUnlink
<1>3. \A i \in Unreferenced(op.media) : i \in Images /\ \A b \in db.bound : b[1] # i
  BY <1>1, Tables DEF Unreferenced, Sane
<1>4. \A b \in db.bound : Image(b[1]) \in files => Image(b[1]) \in files'
  BY <1>1, <1>2, <1>3, ImageIs
<1>5. \A t \in Threads : Documents(files, t) \subseteq Documents(files', t)
  BY <1>2, <1>3, ImageIs DEF Documents
<1> QED BY <1>2, <1>4, <1>5 DEF OthersStay

\* Short of a restore, a wipe and the undoing of a failed message, a request leaves
\* alone what another owner has (study_threads.py, media.py, data_lifecycle.py).
THEOREM OwnersKept == Spec => OwnersKeep
<1>1. ASSUME Inv, Next, op.kind \notin {"restore", "wipe"}, op'.kind \notin {"restore", "wipe"},
             op.pc # "undo", db # Nil
      PROVE  OthersStay
  <2>1. Homes /\ Request
    BY <1>1 DEF Inv, Homes
  <2>2. CASE OpenDatabase \/ StampVersion
    <3>1. op.pc \in Opening
      BY <2>2 DEF OpenDatabase, StampVersion, Opening
    <3> QED BY <1>1, <2>1, <2>2, <3>1, PlaceIs, StartTakes
  <2>3. CASE \/ AddColumns \/ Migrate \/ StoreImage \/ RegisterImage \/ StoreDocument \/ Attach
             \/ PurgeCommit \/ \E t \in Threads : CreateThread(t)
             \/ \E t \in Threads, m \in Messages : AddUserMessage(t, m)
             \/ \E i \in Images, owner \in Owners : UploadMedia(i, owner)
    BY <1>1, <2>1, <2>3, Additions
  <2>4. CASE \/ UndoFiles \/ DeleteRows \/ RemoveTombstone \/ DeleteFails
             \/ \E t \in Threads : DeleteThread(t)
    BY <1>1, <2>1, <2>4, OwnFilesTaken
  <2>5. CASE PurgeUnlink
    BY <1>1, <2>1, <2>5, PurgeTakes
  <2>6. CASE UndoMessage
    BY <1>1, <2>6 DEF UndoMessage, At
  <2>7. CASE \/ CreateBackup \/ SweepSnapshot \/ SweepPublish
             \/ \E k \in DOMAIN Roots : SweepCopy(k)
    BY <2>7, NothingTaken DEF CreateBackup, SweepSnapshot, SweepPublish, SweepCopy
  <2>8. CASE AttachmentFails \/ TombstoneStays \/ RequestFails \/ Restart
    BY <1>1, <2>8, NothingTaken DEF AttachmentFails, TombstoneStays, RequestFails, Restart
  <2>9. CASE \E archive \in archives, fresh \in BOOLEAN : Restore(archive, fresh)
    <3>1. op'.kind = "restore"
      BY <2>9, NoRequestIs DEF Restore, Shaped
    <3> QED BY <1>1, <3>1
  <2>10. CASE Wipe
    <3>1. op'.kind = "wipe"
      BY <2>10, NoRequestIs DEF Wipe, Shaped
    <3> QED BY <1>1, <3>1
  <2>11. CASE SkipRoot \/ MoveRoot \/ InstallRoot \/ InstallDatabase \/ Finished \/ RestoreFails
              \/ WipeRoot \/ Recreate
    BY <1>1, <2>11 DEF SkipRoot, MoveRoot, InstallRoot, InstallDatabase, Finished, RestoreFails,
                       WipeRoot, Recreate, At
  <2> QED BY <1>1, <2>2, <2>3, <2>4, <2>5, <2>6, <2>7, <2>8, <2>9, <2>10, <2>11 DEF Next
<1>2. Inv /\ [Next]_vars =>
        [op.kind \notin {"restore", "wipe"} /\ op'.kind \notin {"restore", "wipe"}
           /\ op.pc # "undo" /\ db # Nil =>
           /\ \A b \in db.bound : b[2] \notin {op.thread, op'.thread} =>
                b \in db'.bound /\ (Image(b[1]) \in files => Image(b[1]) \in files')
           /\ \A t \in Threads \ {op.thread, op'.thread} :
                Documents(files, t) \subseteq Documents(files', t)]_vars
  BY <1>1 DEF OthersStay
<1> QED BY <1>2, Invariant, PTL DEF Spec, OwnersKeep
=============================================================================
