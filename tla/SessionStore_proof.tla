-------------------------- MODULE SessionStore_proof --------------------------
(***************************************************************************)
(* Proofs about SessionStore: that a Session keeps what it acknowledged,   *)
(* applies a key once and parts its projections only where a crash or a    *)
(* hand did, for every set of clients and operations, every key window and *)
(* under every bound.                                                      *)
(***************************************************************************)
EXTENDS SessionStore, FiniteSetTheorems, TLAPS

Before == {"loaded", "checked", "written"}   \* the row is still the old one
Stored == {"checked", "written", "failed"}   \* old_text has been read

Keys(x) == OpsOf(x.log)

-----------------------------------------------------------------------------
(* Creation *)

\* One client at a time creates; what a creation that was cut off leaves behind is
\* a document, with a row or without; and nobody works on a Session the learner
\* does not have yet.
Birth ==
  /\ \A c, d \in Clients : pc[c] \in Creating /\ pc[d] \in Creating => c = d
  /\ \A c \in Clients : pc[c] \in Creating => key = "open" /\ made = 1 /\ ~torn
  /\ \A c \in Clients : pc[c] = "document" => file = Draft /\ db = NoRow
  /\ \A c \in Clients : pc[c] = "row" => file = Draft /\ db = Draft
  /\ made = 0 => db = NoRow /\ key = "open" /\ ~torn
  /\ key = "open" => made < 2
  /\ key = "open" /\ made = 1 /\ ScopeFree => cut
  /\ key = "open" /\ made = 1 /\ ScopeFree /\ ~torn => file = db
  /\ made > 1 => cut
  /\ ~Known => /\ acked = {} /\ events = {}
               /\ \A c \in Clients : ~InSection(c) /\ ~seen[c].valid

TypeInv == TypeOK /\ Birth
-----------------------------------------------------------------------------

\* A revision of a Session is a Session, and none is the absence of a row or a file.
LEMMA ContentsType ==
  /\ Draft \in Contents
  /\ NoRow \notin Contents /\ NoFile \notin Contents
  /\ \A x \in Contents, e \in Entries, s \in Statuses : Revised(x, e, s) \in Contents
BY NoRowIsNoContent DEF Draft, Contents, Statuses, Revised

\* An edit by hand leaves a Session's revision and status alone.
LEMMA EditType ==
  ASSUME NEW x \in Contents
  PROVE  /\ Edited(x) \in Contents
         /\ Edited(x).rev = x.rev /\ Edited(x).status = x.status
         /\ Edited(x).log = Append(x.log, "edit")
BY DEF Contents, Entries, Edited

\* A view a write has overtaken is a view, no longer a valid one.
LEMMA OutdatedType ==
  ASSUME NEW v \in [row: Contents, valid: BOOLEAN]
  PROVE  Outdated(v) \in [row: Contents, valid: BOOLEAN] /\ ~Outdated(v).valid
BY DEF Outdated

\* What the clients send are requests.
LEMMA RequestTypes ==
  /\ NoRequest \in Requests
  /\ \A op \in Ops, e \in Nat \cup {AnyRevision} :
       [kind |-> "submit", arg |-> op, expected |-> e] \in Requests
  /\ \A s \in Statuses : [kind |-> "transition", arg |-> s, expected |-> AnyRevision] \in Requests
  /\ [kind |-> "finish", arg |-> "completed", expected |-> AnyRevision] \in Requests
  /\ \A p \in {"auto", "markdown", "sqlite"} :
       [kind |-> "reconcile", arg |-> p, expected |-> AnyRevision] \in Requests
BY DEF NoRequest, Requests

\* Nothing is stored at the start, and nobody is at work.
LEMMA TypeInit == Init => TypeInv
<1> SUFFICES ASSUME Init PROVE TypeInv
  OBVIOUS
<1> USE SessionConstantsOK, ContentsType, RequestTypes DEF Init, Creating, InSection
<1>1. TypeOK
  BY DEF TypeOK
<1>2. Birth
  BY DEF Birth, ScopeFree, Known
<1> QED BY <1>1, <1>2 DEF TypeInv

\* Every action leaves every variable its type.
LEMMA TypeStep == ASSUME TypeInv, [Next]_vars PROVE TypeInv'
<1> USE SessionConstantsOK, ContentsType, RequestTypes
<1> USE DEF TypeInv, TypeOK, Creating, InSection, ScopeFree, Known, requestVars, history, View
<1>1. ASSUME NEW c \in Clients, Create(c) PROVE TypeInv'
  <2>1. TypeOK'
    BY <1>1 DEF Create, May, StartStep
  <2>2. Birth'
    BY <1>1 DEF Create, May, StartStep, Birth
  <2> QED BY <2>1, <2>2
<1>2. ASSUME NEW c \in Clients, CreateRow(c) PROVE TypeInv'
  <2>1. TypeOK'
    BY <1>2 DEF CreateRow, StartStep
  <2>2. Birth'
    BY <1>2 DEF CreateRow, StartStep, Birth
  <2> QED BY <2>1, <2>2
<1>3. ASSUME NEW c \in Clients, CreateFails(c) PROVE TypeInv'
  <2>1. TypeOK'
    BY <1>3 DEF CreateFails, StartStep
  <2>2. Birth'
    BY <1>3 DEF CreateFails, StartStep, Birth
  <2> QED BY <2>1, <2>2
<1>4. ASSUME NEW c \in Clients, SaveRecord(c) PROVE TypeInv'
  <2>1. TypeOK'
    BY <1>4 DEF SaveRecord, StartStep, Birth
  <2>2. Birth'
    BY <1>4 DEF SaveRecord, StartStep, Birth
  <2> QED BY <2>1, <2>2
<1>5. ASSUME NEW c \in Clients, CreationCut(c) PROVE TypeInv'
  <2>1. TypeOK'
    BY <1>5 DEF CreationCut, StartStep
  <2>2. CASE pc[c] = "document"
    <3>1. torn'
      BY <1>5, <2>2 DEF CreationCut
    <3> QED BY <1>5, <2>1, <2>2, <3>1 DEF CreationCut, StartStep, Birth
  <2>3. CASE pc[c] = "row"
    BY <1>5, <2>1, <2>3 DEF CreationCut, StartStep, Birth
  <2> QED BY <1>5, <2>2, <2>3 DEF CreationCut
<1>6. ASSUME NEW c \in Clients, CreateAnother(c) PROVE TypeInv'
  <2>1. TypeOK'
    BY <1>6 DEF CreateAnother, May, StartStep
  <2>2. Birth'
    BY <1>6 DEF CreateAnother, May, StartStep, Birth
  <2> QED BY <2>1, <2>2
<1>7. ASSUME NEW c \in Clients, GoOn(c) PROVE TypeInv'
  <2>1. TypeOK'
    BY <1>7 DEF GoOn, May, StartStep
  <2>2. Birth'
    BY <1>7 DEF GoOn, May, StartStep, Birth
  <2> QED BY <2>1, <2>2
<1>8. ASSUME NEW c \in Clients, Look(c), UNCHANGED <<key, made, cut>> PROVE TypeInv'
  <2>1. TypeOK'
    BY <1>8 DEF Look
  <2>2. Birth'
    BY <1>8 DEF Look, Birth
  <2> QED BY <2>1, <2>2
<1>9. ASSUME NEW c \in Clients, SubmitRefused(c), UNCHANGED <<key, made, cut>> PROVE TypeInv'
  <2>1. TypeOK'
    BY <1>9 DEF SubmitRefused, Ready, Conflict
  <2>2. Birth'
    BY <1>9 DEF SubmitRefused, Ready, Conflict, Birth
  <2> QED BY <2>1, <2>2
<1>10. ASSUME NEW c \in Clients, NEW op \in Ops,
             SubmitReplayed(c, op), UNCHANGED <<key, made, cut>>
      PROVE  TypeInv'
  <2>1. TypeOK'
    BY <1>10 DEF SubmitReplayed, Ready
  <2>2. Birth'
    BY <1>10 DEF SubmitReplayed, Ready, Birth
  <2> QED BY <2>1, <2>2
<1>11. ASSUME NEW c \in Clients, NEW op \in Ops, NEW e \in Nat \cup {AnyRevision},
             Submit(c, op, e), UNCHANGED <<key, made, cut>>
      PROVE  TypeInv'
  <2>1. req' \in [Clients -> Requests]
    BY <1>11 DEF Submit, Ready, Enter
  <2>2. work' \in [Clients -> Contents]
    <3>1. file \in Contents
      BY <1>11 DEF Submit, Ready, Enter
    <3>2. op \in Entries /\ Effect[op] \in Statuses
      BY DEF Entries
    <3> QED BY <1>11, <3>1, <3>2 DEF Submit, Ready, Enter
  <2>3. /\ pc' = [pc EXCEPT ![c] = "loaded"] /\ pc[c] = "idle" /\ lock' = c /\ LockFree
        /\ UNCHANGED <<file, db, mirror, old, seen, events, history>>
    BY <1>11 DEF Submit, Ready, Enter
  <2>4. TypeOK'
    BY <1>11, <2>1, <2>2, <2>3 DEF LockFree
  <2>5. Birth'
    BY <1>11 DEF Submit, Ready, Enter, Birth
  <2> QED BY <2>4, <2>5
<1>12. ASSUME NEW c \in Clients, NEW to \in Statuses,
             Transition(c, to), UNCHANGED <<key, made, cut>>
      PROVE  TypeInv'
  <2>1. req' \in [Clients -> Requests]
    BY <1>12 DEF Transition, Ready, Enter
  <2>2. work' \in [Clients -> Contents]
    <3>1. file \in Contents
      BY <1>12 DEF Transition, Ready, Enter
    <3>2. "transition" \in Entries
      BY DEF Entries
    <3> QED BY <1>12, <3>1, <3>2 DEF Transition, Ready, Enter
  <2>3. /\ pc' = [pc EXCEPT ![c] = "loaded"] /\ pc[c] = "idle" /\ lock' = c /\ LockFree
        /\ UNCHANGED <<file, db, mirror, old, seen, events, history>>
    BY <1>12 DEF Transition, Ready, Enter
  <2>4. TypeOK'
    BY <1>12, <2>1, <2>2, <2>3 DEF LockFree
  <2>5. Birth'
    BY <1>12 DEF Transition, Ready, Enter, Birth
  <2> QED BY <2>4, <2>5
<1>13. ASSUME NEW c \in Clients, Finish(c), UNCHANGED <<key, made, cut>> PROVE TypeInv'
  <2>1. req' \in [Clients -> Requests]
    BY <1>13 DEF Finish, Ready, Enter
  <2>2. work' \in [Clients -> Contents]
    <3>1. file \in Contents
      BY <1>13 DEF Finish, Ready, Enter
    <3>2. "finish" \in Entries /\ "completed" \in Statuses
      BY DEF Entries, Statuses
    <3> QED BY <1>13, <3>1, <3>2 DEF Finish, Ready, Enter
  <2>3. /\ pc' = [pc EXCEPT ![c] = "loaded"] /\ pc[c] = "idle" /\ lock' = c /\ LockFree
        /\ UNCHANGED <<file, db, mirror, old, seen, events, history>>
    BY <1>13 DEF Finish, Ready, Enter
  <2>4. TypeOK'
    BY <1>13, <2>1, <2>2, <2>3 DEF LockFree
  <2>5. Birth'
    BY <1>13 DEF Finish, Ready, Enter, Birth
  <2> QED BY <2>4, <2>5
<1>14. ASSUME NEW c \in Clients, ReconcileEqual(c), UNCHANGED <<key, made, cut>> PROVE TypeInv'
  <2>1. TypeOK'
    BY <1>14 DEF ReconcileEqual, Ready
  <2>2. Birth'
    BY <1>14 DEF ReconcileEqual, Ready, Birth
  <2> QED BY <2>1, <2>2
<1>15. ASSUME NEW c \in Clients,
             ReconcileRefused(c), UNCHANGED <<key, made, cut>>
      PROVE  TypeInv'
  <2>1. TypeOK'
    BY <1>15 DEF ReconcileRefused, Ready, Conflict
  <2>2. Birth'
    BY <1>15 DEF ReconcileRefused, Ready, Conflict, Birth
  <2> QED BY <2>1, <2>2
<1>16. ASSUME NEW c \in Clients, NEW p \in {"auto", "markdown", "sqlite"},
             Reconcile(c, p), UNCHANGED <<key, made, cut>>
      PROVE  TypeInv'
  <2>1. req' \in [Clients -> Requests]
    BY <1>16 DEF Reconcile, Ready, Enter
  <2>2. work' \in [Clients -> Contents]
    <3>1. file \in Contents
      BY <1>16 DEF Reconcile, Ready, Enter
    <3>2. db \in Contents \cup {NoRow}
      OBVIOUS
    <3> QED BY <1>16, <3>1, <3>2 DEF Reconcile, Ready, Enter
  <2>3. /\ pc' = [pc EXCEPT ![c] = "loaded"] /\ pc[c] = "idle" /\ lock' = c /\ LockFree
        /\ UNCHANGED <<file, db, mirror, old, seen, events, history>>
    BY <1>16 DEF Reconcile, Ready, Enter
  <2>4. TypeOK'
    BY <1>16, <2>1, <2>2, <2>3 DEF LockFree
  <2>5. Birth'
    BY <1>16 DEF Reconcile, Ready, Enter, Birth
  <2> QED BY <2>4, <2>5
<1>17. ASSUME NEW c \in Clients, Recheck(c), UNCHANGED <<key, made, cut>> PROVE TypeInv'
  <2>1. TypeOK'
    BY <1>17 DEF Recheck, Birth
  <2>2. Birth'
    BY <1>17 DEF Recheck, Birth
  <2> QED BY <2>1, <2>2
<1>18. ASSUME NEW c \in Clients, RecheckFails(c), UNCHANGED <<key, made, cut>> PROVE TypeInv'
  <2>1. TypeOK'
    BY <1>18 DEF RecheckFails, Leave, Idle
  <2>2. Birth'
    BY <1>18 DEF RecheckFails, Leave, Idle, Birth
  <2> QED BY <2>1, <2>2
<1>19. ASSUME NEW c \in Clients, WriteFile(c), UNCHANGED <<key, made, cut>> PROVE TypeInv'
  <2>1. TypeOK'
    BY <1>19 DEF WriteFile, Birth
  <2>2. Birth'
    BY <1>19 DEF WriteFile, Birth
  <2> QED BY <2>1, <2>2
<1>20. ASSUME NEW c \in Clients, RecordRow(c), UNCHANGED <<key, made, cut>> PROVE TypeInv'
  <2>1. seen' \in [Clients -> [row: Contents, valid: BOOLEAN]]
    BY <1>20, OutdatedType DEF RecordRow
  <2>2. dropped' \subseteq Ops /\ torn' \in BOOLEAN
    BY <1>20 DEF RecordRow, OpsOf
  <2>3. Known /\ lock = c
    BY <1>20 DEF RecordRow, Birth
  <2>4. TypeOK'
    BY <1>20, <2>1, <2>2, <2>3 DEF RecordRow
  <2>5. Birth'
    BY <1>20, <2>3 DEF RecordRow, Birth
  <2> QED BY <2>4, <2>5
<1>21. ASSUME NEW c \in Clients, RecordFails(c), UNCHANGED <<key, made, cut>> PROVE TypeInv'
  <2>1. TypeOK'
    BY <1>21 DEF RecordFails
  <2>2. Birth'
    BY <1>21 DEF RecordFails, Birth
  <2> QED BY <2>1, <2>2
<1>22. ASSUME NEW c \in Clients, RestoreFile(c), UNCHANGED <<key, made, cut>> PROVE TypeInv'
  <2>1. TypeOK'
    BY <1>22 DEF RestoreFile, Leave, Idle, Birth
  <2>2. Birth'
    BY <1>22 DEF RestoreFile, Leave, Idle, Birth
  <2> QED BY <2>1, <2>2
<1>23. ASSUME NEW c \in Clients, Answer(c), UNCHANGED <<key, made, cut>> PROVE TypeInv'
  <2>1. req[c].kind = "submit" => req[c].arg \in Ops
    <3>1. req[c] \in Requests
      OBVIOUS
    <3> QED BY <3>1 DEF Requests
  <2>2. work[c].rev \in Nat
    BY DEF Contents
  <2>3. events' \subseteq Nat \X Ops /\ acked' \subseteq Ops
    BY <1>23, <2>1, <2>2 DEF Answer
  <2>4. TypeOK'
    BY <1>23, <2>3 DEF Answer, Leave, Idle
  <2>5. Birth'
    BY <1>23 DEF Answer, Leave, Idle, Birth
  <2> QED BY <2>4, <2>5
<1>24. ASSUME NEW c \in Clients, Crash(c), UNCHANGED <<key, made, cut>> PROVE TypeInv'
  <2>1. TypeOK'
    BY <1>24 DEF Crash, Leave, Idle
  <2>2. Birth'
    BY <1>24 DEF Crash, Leave, Idle, Birth
  <2> QED BY <2>1, <2>2
<1>25. ASSUME HandEdit, UNCHANGED <<key, made, cut>> PROVE TypeInv'
  <2>1. file \in Contents
    BY <1>25 DEF HandEdit
  <2>2. file' \in Contents
    <3>1. file.status \in Statuses /\ "edit" \in Entries
      BY <2>1 DEF Contents, Entries
    <3> QED BY <1>25, <2>1, <3>1, EditType DEF HandEdit
  <2> QED BY <1>25, <2>1, <2>2 DEF HandEdit, Birth
<1>26. ASSUME HandRestore, UNCHANGED <<key, made, cut>> PROVE TypeInv'
  <2>1. dropped' \subseteq Ops
    BY <1>26 DEF HandRestore, OpsOf
  <2> QED BY <1>26, <2>1 DEF HandRestore, Birth
<1>27. ASSUME UNCHANGED vars PROVE TypeInv'
  <2>1. TypeOK'
    BY <1>27 DEF vars
  <2>2. Birth'
    BY <1>27 DEF vars, Birth
  <2> QED BY <2>1, <2>2
<1>28. CASE Creation
  BY <1>28, <1>1, <1>2, <1>3, <1>4, <1>5, <1>6, <1>7 DEF Creation
<1>29. CASE Life /\ UNCHANGED <<key, made, cut>>
  <2>1. \A c \in Clients : seen[c].row.rev \in Nat
    BY DEF Contents
  <2> HIDE DEF TypeInv
  <2>2. ASSUME NEW c \in Clients, NEW op \in Ops, NEW e \in {AnyRevision, seen[c].row.rev},
               Submit(c, op, e)
        PROVE  TypeInv'
    BY <1>29, <2>1, <2>2, <1>11
  <2> QED
    BY <1>29, <2>2, <1>8, <1>9, <1>10, <1>12, <1>13, <1>14, <1>15, <1>16, <1>17, <1>18,
       <1>19, <1>20, <1>21, <1>22, <1>23, <1>24, <1>25, <1>26 DEF Life
<1> QED BY <1>27, <1>28, <1>29 DEF Next

-----------------------------------------------------------------------------
(* Acknowledged operations *)

Promised == acked \cup {e[2] : e \in events}

\* A document of a higher revision than the row has every key of the row.
Ahead(x) == db # NoRow /\ x.rev > db.rev => Keys(db) \subseteq Keys(x)

\* The document while the row is being written: should the row get ahead of it, or
\* should it stay ahead of the row, no key is lost.
Behind(x) ==
  \/ Keys(x) \subseteq Keys(file)
  \/ file.rev < x.rev
  \/ file.rev <= x.rev /\ db # NoRow /\ file.rev > db.rev

KeepsKeys(c) ==
  /\ pc[c] \in Before =>
       IF db = NoRow THEN Promised \subseteq dropped \cup Keys(work[c])
       ELSE /\ Reconciling(c) => Ahead(work[c])
            /\ Reconciling(c) /\ req[c].arg = "auto" => Keys(db) \subseteq Keys(work[c])
            /\ ~Reconciling(c) /\ pc[c] # "loaded" => Keys(db) \subseteq Keys(work[c])
  /\ pc[c] = "loaded" /\ ~Reconciling(c) => Keys(file) \subseteq Keys(work[c])
  /\ pc[c] \in Stored =>
       IF db = NoRow THEN Promised \subseteq dropped \cup Keys(old[c]) ELSE Ahead(old[c])
  /\ pc[c] = "written" => Behind(work[c])
  /\ pc[c] = "recorded" => db = work[c]
  /\ InSection(c) /\ req[c].kind = "submit" => req[c].arg \in Keys(work[c])

\* A revision that is still 0 has no keys.
Unkeyed(x) == x.rev = 0 => Keys(x) = {}

Held ==
  /\ db = NoRow /\ file # NoFile => Promised \subseteq dropped \cup Keys(file)
  /\ db # NoRow => Promised \subseteq dropped \cup Keys(db)
  /\ file # NoFile => Ahead(file) /\ Unkeyed(file)
  /\ db # NoRow => Unkeyed(db)
  /\ \A c \in Clients : Unkeyed(work[c]) /\ Unkeyed(old[c]) /\ KeepsKeys(c)

\* The operations in a log, when an entry is added.
LEMMA KeysOfAppend ==
  ASSUME NEW l \in Seq(Entries), NEW e \in Entries
  PROVE  OpsOf(Append(l, e)) = OpsOf(l) \cup ({e} \cap Ops)
<1>1. ToSet(Append(l, e)) = ToSet(l) \cup {e}
  <2>1. ASSUME NEW x \in ToSet(Append(l, e)) PROVE x \in ToSet(l) \cup {e}
    BY DEF ToSet
  <2>2. ASSUME NEW x \in ToSet(l) PROVE x \in ToSet(Append(l, e))
    <3>1. PICK i \in DOMAIN l : x = l[i]
      BY DEF ToSet
    <3>2. i \in DOMAIN Append(l, e) /\ Append(l, e)[i] = l[i]
      BY <3>1
    <3> QED BY <3>1, <3>2 DEF ToSet
  <2>3. e \in ToSet(Append(l, e))
    <3>1. Len(l) + 1 \in DOMAIN Append(l, e) /\ Append(l, e)[Len(l) + 1] = e
      OBVIOUS
    <3> QED BY <3>1 DEF ToSet
  <2> QED BY <2>1, <2>2, <2>3
<1> QED BY <1>1 DEF OpsOf

\* What a draft, an edit by hand and a revision do to the keys of a Session.
LEMMA KeysFacts ==
  /\ Keys(Draft) = {}
  /\ \A x \in Contents : Keys(Edited(x)) = Keys(x) /\ Edited(x).rev = x.rev
  /\ \A x \in Contents, e \in Entries, s \in Statuses :
       /\ Keys(Revised(x, e, s)) = Keys(x) \cup ({e} \cap Ops)
       /\ Revised(x, e, s).rev = x.rev + 1
<1>1. Keys(Draft) = {}
  BY DEF Keys, OpsOf, ToSet, Draft
<1>2. ASSUME NEW x \in Contents PROVE Keys(Edited(x)) = Keys(x)
  <2>1. x.log \in Seq(Entries) /\ "edit" \in Entries /\ "edit" \notin Ops
    BY SessionConstantsOK DEF Contents, Entries
  <2>2. Edited(x).log = Append(x.log, "edit")
    BY EditType
  <2>3. OpsOf(Append(x.log, "edit")) = OpsOf(x.log) \cup ({"edit"} \cap Ops)
    BY <2>1, KeysOfAppend
  <2> QED BY <2>1, <2>2, <2>3 DEF Keys
<1>3. ASSUME NEW x \in Contents, NEW e \in Entries, NEW s \in Statuses
      PROVE  Keys(Revised(x, e, s)) = Keys(x) \cup ({e} \cap Ops)
  <2>1. x.log \in Seq(Entries) /\ Revised(x, e, s).log = Append(x.log, e)
    BY DEF Contents, Revised
  <2> QED BY <2>1, KeysOfAppend DEF Keys
<1>4. \A x \in Contents, e \in Entries, s \in Statuses : Revised(x, e, s).rev = x.rev + 1
  BY DEF Revised
<1> QED BY <1>1, <1>2, <1>3, <1>4, EditType

\* What the type invariant says of a client in its commit.
LEMMA Section ==
  ASSUME TypeInv, NEW c \in Clients, InSection(c)
  PROVE  /\ lock = c /\ Known
         /\ file \in Contents /\ db \in Contents \cup {NoRow}
         /\ work[c] \in Contents /\ old[c] \in Contents /\ req[c] \in Requests
         /\ \A d \in Clients : d # c => ~InSection(d)
BY DEF TypeInv, TypeOK, Birth, Known

\* The parts of a Session.
LEMMA RevNat == \A x \in Contents : x.rev \in Nat /\ x.log \in Seq(Entries) /\ x.status \in Statuses
BY DEF Contents

\* Nothing is acknowledged at the start.
LEMMA HeldInit == Init => Held
<1> SUFFICES ASSUME Init PROVE Held
  OBVIOUS
<1> USE KeysFacts, ContentsType, NoRowIsNoContent
<1>1. Promised = {}
  BY DEF Init, Promised
<1>2. \A c \in Clients : work[c] = Draft /\ old[c] = Draft /\ pc[c] = "idle"
  BY DEF Init
<1>3. file = NoFile /\ db = NoRow
  BY DEF Init
<1> QED BY <1>1, <1>2, <1>3 DEF Held, KeepsKeys, Unkeyed, InSection, Before, Stored

\* Nothing is held for a client that is not in a commit.
LEMMA KeepsOutside ==
  ASSUME NEW d \in Clients, ~InSection(d)' PROVE KeepsKeys(d)'
BY DEF KeepsKeys, InSection, Creating, Before, Stored

\* A step that concerns neither the client, the projections nor the promises.
LEMMA KeepsSame ==
  ASSUME NEW d \in Clients, KeepsKeys(d),
         UNCHANGED <<file, db, acked, events, dropped, pc[d], req[d], work[d], old[d]>>
  PROVE  KeepsKeys(d)'
BY DEF KeepsKeys, InSection, Before, Stored, Reconciling, Ahead, Behind, Promised

\* A creation finds and leaves the Session without promises.
LEMMA HeldCreation ==
  ASSUME TypeInv, Held, Promised = {}, \A d \in Clients : ~InSection(d)',
         UNCHANGED <<req, work, old, acked, events, dropped>>,
         \/ file' = file /\ db' = db
         \/ file' \in {Draft, NoFile} /\ db = NoRow /\ db' = NoRow
         \/ file' = Draft /\ db' = Draft
  PROVE  Held'
<1>1. Promised' = {}
  BY DEF Promised
<1>2. \A d \in Clients : KeepsKeys(d)'
  BY KeepsOutside
<1> QED BY <1>1, <1>2, KeysFacts, ContentsType DEF Held, Ahead, Unkeyed

\* So does a step that moves no projection, for the clients that leave or stay.
LEMMA HeldLeave ==
  ASSUME Held, UNCHANGED <<file, db, acked, events, dropped>>,
         \A d \in Clients :
           \/ UNCHANGED <<pc[d], req[d], work[d], old[d]>>
           \/ pc'[d] = "idle" /\ work'[d] = Draft /\ old'[d] = Draft
  PROVE  Held'
<1>1. Promised' = Promised
  BY DEF Promised
<1>2. ASSUME NEW d \in Clients
      PROVE  Unkeyed(work[d])' /\ Unkeyed(old[d])' /\ KeepsKeys(d)'
  <2>1. CASE UNCHANGED <<pc[d], req[d], work[d], old[d]>>
    BY <2>1, KeepsSame DEF Held, Unkeyed
  <2>2. CASE pc'[d] = "idle" /\ work'[d] = Draft /\ old'[d] = Draft
    BY <2>2, KeepsOutside, KeysFacts DEF Unkeyed, InSection
  <2> QED BY <2>1, <2>2
<1> QED BY <1>1, <1>2 DEF Held, Ahead, Unkeyed

\* The clients that a step of c does not concern: none of them is in a commit.
LEMMA HeldOthers ==
  ASSUME TypeInv', Held, NEW c \in Clients, lock' \in {c, Nobody},
         \A d \in Clients : d # c => UNCHANGED <<work[d], old[d]>>
  PROVE  \A d \in Clients : d # c => Unkeyed(work[d])' /\ Unkeyed(old[d])' /\ KeepsKeys(d)'
<1> TAKE d \in Clients
<1> HAVE d # c
<1>1. ~InSection(d)'
  BY SessionConstantsOK DEF TypeInv, TypeOK, InSection
<1> QED BY <1>1, KeepsOutside DEF Held, Unkeyed

\* A request is let in with the document it read.
LEMMA HeldEnter ==
  ASSUME TypeInv, TypeInv', Held, NEW c \in Clients, NEW q \in Requests, NEW x \in Contents,
         Enter(c, q, x), Ready(c), pc' = [pc EXCEPT ![c] = "loaded"],
         UNCHANGED <<file, db, old, acked, events, dropped>>,
         Unkeyed(x),
         db = NoRow => Keys(file) \subseteq Keys(x),
         db # NoRow /\ q.kind = "reconcile" => Ahead(x),
         db # NoRow /\ q.kind = "reconcile" /\ q.arg = "auto" => Keys(db) \subseteq Keys(x),
         q.kind # "reconcile" => Keys(file) \subseteq Keys(x),
         q.kind = "submit" => q.arg \in Keys(x)
  PROVE  Held'
<1>1. pc'[c] = "loaded" /\ req'[c] = q /\ work'[c] = x
  BY DEF Enter, TypeInv, TypeOK
<1>2. \A d \in Clients : d # c => UNCHANGED <<work[d], old[d]>>
  BY DEF Enter, TypeInv, TypeOK
<1>3. Promised' = Promised /\ file # NoFile
  BY DEF Promised, Ready, Known, TypeInv, TypeOK
<1>4. KeepsKeys(c)'
  <2>1. db = NoRow => Promised' \subseteq dropped \cup Keys(x)
    BY <1>3 DEF Held
  <2> QED BY <1>1, <2>1 DEF KeepsKeys, Before, Stored, Reconciling, Ahead
<1>5. \A d \in Clients : d # c => Unkeyed(work[d])' /\ Unkeyed(old[d])' /\ KeepsKeys(d)'
  BY <1>2, HeldOthers DEF Enter
<1>6. Unkeyed(work[c])' /\ Unkeyed(old[c])'
  BY <1>1 DEF Held, Unkeyed
<1> QED BY <1>3, <1>4, <1>5, <1>6 DEF Held, Ahead, Unkeyed

\* No step loses an acknowledged operation from where its client can find it.
LEMMA HeldStep == ASSUME TypeInv, TypeInv', Held, [Next]_vars PROVE Held'
<1> USE SessionConstantsOK
<1>1. CASE Creation
  <2>1. key = "open"
    BY <1>1 DEF Creation, Create, CreateRow, CreateFails, SaveRecord, CreationCut,
       CreateAnother, GoOn, May, TypeInv, Birth, Creating
  <2>2. Promised = {} /\ \A d \in Clients : ~InSection(d)
    BY <2>1 DEF TypeInv, Birth, Known, Promised
  <2>3. \A d \in Clients : ~InSection(d)'
    BY <1>1, <2>2 DEF Creation, Create, CreateRow, CreateFails, SaveRecord, CreationCut,
       CreateAnother, GoOn, StartStep, InSection, Creating, TypeInv, TypeOK
  <2>4. \/ file' = file /\ db' = db
        \/ file' \in {Draft, NoFile} /\ db = NoRow /\ db' = NoRow
        \/ file' = Draft /\ db' = Draft
    BY <1>1 DEF Creation, Create, CreateRow, CreateFails, SaveRecord, CreationCut,
       CreateAnother, GoOn, TypeInv, Birth
  <2>5. UNCHANGED <<req, work, old, acked, events, dropped>>
    BY <1>1 DEF Creation, Create, CreateRow, CreateFails, SaveRecord, CreationCut,
       CreateAnother, GoOn, StartStep, requestVars
  <2> QED BY <2>2, <2>3, <2>4, <2>5, HeldCreation
<1>2. ASSUME NEW c \in Clients,
             \/ Look(c) \/ SubmitRefused(c) \/ ReconcileEqual(c) \/ ReconcileRefused(c)
             \/ RecheckFails(c) \/ Crash(c)
      PROVE  Held'
  <2>1. UNCHANGED <<file, db, acked, events, dropped>>
    BY <1>2 DEF Look, SubmitRefused, Conflict, ReconcileEqual, ReconcileRefused,
       RecheckFails, Crash, history
  <2>2. ASSUME NEW d \in Clients
        PROVE  \/ UNCHANGED <<pc[d], req[d], work[d], old[d]>>
               \/ pc'[d] = "idle" /\ work'[d] = Draft /\ old'[d] = Draft
    BY <1>2 DEF Look, SubmitRefused, Conflict, ReconcileEqual, ReconcileRefused,
       RecheckFails, Crash, Leave, Idle, requestVars, TypeInv, TypeOK
  <2> QED BY <2>1, <2>2, HeldLeave
<1>3. ASSUME NEW c \in Clients, NEW op \in Ops, SubmitReplayed(c, op) PROVE Held'
  <2>1. \A d \in Clients : ~InSection(d)'
    BY <1>3 DEF SubmitReplayed, Ready, LockFree, TypeInv, TypeOK, InSection, requestVars
  <2>2. op \in Keys(file)
    BY <1>3 DEF SubmitReplayed, AppliedKeys, Keys, OpsOf, ToSet
  <2>3. Promised' = Promised \cup {op}
    BY <1>3 DEF SubmitReplayed, Promised
  <2>4. file' = file /\ db' = db /\ dropped' = dropped /\ work' = work /\ old' = old
    BY <1>3 DEF SubmitReplayed, requestVars
  <2>5. db # NoRow => file = db
    BY <1>3 DEF SubmitReplayed, MirrorConsistent
  <2>6. \A d \in Clients : KeepsKeys(d)'
    BY <2>1, KeepsOutside
  <2> QED BY <2>2, <2>3, <2>4, <2>5, <2>6 DEF Held, Ahead, Unkeyed
<1>4. ASSUME NEW c \in Clients, Ready(c)
      PROVE  /\ file \in Contents /\ db \in Contents \cup {NoRow} /\ Unkeyed(file) /\ Ahead(file)
             /\ db # NoRow => Unkeyed(db)
  BY <1>4 DEF Ready, Known, TypeInv, TypeOK, Held
<1>5. ASSUME NEW c \in Clients, NEW op \in Ops, NEW e \in Nat \cup {AnyRevision}, Submit(c, op, e)
      PROVE  Held'
  <2> DEFINE q == [kind |-> "submit", arg |-> op, expected |-> e]
             x == Revised(file, op, Effect[op])
  <2>1. Ready(c) /\ Enter(c, q, x) /\ pc' = [pc EXCEPT ![c] = "loaded"]
    BY <1>5 DEF Submit
  <2>2. UNCHANGED <<file, db, old, acked, events, dropped>>
    BY <1>5 DEF Submit, history
  <2>3. op \in Entries /\ Effect[op] \in Statuses /\ file \in Contents
    BY <1>4, <2>1 DEF Entries
  <2>4. q \in Requests /\ x \in Contents
    BY <2>3, RequestTypes, ContentsType
  <2>5. Keys(x) = Keys(file) \cup {op} /\ x.rev = file.rev + 1
    BY <2>3, KeysFacts
  <2>6. Unkeyed(x)
    BY <2>3, <2>5, RevNat DEF Unkeyed
  <2>7. q.kind = "submit" /\ q.arg = op
    OBVIOUS
  <2> HIDE DEF q, x
  <2> QED BY <2>1, <2>2, <2>4, <2>5, <2>6, <2>7, HeldEnter
<1>6. ASSUME NEW c \in Clients, NEW to \in Statuses, Transition(c, to) \/ Finish(c) PROVE Held'
  <2>1. PICK q \in Requests, e \in Entries, s \in Statuses :
          /\ Enter(c, q, Revised(file, e, s))
          /\ q.kind \in {"transition", "finish"}
    <3>1. CASE Transition(c, to)
      <4> DEFINE q == [kind |-> "transition", arg |-> to, expected |-> AnyRevision]
      <4>1. q \in Requests /\ q.kind = "transition" /\ "transition" \in Entries
        BY RequestTypes DEF Entries
      <4>2. Enter(c, q, Revised(file, "transition", to))
        BY <3>1 DEF Transition
      <4> HIDE DEF q
      <4> QED BY <4>1, <4>2
    <3>2. CASE Finish(c)
      <4> DEFINE q == [kind |-> "finish", arg |-> "completed", expected |-> AnyRevision]
      <4>1. q \in Requests /\ q.kind = "finish" /\ "finish" \in Entries /\ "completed" \in Statuses
        BY RequestTypes DEF Entries, Statuses
      <4>2. Enter(c, q, Revised(file, "finish", "completed"))
        BY <3>2 DEF Finish
      <4> HIDE DEF q
      <4> QED BY <4>1, <4>2
    <3> QED BY <1>6, <3>1, <3>2
  <2> DEFINE x == Revised(file, e, s)
  <2>2. Ready(c) /\ pc' = [pc EXCEPT ![c] = "loaded"]
    BY <1>6 DEF Transition, Finish
  <2>3. UNCHANGED <<file, db, old, acked, events, dropped>>
    BY <1>6 DEF Transition, Finish, history
  <2>4. file \in Contents
    BY <1>4, <2>2
  <2>5. x \in Contents /\ Keys(file) \subseteq Keys(x) /\ x.rev = file.rev + 1
    BY <2>4, KeysFacts, ContentsType
  <2>6. Unkeyed(x)
    BY <2>4, <2>5, RevNat DEF Unkeyed
  <2>7. Enter(c, q, x)
    BY <2>1
  <2> HIDE DEF x
  <2> QED BY <2>1, <2>2, <2>3, <2>5, <2>6, <2>7, HeldEnter
<1>7. ASSUME NEW c \in Clients, NEW p \in {"auto", "markdown", "sqlite"}, Reconcile(c, p)
      PROVE  Held'
  <2> DEFINE q == [kind |-> "reconcile", arg |-> p, expected |-> AnyRevision]
             x == IF db = NoRow \/ UseMarkdown(p) THEN file ELSE db
  <2>1. Ready(c) /\ Enter(c, q, x) /\ pc' = [pc EXCEPT ![c] = "loaded"]
    BY <1>7 DEF Reconcile
  <2>2. UNCHANGED <<file, db, old, acked, events, dropped>>
    BY <1>7 DEF Reconcile, history
  <2>3. q \in Requests /\ x \in Contents /\ Unkeyed(x)
    BY <1>4, <2>1, RequestTypes
  <2>4. db = NoRow => Keys(file) \subseteq Keys(x)
    OBVIOUS
  <2>5. Ahead(x)
    BY <1>4, <2>1, RevNat DEF Ahead
  <2>6. db # NoRow /\ p = "auto" => Keys(db) \subseteq Keys(x)
    BY <1>4, <2>1, RevNat DEF Ahead, UseMarkdown
  <2>7. q.kind = "reconcile" /\ q.arg = p
    OBVIOUS
  <2> HIDE DEF q, x
  <2> QED BY <2>1, <2>2, <2>3, <2>4, <2>5, <2>6, <2>7, HeldEnter
<1>8. ASSUME NEW c \in Clients, Recheck(c) PROVE Held'
  <2>1. InSection(c) /\ pc[c] = "loaded"
    BY <1>8 DEF Recheck, InSection, Creating
  <2>2. /\ file \in Contents /\ db \in Contents \cup {NoRow} /\ lock = c
        /\ work[c] \in Contents
    BY <2>1, Section
  <2>3. UNCHANGED <<file, db, lock, req, work, acked, events, dropped>>
    BY <1>8 DEF Recheck, history
  <2>4. pc'[c] = "checked" /\ old'[c] = file /\ \A d \in Clients : d # c => old'[d] = old[d]
    BY <1>8 DEF Recheck, TypeInv, TypeOK
  <2>5. KeepsKeys(c)'
    <3>1. Promised' = Promised
      BY <2>3 DEF Promised
    <3>2. ~Reconciling(c) /\ db # NoRow => Keys(db) \subseteq Keys(work[c])
      BY <1>8, <2>1 DEF Recheck, MirrorConsistent, Held, KeepsKeys
    <3>3. req[c].kind = "submit" => req[c].arg \in Keys(work[c])
      BY <2>1 DEF Held, KeepsKeys
    <3>4. db = NoRow => /\ Promised \subseteq dropped \cup Keys(work[c])
                        /\ Promised \subseteq dropped \cup Keys(file)
      BY <2>1, <2>2, ContentsType DEF Held, KeepsKeys, Before
    <3>5. db # NoRow => /\ Reconciling(c) => Ahead(work[c])
                        /\ Reconciling(c) /\ req[c].arg = "auto" => Keys(db) \subseteq Keys(work[c])
                        /\ Ahead(file)
      BY <2>1, <2>2, ContentsType DEF Held, KeepsKeys, Before
    <3> QED BY <2>3, <2>4, <3>1, <3>2, <3>3, <3>4, <3>5
        DEF KeepsKeys, Reconciling, Ahead, Before, Stored
  <2>6. \A d \in Clients : d # c => Unkeyed(work[d])' /\ Unkeyed(old[d])' /\ KeepsKeys(d)'
    BY <2>2, <2>3, <2>4, HeldOthers
  <2>7. Promised' = Promised
    BY <2>3 DEF Promised
  <2>8. Unkeyed(work[c])' /\ Unkeyed(old[c])'
    BY <2>2, <2>3, <2>4, ContentsType DEF Held, Unkeyed
  <2> QED BY <2>3, <2>5, <2>6, <2>7, <2>8 DEF Held, Ahead, Unkeyed
<1>9. ASSUME NEW c \in Clients, WriteFile(c) PROVE Held'
  <2>1. InSection(c) /\ pc[c] = "checked"
    BY <1>9 DEF WriteFile, InSection, Creating
  <2>2. db \in Contents \cup {NoRow} /\ lock = c /\ work[c] \in Contents
    BY <2>1, Section
  <2>3. /\ UNCHANGED <<db, lock, req, work, old, acked, events, dropped>>
        /\ file' = work[c] /\ pc'[c] = "written"
    BY <1>9 DEF WriteFile, history, requestVars, TypeInv, TypeOK
  <2>4. Promised' = Promised
    BY <2>3 DEF Promised
  <2>5. Ahead(work[c])
    BY <2>1 DEF Held, KeepsKeys, Ahead, Before
  <2>6. db = NoRow => Promised \subseteq dropped \cup Keys(work[c])
    BY <2>1 DEF Held, KeepsKeys, Before
  <2>7. KeepsKeys(c)'
    BY <2>1, <2>2, <2>3, <2>4, <2>5
    DEF Held, KeepsKeys, Reconciling, Ahead, Behind, Before, Stored, InSection
  <2>8. \A d \in Clients : d # c => Unkeyed(work[d])' /\ Unkeyed(old[d])' /\ KeepsKeys(d)'
    BY <2>2, <2>3, HeldOthers
  <2> QED BY <2>2, <2>3, <2>4, <2>5, <2>6, <2>7, <2>8 DEF Held, Ahead, Unkeyed
<1>10. ASSUME NEW c \in Clients, RecordRow(c) PROVE Held'
  <2>1. InSection(c) /\ pc[c] = "written"
    BY <1>10 DEF RecordRow, InSection, Creating
  <2>2. /\ file \in Contents /\ db \in Contents \cup {NoRow} /\ lock = c
        /\ work[c] \in Contents /\ work[c] # NoRow
    BY <2>1, Section, ContentsType
  <2>3. /\ UNCHANGED <<file, lock, req, work, old, acked, events>>
        /\ db' = work[c] /\ pc'[c] = "recorded"
    BY <1>10 DEF RecordRow, history, requestVars, TypeInv, TypeOK
  <2>4. Promised' = Promised
    BY <2>3 DEF Promised
  <2>5. Promised \subseteq dropped' \cup Keys(work[c])
    <3>1. CASE db = NoRow
      BY <1>10, <2>1, <3>1 DEF RecordRow, Held, KeepsKeys, Before
    <3>2. CASE db # NoRow /\ Reconciling(c) /\ req[c].arg # "auto"
      BY <1>10, <3>2 DEF RecordRow, Held, Keys
    <3>3. CASE db # NoRow /\ ~(Reconciling(c) /\ req[c].arg # "auto")
      BY <1>10, <2>1, <3>3 DEF RecordRow, Held, KeepsKeys, Before
    <3> QED BY <3>1, <3>2, <3>3
  <2>6. file.rev > work[c].rev => Keys(work[c]) \subseteq Keys(file)
    BY <2>1, <2>2, RevNat DEF Held, KeepsKeys, Behind
  <2>7. KeepsKeys(c)'
    BY <2>1, <2>3 DEF Held, KeepsKeys, Reconciling, Before, Stored, InSection
  <2>8. \A d \in Clients : d # c => Unkeyed(work[d])' /\ Unkeyed(old[d])' /\ KeepsKeys(d)'
    BY <2>2, <2>3, HeldOthers
  <2> QED BY <2>2, <2>3, <2>4, <2>5, <2>6, <2>7, <2>8 DEF Held, Ahead, Unkeyed
<1>11. ASSUME NEW c \in Clients, RecordFails(c) PROVE Held'
  <2>1. InSection(c) /\ pc[c] = "written"
    BY <1>11 DEF RecordFails, InSection, Creating
  <2>2. lock = c
    BY <2>1, Section
  <2>3. /\ UNCHANGED <<file, db, lock, req, work, old, acked, events, dropped>>
        /\ pc'[c] = "failed"
    BY <1>11 DEF RecordFails, requestVars, TypeInv, TypeOK
  <2>4. Promised' = Promised
    BY <2>3 DEF Promised
  <2>5. KeepsKeys(c)'
    BY <2>1, <2>3, <2>4 DEF Held, KeepsKeys, Ahead, Before, Stored, InSection
  <2>6. \A d \in Clients : d # c => Unkeyed(work[d])' /\ Unkeyed(old[d])' /\ KeepsKeys(d)'
    BY <2>2, <2>3, HeldOthers
  <2> QED BY <2>3, <2>4, <2>5, <2>6 DEF Held, Ahead, Unkeyed
<1>12. ASSUME NEW c \in Clients, RestoreFile(c) PROVE Held'
  <2>1. InSection(c) /\ pc[c] = "failed"
    BY <1>12 DEF RestoreFile, InSection, Creating
  <2>2. lock = c /\ old[c] \in Contents /\ file # NoFile
    BY <2>1, Section, ContentsType
  <2>3. /\ UNCHANGED <<db, acked, events, dropped>> /\ lock' = Nobody /\ file' = old[c]
        /\ pc'[c] = "idle" /\ work'[c] = Draft /\ old'[c] = Draft
        /\ \A d \in Clients : d # c => UNCHANGED <<work[d], old[d]>>
    BY <1>12 DEF RestoreFile, Leave, Idle, history, TypeInv, TypeOK
  <2>4. Promised' = Promised
    BY <2>3 DEF Promised
  <2>5. Ahead(old[c]) /\ (db = NoRow => Promised \subseteq dropped \cup Keys(old[c]))
    BY <2>1 DEF Held, KeepsKeys, Ahead, Stored
  <2>6. KeepsKeys(c)' /\ Unkeyed(work[c])' /\ Unkeyed(old[c])'
    BY <2>3, KeepsOutside, KeysFacts DEF InSection, Unkeyed
  <2>7. \A d \in Clients : d # c => Unkeyed(work[d])' /\ Unkeyed(old[d])' /\ KeepsKeys(d)'
    BY <2>2, <2>3, HeldOthers
  <2> QED BY <2>2, <2>3, <2>4, <2>5, <2>6, <2>7 DEF Held, Ahead, Unkeyed
<1>13. ASSUME NEW c \in Clients, Answer(c) PROVE Held'
  <2>1. InSection(c) /\ pc[c] = "recorded"
    BY <1>13 DEF Answer, InSection, Creating
  <2>2. lock = c /\ work[c] \in Contents
    BY <2>1, Section
  <2>3. /\ UNCHANGED <<file, db, dropped>> /\ lock' = Nobody
        /\ pc'[c] = "idle" /\ work'[c] = Draft /\ old'[c] = Draft
        /\ \A d \in Clients : d # c => UNCHANGED <<work[d], old[d]>>
    BY <1>13 DEF Answer, Leave, Idle, TypeInv, TypeOK
  <2>4. db = work[c] /\ db # NoRow
    BY <2>1, <2>2, ContentsType DEF Held, KeepsKeys
  <2>5. Promised' \subseteq Promised \cup Keys(work[c])
    <3>1. CASE req[c].kind = "submit"
      <4>1. req[c].arg \in Keys(work[c])
        BY <2>1, <3>1 DEF Held, KeepsKeys
      <4>2. events' = events \cup {<<work[c].rev, req[c].arg>>} /\ acked' = acked \cup {req[c].arg}
        BY <1>13, <3>1 DEF Answer
      <4> QED BY <4>1, <4>2 DEF Promised
    <3>2. CASE req[c].kind # "submit"
      BY <1>13, <3>2 DEF Answer, Promised
    <3> QED BY <3>1, <3>2
  <2>6. KeepsKeys(c)' /\ Unkeyed(work[c])' /\ Unkeyed(old[c])'
    BY <2>3, KeepsOutside, KeysFacts DEF InSection, Unkeyed
  <2>7. \A d \in Clients : d # c => Unkeyed(work[d])' /\ Unkeyed(old[d])' /\ KeepsKeys(d)'
    BY <2>2, <2>3, HeldOthers
  <2> QED BY <2>3, <2>4, <2>5, <2>6, <2>7 DEF Held, Ahead, Unkeyed
<1>14. CASE HandEdit
  <2>1. /\ file \in Contents /\ db \in Contents \cup {NoRow} /\ "edit" \in Entries /\ "edit" \notin Ops
        /\ file.status \in Statuses /\ file.rev \in Nat
    BY <1>14, RevNat DEF HandEdit, Known, TypeInv, TypeOK, Entries
  <2>2. UNCHANGED <<db, pc, req, work, old, acked, events, dropped>>
    BY <1>14 DEF HandEdit, requestVars
  <2>3. Keys(file') = Keys(file) /\ file' \in Contents
    <3>1. CASE file' = Edited(file)
      BY <2>1, <3>1, KeysFacts, EditType
    <3>2. CASE file' = Revised(file, "edit", file.status)
      <4>1. Keys(file') = Keys(file) \cup ({"edit"} \cap Ops)
        BY <2>1, <3>2, KeysFacts
      <4> QED BY <2>1, <3>2, <4>1, ContentsType
    <3> QED BY <1>14, <3>1, <3>2 DEF HandEdit
  <2>4. file'.rev = file.rev \/ (file = db /\ file'.rev = file.rev + 1)
    BY <1>14, <2>1, KeysFacts DEF HandEdit
  <2>5. Promised' = Promised
    BY <2>2 DEF Promised
  <2>6. Ahead(file)' /\ Unkeyed(file)'
    <3>1. Ahead(file) /\ Unkeyed(file)
      BY <2>1, ContentsType DEF Held
    <3>2. CASE file'.rev = file.rev
      BY <2>2, <2>3, <3>1, <3>2 DEF Ahead, Unkeyed
    <3>3. CASE file = db /\ file'.rev = file.rev + 1
      BY <2>1, <2>2, <2>3, <3>3 DEF Ahead, Unkeyed
    <3> QED BY <2>4, <3>2, <3>3
  <2>7. ASSUME NEW d \in Clients PROVE KeepsKeys(d)'
    <3>1. work[d] \in Contents /\ work[d].rev \in Nat /\ (db # NoRow => db.rev \in Nat)
      BY <2>1, RevNat DEF TypeInv, TypeOK
    <3>2. pc[d] = "written" => Behind(work[d])'
      BY <2>1, <2>2, <2>3, <2>4, <3>1, ContentsType DEF Held, KeepsKeys, Behind
    <3> QED BY <2>2, <2>3, <2>5, <3>2
        DEF Held, KeepsKeys, Ahead, Reconciling, Before, Stored, InSection
  <2> QED BY <2>1, <2>2, <2>3, <2>5, <2>6, <2>7, ContentsType DEF Held, Ahead, Unkeyed
<1>15. CASE HandRestore
  <2>1. file \in Contents /\ db \in Contents \cup {NoRow}
    BY <1>15 DEF HandRestore, Known, TypeInv, TypeOK
  <2>2. UNCHANGED <<db, pc, req, work, old, acked, events>> /\ file' = Draft
    BY <1>15 DEF HandRestore, requestVars
  <2>3. Keys(Draft) = {} /\ Draft.rev = 0 /\ Draft # NoFile
    BY KeysFacts, ContentsType DEF Draft
  <2>4. Promised' = Promised
    BY <2>2 DEF Promised
  <2>5. dropped \subseteq dropped' /\ (db = NoRow => Promised \subseteq dropped')
    BY <1>15, <2>1, ContentsType DEF HandRestore, Held, Keys
  <2>6. ASSUME NEW d \in Clients PROVE KeepsKeys(d)'
    <3>1. work[d] \in Contents /\ work[d].rev \in Nat
      BY RevNat DEF TypeInv, TypeOK
    <3>2. pc[d] = "written" => Behind(work[d])'
      BY <2>2, <2>3, <3>1 DEF Held, Unkeyed, Behind
    <3> QED BY <2>2, <2>3, <2>4, <2>5, <3>2
        DEF Held, KeepsKeys, Ahead, Reconciling, Before, Stored, InSection
  <2>7. Ahead(file)'
    BY <2>1, <2>2, <2>3, RevNat DEF Ahead
  <2> QED BY <2>2, <2>3, <2>4, <2>5, <2>6, <2>7 DEF Held, Ahead, Unkeyed
<1>16. CASE UNCHANGED vars
  BY <1>16, HeldLeave DEF vars
<1>17. CASE Life
  <2>1. \A c \in Clients : seen[c].row.rev \in Nat
    BY RevNat DEF TypeInv, TypeOK
  <2>2. ASSUME NEW c \in Clients, NEW op \in Ops, NEW e \in {AnyRevision, seen[c].row.rev},
               Submit(c, op, e)
        PROVE  Held'
    BY <2>1, <2>2, <1>5
  <2>3. ASSUME NEW c \in Clients, NEW to \in Statuses, Transition(c, to) PROVE Held'
    BY <2>3, <1>6
  <2>4. ASSUME NEW c \in Clients, Finish(c) PROVE Held'
    BY <2>4, <1>6, RequestTypes DEF Statuses
  <2> QED BY <1>17, <2>2, <2>3, <2>4, <1>2, <1>3, <1>7, <1>8, <1>9, <1>10, <1>11, <1>12,
             <1>13, <1>14, <1>15 DEF Life
<1> QED BY <1>1, <1>16, <1>17 DEF Next

-----------------------------------------------------------------------------
(* The two projections *)

\* While nothing has parted the projections, the row and the document are the same
\* outside a commit, and inside one the old document is at hand.
Together ==
  ~torn /\ Known =>
    /\ db # NoRow
    /\ lock = Nobody => file = db
    /\ \A c \in Clients :
         /\ pc[c] \in {"loaded", "checked", "recorded"} => file = db
         /\ pc[c] = "written" => file = work[c]
         /\ pc[c] \in Stored => old[c] = db

\* The type invariant in the words of a single step.
LEMMA Shape ==
  ASSUME TypeInv
  PROVE  /\ pc \in [Clients -> {"idle", "loaded", "checked", "written", "failed",
                                "recorded"} \cup Creating]
         /\ req \in [Clients -> Requests]
         /\ work \in [Clients -> Contents] /\ old \in [Clients -> Contents]
         /\ db \in Contents \cup {NoRow}
         /\ Known => file \in Contents /\ file # NoRow /\ file # NoFile
         /\ \A c \in Clients : InSection(c) <=> lock = c
         /\ \A c \in Clients : lock # Nobody => Known
         /\ torn \in BOOLEAN
BY ContentsType, SessionConstantsOK DEF TypeInv, TypeOK, Known, Birth

\* Row, file and mirrors are brought together again by every step that parts them.
LEMMA TogetherStep == ASSUME TypeInv, TypeInv', Held, Together, [Next]_vars PROVE Together'
<1> USE SessionConstantsOK, ContentsType, Shape
<1> USE DEF Together, InSection, Creating, Stored, history, requestVars
<1>1. CASE Creation
  <2>1. key = "open" /\ ~Known
    BY <1>1 DEF Creation, Create, CreateRow, CreateFails, SaveRecord, CreationCut,
       CreateAnother, GoOn, May, TypeInv, Birth, Known
  <2>2. \A d \in Clients : pc[d] \in {"idle"} \cup Creating
    BY <2>1 DEF TypeInv, Birth
  <2>3. ASSUME NEW c \in Clients, GoOn(c) PROVE Together'
    <3>1. pc' = pc /\ made = 1
      BY <2>3 DEF GoOn, May, StartStep, TypeInv, TypeOK, Birth
    <3>2. ~torn => file = db /\ db # NoRow
      BY <2>1, <2>3, <3>1 DEF GoOn, May, TypeInv, TypeOK, Birth
    <3> QED BY <2>2, <2>3, <3>1, <3>2 DEF GoOn
  <2>4. ASSUME NEW c \in Clients, SaveRecord(c) PROVE Together'
    <3>1. file = db /\ db = Draft
      BY <2>4 DEF SaveRecord, TypeInv, Birth
    <3>2. \A d \in Clients : pc'[d] \in {"idle"} \cup Creating
      BY <2>2, <2>4 DEF SaveRecord, StartStep
    <3> QED BY <2>4, <3>1, <3>2 DEF SaveRecord
  <2>5. ASSUME NEW c \in Clients, CreateAnother(c) PROVE ~Known'
    BY <2>1, <2>5 DEF CreateAnother, May, TypeInv, TypeOK, Known
  <2>6. ASSUME NEW c \in Clients, Create(c) \/ CreateRow(c) \/ CreateFails(c) \/ CreationCut(c)
        PROVE  ~Known'
    BY <2>1, <2>6 DEF Create, CreateRow, CreateFails, CreationCut, Known
  <2> QED BY <1>1, <2>3, <2>4, <2>5, <2>6 DEF Creation
<1>2. ASSUME Life, UNCHANGED <<key, made, cut>> PROVE Together'
  <2>1. Known' <=> Known
    BY <1>2 DEF Known
  <2>2. ASSUME NEW c \in Clients, Look(c) \/ SubmitRefused(c) \/ ReconcileRefused(c)
        PROVE  Together'
    BY <2>1, <2>2 DEF Look, SubmitRefused, ReconcileRefused, Conflict
  <2>3. ASSUME NEW c \in Clients, NEW op \in Ops, SubmitReplayed(c, op) PROVE Together'
    BY <2>1, <2>3 DEF SubmitReplayed
  <2>4. ASSUME NEW c \in Clients, Ready(c), lock' = c, pc' = [pc EXCEPT ![c] = "loaded"],
               UNCHANGED <<file, db, old, torn>>
        PROVE  Together'
    <3>1. lock = Nobody /\ \A d \in Clients : pc[d] \in {"idle"} \cup Creating
      BY <2>4 DEF Ready, LockFree
    <3> QED BY <2>1, <2>4, <3>1
  <2>5. ASSUME NEW c \in Clients, NEW op \in Ops, NEW e, Submit(c, op, e) PROVE Together'
    BY <2>4, <2>5 DEF Submit, Enter
  <2>6. ASSUME NEW c \in Clients, NEW to \in Statuses, Transition(c, to) PROVE Together'
    BY <2>4, <2>6 DEF Transition, Enter
  <2>7. ASSUME NEW c \in Clients, Finish(c) PROVE Together'
    BY <2>4, <2>7 DEF Finish, Enter
  <2>8. ASSUME NEW c \in Clients, NEW p \in {"auto", "markdown", "sqlite"}, Reconcile(c, p)
        PROVE  Together'
    BY <2>4, <2>8 DEF Reconcile, Enter
  <2>9. ASSUME NEW c \in Clients, ReconcileEqual(c) PROVE Together'
    <3>1. Known /\ lock = Nobody /\ file = db
      BY <2>9 DEF ReconcileEqual, Ready, LockFree
    <3>2. \A d \in Clients : pc[d] \in {"idle"} \cup Creating
      BY <3>1
    <3> QED BY <2>9, <3>1, <3>2 DEF ReconcileEqual
  <2>10. ASSUME NEW c \in Clients, Recheck(c) PROVE Together'
    BY <2>1, <2>10 DEF Recheck
  <2>11. ASSUME NEW c \in Clients, RecheckFails(c) PROVE Together'
    BY <2>1, <2>11 DEF RecheckFails, Leave, Idle
  <2>12. ASSUME NEW c \in Clients, WriteFile(c) PROVE Together'
    BY <2>1, <2>12 DEF WriteFile
  <2>13. ASSUME NEW c \in Clients, RecordRow(c) PROVE Together'
    <3>1. ~torn' => file = work[c]
      BY <2>1, <2>13 DEF RecordRow
    <3>2. lock = c
      BY <2>13 DEF RecordRow
    <3> QED BY <2>1, <2>13, <3>1, <3>2 DEF RecordRow
  <2>14. ASSUME NEW c \in Clients, RecordFails(c) PROVE Together'
    BY <2>1, <2>14 DEF RecordFails
  <2>15. ASSUME NEW c \in Clients, RestoreFile(c) PROVE Together'
    BY <2>1, <2>15 DEF RestoreFile, Leave, Idle
  <2>16. ASSUME NEW c \in Clients, Answer(c) PROVE Together'
    BY <2>1, <2>16 DEF Answer, Leave, Idle
  <2>17. ASSUME NEW c \in Clients, Crash(c) PROVE Together'
    <3>1. ~torn' => ~torn /\ pc[c] \notin {"written", "failed"}
      BY <2>17 DEF Crash
    <3> QED BY <2>1, <2>17, <3>1 DEF Crash, Leave, Idle
  <2>18. CASE HandEdit \/ HandRestore
    BY <2>18 DEF HandEdit, HandRestore
  <2> QED BY <1>2, <2>2, <2>3, <2>5, <2>6, <2>7, <2>8, <2>9, <2>10, <2>11, <2>12, <2>13,
             <2>14, <2>15, <2>16, <2>17, <2>18 DEF Life
<1>3. CASE UNCHANGED vars
  BY <1>3 DEF vars, Known
<1> QED BY <1>1, <1>2, <1>3 DEF Next

-----------------------------------------------------------------------------
(* Commits *)

\* A view that may be relied on is a view of what the row was at that revision.
GoodView(v) ==
  v.valid => /\ db # NoRow
             /\ v.row.rev <= db.rev
             /\ v.row.rev = db.rev => v.row.log = db.log

\* The request that is about to be committed, against the row.
FitsRow(c) ==
  /\ pc[c] \in Before /\ req[c].kind = "submit" /\ db # NoRow =>
       /\ work[c] = Revised(db, req[c].arg, Effect[req[c].arg])
       /\ db.status \notin TerminalStatuses
  /\ pc[c] \in Before /\ req[c].expected # AnyRevision =>
       /\ req[c].kind = "submit" /\ seen[c].row.rev = req[c].expected
       /\ db # NoRow => req[c].expected = db.rev
  /\ pc[c] = "loaded" /\ req[c].kind = "transition" => file.status \notin TerminalStatuses
  /\ pc[c] \in {"checked", "written"} /\ req[c].kind = "transition" /\ db # NoRow =>
       db.status \notin TerminalStatuses
  /\ pc[c] \in Before /\ ~Reconciling(c) => Len(work[c].log) > 0
  /\ pc[c] \in Stored /\ ~Reconciling(c) /\ db # NoRow => old[c] = db

\* What an automatic reconciliation writes: the row, over a document of a lower
\* revision, or a document of a higher revision.
AutoDecides(c) ==
  Reconciling(c) /\ req[c].arg = "auto" /\ db # NoRow /\ pc[c] \in Before =>
    \/ /\ work[c] = db
       /\ pc[c] = "loaded" => file.rev < db.rev
       /\ pc[c] # "loaded" => old[c].rev < db.rev
    \/ work[c].rev > db.rev

Commits == \A c \in Clients : GoodView(seen[c]) /\ FitsRow(c) /\ AutoDecides(c)

\* A view of the row is good.
LEMMA ViewsAreGood ==
  ASSUME TypeInv, NEW x, db # NoRow => x = db
  PROVE  GoodView(View(x))
<1>1. View(x).row = x /\ (View(x).valid <=> db # NoRow)
  BY DEF View
<1>2. db # NoRow => x.rev \in Nat /\ x = db
  BY RevNat, Shape
<1> QED BY <1>1, <1>2 DEF GoodView

\* Who is outside the section has nothing in hand to commit.
LEMMA CommitsOutside ==
  ASSUME NEW d \in Clients, ~InSection(d)' PROVE FitsRow(d)' /\ AutoDecides(d)'
BY DEF FitsRow, AutoDecides, InSection, Creating, Before, Stored

\* Who enters the section has in hand what fits the row as it is.
LEMMA CommitsEnter ==
  ASSUME TypeInv, TypeInv', Commits, NEW c \in Clients, NEW q \in Requests, NEW x \in Contents,
         Enter(c, q, x), Ready(c), pc' = [pc EXCEPT ![c] = "loaded"],
         UNCHANGED <<file, db, old, seen>>,
         q.kind = "submit" /\ db # NoRow =>
           x = Revised(db, q.arg, Effect[q.arg]) /\ db.status \notin TerminalStatuses,
         q.expected # AnyRevision =>
           /\ q.kind = "submit" /\ seen[c].row.rev = q.expected
           /\ db # NoRow => q.expected = db.rev,
         q.kind = "transition" => file.status \notin TerminalStatuses,
         q.kind # "reconcile" => Len(x.log) > 0,
         q.kind = "reconcile" /\ q.arg = "auto" /\ db # NoRow =>
           (x = db /\ file.rev < db.rev) \/ x.rev > db.rev
  PROVE  Commits'
<1>1. pc'[c] = "loaded" /\ req'[c] = q /\ work'[c] = x /\ lock' = c
  BY DEF Enter, TypeInv, TypeOK
<1>2. FitsRow(c)' /\ AutoDecides(c)'
  BY <1>1 DEF FitsRow, AutoDecides, Reconciling, Before, Stored
<1>3. \A d \in Clients : d # c => ~InSection(d)'
  BY <1>1, SessionConstantsOK DEF TypeInv, TypeOK, InSection
<1>4. \A d \in Clients : GoodView(seen[d])'
  BY DEF Commits, GoodView
<1> QED BY <1>2, <1>3, <1>4, CommitsOutside DEF Commits

\* A step outside the section, or out of it, leaves what the others have in hand.
LEMMA CommitsLeave ==
  ASSUME Commits, UNCHANGED <<file, db>>,
         \A d \in Clients : seen'[d] = seen[d] \/ GoodView(seen[d])',
         \A d \in Clients :
           ~InSection(d)' \/ UNCHANGED <<pc[d], req[d], work[d], old[d], seen[d]>>
  PROVE  Commits'
<1> SUFFICES ASSUME NEW c \in Clients PROVE (GoodView(seen[c]) /\ FitsRow(c) /\ AutoDecides(c))'
  BY DEF Commits
<1>1. GoodView(seen[c])'
  BY DEF Commits, GoodView
<1>2. FitsRow(c)' /\ AutoDecides(c)'
  <2>1. CASE ~InSection(c)'
    BY <2>1, CommitsOutside
  <2>2. CASE UNCHANGED <<pc[c], req[c], work[c], old[c], seen[c]>>
    BY <2>2 DEF Commits, FitsRow, AutoDecides, Reconciling, Before, Stored
  <2> QED BY <2>1, <2>2
<1> QED BY <1>1, <1>2

\* What a client has in hand fits the row until it is committed.
LEMMA CommitsStep ==
  ASSUME TypeInv, TypeInv', Held, Commits, [Next]_vars PROVE Commits'
<1> USE SessionConstantsOK, ContentsType, Shape
<1>0. \A d \in Clients : seen[d] \in [row: Contents, valid: BOOLEAN]
  BY DEF TypeInv, TypeOK
<1>1. CASE Creation
  <2>1. key = "open" /\ ~Known
    BY <1>1 DEF Creation, Create, CreateRow, CreateFails, SaveRecord, CreationCut,
       CreateAnother, GoOn, May, TypeInv, Birth, Known, Creating
  <2>2. \A d \in Clients : ~InSection(d) /\ ~seen[d].valid
    BY <2>1 DEF TypeInv, Birth
  <2>3. \A d \in Clients : ~InSection(d)'
    BY <1>1, <2>2 DEF Creation, Create, CreateRow, CreateFails, SaveRecord, CreationCut,
       CreateAnother, GoOn, StartStep, InSection, Creating
  <2>4. ASSUME NEW d \in Clients PROVE GoodView(seen[d])'
    <3>1. CASE \E c \in Clients : SaveRecord(c)
      <4>1. PICK c \in Clients : SaveRecord(c)
        BY <3>1
      <4>2. db' = Draft /\ Draft \in Contents /\ Draft.rev \in Nat /\ db = Draft /\ Draft # NoRow
        BY <4>1, RevNat DEF SaveRecord, TypeInv, Birth
      <4>3. seen'[d] = seen[d] \/ seen'[d] = View(db)
        BY <4>1 DEF SaveRecord, TypeInv, TypeOK
      <4> QED BY <4>2, <4>3, <2>2 DEF GoodView, View
    <3>2. CASE ~\E c \in Clients : SaveRecord(c)
      <4>1. seen' = seen
        BY <1>1, <3>2 DEF Creation, Create, CreateRow, CreateFails, CreationCut,
           CreateAnother, GoOn
      <4> QED BY <2>2, <4>1 DEF GoodView
    <3> QED BY <3>1, <3>2
  <2> QED BY <2>3, <2>4, CommitsOutside DEF Commits
<1>2. ASSUME NEW c \in Clients,
             \/ SubmitRefused(c) \/ ReconcileEqual(c) \/ ReconcileRefused(c)
             \/ RecheckFails(c) \/ Crash(c)
      PROVE  Commits'
  <2>1. UNCHANGED <<file, db, seen>>
    BY <1>2 DEF SubmitRefused, Conflict, ReconcileEqual, ReconcileRefused, RecheckFails, Crash
  <2>2. ASSUME NEW d \in Clients
        PROVE  ~InSection(d)' \/ UNCHANGED <<pc[d], req[d], work[d], old[d], seen[d]>>
    BY <1>2 DEF SubmitRefused, Conflict, ReconcileEqual, ReconcileRefused,
       RecheckFails, Crash, Leave, Idle, requestVars, InSection
  <2> QED BY <2>1, <2>2, CommitsLeave
<1>3. ASSUME NEW c \in Clients, Look(c) PROVE Commits'
  <2>1. UNCHANGED <<file, db, pc, req, work, old>> /\ pc[c] = "idle"
    BY <1>3 DEF Look, requestVars
  <2>2. \A d \in Clients : d # c => seen'[d] = seen[d]
    BY <1>3 DEF Look
  <2>3. GoodView(seen[c])'
    <3>1. seen'[c] = View(IF db = NoRow THEN file ELSE db)
      BY <1>3, <1>0 DEF Look, TypeInv, TypeOK
    <3>2. GoodView(View(IF db = NoRow THEN file ELSE db))
      BY ViewsAreGood
    <3> QED BY <2>1, <3>1, <3>2 DEF GoodView
  <2>4. ~InSection(c)'
    BY <2>1 DEF InSection
  <2> QED BY <2>1, <2>2, <2>3, <2>4, CommitsLeave
<1>4. ASSUME NEW c \in Clients, NEW op \in Ops, SubmitReplayed(c, op) PROVE Commits'
  <2>1. UNCHANGED <<file, db, pc, req, work, old>>
    BY <1>4 DEF SubmitReplayed, requestVars
  <2>2. \A d \in Clients : d # c => seen'[d] = seen[d]
    BY <1>4 DEF SubmitReplayed
  <2>3. GoodView(seen[c])'
    <3>1. seen'[c] = View(file) /\ (db # NoRow => file = db)
      BY <1>4 DEF SubmitReplayed, MirrorConsistent, TypeInv, TypeOK
    <3>2. GoodView(View(file))
      BY <3>1, ViewsAreGood
    <3> QED BY <2>1, <3>1, <3>2 DEF GoodView
  <2>4. ~InSection(c)'
    BY <1>4, <2>1 DEF SubmitReplayed, Ready, InSection
  <2> QED BY <2>1, <2>2, <2>3, <2>4, CommitsLeave
<1>5. ASSUME NEW c \in Clients, NEW op \in Ops, NEW e \in {AnyRevision, seen[c].row.rev},
             Submit(c, op, e)
      PROVE  Commits'
  <2> DEFINE q == [kind |-> "submit", arg |-> op, expected |-> e]
             x == Revised(file, op, Effect[op])
  <2>1. Ready(c) /\ Enter(c, q, x) /\ pc' = [pc EXCEPT ![c] = "loaded"]
    BY <1>5 DEF Submit
  <2>2. UNCHANGED <<file, db, old, seen>>
    BY <1>5 DEF Submit
  <2>3. op \in Entries /\ Effect[op] \in Statuses /\ file \in Contents
    BY <2>1 DEF Entries, Ready
  <2>4. e \in Nat \cup {AnyRevision}
    BY <1>0, RevNat
  <2>5. q \in Requests /\ x \in Contents
    BY <2>3, <2>4, RequestTypes
  <2>6. db # NoRow => file = db
    BY <1>5 DEF Submit, MirrorConsistent
  <2>7. file.status \notin TerminalStatuses
    BY <1>5 DEF Submit
  <2>8. e # AnyRevision => e = file.rev
    BY <1>5 DEF Submit, Stale
  <2>9. Len(x.log) > 0
    BY <2>3, RevNat DEF Revised
  <2>10. q.kind = "submit" /\ q.arg = op /\ q.expected = e
    OBVIOUS
  <2>11. db # NoRow => x = Revised(db, op, Effect[op])
    BY <2>6
  <2>12. e # AnyRevision => seen[c].row.rev = e
    OBVIOUS
  <2> HIDE DEF q, x
  <2> QED BY <2>1, <2>2, <2>5, <2>6, <2>7, <2>8, <2>9, <2>10, <2>11, <2>12, CommitsEnter
<1>6. ASSUME NEW c \in Clients, NEW to \in Statuses, Transition(c, to) PROVE Commits'
  <2> DEFINE q == [kind |-> "transition", arg |-> to, expected |-> AnyRevision]
             x == Revised(file, "transition", to)
  <2>1. Ready(c) /\ Enter(c, q, x) /\ pc' = [pc EXCEPT ![c] = "loaded"]
    BY <1>6 DEF Transition
  <2>2. UNCHANGED <<file, db, old, seen>>
    BY <1>6 DEF Transition
  <2>3. file \in Contents /\ "transition" \in Entries
    BY <2>1 DEF Ready, Entries
  <2>4. q \in Requests /\ x \in Contents
    BY <2>3, RequestTypes
  <2>5. file.status \notin TerminalStatuses
    BY <1>6 DEF Transition, Transitions, TerminalStatuses
  <2>6. Len(x.log) > 0
    BY <2>3, RevNat DEF Revised
  <2>7. q.kind = "transition" /\ q.expected = AnyRevision
    OBVIOUS
  <2> HIDE DEF q, x
  <2> QED BY <2>1, <2>2, <2>4, <2>5, <2>6, <2>7, CommitsEnter
<1>7. ASSUME NEW c \in Clients, Finish(c) PROVE Commits'
  <2> DEFINE q == [kind |-> "finish", arg |-> "completed", expected |-> AnyRevision]
             x == Revised(file, "finish", "completed")
  <2>1. Ready(c) /\ Enter(c, q, x) /\ pc' = [pc EXCEPT ![c] = "loaded"]
    BY <1>7 DEF Finish
  <2>2. UNCHANGED <<file, db, old, seen>>
    BY <1>7 DEF Finish
  <2>3. file \in Contents /\ "finish" \in Entries /\ "completed" \in Statuses
    BY <2>1 DEF Ready, Entries, Statuses
  <2>4. q \in Requests /\ x \in Contents
    BY <2>3, RequestTypes
  <2>5. Len(x.log) > 0
    BY <2>3, RevNat DEF Revised
  <2>6. q.kind = "finish" /\ q.expected = AnyRevision
    OBVIOUS
  <2> HIDE DEF q, x
  <2> QED BY <2>1, <2>2, <2>4, <2>5, <2>6, CommitsEnter
<1>8. ASSUME NEW c \in Clients, NEW p \in {"auto", "markdown", "sqlite"}, Reconcile(c, p)
      PROVE  Commits'
  <2> DEFINE q == [kind |-> "reconcile", arg |-> p, expected |-> AnyRevision]
             x == IF db = NoRow \/ UseMarkdown(p) THEN file ELSE db
  <2>1. Ready(c) /\ Enter(c, q, x) /\ pc' = [pc EXCEPT ![c] = "loaded"]
    BY <1>8 DEF Reconcile
  <2>2. UNCHANGED <<file, db, old, seen>>
    BY <1>8 DEF Reconcile
  <2>3. file \in Contents
    BY <2>1 DEF Ready
  <2>4. q \in Requests /\ x \in Contents
    BY <2>3, RequestTypes
  <2>5. p = "auto" /\ db # NoRow => (x = db /\ file.rev < db.rev) \/ x.rev > db.rev
    <3>1. p = "auto" /\ db # NoRow => file.rev # db.rev
      BY <1>8 DEF Reconcile, AutoRefuses, SameRevision, Fork
    <3> QED BY <2>3, <3>1, RevNat DEF UseMarkdown
  <2>6. q.kind = "reconcile" /\ q.arg = p /\ q.expected = AnyRevision
    OBVIOUS
  <2> HIDE DEF q, x
  <2> QED BY <2>1, <2>2, <2>4, <2>5, <2>6, CommitsEnter
<1>9. ASSUME NEW c \in Clients, Recheck(c) PROVE Commits'
  <2>1. InSection(c) /\ pc[c] = "loaded"
    BY <1>9 DEF Recheck, InSection, Creating
  <2>2. /\ UNCHANGED <<file, db, lock, req, work, seen>>
        /\ pc'[c] = "checked" /\ old'[c] = file
    BY <1>9 DEF Recheck
  <2>3. \A d \in Clients : d # c => ~InSection(d)'
    BY <1>9, <2>1 DEF Recheck, InSection
  <2>4. ~Reconciling(c) /\ db # NoRow => file = db
    BY <1>9 DEF Recheck, MirrorConsistent
  <2>5. FitsRow(c)'
    BY <2>1, <2>2, <2>4 DEF Commits, FitsRow, Before, Stored, Reconciling
  <2>6. AutoDecides(c)'
    BY <2>1, <2>2 DEF Commits, AutoDecides, Before, Reconciling
  <2> QED BY <2>2, <2>3, <2>5, <2>6, CommitsOutside DEF Commits, GoodView
<1>10. ASSUME NEW c \in Clients, WriteFile(c) \/ RecordFails(c) PROVE Commits'
  <2>1. InSection(c) /\ pc[c] \in {"checked", "written"}
    BY <1>10 DEF WriteFile, RecordFails, InSection, Creating
  <2>2. /\ UNCHANGED <<db, lock, req, work, old, seen>>
        /\ \/ pc[c] = "checked" /\ pc'[c] = "written"
           \/ pc[c] = "written" /\ pc'[c] = "failed"
        /\ \A d \in Clients : d # c => pc'[d] = pc[d]
    BY <1>10 DEF WriteFile, RecordFails, requestVars, history
  <2>3. \A d \in Clients : d # c => ~InSection(d)'
    BY <2>1, <2>2 DEF InSection
  <2>4. FitsRow(c)' /\ AutoDecides(c)'
    BY <2>1, <2>2 DEF Commits, FitsRow, AutoDecides, Before, Stored, Reconciling
  <2> QED BY <2>2, <2>3, <2>4, CommitsOutside DEF Commits, GoodView
<1>11. ASSUME NEW c \in Clients, RecordRow(c) PROVE Commits'
  <2>1. InSection(c) /\ pc[c] = "written" /\ pc' = [pc EXCEPT ![c] = "recorded"]
    BY <1>11 DEF RecordRow, InSection, Creating
  <2>2. UNCHANGED <<lock, req, work, old>> /\ db' = work[c]
    BY <1>11 DEF RecordRow, requestVars
  <2>3. \A d \in Clients : d # c => ~InSection(d)'
    BY <2>1, <2>2 DEF InSection
  <2>4. FitsRow(c)' /\ AutoDecides(c)'
    <3>1. pc'[c] = "recorded"
      BY <2>1
    <3> QED BY <3>1 DEF FitsRow, AutoDecides, Before, Stored
  <2>5. ASSUME NEW d \in Clients PROVE GoodView(seen[d])'
    <3>1. CASE Grows(work[c])
      <4>1. seen' = seen
        BY <1>11, <3>1 DEF RecordRow
      <4>2. CASE db = NoRow
        BY <4>1, <4>2 DEF Commits, GoodView
      <4>3. CASE db # NoRow
        <5>1. work[c].rev > db.rev
          BY <3>1, <4>3 DEF Grows
        <5>2. work[c].rev \in Nat /\ db.rev \in Nat /\ seen[d].row.rev \in Nat /\ work[c] # NoRow
          BY <1>0, <4>3, RevNat
        <5> QED BY <2>2, <4>1, <4>3, <5>1, <5>2 DEF Commits, GoodView
      <4> QED BY <4>2, <4>3
    <3>2. CASE ~Grows(work[c])
      <4>1. seen'[d] = Outdated(seen[d])
        BY <1>11, <3>2 DEF RecordRow
      <4> QED BY <4>1, <1>0, OutdatedType DEF GoodView
    <3> QED BY <3>1, <3>2
  <2> QED BY <2>3, <2>4, <2>5, CommitsOutside DEF Commits
<1>12. ASSUME NEW c \in Clients, RestoreFile(c) PROVE Commits'
  <2>1. UNCHANGED <<db, seen>>
    BY <1>12 DEF RestoreFile
  <2>2. InSection(c)
    BY <1>12 DEF RestoreFile, InSection, Creating
  <2>3. \A d \in Clients : ~InSection(d)'
    BY <1>12, <2>2 DEF RestoreFile, Leave, Idle, InSection
  <2> QED BY <2>1, <2>3, CommitsOutside DEF Commits, GoodView
<1>13. ASSUME NEW c \in Clients, Answer(c) PROVE Commits'
  <2>1. InSection(c) /\ pc[c] = "recorded"
    BY <1>13 DEF Answer, InSection, Creating
  <2>2. \A d \in Clients : ~InSection(d)'
    BY <1>13, <2>1 DEF Answer, Leave, Idle, InSection
  <2>3. db = work[c]
    BY <2>1 DEF Held, KeepsKeys
  <2>4. ASSUME NEW d \in Clients PROVE GoodView(seen[d])'
    <3>1. seen'[d] = seen[d] \/ seen'[d] = View(db)
      BY <1>13, <2>3 DEF Answer, TypeInv, TypeOK
    <3>2. db' = db
      BY <1>13 DEF Answer
    <3>3. GoodView(View(db))
      BY ViewsAreGood
    <3>4. GoodView(seen[d])
      BY DEF Commits
    <3> QED BY <3>1, <3>2, <3>3, <3>4 DEF GoodView
  <2> QED BY <2>2, <2>4, CommitsOutside DEF Commits
<1>14. CASE HandEdit \/ HandRestore
  <2>1. UNCHANGED <<db, pc, req, work, old, seen>>
    BY <1>14 DEF HandEdit, HandRestore, requestVars
  <2>2. file.rev \in Nat /\ file \in Contents /\ (db # NoRow => db.rev \in Nat)
    BY <1>14, RevNat DEF HandEdit, HandRestore
  <2>3. \/ file'.status = file.status
        \/ file'.status = "draft"
    BY <1>14, <2>2, EditType DEF HandEdit, HandRestore, Revised, Draft
  <2>4. \/ file'.rev = file.rev
        \/ file = db
        \/ file'.rev = 0
    BY <1>14, <2>2, EditType DEF HandEdit, HandRestore, Draft
  <2>5. ASSUME NEW d \in Clients PROVE FitsRow(d)'
    BY <2>1, <2>3 DEF Commits, FitsRow, Before, Stored, Reconciling, TerminalStatuses
  <2>6. ASSUME NEW d \in Clients PROVE AutoDecides(d)'
    BY <2>1, <2>2, <2>4 DEF Commits, AutoDecides, Before, Reconciling
  <2> QED BY <2>1, <2>5, <2>6 DEF Commits, GoodView
<1>15. CASE UNCHANGED vars
  BY <1>15, CommitsLeave DEF vars
<1>16. CASE Life
  BY <1>16, <1>2, <1>3, <1>4, <1>5, <1>6, <1>7, <1>8, <1>9, <1>10, <1>11, <1>12, <1>13,
     <1>14 DEF Life
<1> QED BY <1>1, <1>15, <1>16 DEF Next

-----------------------------------------------------------------------------
(* Keys *)

\* Two entries of one key have KeyWindow other keyed operations between them.
Spaced(log) ==
  \A i, j \in DOMAIN log :
    i < j /\ log[i] = log[j] /\ log[i] \in Ops => KeyedBetween(log, i, j) >= KeyWindow

KeysSpaced ==
  /\ file # NoFile => Spaced(file.log)
  /\ db # NoRow => Spaced(db.log)
  /\ \A c \in Clients : Spaced(work[c].log) /\ Spaced(old[c].log)

\* A draft has no key at all.
LEMMA SpacedDraft == Spaced(Draft.log)
BY DEF Spaced, Draft

\* An entry that is no key, or a key applied_operations has forgotten, may follow.
LEMMA SpacedAppend ==
  ASSUME NEW l \in Seq(Entries), NEW e \in Entries, Spaced(l), e \notin AppliedKeys(l)
  PROVE  Spaced(Append(l, e))
<1> DEFINE m == Append(l, e)
<1>1. m \in Seq(Entries) /\ Len(m) = Len(l) + 1 /\ DOMAIN m = 1 .. Len(l) + 1
  OBVIOUS
<1>2. \A k \in 1 .. Len(l) : m[k] = l[k]
  OBVIOUS
<1>3. m[Len(l) + 1] = e
  OBVIOUS
<1>4. ASSUME NEW i \in DOMAIN m, NEW j \in DOMAIN m, i < j, m[i] = m[j], m[i] \in Ops
      PROVE  KeyedBetween(m, i, j) >= KeyWindow
  <2>1. i \in 1 .. Len(l) /\ j \in 1 .. Len(l) + 1 /\ i \in DOMAIN l /\ m[i] = l[i]
    BY <1>1, <1>2, <1>4
  <2>2. {k \in i+1 .. j-1 : m[k] \in Ops} = {k \in i+1 .. j-1 : l[k] \in Ops}
    BY <1>2, <2>1
  <2>3. KeyedBetween(m, i, j) = KeyedBetween(l, i, j)
    BY <2>2 DEF KeyedBetween
  <2>4. CASE j \in 1 .. Len(l)
    <3>1. j \in DOMAIN l /\ m[j] = l[j]
      BY <1>2, <2>4
    <3> QED BY <1>4, <2>1, <2>3, <3>1 DEF Spaced
  <2>5. CASE j = Len(l) + 1
    <3>1. l[i] = e /\ e \in Ops
      BY <1>3, <1>4, <2>1, <2>5
    <3>2. ~(KeyedBetween(l, i, Len(l) + 1) < KeyWindow)
      BY <2>1, <3>1 DEF AppliedKeys
    <3>3. KeyedBetween(l, i, j) \in Nat
      <4>1. IsFiniteSet(i+1 .. j-1)
        BY <2>1, FS_Interval
      <4>2. IsFiniteSet({k \in i+1 .. j-1 : l[k] \in Ops})
        BY <4>1, FS_Subset
      <4> QED BY <4>2, FS_CardinalityType DEF KeyedBetween
    <3> QED BY <2>3, <2>5, <3>2, <3>3, SessionConstantsOK
  <2> QED BY <2>1, <2>4, <2>5
<1> QED BY <1>4 DEF Spaced

\* Only keys are forgotten or remembered.
LEMMA AppliedKeysAreOps == \A log : AppliedKeys(log) \subseteq Ops
BY DEF AppliedKeys

\* No step puts a key into a log that still remembers it.
LEMMA KeysSpacedStep ==
  ASSUME TypeInv, KeysSpaced, [Next]_vars PROVE KeysSpaced'
<1> USE ContentsType, Shape, SpacedDraft
<1>1. CASE Creation
  <2>1. file' \in {file, Draft, NoFile} /\ db' \in {db, Draft} /\ UNCHANGED <<work, old>>
    BY <1>1 DEF Creation, Create, CreateRow, CreateFails, SaveRecord, CreationCut,
       CreateAnother, GoOn, StartStep, requestVars
  <2> QED BY <2>1 DEF KeysSpaced
<1>2. ASSUME NEW c \in Clients, NEW x, Spaced(x.log), work' = [work EXCEPT ![c] = x],
             UNCHANGED <<file, db, old>>
      PROVE  KeysSpaced'
  BY <1>2 DEF KeysSpaced
<1>3. ASSUME file \in Contents, NEW e \in Entries, NEW s, e \notin AppliedKeys(file.log)
      PROVE  Spaced(Revised(file, e, s).log)
  <2>1. file.log \in Seq(Entries) /\ Spaced(file.log)
    BY <1>3, RevNat DEF KeysSpaced
  <2> QED BY <1>3, <2>1, SpacedAppend DEF Revised
<1>4. "transition" \in Entries \ Ops /\ "finish" \in Entries \ Ops /\ "edit" \in Entries \ Ops
  BY SessionConstantsOK DEF Entries
<1>5. ASSUME NEW c \in Clients, NEW op \in Ops, NEW e, Submit(c, op, e) PROVE KeysSpaced'
  <2>1. file \in Contents /\ op \in Entries /\ op \notin AppliedKeys(file.log)
    BY <1>5 DEF Submit, Ready, Entries
  <2>2. Spaced(Revised(file, op, Effect[op]).log)
    BY <1>3, <2>1
  <2> QED BY <1>2, <1>5, <2>2 DEF Submit, Enter
<1>6. ASSUME NEW c \in Clients, NEW to \in Statuses, Transition(c, to) PROVE KeysSpaced'
  <2>1. file \in Contents
    BY <1>6 DEF Transition, Ready
  <2>2. Spaced(Revised(file, "transition", to).log)
    BY <1>3, <1>4, <2>1, AppliedKeysAreOps
  <2> QED BY <1>2, <1>6, <2>2 DEF Transition, Enter
<1>7. ASSUME NEW c \in Clients, Finish(c) PROVE KeysSpaced'
  <2>1. file \in Contents
    BY <1>7 DEF Finish, Ready
  <2>2. Spaced(Revised(file, "finish", "completed").log)
    BY <1>3, <1>4, <2>1, AppliedKeysAreOps
  <2> QED BY <1>2, <1>7, <2>2 DEF Finish, Enter
<1>8. ASSUME NEW c \in Clients, NEW p, Reconcile(c, p) PROVE KeysSpaced'
  <2> DEFINE x == IF db = NoRow \/ UseMarkdown(p) THEN file ELSE db
  <2>1. file # NoFile
    BY <1>8 DEF Reconcile, Ready
  <2>2. Spaced(x.log)
    BY <2>1 DEF KeysSpaced
  <2>3. work' = [work EXCEPT ![c] = x] /\ UNCHANGED <<file, db, old>>
    BY <1>8 DEF Reconcile, Enter
  <2> HIDE DEF x
  <2> QED BY <1>2, <2>2, <2>3
<1>9. ASSUME NEW c \in Clients,
             \/ Look(c) \/ SubmitRefused(c) \/ ReconcileEqual(c) \/ ReconcileRefused(c)
             \/ RecheckFails(c) \/ RecordFails(c) \/ Answer(c) \/ Crash(c)
             \/ \E op \in Ops : SubmitReplayed(c, op)
      PROVE  KeysSpaced'
  <2>1. UNCHANGED <<file, db>>
    BY <1>9 DEF Look, SubmitRefused, ReconcileEqual, ReconcileRefused, Conflict, RecheckFails,
       RecordFails, Answer, Crash, SubmitReplayed
  <2>2. \A d \in Clients : work'[d] \in {work[d], Draft} /\ old'[d] \in {old[d], Draft}
    BY <1>9 DEF Look, SubmitRefused, ReconcileEqual, ReconcileRefused, Conflict, RecheckFails,
       RecordFails, Answer, Crash, SubmitReplayed, Leave, Idle, requestVars
  <2> QED BY <2>1, <2>2 DEF KeysSpaced
<1>10. ASSUME NEW c \in Clients,
              Recheck(c) \/ WriteFile(c) \/ RecordRow(c) \/ RestoreFile(c)
       PROVE  KeysSpaced'
  <2>1. Known /\ file # NoFile
    BY <1>10, Section DEF Recheck, WriteFile, RecordRow, RestoreFile, InSection, Creating
  <2>2. \A d \in Clients : work'[d] \in {work[d], Draft} /\ old'[d] \in {old[d], file, Draft}
    BY <1>10 DEF Recheck, WriteFile, RecordRow, RestoreFile, Leave, Idle, requestVars
  <2>3. file' \in {file, work[c], old[c]} /\ db' \in {db, work[c]}
    BY <1>10 DEF Recheck, WriteFile, RecordRow, RestoreFile
  <2> QED BY <2>1, <2>2, <2>3 DEF KeysSpaced
<1>11. CASE HandEdit \/ HandRestore
  <2>1. file \in Contents /\ UNCHANGED <<db, work, old>>
    BY <1>11 DEF HandEdit, HandRestore, requestVars
  <2>2. Spaced(file'.log)
    <3>1. file.log \in Seq(Entries) /\ Spaced(file.log) /\ "edit" \notin AppliedKeys(file.log)
      BY <1>4, <2>1, RevNat, AppliedKeysAreOps DEF KeysSpaced
    <3>2. Spaced(Append(file.log, "edit"))
      BY <1>4, <3>1, SpacedAppend
    <3>3. file'.log \in {Append(file.log, "edit"), Draft.log}
      BY <1>11, <2>1, EditType DEF HandEdit, HandRestore, Revised
    <3> QED BY <3>2, <3>3
  <2> QED BY <2>1, <2>2 DEF KeysSpaced
<1>12. CASE UNCHANGED vars
  BY <1>12 DEF vars, KeysSpaced
<1>13. CASE Life
  <2>1. ASSUME NEW c \in Clients, Finish(c) PROVE KeysSpaced'
    BY <1>7, <2>1
  <2> QED BY <1>13, <1>5, <1>6, <1>8, <1>9, <1>10, <1>11, <2>1 DEF Life
<1> QED BY <1>1, <1>12, <1>13 DEF Next
-----------------------------------------------------------------------------
(* The inductive invariant *)

IInv == TypeInv /\ Held /\ Together /\ Commits /\ KeysSpaced

\* Before the Session is created every part of the invariant is about nothing.
LEMMA Initially == Init => IInv
<1> SUFFICES ASSUME Init PROVE IInv
  OBVIOUS
<1> USE SessionConstantsOK, ContentsType
<1>1. TypeInv /\ Held
  BY TypeInit, HeldInit
<1>2. file = NoFile /\ db = NoRow /\ ~Known
  BY DEF Init, Known
<1>3. \A c \in Clients : /\ pc[c] = "idle" /\ ~seen[c].valid
                         /\ work[c] = Draft /\ old[c] = Draft
                         /\ req[c] = NoRequest
  BY DEF Init
<1>4. Together
  BY <1>2 DEF Together
<1>5. Commits
  BY <1>2, <1>3 DEF Commits, GoodView, FitsRow, AutoDecides, Before, Stored
<1>6. KeysSpaced
  BY <1>2, <1>3, SpacedDraft DEF KeysSpaced
<1> QED BY <1>1, <1>4, <1>5, <1>6 DEF IInv

\* The inductive invariant holds in every state.
LEMMA Invariant == Spec => []IInv
<1>1. ASSUME IInv, [Next]_vars PROVE IInv'
  BY <1>1, TypeStep, HeldStep, TogetherStep, CommitsStep, KeysSpacedStep DEF IInv
<1> QED BY <1>1, Initially, PTL DEF Spec

\* session_manager.py and study_runtime.py keep the lock: exactly the client inside
\* persist_session_atomic holds it, and what it is about to write is a payload.
THEOREM TypeCorrect == Spec => []TypeOK
<1>1. IInv => TypeOK
  BY DEF IInv, TypeInv
<1> QED BY <1>1, Invariant, PTL

\* What was answered with success stays in the row, through roll-backs, crashes,
\* changes by hand and automatic reconciliation.
THEOREM AckedStay == Spec => []AckedHeld
<1>1. ASSUME IInv PROVE AckedHeld
  <2>1. CASE db = NoRow
    BY <1>1, <2>1 DEF IInv, Held, Promised, Keys, AckedHeld
  <2>2. CASE db # NoRow
    BY <1>1, <2>2 DEF IInv, Held, Promised, Keys, AckedHeld
  <2> QED BY <2>1, <2>2
<1> QED BY <1>1, Invariant, PTL

\* Outside a commit the projections differ only after a crash between the two
\* writes or a change by hand: a failed commit leaves no trace.
THEOREM ProjectionsAgree == Spec => []MirrorsAgree
<1>1. IInv => MirrorsAgree
  BY DEF IInv, Together, MirrorsAgree, AuditFails
<1> QED BY <1>1, Invariant, PTL

\* A repeated Idempotency-Key takes effect once within its window.
THEOREM KeyAppliedOnce == Spec => []AppliedOncePerKey
<1>1. ASSUME IInv PROVE AppliedOncePerKey
  <2>1. made > 1 => cut
    BY <1>1 DEF IInv, TypeInv, Birth
  <2>2. \A x \in {file, db} \ {NoFile, NoRow} : Spaced(x.log)
    BY <1>1 DEF IInv, KeysSpaced
  <2> QED BY <2>1, <2>2 DEF AppliedOncePerKey, Spaced
<1> QED BY <1>1, Invariant, PTL

-----------------------------------------------------------------------------
(* What a commit does to the row *)

\* The row changes in record_session only, of a creation or of a commit, and a
\* document is written over in the step of its own client.
LEMMA StepsOfACommit ==
  ASSUME IInv, [Next]_vars
  PROVE  /\ \A c \in Clients : /\ Committing(c) => RecordRow(c)
                               /\ Writing(c) => WriteFile(c)
         /\ db # NoRow /\ db' # db => \E d \in Clients : RecordRow(d)
<1> USE DEF history, requestVars
<1>0. /\ pc \in [Clients -> {"idle", "loaded", "checked", "written", "failed",
                            "recorded"} \cup Creating]
      /\ \A d \in Clients : pc[d] = "document" => db = NoRow
  BY Shape DEF IInv, TypeInv, Birth
<1> DEFINE Goal == /\ \A c \in Clients : /\ Committing(c) => RecordRow(c)
                                         /\ Writing(c) => WriteFile(c)
                   /\ db # NoRow /\ db' # db => \E d \in Clients : RecordRow(d)
<1> SUFFICES Goal
  OBVIOUS
<1>1. ASSUME NEW d \in Clients,
             \/ Create(d) \/ CreateRow(d) \/ CreateFails(d) \/ SaveRecord(d)
             \/ CreationCut(d) \/ CreateAnother(d) \/ GoOn(d)
      PROVE  Goal
  <2>1. \E s \in {"document", "row", "idle"} : pc' = [pc EXCEPT ![d] = s]
    BY <1>1 DEF Create, CreateRow, CreateFails, SaveRecord, CreationCut, CreateAnother,
       GoOn, StartStep
  <2>2. db = NoRow \/ db' = db
    BY <1>0, <1>1 DEF Create, CreateRow, CreateFails, SaveRecord, CreationCut,
       CreateAnother, GoOn
  <2> QED BY <1>0, <2>1, <2>2 DEF Committing, Writing
<1>2. ASSUME NEW d \in Clients,
             \/ Look(d) \/ SubmitRefused(d) \/ ReconcileEqual(d) \/ ReconcileRefused(d)
             \/ \E op \in Ops : SubmitReplayed(d, op)
      PROVE  Goal
  BY <1>2 DEF Look, SubmitRefused, ReconcileEqual, ReconcileRefused, Conflict,
     SubmitReplayed, Committing, Writing
<1>3. ASSUME NEW d \in Clients,
             \/ \E op \in Ops, e \in Nat \cup {AnyRevision} : Submit(d, op, e)
             \/ \E to \in Statuses : Transition(d, to)
             \/ Finish(d)
             \/ \E p \in {"auto", "markdown", "sqlite"} : Reconcile(d, p)
      PROVE  Goal
  <2>1. pc' = [pc EXCEPT ![d] = "loaded"] /\ db' = db
    BY <1>3 DEF Submit, Transition, Finish, Reconcile
  <2> QED BY <1>0, <2>1 DEF Committing, Writing
<1>4. ASSUME NEW d \in Clients,
             \/ Recheck(d) \/ RecheckFails(d) \/ RecordFails(d) \/ RestoreFile(d)
             \/ Answer(d) \/ Crash(d)
      PROVE  Goal
  <2>1. \E s \in {"checked", "failed", "idle"} : pc' = [pc EXCEPT ![d] = s]
    BY <1>4 DEF Recheck, RecheckFails, RecordFails, RestoreFile, Answer, Crash, Leave, Idle
  <2>2. db' = db
    BY <1>4 DEF Recheck, RecheckFails, RecordFails, RestoreFile, Answer, Crash
  <2> QED BY <1>0, <2>1, <2>2 DEF Committing, Writing
<1>5. ASSUME NEW d \in Clients, WriteFile(d) PROVE Goal
  <2>1. pc' = [pc EXCEPT ![d] = "written"] /\ db' = db
    BY <1>5 DEF WriteFile
  <2>2. \A c \in Clients : ~Committing(c)
    BY <1>0, <2>1 DEF Committing
  <2>3. \A c \in Clients : Writing(c) => c = d
    BY <1>0, <2>1 DEF Writing
  <2> QED BY <1>5, <2>1, <2>2, <2>3
<1>6. ASSUME NEW d \in Clients, RecordRow(d) PROVE Goal
  <2>1. pc' = [pc EXCEPT ![d] = "recorded"]
    BY <1>6 DEF RecordRow
  <2>2. \A c \in Clients : ~Writing(c)
    BY <1>0, <2>1 DEF Writing
  <2>3. \A c \in Clients : Committing(c) => c = d
    BY <1>0, <2>1 DEF Committing
  <2> QED BY <1>6, <2>2, <2>3
<1>7. CASE HandEdit \/ HandRestore \/ UNCHANGED vars
  BY <1>7 DEF HandEdit, HandRestore, vars, Committing, Writing
<1>8. CASE Creation
  BY <1>1, <1>8 DEF Creation
<1>9. CASE Life
  <2>1. \A d \in Clients : seen[d].row.rev \in Nat
    BY RevNat DEF IInv, TypeInv, TypeOK
  <2>2. ASSUME NEW d \in Clients, NEW op \in Ops, NEW e \in {AnyRevision, seen[d].row.rev},
               Submit(d, op, e)
        PROVE  Goal
    BY <1>3, <2>1, <2>2
  <2>3. ASSUME NEW d \in Clients,
               \/ \E to \in Statuses : Transition(d, to)
               \/ Finish(d)
               \/ \E p \in {"auto", "markdown", "sqlite"} : Reconcile(d, p)
        PROVE  Goal
    BY <1>3, <2>3
  <2> HIDE DEF Goal
  <2> QED BY <1>9, <2>2, <2>3, <1>2, <1>4, <1>5, <1>6, <1>7 DEF Life
<1> HIDE DEF Goal
<1> QED BY <1>7, <1>8, <1>9 DEF Next

\* Two writers, a retry or a stale document never make a commit lose or merge
\* operations, and a finished Session takes nothing but another finish.
THEOREM CommitExtendsRow == Spec => CommitExtends
<1>1. ASSUME IInv, [Next]_vars, NEW c \in Clients, Committing(c), ~Reconciling(c), db # NoRow,
             req[c].kind = "submit" \/ ReadsAgree(c)
      PROVE  /\ db'.rev = db.rev + 1
             /\ \E x \in Entries : db'.log = Append(db.log, x)
             /\ db.status \in TerminalStatuses => req[c].kind = "finish"
  <2>0. RecordRow(c)
    BY <1>1, StepsOfACommit
  <2>1. pc[c] = "written" /\ db' = work[c]
    BY <2>0 DEF RecordRow
  <2>2. FitsRow(c) /\ db \in Contents /\ work[c] \in Contents /\ req[c] \in Requests
    BY <1>1, Shape DEF IInv, Commits
  <2>3. CASE req[c].kind = "submit"
    <3>1. work[c] = Revised(db, req[c].arg, Effect[req[c].arg])
      BY <1>1, <2>1, <2>2, <2>3 DEF FitsRow, Before
    <3>2. db.status \notin TerminalStatuses
      BY <1>1, <2>1, <2>2, <2>3 DEF FitsRow, Before
    <3>3. req[c].arg \in Entries
      BY <2>2, <2>3 DEF Requests, Entries
    <3> QED BY <2>1, <3>1, <3>2, <3>3 DEF Revised
  <2>4. CASE req[c].kind # "submit"
    <3>1. old[c] = db /\ Len(work[c].log) > 0
      BY <1>1, <2>1, <2>2 DEF FitsRow, Before, Stored
    <3>2. /\ work[c].rev = db.rev + 1
          /\ SubSeq(work[c].log, 1, Len(work[c].log) - 1) = db.log
      BY <1>1, <2>4, <3>1 DEF ReadsAgree
    <3>3. /\ work[c].log[Len(work[c].log)] \in Entries
          /\ work[c].log = Append(SubSeq(work[c].log, 1, Len(work[c].log) - 1),
                                  work[c].log[Len(work[c].log)])
      <4>1. work[c].log \in Seq(Entries)
        BY <2>2, RevNat
      <4> DEFINE l == work[c].log
      <4>2. l \in Seq(Entries) /\ Len(l) > 0
        BY <3>1, <4>1
      <4> HIDE DEF l
      <4>3. l[Len(l)] \in Entries /\ l = Append(SubSeq(l, 1, Len(l) - 1), l[Len(l)])
        BY <4>2
      <4> QED BY <4>3 DEF l
    <3>4. db.status \in TerminalStatuses => req[c].kind = "finish"
      BY <1>1, <2>1, <2>2, <2>4 DEF FitsRow, Requests, Reconciling
    <3> QED BY <2>1, <3>2, <3>3, <3>4
  <2> QED BY <2>3, <2>4
<1>2. ASSUME IInv, [Next]_vars
      PROVE  \A c \in Clients :
               /\ Committing(c) /\ ~Reconciling(c) /\ db # NoRow
               /\ req[c].kind = "submit" \/ ReadsAgree(c)
               =>
                 /\ db'.rev = db.rev + 1
                 /\ \E x \in Entries : db'.log = Append(db.log, x)
                 /\ db.status \in TerminalStatuses => req[c].kind = "finish"
  BY <1>1, <1>2
<1> QED BY <1>2, Invariant, PTL DEF Spec, CommitExtends

\* A submission that names a revision is applied to the very content its author
\* looked at.
THEOREM AppliedToSeen == Spec => AppliedToWhatWasSeen
<1>1. ASSUME IInv, [Next]_vars, NEW c \in Clients,
             Committing(c), req[c].expected # AnyRevision, seen[c].valid
      PROVE  db'.log = Append(seen[c].row.log, req[c].arg)
  <2>0. RecordRow(c)
    BY <1>1, StepsOfACommit
  <2>1. pc[c] = "written" /\ db' = work[c]
    BY <2>0 DEF RecordRow
  <2>2. FitsRow(c) /\ GoodView(seen[c])
    BY <1>1 DEF IInv, Commits
  <2>3. db # NoRow /\ req[c].kind = "submit" /\ seen[c].row.rev = db.rev
    BY <1>1, <2>1, <2>2 DEF FitsRow, GoodView, Before
  <2>4. seen[c].row.log = db.log
    BY <1>1, <2>2, <2>3 DEF GoodView
  <2>5. work[c] = Revised(db, req[c].arg, Effect[req[c].arg])
    BY <2>1, <2>2, <2>3 DEF FitsRow, Before
  <2> QED BY <2>1, <2>4, <2>5 DEF Revised
<1>2. ASSUME IInv, [Next]_vars
      PROVE  \A c \in Clients :
               Committing(c) /\ req[c].expected # AnyRevision /\ seen[c].valid =>
                 db'.log = Append(seen[c].row.log, req[c].arg)
  BY <1>1, <1>2
<1> QED BY <1>2, Invariant, PTL DEF Spec, AppliedToWhatWasSeen

\* The program overwrites no side of a same-revision fork, except by a
\* reconciliation that names the projection to keep, or one that decided before
\* the learner changed the document.
THEOREM ForksStay == Spec => ForksKept
<1>1. ASSUME IInv, NEW c \in Clients, pc[c] \in {"checked", "written"}, db # NoRow,
             pc[c] = "written" => work[c] # db
      PROVE  \/ Reconciling(c) /\ (req[c].arg # "auto" \/ ChangedSince(c))
             \/ ~Fork(old[c])
  <2>1. FitsRow(c) /\ AutoDecides(c)
    BY <1>1 DEF IInv, Commits
  <2>2. db.rev \in Nat /\ old[c].rev \in Nat /\ work[c].rev \in Nat
    BY <1>1, Shape, RevNat DEF IInv
  <2>3. CASE ~Reconciling(c)
    BY <1>1, <2>1, <2>3 DEF FitsRow, Stored, Fork
  <2>4. CASE Reconciling(c) /\ req[c].arg = "auto"
    <3>1. (work[c] = db /\ old[c].rev < db.rev) \/ work[c].rev > db.rev
      BY <1>1, <2>1, <2>4 DEF AutoDecides, Before
    <3>2. CASE old[c].rev < db.rev
      BY <2>2, <3>2 DEF Fork
    <3>3. CASE work[c].rev > db.rev
      BY <2>2, <2>4, <3>3 DEF Fork, ChangedSince
    <3> QED BY <3>1, <3>2, <3>3
  <2> QED BY <2>3, <2>4
<1>2. ASSUME IInv, [Next]_vars, SameRevision, db' # db \/ \E c \in Clients : Writing(c)
      PROVE  \E c \in Clients :
               /\ Committing(c) \/ Writing(c)
               /\ \/ Reconciling(c) /\ (req[c].arg # "auto" \/ ChangedSince(c))
                  \/ ~Fork(old[c])
  <2>1. db # NoRow
    BY <1>2 DEF SameRevision, Fork
  <2>2. CASE db' # db
    <3>1. PICK c \in Clients : RecordRow(c)
      BY <1>2, <2>1, <2>2, StepsOfACommit
    <3>2. pc[c] = "written" /\ pc'[c] = "recorded" /\ work[c] # db
      BY <1>2, <2>2, <3>1, Shape DEF RecordRow, IInv
    <3> QED BY <1>1, <1>2, <2>1, <3>2 DEF Committing
  <2>3. ASSUME NEW c \in Clients, Writing(c)
        PROVE  \/ Reconciling(c) /\ (req[c].arg # "auto" \/ ChangedSince(c))
               \/ ~Fork(old[c])
    BY <1>1, <1>2, <2>1, <2>3 DEF Writing
  <2> QED BY <1>2, <2>2, <2>3
<1>3. ASSUME IInv, [Next]_vars
      PROVE  SameRevision /\ (db' # db \/ \E c \in Clients : Writing(c)) =>
               \E c \in Clients :
                 /\ Committing(c) \/ Writing(c)
                 /\ \/ Reconciling(c) /\ (req[c].arg # "auto" \/ ChangedSince(c))
                    \/ ~Fork(old[c])
  BY <1>2, <1>3
<1> QED BY <1>3, Invariant, PTL DEF Spec, ForksKept
=============================================================================
