---------------------------- MODULE LearnerMemory ----------------------------
(***************************************************************************)
(* Learner memories and the conflicts between them (storage_learner.py).   *)
(* A memory is offered to the tutor only while it is effective: active,    *)
(* current and not expired.  Two memories under one key with different     *)
(* statements are held back until the learner decides.  Every operation is *)
(* one transaction; revision counters and their history are left out.      *)
(***************************************************************************)
EXTENDS Naturals, FiniteSets

CONSTANTS
  Memories,    \* memory ids
  Statements,  \* what a memory says (content_hash)
  Keys,        \* memory_key
  KeysGiven,   \* bound: the keys that requests give
  Expiries,    \* what expires_at a request gives: "never", "later"
  Known,       \* [Memories -> row or Nil], what the learner has told already
  Nil

Memory ==
  [content : Statements, key : Keys, status : {"active", "dismissed"},
   validity : {"current", "conflicted", "superseded"}, expires : {"never", "later", "past"}]

Unexpired(r) == r.expires # "past"

\* What a memory that says otherwise is checked against.
Standing(r) == r # Nil /\ r.status = "active" /\ r.validity # "superseded" /\ Unexpired(r)
Contradicts(r, o) == r.key = o.key /\ r.content # o.content

\* What was told already was checked when it was told.
ASSUME MemoryAssumption ==
  /\ KeysGiven \subseteq Keys /\ Expiries \subseteq {"never", "later"}
  /\ Known \in [Memories -> Memory \cup {Nil}]
  /\ \A m, n \in Memories :
       Standing(Known[m]) /\ Standing(Known[n]) => ~Contradicts(Known[m], Known[n])
  /\ Nil \notin Memories /\ Nil \notin Memory

VARIABLES
  memory,      \* the tables: row (learner_memories), conflict (learner_memory_conflicts)
  revived      \* history: a decision brought a discarded memory back

Pairs == {p \in SUBSET Memories : \E m \in p : \E n \in p \ {m} : p = {m, n}}

NoConflict   == [status |-> "none", kept |-> {}]
OpenConflict == [status |-> "open", kept |-> {}]
Decided(ms)  == [status |-> "resolved", kept |-> ms]

MemoryInit ==
  /\ memory = [row |-> Known, conflict |-> [p \in Pairs |-> NoConflict]]
  /\ revived = FALSE

Rows(s) == {m \in Memories : s.row[m] # Nil}
OpenWith(s, m) == {p \in Pairs : m \in p /\ s.conflict[p].status = "open"}
Peers(s, m) == (UNION OpenWith(s, m)) \ {m}

Effective(r) == r # Nil /\ r.status = "active" /\ r.validity = "current" /\ Unexpired(r)

\* The row of m becomes r.
Written(s, m, r) == [s EXCEPT !.row[m] = r]

Lifecycle(r, status, validity) == [r EXCEPT !.status = status, !.validity = validity]

\* _detect_memory_conflicts_conn
Rivals(s, m) ==
  {n \in Rows(s) \ {m} : Standing(s.row[n]) /\ Contradicts(s.row[n], s.row[m])}

Detected(s, m, named) ==
  LET found == Rivals(s, m) \cup ((named \cap Rows(s)) \ {m})
  IN IF s.row[m].status # "active" \/ ~Unexpired(s.row[m]) \/ found = {}
     THEN s
     ELSE [row |-> [n \in Memories |->
                      IF n \in found \cup {m}
                      THEN Lifecycle(s.row[n], s.row[n].status, "conflicted") ELSE s.row[n]],
           conflict |-> [p \in Pairs |->
                      IF m \in p /\ p \ {m} \subseteq found THEN OpenConflict
                                                            ELSE s.conflict[p]]]

\* _restore_memory_after_conflict_conn, for each of ms.
\* Mutant: other open conflicts are not looked for.
MadeCurrent(s, ms) ==
  [s EXCEPT !.row = [m \in Memories |->
     IF m \in ms /\ s.row[m] # Nil /\ s.row[m].status = "active"
          /\ s.row[m].validity # "superseded"
     THEN Lifecycle(s.row[m], "active", "current") ELSE s.row[m]]]
Restored(s, ms) ==
  [s EXCEPT !.row = [m \in Memories |->
     IF m \in ms /\ s.row[m] # Nil /\ s.row[m].status = "active"
          /\ s.row[m].validity # "superseded"
     THEN Lifecycle(s.row[m], "active", IF OpenWith(s, m) = {} THEN "current" ELSE "conflicted")
     ELSE s.row[m]]]

\* The conflicts of kept are decided, each in favour of the memories kept[p].
Closed(s, kept) ==
  [s EXCEPT !.conflict = [p \in Pairs |->
     IF p \in DOMAIN kept THEN Decided(kept[p]) ELSE s.conflict[p]]]

\* _resolve_conflicts_for_dismissed_conn: the other side is kept.
AfterDismissal(s, m) ==
  Restored(Closed(s, [p \in OpenWith(s, m) |-> p \ {m}]), Peers(s, m))

\* _resolve_conflicts_for_changed_memory_conn
AfterChange(s, m) ==
  Restored(Closed(s, [p \in OpenWith(s, m) |-> p]), Peers(s, m) \cup {m})

(***************************************************************************)
(* The operations, as functions of the tables                              *)
(***************************************************************************)
New(content, key, expires) ==
  [content |-> content, key |-> key, status |-> "active", validity |-> "current",
   expires |-> expires]

\* A current memory that says the same is confirmed instead, unless the new one
\* is to supersede or to contradict something.
Duplicate(s, content, key) ==
  \E n \in Rows(s) : /\ Effective(s.row[n])
                     /\ s.row[n].content = content /\ s.row[n].key = key

Created(s, m, content, key, expires, old, named) ==
  IF Duplicate(s, content, key) /\ old = Nil /\ named = {}
  THEN s
  ELSE LET added == Written(s, m, New(content, key, expires))
           after == IF old = Nil THEN added
                    ELSE Written(added, old, Lifecycle(added.row[old], added.row[old].status, "superseded"))
       IN Detected(after, m, named)

\* The rest of update_learner_memory, with the row written already: r is the row
\* as it was.  Mutant: an edit does not look for conflicts.
WithoutDetection(s, m, r) ==
  IF s.row[m].status = "dismissed" THEN AfterDismissal(s, m)
  ELSE IF s.row[m] # r THEN AfterChange(s, m) ELSE s
AfterUpdate(s, m, r) ==
  IF s.row[m].status = "dismissed" THEN AfterDismissal(s, m)
  ELSE IF s.row[m] # r THEN Detected(AfterChange(s, m), m, {})
  ELSE IF r.validity = "current" THEN Detected(s, m, {}) ELSE s

Updated(s, m, content, key, status, expires) ==
  LET r == s.row[m]
  IN AfterUpdate(
       Written(s, m, [r EXCEPT !.content = content, !.key = key,
                               !.status = status, !.expires = expires]), m, r)

\* keep_left, keep_right, keep_both and dismiss_both: kept is what stays.
Resolved(s, p, kept) ==
  LET decided == [s EXCEPT !.row = [m \in Memories |->
        IF m \notin p THEN s.row[m]
        ELSE Lifecycle(s.row[m], IF m \in kept THEN "active" ELSE "dismissed",
                       IF m \in kept \/ kept = {} THEN "current" ELSE "superseded")]]
  IN Restored(Closed(decided, [q \in {p} |-> kept]), p)

\* The conflicts of a deleted memory go with it (ON DELETE CASCADE); the other
\* side is not looked at.
Deleted(s, m) ==
  [row |-> [s.row EXCEPT ![m] = Nil],
   conflict |-> [p \in Pairs |-> IF m \in p THEN NoConflict ELSE s.conflict[p]]]

(***************************************************************************)
(* The learner's requests                                                  *)
(***************************************************************************)
Discarded(r) == r.status = "dismissed" \/ r.validity = "superseded"

\* A new id is given out, fresh; m only names the first that is free.
CreateMemory(m, content, key, expires, old, named) ==
  /\ memory.row[m] = Nil
  /\ memory' = Created(memory, m, content, key, expires, old, named)
  /\ revived' = (revived \/ \E n \in named : Discarded(memory.row[n]))

UpdateMemory(m, content, key, status, expires) ==
  /\ memory.row[m] # Nil
  /\ memory' = Updated(memory, m, content, key, status, expires)
  /\ UNCHANGED revived

ResolveConflict(p, kept) ==
  /\ memory.conflict[p].status = "open"
  /\ memory' = Resolved(memory, p, kept)
  /\ revived' = (revived \/ \E m \in kept : Discarded(memory.row[m]))

DeleteMemory(m) ==
  /\ memory.row[m] # Nil
  /\ memory' = Deleted(memory, m)
  /\ UNCHANGED revived

\* Time passes.
Expire(m) ==
  /\ memory.row[m] # Nil /\ memory.row[m].expires = "later"
  /\ memory' = Written(memory, m, [memory.row[m] EXCEPT !.expires = "past"])
  /\ UNCHANGED revived

MemoryNext ==
  \/ \E m \in Memories, x \in Statements, k \in KeysGiven, e \in Expiries :
       \/ \E old \in Rows(memory) \cup {Nil}, named \in SUBSET Rows(memory) :
            CreateMemory(m, x, k, e, old, named)
       \/ \E status \in {"active", "dismissed"} : UpdateMemory(m, x, k, status, e)
  \/ \E p \in Pairs : \E kept \in SUBSET p : ResolveConflict(p, kept)
  \/ \E m \in Memories : DeleteMemory(m) \/ Expire(m)

(***************************************************************************)
(* Properties                                                              *)
(***************************************************************************)
MemoryTypeOK ==
  /\ memory.row \in [Memories -> Memory \cup {Nil}]
  /\ \A p \in Pairs : /\ memory.conflict[p].status \in {"none", "open", "resolved"}
                      /\ memory.conflict[p].kept \subseteq p
                      /\ memory.conflict[p] # NoConflict => p \subseteq Rows(memory)
  /\ revived \in BOOLEAN

\* A memory in a conflict the learner has not decided is not offered to the tutor.
OpenConflictHoldsBack ==
  \A p \in Pairs : memory.conflict[p].status = "open" =>
    \A m \in p : ~Effective(memory.row[m])

\* Two memories under one key that say different things are offered together only
\* after the learner kept both.  (A decision on a conflict one side of which was
\* discarded meanwhile revives that side and looks for no new conflict.)
NoSilentContradiction ==
  revived \/
  \A p \in Pairs : \A m, n \in p :
    /\ Effective(memory.row[m]) /\ Effective(memory.row[n])
    /\ Contradicts(memory.row[m], memory.row[n])
    => memory.conflict[p] = Decided(p)

\* An undecided conflict keeps its memories back, and none goes unnoticed.
ConflictsRespected == OpenConflictHoldsBack /\ NoSilentContradiction
=============================================================================
