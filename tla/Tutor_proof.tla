----------------------------- MODULE Tutor_proof -----------------------------
(***************************************************************************)
(* Proofs about Tutor, for every number of turns, threads, memories,       *)
(* cycles and clicks, and without the bounds of the runs.                  *)
(*                                                                         *)
(* The first half is about learner memories.  Every operation on them is   *)
(* a function of the tables s, and the lemmas say what each keeps.         *)
(***************************************************************************)
EXTENDS Tutor, FiniteSetTheorems, TLAPS

(***************************************************************************)
(* Learner memories                                                        *)
(***************************************************************************)
Conflict == [status : {"none", "open", "resolved"}, kept : SUBSET Memories]
Tables == [row : [Memories -> Memory \cup {Nil}], conflict : [Pairs -> Conflict]]

\* The tables have their type, a decision is for memories of its pair, and a
\* conflict is between memories that exist.
Sound(s) ==
  /\ s \in Tables
  /\ \A p \in Pairs : /\ s.conflict[p].kept \subseteq p
                      /\ s.conflict[p] # NoConflict => p \subseteq Rows(s)

\* An undecided conflict holds its memories back, those of X perhaps excepted.
HeldBut(s, X) ==
  \A p \in Pairs : s.conflict[p].status = "open" =>
    \A m \in p \ X : ~Effective(s.row[m])

\* Two memories outside X that contradict each other are in a conflict that is
\* open, or that was decided for both.
NoticedBut(s, X) ==
  \A p \in Pairs : \A m, n \in p \ X :
    m # n /\ Standing(s.row[m]) /\ Standing(s.row[n]) /\ Contradicts(s.row[m], s.row[n])
      => s.conflict[p] = OpenConflict \/ s.conflict[p] = Decided(p)

\* The same, where the memories of N count although they were superseded.
Counts(s, N, n) ==
  /\ s.row[n] # Nil /\ s.row[n].status = "active" /\ Unexpired(s.row[n])
  /\ n \in N \/ s.row[n].validity # "superseded"

NoticedNaming(s, X, N) ==
  \A p \in Pairs : \A m, n \in p \ X :
    m # n /\ Counts(s, N, m) /\ Counts(s, N, n) /\ Contradicts(s.row[m], s.row[n])
      => s.conflict[p] = OpenConflict \/ s.conflict[p] = Decided(p)

MemoryInv ==
  /\ Sound(memory) /\ revived \in BOOLEAN
  /\ HeldBut(memory, {})
  /\ revived \/ NoticedBut(memory, {})

-----------------------------------------------------------------------------
\* A pair has two memories, and nothing else in it.
LEMMA PairFacts ==
  ASSUME NEW p \in Pairs
  PROVE  /\ p \subseteq Memories
         /\ \A m, n \in p : m # n => p = {m, n}
         /\ \A m \in p : \E n \in p \ {m} : p = {m, n}
  BY DEF Pairs

\* An open conflict says nothing else; one without a row is no conflict.
LEMMA ConflictFacts ==
  /\ NoConflict \in Conflict /\ OpenConflict \in Conflict
  /\ NoConflict.status = "none" /\ NoConflict.kept = {}
  /\ OpenConflict.status = "open" /\ OpenConflict.kept = {}
  /\ OpenConflict # NoConflict
  /\ \A ms \in SUBSET Memories :
       /\ Decided(ms) \in Conflict /\ Decided(ms).kept = ms
       /\ Decided(ms).status = "resolved" /\ Decided(ms) # NoConflict
  BY DEF NoConflict, OpenConflict, Decided, Conflict

\* What a lifecycle change makes of a memory.
LEMMA LifecycleFacts ==
  ASSUME NEW r \in Memory, NEW st \in {"active", "dismissed"},
         NEW v \in {"current", "conflicted", "superseded"}
  PROVE  LET q == Lifecycle(r, st, v)
         IN /\ q \in Memory /\ q # Nil
            /\ q.status = st /\ q.validity = v
            /\ q.content = r.content /\ q.key = r.key /\ q.expires = r.expires
  BY MemoryAssumption DEF Memory, Lifecycle

\* A row of the tables is a memory.
LEMMA RowFacts ==
  ASSUME NEW s \in Tables, NEW m \in Memories
  PROVE  /\ s.row[m] \in Memory \cup {Nil}
         /\ m \in Rows(s) <=> s.row[m] # Nil
         /\ m \in Rows(s) <=> s.row[m] \in Memory
  BY MemoryAssumption DEF Tables, Rows

-----------------------------------------------------------------------------
\* Looking for conflicts finds every one of m: whatever was held back stays so,
\* and m itself is in no conflict that went unnoticed.
LEMMA DetectedKeeps ==
  ASSUME NEW s, Sound(s), NEW m \in Rows(s), NEW named \in SUBSET Memories
  PROVE  LET t == Detected(s, m, named)
         IN /\ Sound(t) /\ Rows(t) = Rows(s)
            /\ HeldBut(s, {}) => HeldBut(t, {})
            /\ NoticedNaming(s, {m}, named) => NoticedBut(t, {})
<1> DEFINE found == Rivals(s, m) \cup ((named \cap Rows(s)) \ {m})
           t == Detected(s, m, named)
<1>1. /\ s \in Tables /\ m \in Memories /\ s.row[m] \in Memory /\ found \subseteq Rows(s)
      /\ m \notin found
  BY RowFacts DEF Sound, Rows, Rivals
<1>2. CASE s.row[m].status # "active" \/ ~Unexpired(s.row[m]) \/ found = {}
  <2>1. t = s
    BY <1>2 DEF Detected
  <2>2. ASSUME NoticedNaming(s, {m}, named) PROVE NoticedBut(s, {})
    <3> SUFFICES ASSUME NEW p \in Pairs, NEW a \in p, NEW b \in p, a # b,
                        Standing(s.row[a]), Standing(s.row[b]), Contradicts(s.row[a], s.row[b])
                 PROVE  s.conflict[p] = OpenConflict \/ s.conflict[p] = Decided(p)
      BY DEF NoticedBut
    <3>1. a # m /\ b # m
      BY <1>1, <1>2, PairFacts, RowFacts DEF Standing, Contradicts, Rivals, Rows
    <3> QED BY <2>2, <3>1 DEF NoticedNaming, Standing, Counts
  <2> QED BY <2>1, <2>2
<1>3. CASE ~(s.row[m].status # "active" \/ ~Unexpired(s.row[m]) \/ found = {})
  <2> DEFINE R(n) == IF n \in found \cup {m} THEN Lifecycle(s.row[n], s.row[n].status, "conflicted")
                     ELSE s.row[n]
             C(p) == IF m \in p /\ p \ {m} \subseteq found THEN OpenConflict ELSE s.conflict[p]
  <2>1. t = [row |-> [n \in Memories |-> R(n)], conflict |-> [p \in Pairs |-> C(p)]]
    BY <1>3 DEF Detected
  <2>2. /\ t.row = [n \in Memories |-> R(n)] /\ t.conflict = [p \in Pairs |-> C(p)]
    BY <2>1
  <2>3. \A n \in Memories : R(n) \in Memory \cup {Nil} /\ (R(n) = Nil <=> s.row[n] = Nil)
    <3> TAKE n \in Memories
    <3>1. CASE n \in found \cup {m}
      <4>1. s.row[n] \in Memory /\ s.row[n].status \in {"active", "dismissed"}
        BY <1>1, <3>1, RowFacts DEF Memory
      <4> QED BY <4>1, <3>1, LifecycleFacts, MemoryAssumption
    <3>2. CASE n \notin found \cup {m}
      BY <3>2, <1>1, RowFacts
    <3> QED BY <3>1, <3>2
  <2>4. \A n \in found \cup {m} :
          /\ R(n).status = s.row[n].status /\ R(n).validity = "conflicted"
          /\ R(n).content = s.row[n].content /\ R(n).key = s.row[n].key
          /\ R(n).expires = s.row[n].expires
    <3> TAKE n \in found \cup {m}
    <3>1. s.row[n] \in Memory /\ s.row[n].status \in {"active", "dismissed"}
      BY <1>1, RowFacts DEF Memory, Rows
    <3> QED BY <3>1, LifecycleFacts
  <2>5. \A p \in Pairs : C(p) \in Conflict
    BY ConflictFacts, <1>1 DEF Tables
  <2>6. t \in Tables
    <3>1. [n \in Memories |-> R(n)] \in [Memories -> Memory \cup {Nil}]
      BY <2>3
    <3>2. [p \in Pairs |-> C(p)] \in [Pairs -> Conflict]
      BY <2>5
    <3> QED BY <2>1, <3>1, <3>2 DEF Tables
  <2>7. Rows(t) = Rows(s)
    BY <2>2, <2>3 DEF Rows
  <2>8. Sound(t)
    <3> SUFFICES ASSUME NEW p \in Pairs
                 PROVE  t.conflict[p].kept \subseteq p /\ (t.conflict[p] # NoConflict => p \subseteq Rows(t))
      BY <2>6 DEF Sound
    <3> HIDE DEF found
    <3> QED BY <1>1, <2>2, <2>7, PairFacts, ConflictFacts DEF Sound
  <2>9. ASSUME HeldBut(s, {}) PROVE HeldBut(t, {})
    <3> SUFFICES ASSUME NEW p \in Pairs, t.conflict[p].status = "open", NEW n \in p
                 PROVE  ~Effective(t.row[n])
      BY DEF HeldBut
    <3>1. n \in Memories
      BY PairFacts
    <3> HIDE DEF found
    <3>2. CASE n \in found \cup {m}
      BY <3>1, <3>2, <2>2, <2>4 DEF Effective
    <3>3. CASE n \notin found \cup {m}
      <4>1. t.row[n] = s.row[n] /\ t.conflict[p] = s.conflict[p]
        BY <3>1, <3>3, <2>2
      <4> QED BY <4>1, <2>9 DEF HeldBut
    <3> QED BY <3>2, <3>3
  <2>10. ASSUME NoticedNaming(s, {m}, named) PROVE NoticedBut(t, {})
    <3> SUFFICES ASSUME NEW p \in Pairs, NEW a \in p, NEW b \in p, a # b,
                        Standing(t.row[a]), Standing(t.row[b]), Contradicts(t.row[a], t.row[b])
                 PROVE  t.conflict[p] = OpenConflict \/ t.conflict[p] = Decided(p)
      BY DEF NoticedBut
    <3>1. a \in Memories /\ b \in Memories /\ p = {a, b}
      BY PairFacts
    <3>2. \A n \in found : n \in named \/ Standing(s.row[n])
      BY DEF Rivals
    <3>3. \A n \in {a, b} : n # m => Counts(s, named, n)
      <4> HIDE DEF found
      <4> QED BY <3>1, <3>2, <2>2, <2>3, <2>4 DEF Standing, Counts, Unexpired
    <3>4. Contradicts(s.row[a], s.row[b])
      <4> HIDE DEF found
      <4> QED BY <3>1, <2>2, <2>4 DEF Contradicts
    <3>5. CASE a # m /\ b # m
      BY <3>1, <3>3, <3>4, <3>5, <2>2, <2>10 DEF NoticedNaming
    <3>6. CASE a = m \/ b = m
      <4>1. p \ {m} \subseteq found
        BY <3>1, <3>3, <3>4, <3>6, <1>1 DEF Rivals, Rows, Standing, Contradicts, Counts
      <4> QED BY <4>1, <3>1, <3>6, <2>2
    <3> QED BY <3>5, <3>6
  <2> QED BY <2>7, <2>8, <2>9, <2>10
<1> QED BY <1>2, <1>3

\* Restoring memories changes no conflict and nothing a conflict is looked for by,
\* and lets a memory be used again only if no open conflict is left.
LEMMA RestoredKeeps ==
  ASSUME NEW s, Sound(s), NEW ms \in SUBSET Memories
  PROVE  LET t == Restored(s, ms)
         IN /\ Sound(t) /\ Rows(t) = Rows(s)
            /\ HeldBut(s, ms) => HeldBut(t, {})
            /\ \A X : NoticedBut(s, X) => NoticedBut(t, X)
            /\ \A n \in Rows(s) : t.row[n].status = s.row[n].status
            /\ \A n \in Memories \ ms : t.row[n] = s.row[n]
            /\ t.conflict = s.conflict
<1> DEFINE t == Restored(s, ms)
           V(n) == IF OpenWith(s, n) = {} THEN "current" ELSE "conflicted"
           R(n) == IF n \in ms /\ s.row[n] # Nil /\ s.row[n].status = "active"
                        /\ s.row[n].validity # "superseded"
                   THEN Lifecycle(s.row[n], "active", V(n)) ELSE s.row[n]
<1>1. s \in Tables
  BY DEF Sound
<1>2. /\ t \in [row : [Memories -> {R(n) : n \in Memories}], conflict : [Pairs -> Conflict]]
      /\ t.row = [n \in Memories |-> R(n)] /\ t.conflict = s.conflict
  BY <1>1 DEF Restored, Tables
<1>3. \A n \in Memories :
        /\ R(n) = Nil <=> s.row[n] = Nil
        /\ s.row[n] # Nil =>
             /\ R(n) \in Memory
             /\ R(n).status = s.row[n].status /\ R(n).expires = s.row[n].expires
             /\ R(n).content = s.row[n].content /\ R(n).key = s.row[n].key
             /\ R(n).validity = "superseded" <=> s.row[n].validity = "superseded"
        /\ Effective(R(n)) /\ n \in ms => OpenWith(s, n) = {}
  <2> TAKE n \in Memories
  <2>1. CASE n \in ms /\ s.row[n] # Nil /\ s.row[n].status = "active"
               /\ s.row[n].validity # "superseded"
    <3>1. s.row[n] \in Memory /\ R(n) = Lifecycle(s.row[n], "active", V(n))
      BY <1>1, <2>1, RowFacts
    <3>2. V(n) \in {"current", "conflicted"}
      OBVIOUS
    <3>3. /\ R(n) \in Memory /\ R(n) # Nil /\ R(n).status = "active" /\ R(n).validity = V(n)
          /\ R(n).content = s.row[n].content /\ R(n).key = s.row[n].key
          /\ R(n).expires = s.row[n].expires
      BY <3>1, <3>2, LifecycleFacts
    <3> HIDE DEF R
    <3> QED BY <3>3, <2>1 DEF Effective
  <2>2. CASE ~(n \in ms /\ s.row[n] # Nil /\ s.row[n].status = "active"
                 /\ s.row[n].validity # "superseded")
    <3>1. R(n) = s.row[n]
      BY <2>2
    <3> HIDE DEF R
    <3> QED BY <3>1, <2>2, <1>1, RowFacts DEF Effective
  <2> QED BY <2>1, <2>2
<1> HIDE DEF R
<1>4. t \in Tables
  <2>1. \A n \in Memories : R(n) \in Memory \cup {Nil}
    BY <1>3
  <2> QED BY <2>1, <1>2 DEF Tables
<1>5. Rows(t) = Rows(s)
  BY <1>2, <1>3 DEF Rows
<1>6. Sound(t)
  BY <1>2, <1>4, <1>5 DEF Sound
<1>7. HeldBut(s, ms) => HeldBut(t, {})
  <2> SUFFICES ASSUME HeldBut(s, ms), NEW p \in Pairs, t.conflict[p].status = "open", NEW n \in p,
                      Effective(t.row[n])
               PROVE  FALSE
    BY DEF HeldBut
  <2>1. n \in Memories
    BY PairFacts
  <2>2. CASE n \in ms
    <3>1. OpenWith(s, n) = {}
      BY <2>1, <2>2, <1>2, <1>3
    <3> QED BY <3>1, <1>2 DEF OpenWith
  <2>3. CASE n \notin ms
    <3>1. t.row[n] = s.row[n]
      BY <2>1, <2>3, <1>2 DEF R
    <3> QED BY <3>1, <2>3, <1>2 DEF HeldBut
  <2> QED BY <2>2, <2>3
<1>8. ASSUME NEW X, NoticedBut(s, X) PROVE NoticedBut(t, X)
  <2> SUFFICES ASSUME NEW p \in Pairs, NEW a \in p \ X, NEW b \in p \ X, a # b,
                      Standing(t.row[a]), Standing(t.row[b]), Contradicts(t.row[a], t.row[b])
               PROVE  t.conflict[p] = OpenConflict \/ t.conflict[p] = Decided(p)
    BY DEF NoticedBut
  <2>1. a \in Memories /\ b \in Memories
    BY PairFacts
  <2>2. Standing(s.row[a]) /\ Standing(s.row[b]) /\ Contradicts(s.row[a], s.row[b])
    BY <2>1, <1>2, <1>3 DEF Standing, Unexpired, Contradicts
  <2> QED BY <2>2, <1>2, <1>8 DEF NoticedBut
<1>9. /\ \A n \in Rows(s) : t.row[n].status = s.row[n].status
      /\ \A n \in Memories \ ms : t.row[n] = s.row[n]
  BY <1>2, <1>3 DEF R, Rows
<1> HIDE DEF t
<1>10. QED BY <1>2, <1>5, <1>6, <1>7, <1>8, <1>9 DEF t

\* Deciding conflicts touches no memory.
LEMMA ClosedKeeps ==
  ASSUME NEW s, Sound(s), NEW P \in SUBSET Pairs, NEW K \in [P -> SUBSET Memories],
         \A p \in P : K[p] \subseteq p /\ p \subseteq Rows(s)
  PROVE  LET t == Closed(s, K)
         IN /\ Sound(t) /\ t.row = s.row /\ Rows(t) = Rows(s)
            /\ t.conflict = [p \in Pairs |-> IF p \in P THEN Decided(K[p]) ELSE s.conflict[p]]
<1> DEFINE C(p) == IF p \in P THEN Decided(K[p]) ELSE s.conflict[p]
           t == Closed(s, K)
<1>1. s \in Tables
  BY DEF Sound
<1>2. \A p \in Pairs : p \in P => K[p] \in SUBSET Memories
  OBVIOUS
<1>3. \A p \in Pairs : C(p) \in Conflict
  BY <1>1, <1>2, ConflictFacts DEF Tables
<1>4. t = [s EXCEPT !.conflict = [p \in Pairs |-> C(p)]]
  BY DEF Closed
<1>5. t.row = s.row /\ t.conflict = [p \in Pairs |-> C(p)] /\ t \in Tables
  <2>1. [p \in Pairs |-> C(p)] \in [Pairs -> Conflict]
    BY <1>3
  <2> HIDE DEF C
  <2> QED BY <1>1, <1>4, <2>1 DEF Tables
<1>6. Rows(t) = Rows(s)
  BY <1>5 DEF Rows
<1>7. Sound(t)
  <2> SUFFICES ASSUME NEW p \in Pairs
               PROVE  t.conflict[p].kept \subseteq p /\ (t.conflict[p] # NoConflict => p \subseteq Rows(t))
    BY <1>5 DEF Sound
  <2>1. t.conflict[p] = C(p)
    BY <1>5
  <2> HIDE DEF t
  <2> QED BY <2>1, <1>2, <1>6, ConflictFacts DEF Sound
<1> QED BY <1>5, <1>6, <1>7

\* Dismissing m decides its conflicts for the other sides, which may be used again
\* unless another open conflict holds them back.
LEMMA AfterDismissalKeeps ==
  ASSUME NEW s, Sound(s), NEW m \in Rows(s), s.row[m].status = "dismissed"
  PROVE  LET t == AfterDismissal(s, m)
         IN /\ Sound(t) /\ Rows(t) = Rows(s)
            /\ HeldBut(s, {m}) => HeldBut(t, {})
            /\ NoticedBut(s, {m}) => NoticedBut(t, {})
<1> DEFINE P == OpenWith(s, m)
           K == [p \in P |-> p \ {m}]
           d == Closed(s, K)
           t == Restored(d, Peers(s, m))
<1>1. t = AfterDismissal(s, m)
  BY DEF AfterDismissal
<1>2. m \in Memories /\ P \subseteq Pairs /\ Peers(s, m) \subseteq Memories
  BY PairFacts DEF Rows, OpenWith, Peers
<1>3. /\ K \in [P -> SUBSET Memories]
      /\ \A p \in P : K[p] \subseteq p /\ p \subseteq Rows(s) /\ m \in p
  BY <1>2, PairFacts, ConflictFacts DEF OpenWith, Sound
<1>4. /\ Sound(d) /\ d.row = s.row /\ Rows(d) = Rows(s)
      /\ d.conflict = [p \in Pairs |-> IF p \in P THEN Decided(K[p]) ELSE s.conflict[p]]
  <2> HIDE DEF P, K
  <2> QED BY <1>2, <1>3, ClosedKeeps
<1>5. HeldBut(s, {m}) => HeldBut(d, Peers(s, m))
  <2> SUFFICES ASSUME HeldBut(s, {m}), NEW p \in Pairs, d.conflict[p].status = "open",
                      NEW n \in p
               PROVE  ~Effective(d.row[n])
    BY DEF HeldBut
  <2>1. p \notin P
    <3> HIDE DEF P, K
    <3> QED BY <1>2, <1>3, <1>4, ConflictFacts
  <2>2. s.conflict[p].status = "open" /\ m \notin p
    BY <2>1, <1>4 DEF OpenWith
  <2> QED BY <2>2, <1>4 DEF HeldBut
<1>6. NoticedBut(s, {m}) => NoticedBut(d, {})
  <2> SUFFICES ASSUME NoticedBut(s, {m}), NEW p \in Pairs, NEW a \in p, NEW b \in p, a # b,
                      Standing(d.row[a]), Standing(d.row[b]), Contradicts(d.row[a], d.row[b])
               PROVE  d.conflict[p] = OpenConflict \/ d.conflict[p] = Decided(p)
    BY DEF NoticedBut
  <2>1. a # m /\ b # m
    BY <1>4 DEF Standing
  <2>2. p \notin P
    BY <2>1, <1>3, PairFacts
  <2> QED BY <2>1, <2>2, <1>4 DEF NoticedBut
<1> HIDE DEF P, K, d
<1> QED BY <1>1, <1>2, <1>4, <1>5, <1>6, RestoredKeeps

\* Changing m closes its conflicts for both sides; m's own are looked for after.
LEMMA AfterChangeKeeps ==
  ASSUME NEW s, Sound(s), NEW m \in Rows(s)
  PROVE  LET t == AfterChange(s, m)
         IN /\ Sound(t) /\ Rows(t) = Rows(s)
            /\ HeldBut(s, {m}) => HeldBut(t, {})
            /\ NoticedBut(s, {m}) => NoticedBut(t, {m})
<1> DEFINE P == OpenWith(s, m)
           K == [p \in P |-> p]
           d == Closed(s, K)
           t == Restored(d, Peers(s, m) \cup {m})
<1>1. t = AfterChange(s, m)
  BY DEF AfterChange
<1>2. m \in Memories /\ P \subseteq Pairs /\ Peers(s, m) \cup {m} \subseteq Memories
  BY PairFacts DEF Rows, OpenWith, Peers
<1>3. /\ K \in [P -> SUBSET Memories]
      /\ \A p \in P : K[p] \subseteq p /\ p \subseteq Rows(s) /\ m \in p
  BY <1>2, PairFacts, ConflictFacts DEF OpenWith, Sound
<1>4. /\ Sound(d) /\ d.row = s.row /\ Rows(d) = Rows(s)
      /\ d.conflict = [p \in Pairs |-> IF p \in P THEN Decided(K[p]) ELSE s.conflict[p]]
  <2> HIDE DEF P, K
  <2> QED BY <1>2, <1>3, ClosedKeeps
<1>5. HeldBut(s, {m}) => HeldBut(d, Peers(s, m) \cup {m})
  <2> SUFFICES ASSUME HeldBut(s, {m}), NEW p \in Pairs, d.conflict[p].status = "open",
                      NEW n \in p
               PROVE  ~Effective(d.row[n])
    BY DEF HeldBut
  <2>1. p \notin P
    <3> HIDE DEF P, K
    <3> QED BY <1>2, <1>3, <1>4, ConflictFacts
  <2>2. s.conflict[p].status = "open" /\ m \notin p
    BY <2>1, <1>4 DEF OpenWith
  <2> QED BY <2>2, <1>4 DEF HeldBut
<1>6. NoticedBut(s, {m}) => NoticedBut(d, {m})
  <2> SUFFICES ASSUME NoticedBut(s, {m}), NEW p \in Pairs, NEW a \in p \ {m}, NEW b \in p \ {m},
                      a # b,
                      Standing(d.row[a]), Standing(d.row[b]), Contradicts(d.row[a], d.row[b])
               PROVE  d.conflict[p] = OpenConflict \/ d.conflict[p] = Decided(p)
    BY DEF NoticedBut
  <2>1. p \notin P
    BY <1>3, PairFacts
  <2> QED BY <2>1, <1>4 DEF NoticedBut
<1> HIDE DEF P, K, d
<1> QED BY <1>1, <1>2, <1>4, <1>5, <1>6, RestoredKeeps

-----------------------------------------------------------------------------
\* A decision that revives nothing leaves no contradiction unnoticed, and none
\* that is offered is in an open conflict.
LEMMA ResolvedKeeps ==
  ASSUME NEW s, Sound(s), NEW p \in Pairs, s.conflict[p].status = "open", NEW kept \in SUBSET p
  PROVE  LET t == Resolved(s, p, kept)
         IN /\ Sound(t)
            /\ HeldBut(s, {}) => HeldBut(t, {})
            /\ NoticedBut(s, {}) /\ (\A m \in kept : ~Discarded(s.row[m])) => NoticedBut(t, {})
<1> DEFINE S(m) == IF m \in kept THEN "active" ELSE "dismissed"
           V(m) == IF m \in kept \/ kept = {} THEN "current" ELSE "superseded"
           R(m) == IF m \notin p THEN s.row[m] ELSE Lifecycle(s.row[m], S(m), V(m))
           e == [s EXCEPT !.row = [m \in Memories |-> R(m)]]
           K == [q \in {p} |-> kept]
           d == Closed(e, K)
           t == Restored(d, p)
<1>1. t = Resolved(s, p, kept)
  BY DEF Resolved
<1>2. /\ s \in Tables /\ p \subseteq Memories /\ p \subseteq Rows(s)
  BY PairFacts, ConflictFacts DEF Sound
<1>3. \A m \in Memories :
        /\ R(m) \in Memory \cup {Nil} /\ (R(m) = Nil <=> s.row[m] = Nil)
        /\ m \in p => /\ R(m).status = S(m) /\ R(m).validity = V(m)
                      /\ R(m).content = s.row[m].content /\ R(m).key = s.row[m].key
                      /\ R(m).expires = s.row[m].expires
        /\ m \notin p => R(m) = s.row[m]
  <2> TAKE m \in Memories
  <2>1. CASE m \in p
    <3>1. s.row[m] \in Memory /\ S(m) \in {"active", "dismissed"}
          /\ V(m) \in {"current", "conflicted", "superseded"}
      BY <1>2, <2>1, RowFacts
    <3>2. R(m) = Lifecycle(s.row[m], S(m), V(m))
      BY <2>1
    <3> HIDE DEF R, S, V
    <3> QED BY <2>1, <3>1, <3>2, LifecycleFacts, MemoryAssumption
  <2>2. CASE m \notin p
    <3>1. R(m) = s.row[m]
      BY <2>2
    <3> HIDE DEF R
    <3> QED BY <2>2, <3>1, <1>2, RowFacts
  <2> QED BY <2>1, <2>2
<1> HIDE DEF R
<1>4. e \in Tables /\ e.row = [m \in Memories |-> R(m)] /\ e.conflict = s.conflict
  <2>1. [m \in Memories |-> R(m)] \in [Memories -> Memory \cup {Nil}]
    BY <1>3
  <2> QED BY <2>1, <1>2 DEF Tables
<1>5. Rows(e) = Rows(s)
  BY <1>3, <1>4 DEF Rows
<1> HIDE DEF e
<1>6. Sound(e)
  BY <1>4, <1>5 DEF Sound
<1>7. /\ Sound(d) /\ d.row = e.row /\ Rows(d) = Rows(e)
      /\ d.conflict = [q \in Pairs |-> IF q = p THEN Decided(kept) ELSE e.conflict[q]]
  <2>1. K \in [{p} -> SUBSET Memories] /\ \A q \in {p} : K[q] \subseteq q /\ q \subseteq Rows(e)
    BY <1>2, <1>5
  <2>2. \A q \in {p} : K[q] = kept
    OBVIOUS
  <2> HIDE DEF K
  <2>3. {p} \in SUBSET Pairs
    OBVIOUS
  <2>4. /\ Sound(d) /\ d.row = e.row /\ Rows(d) = Rows(e)
        /\ d.conflict = [q \in Pairs |-> IF q \in {p} THEN Decided(K[q]) ELSE e.conflict[q]]
    BY <1>6, <2>1, <2>3, ClosedKeeps
  <2> HIDE DEF d
  <2> QED BY <2>2, <2>4
<1> HIDE DEF d
<1>8. HeldBut(s, {}) => HeldBut(d, p)
  <2> SUFFICES ASSUME HeldBut(s, {}), NEW q \in Pairs, d.conflict[q].status = "open",
                      NEW n \in q \ p
               PROVE  ~Effective(d.row[n])
    BY DEF HeldBut
  <2>1. kept \in SUBSET Memories
    BY <1>2
  <2>2. s.conflict[q].status = "open"
    BY <1>4, <1>7, <2>1, ConflictFacts
  <2>3. d.row[n] = s.row[n]
    BY <1>3, <1>4, <1>7, PairFacts
  <2> QED BY <2>2, <2>3 DEF HeldBut
<1>9. ASSUME NoticedBut(s, {}), \A m \in kept : ~Discarded(s.row[m]) PROVE NoticedBut(d, {})
  <2> SUFFICES ASSUME NEW q \in Pairs, NEW a \in q, NEW b \in q, a # b,
                      Standing(d.row[a]), Standing(d.row[b]), Contradicts(d.row[a], d.row[b])
               PROVE  d.conflict[q] = OpenConflict \/ d.conflict[q] = Decided(q)
    BY DEF NoticedBut
  <2>1. a \in Memories /\ b \in Memories /\ q = {a, b}
    BY PairFacts
  <2>2. \A n \in {a, b} : Standing(s.row[n]) /\ (n \in p => n \in kept)
    <3> SUFFICES ASSUME NEW n \in {a, b} PROVE Standing(s.row[n]) /\ (n \in p => n \in kept)
      OBVIOUS
    <3>1. n \in Memories /\ d.row[n] = R(n) /\ Standing(R(n))
      BY <2>1, <1>4, <1>7
    <3>2. CASE n \notin p
      BY <3>1, <3>2, <1>3
    <3>3. CASE n \in p
      <4>1. n \in kept
        BY <3>1, <3>3, <1>3 DEF Standing
      <4>2. ~Discarded(s.row[n]) /\ s.row[n] \in Memory
        BY <4>1, <1>2, <1>9, RowFacts
      <4> QED BY <4>1, <4>2, <3>1, <3>3, <1>3, MemoryAssumption
              DEF Standing, Discarded, Unexpired, Memory
    <3> QED BY <3>2, <3>3
  <2>3. Contradicts(s.row[a], s.row[b])
    BY <2>1, <1>3, <1>4, <1>7 DEF Contradicts
  <2>4. CASE q = p
    <3>1. kept = q
      BY <2>1, <2>2, <2>4
    <3> QED BY <3>1, <2>4, <1>7
  <2>5. CASE q # p
    BY <2>1, <2>2, <2>3, <2>5, <1>4, <1>7, <1>9 DEF NoticedBut
  <2> QED BY <2>4, <2>5
<1>10. p \in SUBSET Memories
  BY <1>2
<1> QED BY <1>1, <1>7, <1>8, <1>9, <1>10, RestoredKeeps

\* The row of one memory is written: the rest of the tables is as it was.
LEMMA WrittenFields ==
  ASSUME NEW s \in Tables, NEW m \in Memories, NEW r \in Memory
  PROVE  /\ Written(s, m, r) \in Tables /\ Written(s, m, r).conflict = s.conflict
         /\ Written(s, m, r).row[m] = r
         /\ \A n \in Memories \ {m} : Written(s, m, r).row[n] = s.row[n]
  BY DEF Tables, Written

\* It is one more row, perhaps, and m may need looking at.
LEMMA RowWritten ==
  ASSUME NEW s, Sound(s), NEW m \in Memories, NEW r \in Memory,
         m \in Rows(s) \/ \A p \in Pairs : m \in p => s.conflict[p] = NoConflict
  PROVE  LET t == Written(s, m, r)
         IN /\ Sound(t) /\ Rows(t) = Rows(s) \cup {m}
            /\ HeldBut(s, {}) => HeldBut(t, {m})
            /\ NoticedBut(s, {}) => NoticedBut(t, {m})
<1> DEFINE t == Written(s, m, r)
<1>1. s \in Tables
  BY DEF Sound
<1>2. t.conflict = s.conflict /\ t \in Tables
  BY <1>1, WrittenFields
<1>3. /\ t.row[m] = r
      /\ \A n \in Memories \ {m} : t.row[n] = s.row[n]
  BY <1>1, WrittenFields
<1> HIDE DEF t
<1>4. Rows(t) = Rows(s) \cup {m}
  BY <1>3, MemoryAssumption DEF Rows
<1>5. Sound(t)
  BY <1>2, <1>4 DEF Sound
<1>6. HeldBut(s, {}) => HeldBut(t, {m})
  BY <1>2, <1>3, PairFacts DEF HeldBut
<1>7. NoticedBut(s, {}) => NoticedBut(t, {m})
  <2> SUFFICES ASSUME NoticedBut(s, {}), NEW p \in Pairs, NEW a \in p \ {m}, NEW b \in p \ {m},
                      a # b, Standing(t.row[a]), Standing(t.row[b]),
                      Contradicts(t.row[a], t.row[b])
               PROVE  t.conflict[p] = OpenConflict \/ t.conflict[p] = Decided(p)
    BY DEF NoticedBut
  <2>1. t.row[a] = s.row[a] /\ t.row[b] = s.row[b]
    BY <1>3, PairFacts
  <2> QED BY <2>1, <1>2 DEF NoticedBut
<1> QED BY <1>2, <1>3, <1>4, <1>5, <1>6, <1>7 DEF t

\* A memory that is put aside is one fewer to hold back or to contradict.
LEMMA WithdrawnKeeps ==
  ASSUME NEW s, Sound(s), NEW o \in Rows(s), NEW r \in Memory, ~Effective(r), ~Standing(r)
  PROVE  LET t == Written(s, o, r)
         IN /\ Sound(t) /\ Rows(t) = Rows(s)
            /\ t.conflict = s.conflict /\ t.row[o] = r
            /\ \A n \in Memories \ {o} : t.row[n] = s.row[n]
            /\ \A X : HeldBut(s, X) => HeldBut(t, X)
            /\ \A X : NoticedBut(s, X) => NoticedBut(t, X)
<1> DEFINE t == Written(s, o, r)
<1>1. o \in Memories
  BY DEF Rows
<1>4. /\ Sound(t) /\ Rows(t) = Rows(s) \cup {o} /\ t.conflict = s.conflict /\ t.row[o] = r
      /\ \A n \in Memories \ {o} : t.row[n] = s.row[n]
  <2>1. Sound(t)
    BY <1>1, RowWritten
  <2>2. Rows(t) = Rows(s) \cup {o}
    BY <1>1, RowWritten
  <2>3. t.conflict = s.conflict
    BY <1>1, WrittenFields DEF Sound
  <2>4. \A n \in Memories \ {o} : t.row[n] = s.row[n]
    BY <1>1, WrittenFields DEF Sound
  <2>5. t.row[o] = r
    BY <1>1, WrittenFields DEF Sound
  <2> QED BY <2>1, <2>2, <2>3, <2>4, <2>5
<1> HIDE DEF t
<1>2. ASSUME NEW X, HeldBut(s, X) PROVE HeldBut(t, X)
  BY <1>4, <1>2, PairFacts DEF HeldBut
<1>3. ASSUME NEW X, NoticedBut(s, X) PROVE NoticedBut(t, X)
  <2> SUFFICES ASSUME NEW p \in Pairs, NEW a \in p \ X, NEW b \in p \ X,
                      a # b, Standing(t.row[a]), Standing(t.row[b]),
                      Contradicts(t.row[a], t.row[b])
               PROVE  t.conflict[p] = OpenConflict \/ t.conflict[p] = Decided(p)
    BY DEF NoticedBut
  <2>1. t.row[a] = s.row[a] /\ t.row[b] = s.row[b]
    BY <1>4, PairFacts
  <2> QED BY <2>1, <1>4, <1>3 DEF NoticedBut
<1> QED BY <1>1, <1>2, <1>3, <1>4 DEF t, Rows

\* A new memory is checked against those there are.
LEMMA CreatedKeeps ==
  ASSUME NEW s, Sound(s), NEW m \in Memories, s.row[m] = Nil,
         NEW content \in Statements, NEW key \in Keys, NEW expires \in {"never", "later"},
         NEW old \in Rows(s) \cup {Nil}, NEW named \in SUBSET Rows(s)
  PROVE  LET t == Created(s, m, content, key, expires, old, named)
         IN /\ Sound(t)
            /\ HeldBut(s, {}) => HeldBut(t, {})
            /\ NoticedBut(s, {}) /\ (\A n \in named : ~Discarded(s.row[n])) => NoticedBut(t, {})
<1> DEFINE added == Written(s, m, New(content, key, expires))
           gone == Lifecycle(added.row[old], added.row[old].status, "superseded")
           after == IF old = Nil THEN added ELSE Written(added, old, gone)
           t == Created(s, m, content, key, expires, old, named)
<1>1. /\ s \in Tables /\ m \notin Rows(s) /\ Rows(s) \subseteq Memories
      /\ \A p \in Pairs : m \in p => s.conflict[p] = NoConflict
  BY DEF Sound, Rows
<1>2. New(content, key, expires) \in Memory
  BY DEF New, Memory
<1>3. /\ Sound(added) /\ Rows(added) = Rows(s) \cup {m} /\ added.conflict = s.conflict
      /\ \A n \in Memories \ {m} : added.row[n] = s.row[n]
      /\ HeldBut(s, {}) => HeldBut(added, {m})
      /\ NoticedBut(s, {}) => NoticedBut(added, {m})
  <2>1. Sound(added) /\ Rows(added) = Rows(s) \cup {m}
    BY <1>1, <1>2, RowWritten
  <2>2. added.conflict = s.conflict
    BY <1>1, <1>2, WrittenFields
  <2>5. \A n \in Memories \ {m} : added.row[n] = s.row[n]
    BY <1>1, <1>2, WrittenFields
  <2>3. HeldBut(s, {}) => HeldBut(added, {m})
    BY <1>1, <1>2, RowWritten
  <2>4. NoticedBut(s, {}) => NoticedBut(added, {m})
    BY <1>1, <1>2, RowWritten
  <2> QED BY <2>1, <2>2, <2>3, <2>4, <2>5
<1>4. Created(s, m, content, key, expires, old, named)
        = IF Duplicate(s, content, key) /\ old = Nil /\ named = {} THEN s
          ELSE Detected(after, m, named)
  BY DEF Created
<1> HIDE DEF added
<1>5. /\ Sound(after) /\ Rows(after) = Rows(s) \cup {m} /\ after.conflict = s.conflict
      /\ HeldBut(s, {}) => HeldBut(after, {m})
      /\ \A n \in Rows(s) : n # old => after.row[n] = s.row[n]
      /\ old # Nil => /\ after.row[old].status = s.row[old].status
                      /\ after.row[old].validity = "superseded"
                      /\ after.row[old].content = s.row[old].content
                      /\ after.row[old].key = s.row[old].key
                      /\ after.row[old].expires = s.row[old].expires
  <2>1. CASE old = Nil
    BY <2>1, <1>1, <1>3
  <2>2. CASE old # Nil
    <3>1. /\ old \in Rows(s) /\ old \in Rows(added) /\ old # m
          /\ added.row[old] = s.row[old] /\ added.row[old] \in Memory
      BY <2>2, <1>1, <1>3, RowFacts DEF Sound
    <3>2. /\ gone \in Memory /\ gone.validity = "superseded" /\ gone.status = s.row[old].status
          /\ gone.content = s.row[old].content /\ gone.key = s.row[old].key
          /\ gone.expires = s.row[old].expires
      BY <3>1, LifecycleFacts DEF Memory
    <3>3. ~Effective(gone) /\ ~Standing(gone)
      BY <3>2 DEF Effective, Standing
    <3> HIDE DEF gone
    <3>4. after = Written(added, old, gone)
      BY <2>2
    <3>5. /\ Sound(after) /\ Rows(after) = Rows(added) /\ after.conflict = added.conflict
          /\ after.row[old] = gone
          /\ \A n \in Memories \ {old} : after.row[n] = added.row[n]
          /\ HeldBut(added, {m}) => HeldBut(after, {m})
      BY <1>3, <3>1, <3>2, <3>3, <3>4, WithdrawnKeeps
    <3> HIDE DEF after
    <3> QED BY <3>1, <3>2, <3>5, <1>1, <1>3
  <2> QED BY <2>1, <2>2
<1> HIDE DEF after
<1>6. ASSUME NoticedBut(s, {}), \A n \in named : ~Discarded(s.row[n])
      PROVE  NoticedNaming(after, {m}, named)
  <2> SUFFICES ASSUME NEW p \in Pairs, NEW a \in p \ {m}, NEW b \in p \ {m}, a # b,
                      Counts(after, named, a), Counts(after, named, b),
                      Contradicts(after.row[a], after.row[b])
               PROVE  after.conflict[p] = OpenConflict \/ after.conflict[p] = Decided(p)
    BY DEF NoticedNaming
  <2>1. a \in Rows(s) /\ b \in Rows(s)
    BY <1>5, PairFacts DEF Counts, Rows
  <2>2. \A n \in {a, b} : Standing(s.row[n])
    <3> SUFFICES ASSUME NEW n \in {a, b} PROVE Standing(s.row[n])
      OBVIOUS
    <3>1. s.row[n] # Nil
      BY <2>1 DEF Rows
    <3>2. CASE n = old
      BY <2>1, <3>1, <3>2, <1>1, <1>5, <1>6, MemoryAssumption
         DEF Counts, Standing, Discarded, Unexpired, Rows
    <3>3. CASE n # old
      BY <2>1, <3>1, <3>3, <1>5, <1>6 DEF Counts, Standing, Discarded
    <3> QED BY <3>2, <3>3
  <2>3. \A n \in {a, b} : after.row[n].key = s.row[n].key
                          /\ after.row[n].content = s.row[n].content
    BY <2>1, <1>5, <1>1, MemoryAssumption
  <2>4. Contradicts(s.row[a], s.row[b])
    BY <2>3 DEF Contradicts
  <2> QED BY <2>2, <2>4, <1>5, <1>6 DEF NoticedBut
<1>7. named \in SUBSET Memories /\ m \in Rows(after)
  BY <1>1, <1>5
<1>8. LET d == Detected(after, m, named)
      IN /\ Sound(d) /\ (HeldBut(after, {}) => HeldBut(d, {}))
         /\ NoticedNaming(after, {m}, named) => NoticedBut(d, {})
  BY <1>5, <1>7, DetectedKeeps
<1>9. HeldBut(s, {}) => HeldBut(after, {})
  <2> SUFFICES ASSUME HeldBut(after, {m}), NEW p \in Pairs, after.conflict[p].status = "open",
                      NEW n \in p
               PROVE  ~Effective(after.row[n])
    BY <1>5 DEF HeldBut
  <2>1. m \notin p
    BY <1>1, <1>5, ConflictFacts
  <2> QED BY <2>1 DEF HeldBut
<1> QED BY <1>4, <1>6, <1>8, <1>9, DetectedKeeps

\* An edited memory leaves its conflicts and is checked again.
LEMMA UpdatedKeeps ==
  ASSUME NEW s, Sound(s), NEW m \in Rows(s), NEW content \in Statements, NEW key \in Keys,
         NEW status \in {"active", "dismissed"}, NEW expires \in {"never", "later"}
  PROVE  LET t == Updated(s, m, content, key, status, expires)
         IN /\ Sound(t)
            /\ HeldBut(s, {}) => HeldBut(t, {})
            /\ NoticedBut(s, {}) => NoticedBut(t, {})
<1> DEFINE r == s.row[m]
           q == [r EXCEPT !.content = content, !.key = key, !.status = status,
                          !.expires = expires]
           e == Written(s, m, q)
           t == Updated(s, m, content, key, status, expires)
<1>1. m \in Memories /\ r \in Memory /\ s \in Tables
  BY RowFacts DEF Sound, Rows
<1>2. q \in Memory
  BY <1>1 DEF Memory
<1>3. t = AfterUpdate(e, m, r)
  BY DEF Updated
<1> HIDE DEF q
<1>4. /\ Sound(e) /\ Rows(e) = Rows(s)
  <2>1. Rows(e) = Rows(s) \cup {m}
    BY <1>1, <1>2, RowWritten
  <2>2. Sound(e)
    BY <1>1, <1>2, RowWritten
  <2> QED BY <2>1, <2>2
<1>5. HeldBut(s, {}) => HeldBut(e, {m})
  BY <1>1, <1>2, RowWritten
<1>6. NoticedBut(s, {}) => NoticedBut(e, {m})
  BY <1>1, <1>2, RowWritten
<1>7. e.row[m] = q
  BY <1>1, <1>2, WrittenFields
<1>8. e.row[m] = r => e = s
  BY <1>1, <1>7 DEF Tables, Written
<1> HIDE DEF e
<1>9. \A u : NoticedBut(u, {m}) => NoticedNaming(u, {m}, {})
  BY DEF NoticedBut, NoticedNaming, Counts, Standing
<1>10. \A u : Sound(u) /\ m \in Rows(u) =>
         LET d == Detected(u, m, {})
         IN Sound(d) /\ (HeldBut(u, {}) => HeldBut(d, {}))
                     /\ (NoticedNaming(u, {m}, {}) => NoticedBut(d, {}))
  BY DetectedKeeps
<1>11. CASE e.row[m].status = "dismissed"
  <2>1. t = AfterDismissal(e, m)
    BY <1>3, <1>11 DEF AfterUpdate
  <2>2. LET u == AfterDismissal(e, m)
        IN /\ Sound(u)
           /\ HeldBut(e, {m}) => HeldBut(u, {})
           /\ NoticedBut(e, {m}) => NoticedBut(u, {})
    BY <1>4, <1>11, AfterDismissalKeeps
  <2> QED BY <2>1, <2>2, <1>5, <1>6
<1>12. CASE e.row[m].status # "dismissed" /\ e.row[m] # r
  <2> DEFINE c == AfterChange(e, m)
  <2>1. t = Detected(c, m, {})
    BY <1>3, <1>12 DEF AfterUpdate
  <2>2. /\ Sound(c) /\ m \in Rows(c)
        /\ HeldBut(s, {}) => HeldBut(c, {})
        /\ NoticedBut(s, {}) => NoticedBut(c, {m})
    BY <1>4, <1>5, <1>6, AfterChangeKeeps
  <2> HIDE DEF c
  <2>3. /\ Sound(Detected(c, m, {}))
        /\ HeldBut(c, {}) => HeldBut(Detected(c, m, {}), {})
        /\ NoticedBut(c, {m}) => NoticedBut(Detected(c, m, {}), {})
    BY <2>2, <1>9, <1>10
  <2> QED BY <2>1, <2>2, <2>3
<1>13. CASE e.row[m].status # "dismissed" /\ e.row[m] = r
  <2>1. e = s /\ (t = Detected(s, m, {}) \/ t = s)
    BY <1>3, <1>8, <1>13 DEF AfterUpdate
  <2>2. NoticedBut(s, {}) => NoticedBut(s, {m})
    BY DEF NoticedBut
  <2>3. /\ Sound(Detected(s, m, {}))
        /\ HeldBut(s, {}) => HeldBut(Detected(s, m, {}), {})
        /\ NoticedBut(s, {m}) => NoticedBut(Detected(s, m, {}), {})
    BY <1>9, <1>10
  <2> QED BY <2>1, <2>2, <2>3
<1> QED BY <1>11, <1>12, <1>13

\* The conflicts of a deleted memory go with it.
LEMMA DeletedKeeps ==
  ASSUME NEW s, Sound(s), NEW m \in Rows(s)
  PROVE  LET t == Deleted(s, m)
         IN /\ Sound(t)
            /\ HeldBut(s, {}) => HeldBut(t, {})
            /\ NoticedBut(s, {}) => NoticedBut(t, {})
<1> DEFINE t == Deleted(s, m)
           C(p) == IF m \in p THEN NoConflict ELSE s.conflict[p]
<1>1. m \in Memories /\ s \in Tables
  BY DEF Sound, Rows
<1>2. t.row = [s.row EXCEPT ![m] = Nil] /\ t.conflict = [p \in Pairs |-> C(p)]
      /\ t = [row |-> [s.row EXCEPT ![m] = Nil], conflict |-> [p \in Pairs |-> C(p)]]
  BY DEF Deleted
<1>3. \A p \in Pairs : C(p) \in Conflict
  BY <1>1, ConflictFacts DEF Tables
<1>4. t \in Tables
  <2>1. [p \in Pairs |-> C(p)] \in [Pairs -> Conflict]
    BY <1>3
  <2> HIDE DEF C
  <2> QED BY <1>1, <1>2, <2>1 DEF Tables
<1>5. Rows(t) = Rows(s) \ {m} /\ t.row[m] = Nil
      /\ \A n \in Memories \ {m} : t.row[n] = s.row[n]
  BY <1>1, <1>2 DEF Rows, Tables
<1>6. \A p \in Pairs : t.conflict[p] = C(p)
  BY <1>2
<1> HIDE DEF t
<1>7. Sound(t)
  BY <1>4, <1>5, <1>6, ConflictFacts DEF Sound
<1>8. HeldBut(s, {}) => HeldBut(t, {})
  BY <1>5, <1>6, ConflictFacts, PairFacts DEF HeldBut
<1>9. NoticedBut(s, {}) => NoticedBut(t, {})
  <2> SUFFICES ASSUME NoticedBut(s, {}), NEW p \in Pairs, NEW a \in p, NEW b \in p, a # b,
                      Standing(t.row[a]), Standing(t.row[b]), Contradicts(t.row[a], t.row[b])
               PROVE  t.conflict[p] = OpenConflict \/ t.conflict[p] = Decided(p)
    BY DEF NoticedBut
  <2>1. a # m /\ b # m /\ p = {a, b} /\ a \in Memories /\ b \in Memories
    BY <1>5, PairFacts DEF Standing
  <2> QED BY <2>1, <1>5, <1>6 DEF NoticedBut
<1> QED BY <1>7, <1>8, <1>9 DEF t

-----------------------------------------------------------------------------
\* The learner's requests keep the invariant of the tables.
LEMMA CreateMemoryStep ==
  ASSUME MemoryInv, NEW m \in Memories, NEW content \in Statements, NEW key \in Keys,
         NEW expires \in {"never", "later"}, NEW old \in Rows(memory) \cup {Nil},
         NEW named \in SUBSET Rows(memory),
         CreateMemory(m, content, key, expires, old, named)
  PROVE  MemoryInv'
<1> DEFINE t == Created(memory, m, content, key, expires, old, named)
<1>1. /\ memory.row[m] = Nil /\ memory' = t
      /\ revived' = (revived \/ \E n \in named : Discarded(memory.row[n]))
  BY DEF CreateMemory
<1>2. /\ Sound(t)
      /\ HeldBut(memory, {}) => HeldBut(t, {})
      /\ NoticedBut(memory, {}) /\ (\A n \in named : ~Discarded(memory.row[n])) => NoticedBut(t, {})
  BY <1>1, CreatedKeeps DEF MemoryInv
<1> HIDE DEF t
<1>3. Sound(memory') /\ HeldBut(memory', {}) /\ revived' \in BOOLEAN
  BY <1>1, <1>2 DEF MemoryInv
<1>4. revived' \/ NoticedBut(memory', {})
  BY <1>1, <1>2 DEF MemoryInv
<1> QED BY <1>3, <1>4 DEF MemoryInv

\* Whatever the learner asks for.
LEMMA MemoryStep == ASSUME MemoryInv, MemoryNext PROVE MemoryInv'
<1> USE MemoryAssumption
<1>1. ASSUME NEW m \in Memories, NEW x \in Statements, NEW k \in KeysGiven, NEW e \in Expiries,
             NEW old \in Rows(memory) \cup {Nil}, NEW named \in SUBSET Rows(memory),
             CreateMemory(m, x, k, e, old, named)
      PROVE  MemoryInv'
  BY <1>1, CreateMemoryStep
<1>2. ASSUME NEW m \in Memories, NEW x \in Statements, NEW k \in KeysGiven, NEW e \in Expiries,
             NEW status \in {"active", "dismissed"}, UpdateMemory(m, x, k, status, e)
      PROVE  MemoryInv'
  <2>1. m \in Rows(memory) /\ memory' = Updated(memory, m, x, k, status, e) /\ revived' = revived
    BY <1>2 DEF UpdateMemory, Rows
  <2>2. k \in Keys /\ e \in {"never", "later"}
    OBVIOUS
  <2> QED BY <2>1, <2>2, UpdatedKeeps DEF MemoryInv
<1>3. ASSUME NEW p \in Pairs, NEW kept \in SUBSET p, ResolveConflict(p, kept) PROVE MemoryInv'
  <2>1. /\ memory.conflict[p].status = "open" /\ memory' = Resolved(memory, p, kept)
        /\ revived' = (revived \/ \E m \in kept : Discarded(memory.row[m]))
    BY <1>3 DEF ResolveConflict
  <2>2. /\ Sound(memory')
        /\ HeldBut(memory, {}) => HeldBut(memory', {})
        /\ NoticedBut(memory, {}) /\ (\A m \in kept : ~Discarded(memory.row[m]))
             => NoticedBut(memory', {})
    BY <2>1, ResolvedKeeps DEF MemoryInv
  <2>3. revived' \in BOOLEAN /\ (revived' \/ NoticedBut(memory', {}))
    BY <2>1, <2>2 DEF MemoryInv
  <2> QED BY <2>2, <2>3 DEF MemoryInv
<1>4. ASSUME NEW m \in Memories, DeleteMemory(m) PROVE MemoryInv'
  <2>1. m \in Rows(memory) /\ memory' = Deleted(memory, m) /\ revived' = revived
    BY <1>4 DEF DeleteMemory, Rows
  <2> QED BY <2>1, DeletedKeeps DEF MemoryInv
<1>5. ASSUME NEW m \in Memories, Expire(m) PROVE MemoryInv'
  <2> DEFINE r == [memory.row[m] EXCEPT !.expires = "past"]
  <2>1. m \in Rows(memory) /\ memory' = Written(memory, m, r) /\ revived' = revived
    BY <1>5 DEF Expire, Rows
  <2>2. memory.row[m] \in Memory
    BY <2>1, RowFacts DEF MemoryInv, Sound
  <2>3. r \in Memory /\ r.expires = "past"
    BY <2>2 DEF Memory
  <2>4. ~Effective(r) /\ ~Standing(r)
    BY <2>3 DEF Effective, Standing, Unexpired
  <2> HIDE DEF r
  <2> QED BY <2>1, <2>3, <2>4, WithdrawnKeeps DEF MemoryInv
<1> QED BY <1>1, <1>2, <1>3, <1>4, <1>5 DEF MemoryNext

\* What was told already is in no conflict.
LEMMA MemoryStart == ASSUME MemoryInit PROVE MemoryInv
<1>1. /\ memory.row = Known /\ memory.conflict = [p \in Pairs |-> NoConflict]
      /\ memory \in Tables
  BY MemoryAssumption, ConflictFacts DEF MemoryInit, Tables
<1>2. Sound(memory) /\ HeldBut(memory, {})
  BY <1>1, ConflictFacts DEF Sound, HeldBut
<1>3. NoticedBut(memory, {})
  BY <1>1, PairFacts, MemoryAssumption DEF NoticedBut
<1> QED BY <1>2, <1>3 DEF MemoryInv, MemoryInit

\* The invariant of the tables is what the runs check, and more.
LEMMA MemoryImplies == ASSUME MemoryInv PROVE MemoryTypeOK /\ ConflictsRespected
<1>1. MemoryTypeOK
  BY DEF MemoryInv, Sound, Tables, Conflict, MemoryTypeOK
<1>2. OpenConflictHoldsBack
  BY DEF MemoryInv, HeldBut, OpenConflictHoldsBack
<1>3. NoSilentContradiction
  <2> SUFFICES ASSUME ~revived, NEW p \in Pairs, NEW m \in p, NEW n \in p,
                      Effective(memory.row[m]), Effective(memory.row[n]),
                      Contradicts(memory.row[m], memory.row[n])
               PROVE  memory.conflict[p] = Decided(p)
    BY DEF NoSilentContradiction
  <2>1. m # n /\ Standing(memory.row[m]) /\ Standing(memory.row[n])
    BY DEF Effective, Standing, Contradicts
  <2>2. memory.conflict[p] = OpenConflict \/ memory.conflict[p] = Decided(p)
    BY <2>1 DEF MemoryInv, NoticedBut
  <2>3. memory.conflict[p].status # "open"
    BY <1>2 DEF OpenConflictHoldsBack
  <2> QED BY <2>2, <2>3, ConflictFacts
<1> QED BY <1>1, <1>2, <1>3 DEF ConflictsRespected

(***************************************************************************)
(* Turns, teaching cycles and proposals                                    *)
(***************************************************************************)
Persisting ==
  [pc : {"ask", "answer", "observe", "read", "start", "apply", "failed", "done"},
   policy : Policies \cup {Nil}, answer : Statuses \cup {Nil},
   cycle : Cycles \cup {Nil}, revision : Nat]
Stages == {"not_applicable", "solving", "attempted", "reviewed"}
Resolving ==
  [pc : {"idle", "confirm", "dismiss", "record"}, proposal : Proposals \cup {Nil},
   outcome : {"executed", "failed", Nil}]

Types ==
  /\ persist \in [Turns -> Persisting]
  /\ committed \in [Turns -> Statuses \cup {Nil}]
  /\ state \in [Threads -> [revision : Nat, taught : [hint : Nat, stage : Stages]]]
  /\ cycle \in [Cycles -> Cycle \cup {Nil}]
  /\ proposal \in [Proposals -> {"none", "pending", "executed", "failed", "dismissed"}]
  /\ reviews \subseteq Proposals
  /\ click \in [Clicks -> Resolving]

\* A click that is under way has its proposal, and an outcome once it has one.
ClicksAimed ==
  \A q \in Clicks :
    /\ click[q].pc # "idle" => click[q].proposal \in Proposals
    /\ click[q].pc = "record" => click[q].outcome \in {"executed", "failed"}

\* A proposal has a row only if its turn is committed.
RowsOfCommitted == \A p \in Proposals : proposal[p] # "none" => committed[TurnOf(p)] # Nil

\* A turn observes its cycle with an answer that stands for a phase.
Answered ==
  \A r \in Turns : persist[r].pc \in {"observe", "read", "start", "apply"} =>
    persist[r].answer \in Statuses /\ AimOf(r) \in Phases

\* The cycle a turn has found is there, finished or not.
CycleRead ==
  \A r \in Turns : persist[r].pc \in {"read", "apply"} =>
    persist[r].cycle \in Cycles /\ cycle[persist[r].cycle] # Nil

OneEach == \A t \in Threads : \A c, d \in Unfinished(t) : c = d

\* The learner asked for the answer or tried, in this turn or in one that found an
\* attempt before it: what a settled answer needs.
Helped == {"review", "reveal", "attempt", "other"}
Judged(t) ==
  \E r \in CommittedAs(t, Statuses) : committed[r] = "unverified" \/ Asks[r].said \in Helped

Counted ==
  \A t \in Threads :
    /\ IsFiniteSet(CommittedAs(t, Statuses))
    /\ state[t].revision = Cardinality(CommittedAs(t, Statuses))
    /\ state[t].taught.hint = LeastOf(3, Cardinality(CommittedAs(t, {"withheld"})))

StagesEarned ==
  \A t \in Threads : state[t].taught.stage \in {"attempted", "reviewed"} => Judged(t)

\* A turn whose policy lets it settle the answer has a reason to.
PolicyEarned ==
  \A r \in Turns : persist[r].pc # "ask" =>
    /\ persist[r].policy \in Policies
    /\ persist[r].policy \in {"review_allowed", "explicit_reveal", "not_applicable"} =>
         Asks[r].said \in Helped \/ Judged(ThreadOf[r])

TurnInv ==
  /\ Types /\ ClicksAimed /\ RowsOfCommitted /\ Answered /\ CycleRead /\ OneEach
  /\ Counted /\ StagesEarned /\ PolicyEarned

IInv == MemoryInv /\ TurnInv

-----------------------------------------------------------------------------
\* Nothing is known when nothing was asked.
LEMMA TurnStart == ASSUME Init PROVE TurnInv
<1> USE TutorAssumption DEF Init
<1>1. Types
  BY DEF Types, Unasked, NoClick, Persisting, Resolving, Untaught, Stages
<1>2. ClicksAimed /\ RowsOfCommitted
  BY DEF ClicksAimed, RowsOfCommitted, NoClick
<1>3. Answered /\ CycleRead /\ OneEach
  BY DEF Answered, CycleRead, OneEach, Unfinished, Unasked
<1>4. Counted
  <2> SUFFICES ASSUME NEW t \in Threads
               PROVE  /\ IsFiniteSet(CommittedAs(t, Statuses))
                      /\ state[t].revision = Cardinality(CommittedAs(t, Statuses))
                      /\ state[t].taught.hint = LeastOf(3, Cardinality(CommittedAs(t, {"withheld"})))
    BY DEF Counted
  <2>1. CommittedAs(t, Statuses) = {} /\ CommittedAs(t, {"withheld"}) = {}
    BY DEF CommittedAs, Statuses
  <2>2. IsFiniteSet({}) /\ Cardinality({}) = 0
    BY FS_EmptySet
  <2>3. state[t].revision = 0 /\ state[t].taught.hint = 0
    BY DEF Untaught
  <2>4. LeastOf(3, 0) = 0
    BY DEF LeastOf
  <2> QED BY <2>1, <2>2, <2>3, <2>4
<1>5. StagesEarned /\ PolicyEarned
  BY DEF StagesEarned, PolicyEarned, Untaught, Unasked
<1> QED BY <1>1, <1>2, <1>3, <1>4, <1>5 DEF TurnInv

\* What a turn's answer is called and what it stands for.
LEMMA PolicyIs == ASSUME NEW said, NEW stage PROVE AnswerPolicy(said, stage) \in Policies
  BY DEF AnswerPolicy, Policies

\* An observation puts a cycle into one of its phases, or leaves it in its own.
LEMMA PhaseIs == ASSUME NEW kind, NEW status PROVE PhaseOf(kind, status) \in Phases \cup {"none"}
  BY DEF PhaseOf, Phases

\* What a turn's kind makes of the hint level and the stage.
LEMMA LearnedIs ==
  ASSUME NEW taught \in [hint : Nat, stage : Stages], NEW kind, NEW status
  PROVE  Learned(taught, kind, status) \in [hint : Nat, stage : Stages]
<1>1. StageAfter(taught.stage, kind, status) \in Stages
  BY DEF StageAfter, Stages
<1>2. LeastOf(3, taught.hint + 1) \in Nat
  BY DEF LeastOf
<1> QED BY <1>1, <1>2 DEF Learned

\* A row of the teaching cycles, and what each way to write one makes of it.
Events == ({"moved", "observed"} \X Turns) \cup ({"started", "completed"} \X Sessions)

\* An event noted in a cycle makes it a revision newer, and leaves thread and status.
LEMMA NotedIs ==
  ASSUME NEW row \in Cycle, NEW event \in Events, NEW phase \in Phases
  PROVE  LET new == Noted(row, event, phase)
         IN /\ new \in Cycle /\ new.thread = row.thread /\ new.status = row.status
            /\ new.revision = row.revision + 1
<1> DEFINE v == row.revision + 1
           ss == row.sources \cup {event}
<1>1. v \in Nat /\ ss \in SUBSET Events
  BY DEF Cycle, Events
<1>2. Noted(row, event, phase) = [row EXCEPT !.sources = ss, !.revision = v, !.phase = phase]
  BY DEF Noted
<1>3. row \in [thread : Threads, phase : Phases, revision : Nat,
              status : {"active", "paused", "completed", "cancelled"}, sources : SUBSET Events]
  BY DEF Cycle, Events
<1> HIDE DEF v, ss
<1>4. /\ Noted(row, event, phase) \in
           [thread : Threads, phase : Phases, revision : Nat,
            status : {"active", "paused", "completed", "cancelled"}, sources : SUBSET Events]
      /\ Noted(row, event, phase).thread = row.thread
      /\ Noted(row, event, phase).status = row.status
      /\ Noted(row, event, phase).revision = v
  BY <1>1, <1>2, <1>3
<1> QED BY <1>4 DEF Cycle, Events, v

\* A move to a phase makes a cycle a revision newer, and leaves thread and status.
LEMMA MovedIs ==
  ASSUME NEW row \in Cycle, NEW phase \in Phases
  PROVE  LET new == Moved(row, phase)
         IN /\ new \in Cycle /\ new.thread = row.thread /\ new.status = row.status
            /\ new.revision = row.revision + 1
<1> DEFINE v == row.revision + 1
<1>1. v \in Nat
  BY DEF Cycle
<1>2. Moved(row, phase) = [row EXCEPT !.phase = phase, !.revision = v]
  BY DEF Moved
<1> HIDE DEF v
<1>3. /\ Moved(row, phase) \in Cycle /\ Moved(row, phase).thread = row.thread
      /\ Moved(row, phase).status = row.status
      /\ Moved(row, phase).revision = v
  BY <1>1, <1>2 DEF Cycle
<1> QED BY <1>3 DEF v

\* A change of status makes a cycle a revision newer.
LEMMA TurnedIs ==
  ASSUME NEW row \in Cycle, NEW status \in {"active", "paused", "completed", "cancelled"}
  PROVE  LET new == Turned(row, status)
         IN /\ new \in Cycle /\ new.thread = row.thread /\ new.status = status
            /\ new.revision = row.revision + 1
<1> DEFINE v == row.revision + 1
<1>1. v \in Nat
  BY DEF Cycle
<1>2. Turned(row, status) = [row EXCEPT !.status = status, !.revision = v]
  BY DEF Turned
<1> HIDE DEF v
<1>3. /\ Turned(row, status) \in Cycle /\ Turned(row, status).thread = row.thread
      /\ Turned(row, status).status = status
      /\ Turned(row, status).revision = v
  BY <1>1, <1>2 DEF Cycle
<1> QED BY <1>3 DEF v

\* A cycle starts active, at revision 0.
LEMMA NewCycleIs ==
  ASSUME NEW t \in Threads, NEW phase \in Phases
  PROVE  LET new == NewCycle(t, phase)
         IN new \in Cycle /\ new.thread = t /\ new.status = "active" /\ new.revision = 0
  BY DEF NewCycle, Cycle

\* The columns of a cycle that is there.
LEMMA RowIs ==
  ASSUME Types, NEW c \in Cycles, cycle[c] # Nil
  PROVE  /\ cycle[c] \in Cycle /\ cycle[c].thread \in Threads /\ cycle[c].phase \in Phases
         /\ cycle[c].revision \in Nat
         /\ cycle[c].status \in {"active", "paused", "completed", "cancelled"}
  BY DEF Types, Cycle

\* What a step does to a teaching cycle: nothing, or it makes one where the thread
\* has none that is unfinished, or it changes one, which makes it a revision newer.
CycleStep ==
  \/ UNCHANGED cycle
  \/ \E c \in Cycles, t \in Threads, phase \in Phases :
       /\ cycle[c] = Nil /\ Unfinished(t) = {} /\ cycle' = [cycle EXCEPT ![c] = NewCycle(t, phase)]
  \/ \E c \in Cycles, new \in Cycle :
       /\ cycle[c] # Nil /\ cycle' = [cycle EXCEPT ![c] = new]
       /\ new.thread = cycle[c].thread /\ new.revision = cycle[c].revision + 1
       /\ \/ cycle[c].status \in {"active", "paused"}
          \/ new.status = cycle[c].status /\ \E r \in Turns : NotesItself(r, c)

\* Every step does one of these to each cycle.
LEMMA CyclesStep == ASSUME TurnInv, Next PROVE CycleStep
<1> USE DEF TurnInv
<1>1. ASSUME NEW r \in Turns, AskTurn(r) \/ CommitTurn(r) \/ FindCycle(r) \/ ReadRow(r) \/ Retry(r)
      PROVE  CycleStep
  BY <1>1 DEF AskTurn, CommitTurn, FindCycle, ReadRow, Retry, CycleStep
<1>2. ASSUME NEW r \in Turns, StartCycle(r) PROVE CycleStep
  <2>1. ThreadOf[r] \in Threads /\ AimOf(r) \in Phases
    BY <1>2, TutorAssumption DEF StartCycle, Answered
  <2> QED BY <1>2, <2>1 DEF StartCycle, Started, NoneUnfinished, CycleStep
<1>3. ASSUME NEW r \in Turns, ApplyCycle(r) PROVE CycleStep
  <2> DEFINE c == persist[r].cycle
             row == cycle[c]
  <2>1. c \in Cycles /\ row # Nil /\ AimOf(r) \in Phases
    BY <1>3 DEF ApplyCycle, CycleRead, Answered
  <2>2. /\ row \in Cycle /\ row.phase \in Phases
        /\ <<"moved", r>> \in Events /\ <<"observed", r>> \in Events
    BY <2>1, RowIs DEF Events
  <2> DEFINE moved == Noted(row, <<"moved", r>>, AimOf(r))
             noted == Noted(row, <<"observed", r>>, row.phase)
  <2>3. \/ cycle' = [cycle EXCEPT ![c] = row]
        \/ row.status = "active" /\ cycle' = [cycle EXCEPT ![c] = moved]
        \/ /\ <<"observed", r>> \notin row.sources
           /\ cycle' = [cycle EXCEPT ![c] = noted]
    BY <1>3 DEF ApplyCycle, Observed, Moves
  <2>4. /\ moved \in Cycle /\ moved.thread = row.thread /\ moved.revision = row.revision + 1
        /\ noted \in Cycle /\ noted.thread = row.thread /\ noted.revision = row.revision + 1
        /\ noted.status = row.status
    BY <2>1, <2>2, NotedIs
  <2>5. CASE cycle' = [cycle EXCEPT ![c] = row]
    <3>1. UNCHANGED cycle
      BY <2>1, <2>5 DEF Types
    <3> QED BY <3>1 DEF CycleStep
  <2>6. CASE row.status = "active" /\ cycle' = [cycle EXCEPT ![c] = moved]
    <3> HIDE DEF moved, noted, c
    <3> QED BY <2>1, <2>4, <2>6 DEF CycleStep
  <2>7. CASE <<"observed", r>> \notin row.sources /\ cycle' = [cycle EXCEPT ![c] = noted]
    <3>1. cycle'[c] = noted
      BY <2>1, <2>7 DEF Types
    <3>2. NotesItself(r, c)
      BY <1>3, <2>7, <3>1 DEF NotesItself, ApplyCycle
    <3> HIDE DEF moved, noted, c
    <3> QED BY <2>1, <2>4, <2>7, <3>2 DEF CycleStep
  <2> QED BY <2>3, <2>5, <2>6, <2>7
<1>4. ASSUME Crash PROVE CycleStep
  BY <1>4 DEF Crash, CycleStep
<1>5. ASSUME NEW c \in Cycles, NEW phase \in Phases, TransitionCycle(c, phase) PROVE CycleStep
  <2>1. /\ cycle[c] # Nil /\ cycle[c].status = "active"
        /\ cycle' = [cycle EXCEPT ![c] = Moved(cycle[c], phase)]
    BY <1>5 DEF TransitionCycle, Types
  <2>2. cycle[c] \in Cycle
    BY <2>1, RowIs
  <2> QED BY <2>1, <2>2, MovedIs DEF CycleStep
<1>6. ASSUME NEW c \in Cycles, NEW status \in {"active", "paused", "completed", "cancelled"},
             SetCycleStatus(c, status)
      PROVE  CycleStep
  <2>1. /\ cycle[c] # Nil /\ cycle[c].status \in {"active", "paused"}
        /\ cycle' = [cycle EXCEPT ![c] = Turned(cycle[c], status)]
    BY <1>6 DEF SetCycleStatus, NextStatuses, Types
  <2>2. cycle[c] \in Cycle
    BY <2>1, RowIs
  <2> QED BY <2>1, <2>2, TurnedIs DEF CycleStep
<1>7. ASSUME NEW c \in Cycles, NEW s \in Sessions, NEW milestone \in {"started", "completed"},
             IngestSession(c, s, milestone)
      PROVE  CycleStep
  <2>1. cycle[c] # Nil /\ cycle[c].status = "active"
    BY <1>7 DEF IngestSession
  <2>2. cycle[c] \in Cycle /\ cycle[c].phase \in Phases /\ <<milestone, s>> \in Events
    BY <2>1, RowIs DEF Events
  <2>3. PICK phase \in Phases : cycle' = [cycle EXCEPT ![c] = Noted(cycle[c], <<milestone, s>>, phase)]
    BY <1>7, <2>2 DEF IngestSession, Phases
  <2> QED BY <2>1, <2>2, <2>3, NotedIs DEF CycleStep
<1>8. ASSUME NEW t \in Threads, LearnerStartsCycle(t, "diagnose") PROVE CycleStep
  BY <1>8 DEF LearnerStartsCycle, Started, NoneUnfinished, CycleStep, Phases
<1>9. ASSUME NEW q \in Clicks,
             \/ \E p \in Proposals, d \in {"confirm", "dismiss"} : Click(q, p, d)
             \/ Dismiss(q) \/ ExecuteOther(q) \/ Record(q)
             \/ \E m \in Memories : ExecuteMemory(q, m)
      PROVE  CycleStep
  BY <1>9 DEF Click, Dismiss, ExecuteOther, Record, ExecuteMemory, CycleStep
<1>10. ASSUME LearnerEdits PROVE CycleStep
  BY <1>10 DEF LearnerEdits, CycleStep
<1> QED BY <1>1, <1>2, <1>3, <1>4, <1>5, <1>6, <1>7, <1>8, <1>9, <1>10 DEF Next

\* What a step does to a run: nothing, or it is asked, or it starts over, or it goes
\* on with the policy it has.
RunStep(r) ==
  \/ persist'[r] = persist[r]
  \/ /\ persist[r].pc = "ask" /\ persist'[r].pc = "answer"
     /\ persist'[r].policy = AnswerPolicy(Asks[r].said, state[ThreadOf[r]].taught.stage)
  \/ persist'[r].pc = "ask"
  \/ /\ persist[r].pc # "ask" /\ persist'[r].policy = persist[r].policy
     /\ \/ persist'[r].pc \in {"answer", "failed", "done"}
        \/ /\ persist'[r].pc = "observe"
           /\ persist'[r].answer \in Statuses /\ Aim(r, persist'[r].answer) # "none"
        \/ /\ persist[r].pc = "observe" /\ persist'[r].answer = persist[r].answer
           /\ \/ persist'[r].pc = "start"
              \/ LET c == persist'[r].cycle
                 IN /\ persist'[r].pc = "read" /\ UNCHANGED cycle
                    /\ c \in Cycles /\ cycle[c] # Nil
        \/ /\ persist[r].pc = "read" /\ persist'[r].pc = "apply" /\ UNCHANGED cycle
           /\ persist'[r].answer = persist[r].answer /\ persist'[r].cycle = persist[r].cycle

PersistStep == persist' \in [Turns -> Persisting] /\ \A r \in Turns : RunStep(r)

\* What is put into a turn's persistence is there, and the others' are untouched.
LEMMA PersistPut ==
  ASSUME Types, NEW r \in Turns, NEW new \in Persisting, persist' = [persist EXCEPT ![r] = new]
  PROVE  /\ persist' \in [Turns -> Persisting] /\ persist'[r] = new
         /\ \A o \in Turns \ {r} : persist'[o] = persist[o]
  BY DEF Types

\* Going on to the next step of a turn's persistence changes nothing else of it.
LEMMA PersistGoto ==
  ASSUME Types, NEW r \in Turns,
         NEW pc \in {"ask", "answer", "observe", "read", "start", "apply", "failed", "done"}, Goto(r, pc)
  PROVE  /\ persist' \in [Turns -> Persisting] /\ persist'[r].pc = pc
         /\ persist'[r].policy = persist[r].policy /\ persist'[r].answer = persist[r].answer
         /\ \A o \in Turns \ {r} : persist'[o] = persist[o]
<1> DEFINE new == [persist[r] EXCEPT !.pc = pc]
<1>1. persist' = [persist EXCEPT ![r] = new]
  BY DEF Goto
<1>2. persist[r] \in Persisting
  BY DEF Types
<1>3. new \in Persisting /\ new.pc = pc /\ new.policy = persist[r].policy
      /\ new.answer = persist[r].answer
  BY <1>2 DEF Persisting
<1> HIDE DEF new
<1> QED BY <1>1, <1>3, PersistPut

\* Every step does one of these to the persistence of each turn.
LEMMA PersistsStep == ASSUME TurnInv, Next PROVE PersistStep
<1> USE DEF TurnInv
<1>0. persist \in [Turns -> Persisting]
  BY DEF Types
<1>1. ASSUME NEW r \in Turns, AskTurn(r) PROVE PersistStep
  <2> DEFINE policy == AnswerPolicy(Asks[r].said, state[ThreadOf[r]].taught.stage)
             new == [persist[r] EXCEPT !.pc = "answer", !.policy = policy]
  <2>1. persist[r].pc = "ask" /\ persist' = [persist EXCEPT ![r] = new]
    BY <1>1 DEF AskTurn
  <2>2. policy \in Policies
    BY PolicyIs
  <2>3. policy = AnswerPolicy(Asks[r].said, state[ThreadOf[r]].taught.stage)
    OBVIOUS
  <2> HIDE DEF policy
  <2>4. new \in Persisting /\ new.pc = "answer" /\ new.policy = policy
    BY <1>0, <2>2 DEF Persisting
  <2> HIDE DEF new
  <2> QED BY <2>1, <2>3, <2>4, PersistPut DEF PersistStep, RunStep
<1>2. ASSUME NEW r \in Turns, CommitTurn(r) PROVE PersistStep
  <2>1. PICK status \in Answers[r] :
          \/ /\ status \in Permitted(persist[r].policy, Asks[r].kind)
             /\ persist' = [persist EXCEPT ![r] = [@ EXCEPT !.answer = status,
                    !.pc = IF Aim(r, status) = "none" THEN "done" ELSE "observe"]]
          \/ Goto(r, "failed")
    BY <1>2 DEF CommitTurn
  <2>2. CASE Goto(r, "failed")
    BY <1>2, <2>2, PersistGoto DEF PersistStep, RunStep, CommitTurn
  <2>3. CASE /\ status \in Permitted(persist[r].policy, Asks[r].kind)
             /\ persist' = [persist EXCEPT ![r] = [@ EXCEPT !.answer = status,
                    !.pc = IF Aim(r, status) = "none" THEN "done" ELSE "observe"]]
    <3> DEFINE pc == IF Aim(r, status) = "none" THEN "done" ELSE "observe"
               new == [persist[r] EXCEPT !.answer = status, !.pc = pc]
    <3>1. persist[r].pc = "answer" /\ persist' = [persist EXCEPT ![r] = new]
      BY <1>2, <2>3 DEF CommitTurn
    <3>2. status \in Statuses /\ pc \in {"done", "observe"}
      BY <2>3 DEF Permitted
    <3>3. pc = "observe" => Aim(r, status) # "none"
      OBVIOUS
    <3> HIDE DEF pc
    <3>4. /\ new \in Persisting /\ new.pc = pc /\ new.answer = status
          /\ new.policy = persist[r].policy
      BY <1>0, <3>2 DEF Persisting
    <3> HIDE DEF new
    <3> QED BY <3>1, <3>2, <3>3, <3>4, PersistPut DEF PersistStep, RunStep
  <2> QED BY <2>1, <2>2, <2>3
<1>3. ASSUME NEW r \in Turns, FindCycle(r) PROVE PersistStep
  <2>1. persist[r].pc = "observe" /\ UNCHANGED cycle
    BY <1>3 DEF FindCycle
  <2>2. CASE Goto(r, "start")
    BY <2>1, <2>2, PersistGoto DEF PersistStep, RunStep
  <2>3. ASSUME NEW c \in Unfinished(ThreadOf[r]),
               persist' = [persist EXCEPT ![r] = [@ EXCEPT !.pc = "read", !.cycle = c]]
        PROVE  PersistStep
    <3> DEFINE new == [persist[r] EXCEPT !.pc = "read", !.cycle = c]
    <3>1. persist' = [persist EXCEPT ![r] = new]
      BY <2>3
    <3>2. c \in Cycles /\ cycle[c] # Nil
      BY DEF Unfinished
    <3>3. /\ new \in Persisting /\ new.pc = "read" /\ new.answer = persist[r].answer
          /\ new.policy = persist[r].policy /\ new.cycle = c
      BY <1>0, <3>2 DEF Persisting
    <3> HIDE DEF new
    <3>4. /\ persist' \in [Turns -> Persisting] /\ persist'[r] = new
          /\ \A o \in Turns \ {r} : persist'[o] = persist[o]
      BY <3>1, <3>3, PersistPut
    <3>5. RunStep(r)
      BY <2>1, <3>2, <3>3, <3>4 DEF RunStep
    <3> QED BY <3>4, <3>5 DEF PersistStep, RunStep
  <2> QED BY <1>3, <2>2, <2>3 DEF FindCycle
<1>10. ASSUME NEW r \in Turns, ReadRow(r) PROVE PersistStep
  <2> DEFINE c == persist[r].cycle
             pc == IF cycle[c].status = "paused" THEN "done" ELSE "apply"
             v == cycle[c].revision
             new == [persist[r] EXCEPT !.pc = pc, !.revision = v]
  <2>1. /\ persist[r].pc = "read" /\ UNCHANGED cycle
        /\ persist' = [persist EXCEPT ![r] = new]
    BY <1>10 DEF ReadRow
  <2>2. c \in Cycles /\ cycle[c] # Nil
    BY <2>1 DEF CycleRead
  <2>3. v \in Nat /\ pc \in {"done", "apply"}
    BY <2>2, RowIs
  <2> HIDE DEF c, pc, v
  <2>4. /\ new \in Persisting /\ new.pc = pc /\ new.answer = persist[r].answer
        /\ new.policy = persist[r].policy /\ new.cycle = persist[r].cycle
    BY <1>0, <2>3 DEF Persisting
  <2> HIDE DEF new
  <2>5. /\ persist' \in [Turns -> Persisting] /\ persist'[r] = new
        /\ \A o \in Turns \ {r} : persist'[o] = persist[o]
    BY <2>1, <2>4, PersistPut
  <2>6. RunStep(r)
    BY <2>1, <2>3, <2>4, <2>5 DEF RunStep
  <2> QED BY <2>5, <2>6 DEF PersistStep, RunStep
<1>4. ASSUME NEW r \in Turns, StartCycle(r) \/ ApplyCycle(r) PROVE PersistStep
  <2>1. persist[r].pc # "ask" /\ (Goto(r, "done") \/ Goto(r, "failed"))
    BY <1>4 DEF StartCycle, ApplyCycle
  <2> QED BY <2>1, PersistGoto DEF PersistStep, RunStep
<1>5. \A r \in Turns : \A a \in Statuses \cup {Nil} :
        /\ Again(r, a) \in Persisting
        /\ persist[r].pc = "ask" => Again(r, a).pc = "ask"
        /\ persist[r].pc # "ask" => /\ Again(r, a).pc = "answer"
                                   /\ Again(r, a).policy = persist[r].policy
  <2> TAKE r \in Turns
  <2> TAKE a \in Statuses \cup {Nil}
  <2>1. Unasked \in Persisting /\ Unasked.pc = "ask"
    BY DEF Unasked, Persisting
  <2> DEFINE policy == persist[r].policy
  <2>2. policy \in Policies \cup {Nil}
    BY <1>0 DEF Persisting
  <2>3. Again(r, a) = IF persist[r].pc = "ask" THEN Unasked
          ELSE [Unasked EXCEPT !.pc = "answer", !.policy = policy, !.answer = a]
    BY DEF Again
  <2> HIDE DEF policy
  <2>4. LET n == [Unasked EXCEPT !.pc = "answer", !.policy = policy, !.answer = a]
        IN n \in Persisting /\ n.pc = "answer" /\ n.policy = policy
    BY <2>1, <2>2 DEF Persisting
  <2> QED BY <2>1, <2>3, <2>4 DEF policy
<1>6. ASSUME NEW r \in Turns, Retry(r) PROVE PersistStep
  <2>1. persist[r].pc # "ask" /\ persist' = [persist EXCEPT ![r] = Again(r, Nil)]
    BY <1>6 DEF Retry
  <2> DEFINE new == Again(r, Nil)
  <2>2. new \in Persisting /\ new.pc = "answer" /\ new.policy = persist[r].policy
    BY <2>1, <1>5
  <2> HIDE DEF new
  <2>3. /\ persist' \in [Turns -> Persisting] /\ persist'[r] = new
        /\ \A o \in Turns \ {r} : persist'[o] = persist[o]
    BY <2>1, <2>2, PersistPut DEF new
  <2> QED BY <2>1, <2>2, <2>3 DEF PersistStep, RunStep
<1>7. ASSUME Crash PROVE PersistStep
  <2>1. \A r \in Turns : persist[r].answer \in Statuses \cup {Nil}
    BY <1>0 DEF Persisting
  <2>2. persist' = [r \in Turns |->
          IF persist[r].pc \in {"failed", "done"} THEN persist[r] ELSE Again(r, persist[r].answer)]
    BY <1>7 DEF Crash
  <2> QED BY <2>1, <2>2, <1>0, <1>5 DEF PersistStep, RunStep
<1>8. ASSUME UNCHANGED persist PROVE PersistStep
  BY <1>0, <1>8 DEF PersistStep, RunStep
<1>9. \/ \E r \in Turns : AskTurn(r) \/ CommitTurn(r) \/ FindCycle(r) \/ ReadRow(r)
                        \/ StartCycle(r) \/ ApplyCycle(r) \/ Retry(r)
      \/ Crash \/ UNCHANGED persist
  BY DEF Next, TransitionCycle, SetCycleStatus, IngestSession, LearnerStartsCycle, Click, Dismiss,
         ExecuteOther, Record, ExecuteMemory, LearnerEdits
<1> QED BY <1>1, <1>2, <1>3, <1>4, <1>6, <1>7, <1>8, <1>9, <1>10

\* What a step does to the commits and the learning states: nothing, or one turn is
\* committed that was not, with an answer its policy permits.
CommitStep ==
  \/ UNCHANGED <<committed, state>>
  \/ \E r \in Turns, status \in Statuses :
       /\ committed[r] = Nil /\ persist[r].pc # "ask"
       /\ status \in Permitted(persist[r].policy, Asks[r].kind)
       /\ committed' = [committed EXCEPT ![r] = status]
       /\ state' = [state EXCEPT ![ThreadOf[r]] =
            [revision |-> state[ThreadOf[r]].revision + 1,
             taught |-> Learned(state[ThreadOf[r]].taught, Asks[r].kind, status)]]

\* Every step does one of these to the answers committed.
LEMMA CommitsStep == ASSUME TurnInv, Next PROVE CommitStep
<1>1. ASSUME NEW r \in Turns, CommitTurn(r) PROVE CommitStep
  <2>1. PICK status \in Answers[r], offered \in OfferCounts[r] :
          \/ /\ status \in Permitted(persist[r].policy, Asks[r].kind)
             /\ CommitOnce(r, status, offered)
          \/ UNCHANGED <<committed, state, proposal>>
    BY <1>1 DEF CommitTurn
  <2>2. CASE UNCHANGED <<committed, state, proposal>>
    BY <2>2 DEF CommitStep
  <2>3. CASE /\ status \in Permitted(persist[r].policy, Asks[r].kind)
             /\ CommitOnce(r, status, offered)
    <3>1. status \in Statuses /\ persist[r].pc # "ask"
      BY <1>1, <2>3 DEF Permitted, CommitTurn
    <3>2. CASE committed[r] # Nil
      BY <2>3, <3>2 DEF CommitOnce, CommitStep
    <3>3. CASE committed[r] = Nil
      <4>1. /\ committed' = [committed EXCEPT ![r] = status]
            /\ state' = [state EXCEPT ![ThreadOf[r]] =
                 [revision |-> state[ThreadOf[r]].revision + 1,
                  taught |-> Learned(state[ThreadOf[r]].taught, Asks[r].kind, status)]]
        BY <2>3, <3>3, TutorAssumption DEF CommitOnce, TurnInv, Types
      <4> QED BY <2>3, <3>1, <3>3, <4>1 DEF CommitStep
    <3> QED BY <3>2, <3>3
  <2> QED BY <2>1, <2>2, <2>3
<1>2. ASSUME UNCHANGED <<committed, state>> PROVE CommitStep
  BY <1>2 DEF CommitStep
<1>3. (\E r \in Turns : CommitTurn(r)) \/ UNCHANGED <<committed, state>>
  BY DEF Next, AskTurn, FindCycle, ReadRow, StartCycle, ApplyCycle, Retry, Crash, TransitionCycle,
         SetCycleStatus, IngestSession, LearnerStartsCycle, Click, Dismiss, ExecuteOther, Record,
         ExecuteMemory, LearnerEdits, turnVars
<1> QED BY <1>1, <1>2, <1>3

\* What a step does to a proposal: nothing, or its turn puts it forward, or one that
\* waits is settled.
ProposalStep ==
  /\ proposal' \in [Proposals -> {"none", "pending", "executed", "failed", "dismissed"}]
  /\ \A p \in Proposals :
       \/ proposal'[p] = proposal[p]
       \/ proposal[p] = "none" /\ committed'[TurnOf(p)] # Nil
       \/ proposal[p] \in {"pending", "failed"} /\ proposal'[p] # "none"

\* Every step does one of these to each proposal.
LEMMA ProposalsStep == ASSUME TurnInv, Next PROVE ProposalStep
<1> USE DEF TurnInv
<1>0. /\ proposal \in [Proposals -> {"none", "pending", "executed", "failed", "dismissed"}]
      /\ committed \in [Turns -> Statuses \cup {Nil}]
  BY DEF Types
<1>1. ASSUME NEW r \in Turns, CommitTurn(r) PROVE ProposalStep
  <2>1. PICK status \in Answers[r], offered \in OfferCounts[r] :
          \/ /\ status \in Permitted(persist[r].policy, Asks[r].kind)
             /\ CommitOnce(r, status, offered)
          \/ UNCHANGED <<committed, state, proposal>>
    BY <1>1 DEF CommitTurn
  <2>2. CASE UNCHANGED proposal
    BY <2>2, <1>0 DEF ProposalStep
  <2>3. CASE /\ status \in Permitted(persist[r].policy, Asks[r].kind) /\ committed[r] = Nil
             /\ CommitOnce(r, status, offered)
    <3>1. /\ proposal' = [p \in Proposals |->
               IF TurnOf(p) = r /\ p[2] <= offered THEN "pending" ELSE proposal[p]]
          /\ committed' = [committed EXCEPT ![r] = status]
      BY <2>3 DEF CommitOnce
    <3>2. status \in Statuses /\ committed'[r] # Nil
      BY <2>3, <3>1, <1>0, TutorAssumption DEF Permitted
    <3>3. \A p \in Proposals : TurnOf(p) = r => proposal[p] = "none"
      BY <2>3 DEF RowsOfCommitted
    <3> QED BY <3>1, <3>2, <3>3, <1>0 DEF ProposalStep
  <2> QED BY <2>1, <2>2, <2>3 DEF CommitOnce
<1>2. ASSUME NEW q \in Clicks, Dismiss(q) PROVE ProposalStep
  <2>1. click[q].proposal \in Proposals
    BY <1>2 DEF Dismiss, ClicksAimed
  <2> QED BY <1>0, <1>2, <2>1 DEF Dismiss, ProposalStep
<1>3. ASSUME NEW q \in Clicks, Record(q) PROVE ProposalStep
  <2>1. click[q].proposal \in Proposals /\ click[q].outcome \in {"executed", "failed"}
    BY <1>3 DEF Record, ClicksAimed
  <2> QED BY <1>0, <1>3, <2>1 DEF Record, RecordOutcome, ProposalStep
<1>4. ASSUME UNCHANGED proposal PROVE ProposalStep
  BY <1>0, <1>4 DEF ProposalStep
<1>5. \/ \E r \in Turns : CommitTurn(r)
      \/ \E q \in Clicks : Dismiss(q) \/ Record(q)
      \/ UNCHANGED proposal
  BY DEF Next, AskTurn, FindCycle, ReadRow, StartCycle, ApplyCycle, Retry, Crash, TransitionCycle,
         SetCycleStatus, IngestSession, LearnerStartsCycle, Click, ExecuteOther,
         ExecuteMemory, LearnerEdits, turnVars
<1> QED BY <1>1, <1>2, <1>3, <1>4, <1>5

\* The requests that resolve a proposal, in every step.
LEMMA ClicksStep ==
  ASSUME TurnInv, Next
  PROVE  click' \in [Clicks -> Resolving] /\ ClicksAimed' /\ reviews' \subseteq Proposals
<1> USE DEF TurnInv
<1> DEFINE Goal == click' \in [Clicks -> Resolving] /\ ClicksAimed' /\ reviews' \subseteq Proposals
<1>0. /\ click \in [Clicks -> Resolving] /\ reviews \subseteq Proposals
      /\ NoClick \in Resolving /\ NoClick.pc = "idle"
  BY DEF Types, NoClick, Resolving
<1>1. ASSUME NEW q \in Clicks, NEW p \in Proposals, NEW d \in {"confirm", "dismiss"}, Click(q, p, d)
      PROVE  Goal
  <2> DEFINE new == [pc |-> d, proposal |-> p, outcome |-> Nil]
  <2>1. new \in Resolving /\ new.pc # "idle" /\ new.pc # "record" /\ new.proposal = p
    BY DEF Resolving
  <2>2. click' = [click EXCEPT ![q] = new] /\ UNCHANGED reviews
    BY <1>1 DEF Click, turnVars
  <2> HIDE DEF new
  <2> QED BY <1>0, <2>1, <2>2 DEF ClicksAimed
<1>2. ASSUME NEW q \in Clicks, Dismiss(q) \/ Record(q) PROVE Goal
  <2>1. click' = [click EXCEPT ![q] = NoClick] /\ UNCHANGED reviews
    BY <1>2 DEF Dismiss, Record
  <2> QED BY <1>0, <2>1 DEF ClicksAimed
<1>3. ASSUME NEW q \in Clicks, ExecuteOther(q) \/ \E m \in Memories : ExecuteMemory(q, m)
      PROVE  Goal
  <2>1. PICK outcome \in {"executed", "failed"} :
          click' = [click EXCEPT ![q] = [@ EXCEPT !.pc = "record", !.outcome = outcome]]
    BY <1>3 DEF ExecuteOther, ExecuteMemory, Effected
  <2>2. click[q].proposal \in Proposals /\ reviews' \subseteq reviews \cup {click[q].proposal}
    BY <1>3 DEF ExecuteOther, ExecuteMemory, ClicksAimed, turnVars
  <2> DEFINE new == [click[q] EXCEPT !.pc = "record", !.outcome = outcome]
  <2>3. /\ new \in Resolving /\ new.pc = "record" /\ new.outcome = outcome
        /\ new.proposal = click[q].proposal
    BY <1>0 DEF Resolving
  <2>4. click' = [click EXCEPT ![q] = new]
    BY <2>1
  <2> HIDE DEF new
  <2> QED BY <1>0, <2>2, <2>3, <2>4 DEF ClicksAimed
<1>4. ASSUME Crash PROVE Goal
  BY <1>0, <1>4 DEF Crash, turnVars, ClicksAimed
<1>5. ASSUME UNCHANGED <<click, reviews>> PROVE Goal
  BY <1>0, <1>5 DEF ClicksAimed
<1>6. \/ \E q \in Clicks :
           \/ \E p \in Proposals, d \in {"confirm", "dismiss"} : Click(q, p, d)
           \/ Dismiss(q) \/ Record(q) \/ ExecuteOther(q)
           \/ \E m \in Memories : ExecuteMemory(q, m)
      \/ Crash \/ UNCHANGED <<click, reviews>>
  BY DEF Next, AskTurn, CommitTurn, FindCycle, ReadRow, StartCycle, ApplyCycle, Retry, TransitionCycle,
         SetCycleStatus, IngestSession, LearnerStartsCycle, LearnerEdits, turnVars
<1> QED BY <1>1, <1>2, <1>3, <1>4, <1>5, <1>6

-----------------------------------------------------------------------------
\* What is committed stays, and a thread's turns are counted as they come.
LEMMA CountsStep ==
  ASSUME Types, Counted, StagesEarned, PolicyEarned, CommitStep
  PROVE  /\ committed' \in [Turns -> Statuses \cup {Nil}]
         /\ state' \in [Threads -> [revision : Nat, taught : [hint : Nat, stage : Stages]]]
         /\ Counted' /\ StagesEarned'
         /\ \A t \in Threads : Judged(t) => Judged(t)'
         /\ \A r \in Turns : committed[r] # Nil => committed'[r] = committed[r]
<1>0. /\ committed \in [Turns -> Statuses \cup {Nil}]
      /\ state \in [Threads -> [revision : Nat, taught : [hint : Nat, stage : Stages]]]
  BY DEF Types
<1>1. CASE UNCHANGED <<committed, state>>
  BY <1>0, <1>1 DEF Counted, StagesEarned, Judged, CommittedAs
<1>2. ASSUME NEW r \in Turns, NEW status \in Statuses,
             committed[r] = Nil, persist[r].pc # "ask",
             status \in Permitted(persist[r].policy, Asks[r].kind),
             committed' = [committed EXCEPT ![r] = status],
             state' = [state EXCEPT ![ThreadOf[r]] =
               [revision |-> state[ThreadOf[r]].revision + 1,
                taught |-> Learned(state[ThreadOf[r]].taught, Asks[r].kind, status)]]
      PROVE  /\ committed' \in [Turns -> Statuses \cup {Nil}]
             /\ state' \in [Threads -> [revision : Nat, taught : [hint : Nat, stage : Stages]]]
             /\ Counted' /\ StagesEarned'
             /\ \A t \in Threads : Judged(t) => Judged(t)'
             /\ \A o \in Turns : committed[o] # Nil => committed'[o] = committed[o]
  <2> DEFINE t0 == ThreadOf[r]
             taught == Learned(state[t0].taught, Asks[r].kind, status)
             new == [revision |-> state[t0].revision + 1, taught |-> taught]
  <2>1. t0 \in Threads /\ state[t0].taught \in [hint : Nat, stage : Stages]
        /\ state[t0].revision \in Nat
    BY <1>0, TutorAssumption
  <2>2. taught \in [hint : Nat, stage : Stages]
    BY <2>1, LearnedIs
  <2>3. new \in [revision : Nat, taught : [hint : Nat, stage : Stages]]
    <3> HIDE DEF taught
    <3> QED BY <2>1, <2>2
  <2>4. /\ committed' \in [Turns -> Statuses \cup {Nil}] /\ committed'[r] = status
        /\ \A o \in Turns \ {r} : committed'[o] = committed[o]
        /\ state' \in [Threads -> [revision : Nat, taught : [hint : Nat, stage : Stages]]]
        /\ state'[t0] = new /\ \A t \in Threads \ {t0} : state'[t] = state[t]
    <3>1. state' = [state EXCEPT ![t0] = new]
      BY <1>2
    <3> HIDE DEF new, t0
    <3> QED BY <1>0, <1>2, <2>1, <2>3, <3>1
  <2>5. \A S : Nil \notin S =>
          /\ CommittedAs(t0, S)' = IF status \in S THEN CommittedAs(t0, S) \cup {r} ELSE CommittedAs(t0, S)
          /\ r \notin CommittedAs(t0, S)
          /\ \A t \in Threads \ {t0} : CommittedAs(t, S)' = CommittedAs(t, S)
    BY <1>2, <2>4 DEF CommittedAs
  <2>6. Nil \notin Statuses /\ Nil \notin {"withheld"} /\ "withheld" \in Statuses
    BY TutorAssumption DEF Statuses
  <2>7. \A t \in Threads : Judged(t) => Judged(t)'
    <3> SUFFICES ASSUME NEW t \in Threads, NEW o \in CommittedAs(t, Statuses),
                        committed[o] = "unverified" \/ Asks[o].said \in Helped
                 PROVE  \E u \in CommittedAs(t, Statuses)' :
                          committed'[u] = "unverified" \/ Asks[u].said \in Helped
      BY DEF Judged
    <3>1. o \in Turns /\ o # r /\ ThreadOf[o] = t /\ committed[o] \in Statuses
      BY <1>2, <2>6 DEF CommittedAs
    <3>2. o \in CommittedAs(t, Statuses)' /\ committed'[o] = committed[o]
      BY <3>1, <2>4 DEF CommittedAs
    <3> QED BY <3>2
  <2>8. Counted'
    <3> SUFFICES ASSUME NEW t \in Threads
                 PROVE  /\ IsFiniteSet(CommittedAs(t, Statuses)')
                        /\ state'[t].revision = Cardinality(CommittedAs(t, Statuses)')
                        /\ state'[t].taught.hint = LeastOf(3, Cardinality(CommittedAs(t, {"withheld"})'))
      BY DEF Counted
    <3>1. CASE t # t0
      <4>1. /\ CommittedAs(t, Statuses)' = CommittedAs(t, Statuses)
            /\ CommittedAs(t, {"withheld"})' = CommittedAs(t, {"withheld"})
        BY <2>5, <2>6, <3>1
      <4>2. state'[t] = state[t]
        BY <2>4, <3>1
      <4>3. /\ IsFiniteSet(CommittedAs(t, Statuses))
            /\ state[t].revision = Cardinality(CommittedAs(t, Statuses))
            /\ state[t].taught.hint = LeastOf(3, Cardinality(CommittedAs(t, {"withheld"})))
        BY DEF Counted
      <4> HIDE DEF t0
      <4> QED BY <4>1, <4>2, <4>3
    <3>2. CASE t = t0
      <4> DEFINE A == CommittedAs(t0, Statuses)
                 W == CommittedAs(t0, {"withheld"})
      <4>1. /\ IsFiniteSet(A) /\ state[t0].revision = Cardinality(A)
            /\ state[t0].taught.hint = LeastOf(3, Cardinality(W))
        BY <2>1 DEF Counted
      <4>2. W \subseteq A
        BY <2>6 DEF CommittedAs
      <4>3. IsFiniteSet(W) /\ Cardinality(W) \in Nat /\ Cardinality(A) \in Nat
        BY <4>1, <4>2, FS_Subset, FS_CardinalityType
      <4>4. /\ A' = A \cup {r} /\ r \notin A /\ r \notin W
            /\ W' = IF status = "withheld" THEN W \cup {r} ELSE W
        BY <2>5, <2>6
      <4> HIDE DEF A, W
      <4>5. /\ IsFiniteSet(A') /\ Cardinality(A') = Cardinality(A) + 1
            /\ Cardinality(W') = IF status = "withheld" THEN Cardinality(W) + 1 ELSE Cardinality(W)
        BY <4>1, <4>3, <4>4, FS_AddElement
      <4>6. taught.hint = IF status = "withheld" THEN LeastOf(3, state[t0].taught.hint + 1)
                          ELSE state[t0].taught.hint
        BY DEF Learned
      <4>7. taught.hint = LeastOf(3, Cardinality(W'))
        <5> HIDE DEF taught
        <5> QED BY <4>1, <4>3, <4>5, <4>6 DEF LeastOf
      <4>8. state'[t].revision = Cardinality(A') /\ state'[t].taught.hint = taught.hint
        <5> HIDE DEF taught
        <5> QED BY <2>4, <3>2, <4>1, <4>5
      <4> QED BY <3>2, <4>5, <4>7, <4>8 DEF A, W
    <3> QED BY <3>1, <3>2
  <2>9. StagesEarned'
    <3> SUFFICES ASSUME NEW t \in Threads, state'[t].taught.stage \in {"attempted", "reviewed"}
                 PROVE  Judged(t)'
      BY DEF StagesEarned
    <3>1. CASE t # t0
      BY <2>4, <2>7, <3>1 DEF StagesEarned
    <3>2. CASE t = t0
      <4>1. r \in CommittedAs(t0, Statuses)'
        BY <2>4 DEF CommittedAs
      <4>2. taught.stage = StageAfter(state[t0].taught.stage, Asks[r].kind, status)
            /\ state'[t].taught.stage = taught.stage
        BY <2>4, <3>2 DEF Learned
      <4>3. CASE status = "unverified"
        BY <2>4, <4>1, <4>3, <3>2 DEF Judged
      <4>4. CASE status = "verified"
        <5>1. persist[r].policy \in {"review_allowed", "explicit_reveal", "not_applicable"}
          BY <1>2, <4>4 DEF PolicyEarned, Policies, Permitted
        <5>2. Asks[r].said \in Helped \/ Judged(t0)
          BY <1>2, <5>1 DEF PolicyEarned
        <5> QED BY <2>1, <2>7, <3>2, <4>1, <5>2 DEF Judged
      <4>5. CASE status \notin {"verified", "unverified"}
        <5>1. state[t0].taught.stage \in {"attempted", "reviewed"}
          BY <4>2, <4>5 DEF StageAfter
        <5> QED BY <5>1, <2>1, <2>7, <3>2 DEF StagesEarned
      <4> QED BY <4>3, <4>4, <4>5
    <3> QED BY <3>1, <3>2
  <2>10. \A o \in Turns : committed[o] # Nil => committed'[o] = committed[o]
    BY <1>2, <2>4
  <2> QED BY <2>4, <2>7, <2>8, <2>9, <2>10
<1> QED BY <1>1, <1>2 DEF CommitStep

\* The parts about teaching cycles, from what a step does to a cycle and to a run.
LEMMA CyclesKept ==
  ASSUME TurnInv, CycleStep, PersistStep
  PROVE  cycle' \in [Cycles -> Cycle \cup {Nil}] /\ Answered' /\ CycleRead' /\ OneEach'
<1> USE DEF TurnInv
<1>0. cycle \in [Cycles -> Cycle \cup {Nil}]
  BY DEF Types
<1>1. cycle' \in [Cycles -> Cycle \cup {Nil}]
  BY <1>0, NewCycleIs DEF CycleStep
<1>2. Answered'
  <2> SUFFICES ASSUME NEW r \in Turns, persist'[r].pc \in {"observe", "read", "start", "apply"}
               PROVE  persist'[r].answer \in Statuses /\ Aim(r, persist'[r].answer) \in Phases
    BY DEF Answered, AimOf
  <2>1. persist[r].pc \in {"observe", "read", "start", "apply"} =>
          persist[r].answer \in Statuses /\ Aim(r, persist[r].answer) \in Phases
    BY DEF Answered, AimOf
  <2>2. Aim(r, persist'[r].answer) \in Phases \cup {"none"}
    BY PhaseIs DEF Aim
  <2>3. RunStep(r)
    BY DEF PersistStep
  <2> QED BY <2>1, <2>2, <2>3 DEF RunStep
<1>3. ASSUME NEW c \in Cycles, cycle[c] # Nil
      PROVE  /\ cycle'[c] # Nil /\ cycle[c].revision \in Nat
             /\ \/ cycle'[c] = cycle[c]
                \/ cycle'[c].revision = cycle[c].revision + 1
  <2>1. cycle[c].revision \in Nat
    BY <1>3, RowIs
  <2> QED BY <1>0, <1>3, <2>1, TutorAssumption DEF CycleStep
<1>4. CycleRead'
  <2> SUFFICES ASSUME NEW r \in Turns, persist'[r].pc \in {"read", "apply"}
               PROVE  persist'[r].cycle \in Cycles /\ cycle'[persist'[r].cycle] # Nil
    BY DEF CycleRead
  <2>1. /\ persist'[r].cycle \in Cycles /\ cycle[persist'[r].cycle] # Nil
    BY DEF PersistStep, RunStep, CycleRead
  <2> QED BY <1>3, <2>1
<1>5. OneEach'
  <2> SUFFICES ASSUME NEW t \in Threads, NEW c \in Unfinished(t)', NEW d \in Unfinished(t)', c # d
               PROVE  FALSE
    BY DEF OneEach
  <2>1. /\ c \in Cycles /\ d \in Cycles /\ cycle'[c] # Nil /\ cycle'[d] # Nil
        /\ cycle'[c].thread = t /\ cycle'[d].thread = t
        /\ cycle'[c].status \in {"active", "paused"} /\ cycle'[d].status \in {"active", "paused"}
    BY DEF Unfinished
  <2>2. CASE UNCHANGED cycle
    BY <2>1, <2>2 DEF OneEach, Unfinished
  <2>3. ASSUME NEW e \in Cycles, NEW u \in Threads, NEW phase \in Phases,
               cycle[e] = Nil, Unfinished(u) = {}, cycle' = [cycle EXCEPT ![e] = NewCycle(u, phase)]
        PROVE  FALSE
    <3>1. \A o \in Cycles \ {e} : cycle'[o] = cycle[o]
      BY <1>0, <2>3
    <3>2. cycle'[e].thread = u
      BY <1>0, <2>3, NewCycleIs
    <3>3. CASE e \notin {c, d}
      BY <2>1, <3>1, <3>3 DEF OneEach, Unfinished
    <3>4. CASE e \in {c, d}
      BY <2>1, <2>3, <3>1, <3>2, <3>4 DEF Unfinished
    <3> QED BY <3>3, <3>4
  <2>4. ASSUME NEW e \in Cycles, NEW new \in Cycle,
               cycle[e] # Nil, cycle' = [cycle EXCEPT ![e] = new], new.thread = cycle[e].thread,
               cycle[e].status \in {"active", "paused"} \/ new.status = cycle[e].status
        PROVE  FALSE
    <3>1. /\ cycle'[e] = new /\ \A o \in Cycles \ {e} : cycle'[o] = cycle[o]
      BY <1>0, <2>4
    <3>2. c \in Unfinished(t) /\ d \in Unfinished(t)
      BY <2>1, <2>4, <3>1 DEF Unfinished
    <3> QED BY <3>2 DEF OneEach
  <2> QED BY <2>2, <2>3, <2>4 DEF CycleStep
<1> QED BY <1>1, <1>2, <1>4, <1>5

\* A run goes on with a policy that was earned when it was asked.
LEMMA PoliciesKept ==
  ASSUME TurnInv, PersistStep, \A t \in Threads : Judged(t) => Judged(t)'
  PROVE  PolicyEarned'
<1> SUFFICES ASSUME NEW r \in Turns, persist'[r].pc # "ask"
             PROVE  /\ persist'[r].policy \in Policies
                    /\ persist'[r].policy \in {"review_allowed", "explicit_reveal", "not_applicable"} =>
                         Asks[r].said \in Helped \/ Judged(ThreadOf[r])'
  BY DEF PolicyEarned
<1>1. ThreadOf[r] \in Threads
  BY TutorAssumption
<1>2. persist[r].pc # "ask" =>
        /\ persist[r].policy \in Policies
        /\ persist[r].policy \in {"review_allowed", "explicit_reveal", "not_applicable"} =>
             Asks[r].said \in Helped \/ Judged(ThreadOf[r])
  BY DEF TurnInv, PolicyEarned
<1>3. CASE persist[r].pc = "ask"
  <2>1. persist'[r].policy = AnswerPolicy(Asks[r].said, state[ThreadOf[r]].taught.stage)
    BY <1>3 DEF PersistStep, RunStep
  <2>2. persist'[r].policy \in Policies
    BY <2>1, PolicyIs
  <2>3. ASSUME persist'[r].policy \in {"review_allowed", "explicit_reveal", "not_applicable"}
        PROVE  Asks[r].said \in Helped \/ state[ThreadOf[r]].taught.stage \in {"attempted", "reviewed"}
    BY <2>1, <2>3 DEF AnswerPolicy, Helped
  <2> QED BY <2>2, <2>3, <1>1 DEF TurnInv, StagesEarned
<1>4. CASE persist[r].pc # "ask"
  <2>1. persist'[r].policy = persist[r].policy
    BY <1>4 DEF PersistStep, RunStep
  <2> QED BY <2>1, <1>1, <1>2, <1>4
<1> QED BY <1>3, <1>4

\* The two halves together.
LEMMA TurnStep == ASSUME TurnInv, Next PROVE TurnInv'
<1>1. CycleStep /\ PersistStep /\ CommitStep /\ ProposalStep
  BY CyclesStep, PersistsStep, CommitsStep, ProposalsStep
<1>2. click' \in [Clicks -> Resolving] /\ ClicksAimed' /\ reviews' \subseteq Proposals
  BY ClicksStep
<1>3. /\ committed' \in [Turns -> Statuses \cup {Nil}]
      /\ state' \in [Threads -> [revision : Nat, taught : [hint : Nat, stage : Stages]]]
      /\ Counted' /\ StagesEarned'
      /\ \A t \in Threads : Judged(t) => Judged(t)'
      /\ \A r \in Turns : committed[r] # Nil => committed'[r] = committed[r]
  BY <1>1, CountsStep DEF TurnInv
<1>4. cycle' \in [Cycles -> Cycle \cup {Nil}] /\ Answered' /\ CycleRead' /\ OneEach'
  BY <1>1, CyclesKept
<1>5. PolicyEarned'
  BY <1>1, <1>3, PoliciesKept
<1>6. Types'
  BY <1>1, <1>2, <1>3, <1>4 DEF Types, PersistStep, ProposalStep
<1>7. RowsOfCommitted'
  <2> SUFFICES ASSUME NEW p \in Proposals, proposal'[p] # "none" PROVE committed'[TurnOf(p)] # Nil
    BY DEF RowsOfCommitted
  <2>1. TurnOf(p) \in Turns
    BY DEF Proposals, TurnOf
  <2>2. proposal[p] # "none" => committed[TurnOf(p)] # Nil
    BY DEF TurnInv, RowsOfCommitted
  <2> QED BY <1>1, <1>3, <2>1, <2>2 DEF ProposalStep
<1> QED BY <1>2, <1>3, <1>4, <1>5, <1>6, <1>7 DEF TurnInv

\* A memory is written by the learner, or by a confirmed proposal of a turn.
LEMMA MemoriesStep == ASSUME MemoryInv, TurnInv, Next PROVE MemoryInv'
<1>1. ASSUME UNCHANGED memVars PROVE MemoryInv'
  BY <1>1 DEF memVars, MemoryInv
<1>2. ASSUME MemoryNext PROVE MemoryInv'
  BY <1>2, MemoryStep
<1>3. ASSUME NEW q \in Clicks, NEW m \in Memories, ExecuteMemory(q, m) PROVE MemoryInv'
  <2> DEFINE o == Offer[TurnOf(click[q].proposal)]
  <2>1. TurnOf(click[q].proposal) \in Turns
    BY <1>3 DEF ExecuteMemory, TurnInv, ClicksAimed, Proposals, TurnOf
  <2>2. o.content \in Statements /\ o.key \in Keys
    BY <2>1, TutorAssumption
  <2>3. CreateMemory(m, o.content, o.key, "never", Nil, {}) \/ UNCHANGED memVars
    BY <1>3 DEF ExecuteMemory
  <2> HIDE DEF o
  <2>4. CASE CreateMemory(m, o.content, o.key, "never", Nil, {})
    <3>1. Nil \in Rows(memory) \cup {Nil} /\ {} \in SUBSET Rows(memory)
      OBVIOUS
    <3>2. "never" \in {"never", "later"}
      OBVIOUS
    <3> QED BY <2>2, <2>4, <3>1, <3>2, CreateMemoryStep
  <2> QED BY <1>1, <2>3, <2>4
<1>4. \/ \E q \in Clicks, m \in Memories : ExecuteMemory(q, m)
      \/ MemoryNext \/ UNCHANGED memVars
  BY DEF Next, AskTurn, CommitTurn, FindCycle, ReadRow, StartCycle, ApplyCycle, Retry, Crash,
         TransitionCycle, SetCycleStatus, IngestSession, LearnerStartsCycle, Click, Dismiss,
         ExecuteOther, Record, LearnerEdits
<1> QED BY <1>1, <1>2, <1>3, <1>4

\* The invariant, in every state.
LEMMA Invariant == Spec => []IInv
<1>1. Init => IInv
  BY MemoryStart, TurnStart DEF Init, IInv
<1>2. IInv /\ [Next]_vars => IInv'
  <2>1. ASSUME IInv, Next PROVE IInv'
    BY <2>1, MemoriesStep, TurnStep DEF IInv
  <2>2. ASSUME IInv, UNCHANGED vars PROVE IInv'
    <3>1. MemoryInv'
      BY <2>2 DEF IInv, MemoryInv, vars
    <3>2. Types' /\ ClicksAimed' /\ RowsOfCommitted'
      BY <2>2 DEF IInv, TurnInv, Types, ClicksAimed, RowsOfCommitted, vars
    <3>3. Answered' /\ CycleRead' /\ OneEach'
      BY <2>2 DEF IInv, TurnInv, Answered, AimOf, CycleRead, OneEach, Unfinished, vars
    <3>4. Counted' /\ StagesEarned' /\ PolicyEarned'
      BY <2>2 DEF IInv, TurnInv, Counted, StagesEarned, PolicyEarned, Judged, CommittedAs, vars
    <3> QED BY <3>1, <3>2, <3>3, <3>4 DEF IInv, TurnInv
  <2> QED BY <2>1, <2>2
<1> QED BY <1>1, <1>2, PTL DEF Spec

\* Two memories that contradict each other are offered to the tutor together only if
\* the learner kept both, and none while its conflict is undecided
\* (storage_learner.py): whatever is told, edited, decided, deleted and proposed.
THEOREM ConflictsHold == Spec => []ConflictsRespected
<1>1. IInv => ConflictsRespected
  BY MemoryImplies DEF IInv
<1> QED BY <1>1, Invariant, PTL

\* A thread has one unfinished teaching cycle at most (pedagogy.py), although turns
\* and the learner look for it in one transaction and start it in another.
THEOREM OneCycle == Spec => []OneUnfinishedCycle
<1>1. ASSUME IInv, NEW t \in Threads PROVE Cardinality(Unfinished(t)) <= 1
  <2>1. \A c, d \in Unfinished(t) : c = d
    BY <1>1 DEF IInv, TurnInv, OneEach
  <2>2. CASE Unfinished(t) = {}
    BY <2>2, FS_EmptySet
  <2>3. CASE Unfinished(t) # {}
    <3>1. PICK c : c \in Unfinished(t)
      BY <2>3
    <3>2. Unfinished(t) = {c}
      BY <2>1, <3>1
    <3> QED BY <3>2, FS_Singleton
  <2> QED BY <2>2, <2>3
<1>2. IInv => OneUnfinishedCycle
  BY <1>1 DEF OneUnfinishedCycle
<1> QED BY <1>2, Invariant, PTL

\* Every variable has its type, a turn counts once for the thread's learning state
\* however often it is persisted (tutor_state.py), an answer is settled only for a
\* learner who asked for it or tried, and a recommendation is a transition.
THEOREM TypeCorrect == Spec => []TypeOK
<1>1. ASSUME IInv PROVE TypeOK
  <2> USE <1>1 DEF IInv
  <2>1. MemoryTypeOK
    BY MemoryImplies
  <2>2. ASSUME NEW c \in Cycles, NEW known \in BOOLEAN, NEW e \in Estimates, cycle[c] # Nil
        PROVE  Recommended(cycle[c].phase, known, e) \subseteq Allowed[cycle[c].phase]
    <3>1. cycle[c].phase \in Phases
      BY <2>2, RowIs DEF TurnInv
    <3> QED BY <3>1 DEF Recommended, Allowed, Phases
  <2>3. ASSUME NEW t \in Threads PROVE Taught(t)
    <3>1. state[t].taught.stage = "reviewed" => Judged(t)
      BY DEF TurnInv, StagesEarned
    <3> QED BY <3>1 DEF TurnInv, Counted, Taught, Judged, Helped
  <2>4. ASSUME NEW p \in Proposals
        PROVE  /\ proposal[p] \in {"none", "pending", "executed", "failed", "dismissed"}
               /\ proposal[p] # "none" => committed[TurnOf(p)] # Nil
    BY DEF TurnInv, Types, RowsOfCommitted
  <2>5. reviews \subseteq Proposals /\ \A c \in Cycles : cycle[c] = Nil \/ cycle[c] \in Cycle
    BY DEF TurnInv, Types
  <2>6. ASSUME NEW r \in Turns
        PROVE  /\ persist[r].pc \in {"ask", "answer", "observe", "read", "start", "apply", "failed", "done"}
               /\ persist[r].pc \in {"read", "apply"} => cycle[persist[r].cycle] # Nil
    BY DEF TurnInv, Types, Persisting, CycleRead
  <2>7. \A q \in Clicks : click[q].pc \in {"idle", "confirm", "dismiss", "record"}
    BY DEF TurnInv, Types, Resolving
  <2> QED BY <2>1, <2>2, <2>3, <2>4, <2>5, <2>6, <2>7 DEF TypeOK
<1>2. IInv => TypeOK
  BY <1>1
<1> QED BY <1>2, Invariant, PTL

\* An executed or dismissed proposal keeps its status (tutor_state.py), and a
\* finished teaching cycle its status, phase and events (pedagogy.py); all it may
\* still get is one note of each turn that had looked for it before.
THEOREM Settled == Spec => SettledStays
<1>1. IInv /\ [Next]_vars =>
        [/\ \A p \in Proposals :
              proposal[p] \in {"executed", "dismissed"} => proposal'[p] = proposal[p]
         /\ \A c \in Cycles :
              cycle[c] # Nil /\ cycle[c].status \in {"completed", "cancelled"}
                => cycle'[c] = cycle[c] \/ \E r \in Turns : NotesItself(r, c)]_vars
  <2> SUFFICES ASSUME IInv, Next
               PROVE  /\ \A p \in Proposals :
                           proposal[p] \in {"executed", "dismissed"} => proposal'[p] = proposal[p]
                      /\ \A c \in Cycles :
                           cycle[c] # Nil /\ cycle[c].status \in {"completed", "cancelled"}
                             => cycle'[c] = cycle[c] \/ \E r \in Turns : NotesItself(r, c)
    OBVIOUS
  <2>1. CycleStep /\ ProposalStep
    BY CyclesStep, ProposalsStep DEF IInv
  <2>2. cycle \in [Cycles -> Cycle \cup {Nil}]
    BY DEF IInv, TurnInv, Types
  <2>3. \A p \in Proposals :
          proposal[p] \in {"executed", "dismissed"} => proposal'[p] = proposal[p]
    BY <2>1 DEF ProposalStep
  <2>4. ASSUME NEW c \in Cycles, cycle[c] # Nil, cycle[c].status \in {"completed", "cancelled"}
        PROVE  cycle'[c] = cycle[c] \/ \E r \in Turns : NotesItself(r, c)
    BY <2>1, <2>2, <2>4 DEF CycleStep
  <2> QED BY <2>3, <2>4
<1> QED BY <1>1, Invariant, PTL DEF Spec, SettledStays
=============================================================================
