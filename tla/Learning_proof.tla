---------------------------- MODULE Learning_proof ----------------------------
(***************************************************************************)
(* Proofs about what is kept of the learner's learning beside Sessions and *)
(* dialogue: the word list (Vocabulary), for every number of words,        *)
(* spellings and overlapping requests, and the learner model with the      *)
(* review queue (StudyPlan), for every number of Sessions, questions,      *)
(* skills, objectives and overlapping requests.                            *)
(***************************************************************************)
EXTENDS StudyPlan, Vocabulary, TLAPS

(***************************************************************************)
(* The word list: its invariant                                             *)
(***************************************************************************)
\* What is in the tables: a row under its own item_id, a card for a word only, and
\* no streak longer than the word was recalled.
WordTables ==
  /\ words \in [ItemIds -> Word \cup {None}] /\ card \in [ItemIds -> Card \cup {None}]
  /\ \A i \in ItemIds : words[i] # None => Item[words[i].word] = i
  /\ \A i \in ItemIds : card[i] # None => words[i] # None
  /\ recalls \in [ItemIds -> Nat]
  /\ \A i \in ItemIds : words[i] # None => words[i].streak <= recalls[i]

\* What a request holds: the row it found, which may have changed since, or the card
\* it is to write, which it may write over a card that was lacking when it looked.
Holding(r) ==
  \/ /\ r.pc \in {"add", "ingest"} /\ r.on \in Spellings
     /\ r.found # None => r.found \in Word
     /\ r.pc = "ingest" /\ r.found # None => r.found.status \notin Settled
  \/ /\ r.pc = "review" /\ r.on \in ItemIds
     /\ r.found \in Word /\ r.found.streak <= recalls[r.on]
  \/ /\ r.pc \in {"model", "look", "insert", "update"} /\ r.on \in ItemIds
     /\ r.with \in Card
     /\ r.with.source = "model" \/ Lacking(r.found)

Writing ==
  /\ DOMAIN writer = Writers
  /\ \A q \in Writers : writer[q] = Resting \/ Holding(writer[q])

WordsInv == WordTables /\ Writing

(***************************************************************************)
(* The word list: its tables                                               *)
(***************************************************************************)
\* A word that has its row, with a streak that was earned, is put into the list.
LEMMA WordPut ==
  ASSUME WordTables, NEW i \in ItemIds, NEW new \in Word, Item[new.word] = i,
         new.streak <= recalls[i], words' = [words EXCEPT ![i] = new], UNCHANGED <<card, recalls>>
  PROVE  WordTables'
<1>1. words' \in [ItemIds -> Word \cup {None}] /\ words'[i] = new
      /\ \A j \in ItemIds \ {i} : words'[j] = words[j]
  BY DEF WordTables
<1>2. new # None
  BY ItemsAssumption
<1> QED BY <1>1, <1>2 DEF WordTables

\* The row of a word that is in the list.
LEMMA RowIs ==
  ASSUME WordTables, NEW i \in ItemIds, words[i] # None
  PROVE  words[i] \in Word /\ Item[words[i].word] = i /\ words[i].streak <= recalls[i]
BY DEF WordTables

\* A new word starts the ladder at its foot.
LEMMA NewWordIs ==
  ASSUME NEW w \in Spellings, NEW status \in Statuses, NEW source \in {"learner", "dialogue"}
  PROVE  LET new == NewWord(w, status, source)
         IN /\ new \in Word /\ new.word = w /\ new.streak = 0 /\ new.status = status
<1> DEFINE n == 0
<1>1. n \in Nat
  OBVIOUS
<1>2. NewWord(w, status, source) =
        [word |-> w, status |-> status, source |-> source, streak |-> n, due |-> n]
  BY DEF NewWord
<1> HIDE DEF n
<1>3. NewWord(w, status, source) \in Word /\ NewWord(w, status, source).word = w
      /\ NewWord(w, status, source).streak = n /\ NewWord(w, status, source).status = status
  BY <1>1, <1>2 DEF Word
<1> QED BY <1>3 DEF n

\* What adding and teaching write: a new word, a changed row, or nothing.
LEMMA StoredKeeps ==
  ASSUME WordTables, NEW w \in Spellings, NEW found, NEW new \in Word, NEW changed,
         new.word = w, new.streak = 0,
         words[Item[w]] # None => /\ changed \in Word /\ changed.word = words[Item[w]].word
                                 /\ changed.streak = words[Item[w]].streak,
         Stored(Item[w], found, new, changed), UNCHANGED <<card, recalls>>
  PROVE  WordTables'
<1>1. Item[w] \in ItemIds /\ recalls[Item[w]] \in Nat
  BY ItemsAssumption DEF WordTables
<1>2. CASE words[Item[w]] # None /\ words' = [words EXCEPT ![Item[w]] = changed]
  BY <1>1, <1>2, RowIs, WordPut
<1>3. CASE words' = [words EXCEPT ![Item[w]] = new]
  <2>1. Item[new.word] = Item[w] /\ new.streak <= recalls[Item[w]]
    BY <1>1
  <2> QED BY <1>1, <1>3, <2>1, WordPut
<1>4. CASE words' = words
  BY <1>4 DEF WordTables
<1> QED BY <1>2, <1>3, <1>4 DEF Stored

\* A row the tutor has taught keeps its spelling and its streak.
LEMMA TaughtIs ==
  ASSUME NEW row \in Word, NEW status \in Statuses
  PROVE  LET taught == [row EXCEPT !.status = status, !.source = "dialogue"]
         IN  taught \in Word /\ taught.word = row.word /\ taught.streak = row.streak
BY DEF Word

\* The place of a word on the ladder is a number of days.
LEMMA DaysAre == ASSUME NEW n \in Nat PROVE Days(n) \in Nat
<1>1. CASE n = 0
  BY <1>1 DEF Days
<1>2. CASE n # 0
  <2>1. Len(Ladder) = 7 /\ \A k \in 1..7 : Ladder[k] \in Nat
    BY DEF Ladder
  <2>2. Least(n, 7) \in 1..7
    BY <1>2 DEF Least
  <2> QED BY <1>2, <2>1, <2>2 DEF Days
<1> QED BY <1>1, <1>2

\* A spelling that was found is the one its row is kept under.
LEMMA FoundIs ==
  ASSUME WordTables, NEW w \in Spellings
  PROVE  /\ Item[w] \in ItemIds
         /\ Found(w) # None => Found(w) = words[Item[w]] /\ words[Item[w]] # None /\ Found(w) \in Word
BY ItemsAssumption DEF WordTables, Found

(***************************************************************************)
(* The word list: its requests                                             *)
(***************************************************************************)
\* No request at all is idle.
LEMMA RestingIs == Resting.pc = "idle" /\ ~Holding(Resting)
BY DEF Resting, Holding

\* A request put in the place of one, while words are recalled or not.
LEMMA WriterPut ==
  ASSUME Writing, NEW q \in Writers, NEW r, r = Resting \/ Holding(r),
         writer' = [writer EXCEPT ![q] = r], UNCHANGED recalls
  PROVE  Writing'
<1>1. DOMAIN writer' = Writers /\ writer'[q] = r
      /\ \A o \in Writers \ {q} : writer'[o] = writer[o]
  BY DEF Writing
<1> QED BY <1>1 DEF Writing, Holding

\* The answer of a review, which may recall its word.
LEMMA ReviewKeeps ==
  ASSUME WordTables, Writing, NEW q \in Writers, NEW recalled \in BOOLEAN, WriteReview(q, recalled)
  PROVE  WordTables' /\ Writing'
<1> DEFINE i == writer[q].on
           n == Streak(writer[q].found.streak, recalled)
<1>1. /\ writer[q].pc = "review" /\ i \in ItemIds /\ writer[q].found.streak \in Nat
      /\ writer[q].found.streak <= recalls[i] /\ recalls[i] \in Nat
  BY RestingIs DEF WriteReview, Writing, Holding, Word, WordTables
<1>2. /\ recalls' \in [ItemIds -> Nat] /\ \A j \in ItemIds : recalls[j] <= recalls'[j]
      /\ recalls'[i] = IF recalled THEN recalls[i] + 1 ELSE recalls[i]
      /\ \A j \in ItemIds \ {i} : recalls'[j] = recalls[j]
  BY <1>1 DEF WriteReview, WordTables
<1>3. n \in Nat /\ n <= recalls'[i]
  <2>1. CASE recalled
    BY <1>1, <1>2, <2>1 DEF Streak
  <2>2. CASE ~recalled
    BY <1>1, <1>2, <2>2 DEF Streak
  <2> QED BY <2>1, <2>2
<1>4. Writing'
  <2>1. DOMAIN writer' = Writers /\ writer'[q] = Resting
        /\ \A o \in Writers \ {q} : writer'[o] = writer[o]
    BY DEF WriteReview, Leave, Writing
  <2>2. ASSUME NEW o \in Writers \ {q}, Holding(writer[o]) PROVE Holding(writer[o])'
    <3>1. writer'[o] = writer[o]
      BY <2>1
    <3>2. CASE writer[o].pc = "review"
      <4>1. writer[o].on \in ItemIds /\ writer[o].found.streak \in Nat
        BY <2>2, <3>2 DEF Holding, Word
      <4>2. recalls[writer[o].on] \in Nat /\ recalls'[writer[o].on] \in Nat
        BY <1>2, <4>1 DEF WordTables
      <4> QED BY <1>2, <2>2, <3>1, <3>2, <4>1, <4>2 DEF Holding
    <3>3. CASE writer[o].pc # "review"
      BY <2>2, <3>1, <3>3 DEF Holding
    <3> QED BY <3>2, <3>3
  <2> QED BY <2>1, <2>2 DEF Writing
<1>5. CASE words[i] = None
  <2>1. UNCHANGED <<words, card>>
    BY <1>5 DEF WriteReview
  <2>2. \A j \in ItemIds : words[j] # None => words[j].streak \in Nat
    BY DEF WordTables, Word
  <2> QED BY <1>1, <1>2, <1>4, <1>5, <2>1, <2>2 DEF WordTables
<1>6. CASE words[i] # None
  <2> DEFINE d == Days(n)
             new == [words[i] EXCEPT !.streak = n, !.due = d]
  <2>1. words' = [words EXCEPT ![i] = new] /\ UNCHANGED card
    BY <1>6 DEF WriteReview, WordTables
  <2>2. d \in Nat
    BY <1>3, DaysAre
  <2> HIDE DEF d, n
  <2>3. new \in Word /\ new.word = words[i].word /\ new.streak = n
    BY <1>1, <1>3, <1>6, <2>2, RowIs DEF Word
  <2> HIDE DEF new
  <2>4. /\ words' \in [ItemIds -> Word \cup {None}] /\ words'[i] = new
        /\ \A j \in ItemIds \ {i} : words'[j] = words[j]
    BY <1>1, <2>1, <2>3 DEF WordTables
  <2>5. new # None
    BY <2>3, ItemsAssumption
  <2>6. Item[new.word] = i /\ new.streak <= recalls'[i]
    BY <1>1, <1>3, <1>6, <2>3, RowIs DEF n
  <2> QED BY <1>1, <1>2, <1>4, <1>6, <2>1, <2>3, <2>4, <2>5, <2>6 DEF WordTables
<1> QED BY <1>5, <1>6

\* A word added by the learner, or taught by a run.
LEMMA AddKeeps ==
  ASSUME WordTables, Writing, NEW q \in Writers, AddWord(q) \/ IngestWord(q)
  PROVE  WordTables' /\ Writing'
<1> DEFINE w == writer[q].on
           i == Item[w]
<1>1. w \in Spellings /\ UNCHANGED <<card, recalls>> /\ writer' = [writer EXCEPT ![q] = Resting]
  BY RestingIs DEF AddWord, IngestWord, Writing, Holding, Leave
<1>2. Writing'
  BY <1>1, WriterPut
<1>3. CASE AddWord(q)
  <2> DEFINE new == NewWord(w, "learning", "learner")
             changed == [words[i] EXCEPT !.source = "learner"]
  <2>1. Stored(i, writer[q].found, new, changed)
    BY <1>3 DEF AddWord
  <2>2. new \in Word /\ new.word = w /\ new.streak = 0
    BY <1>1, NewWordIs DEF Statuses
  <2>3. words[i] # None =>
          changed \in Word /\ changed.word = words[i].word /\ changed.streak = words[i].streak
    <3>1. i \in ItemIds
      BY <1>1, ItemsAssumption
    <3> HIDE DEF i
    <3> QED BY <3>1, RowIs DEF Word
  <2> HIDE DEF new, changed
  <2> QED BY <1>1, <1>2, <2>1, <2>2, <2>3, StoredKeeps
<1>4. CASE IngestWord(q)
  <2> DEFINE new == NewWord(w, "candidate", "dialogue")
             changed == [words[i] EXCEPT !.status = "candidate", !.source = "dialogue"]
  <2>1. Stored(i, writer[q].found, new, changed)
    BY <1>4 DEF IngestWord
  <2>2. new \in Word /\ new.word = w /\ new.streak = 0
    BY <1>1, NewWordIs DEF Statuses
  <2>3. words[i] # None =>
          changed \in Word /\ changed.word = words[i].word /\ changed.streak = words[i].streak
    <3>1. i \in ItemIds
      BY <1>1, ItemsAssumption
    <3> HIDE DEF i
    <3>2. "candidate" \in Statuses
      BY DEF Statuses
    <3> QED BY <3>1, <3>2, RowIs, TaughtIs
  <2> HIDE DEF new, changed
  <2> QED BY <1>1, <1>2, <2>1, <2>2, <2>3, StoredKeeps
<1> QED BY <1>3, <1>4

\* record_typing_mistake brings a word back to be learnt, and leaves its spelling and streak.
LEMMA MistypedIs ==
  ASSUME NEW row \in Word
  PROVE  /\ Mistyped(row) \in Word
         /\ Mistyped(row).word = row.word /\ Mistyped(row).streak = row.streak
<1> DEFINE due == 1
           status == IF row.status \in {"mastered", "known"} THEN "learning" ELSE row.status
<1>1. due \in Nat /\ status \in Statuses
  BY DEF Word, Statuses
<1>2. Mistyped(row) = [row EXCEPT !.due = due, !.status = status]
  BY DEF Mistyped
<1> HIDE DEF due, status
<1> QED BY <1>1, <1>2 DEF Word

\* What a single transaction does to a word: nothing but its status or its day changes,
\* or it is undone, and its card with it.
LEMMA ChangeKeeps ==
  ASSUME WordTables, Writing, NEW i \in ItemIds,
         \/ Undo(i) \/ \E status \in Statuses : SetStatus(i, status)
         \/ \E days \in {3} : Schedule(i, days)
         \/ \E w \in Spellings : Item[w] = i /\ TypingMistake(w)
  PROVE  WordTables' /\ Writing'
<1>1. UNCHANGED <<writer, recalls>>
  BY DEF Undo, SetStatus, Schedule, TypingMistake
<1>2. Writing'
  BY <1>1 DEF Writing, Holding
<1>3. CASE Undo(i)
  <2>1. /\ words' \in [ItemIds -> Word \cup {None}] /\ words'[i] = None
        /\ card' \in [ItemIds -> Card \cup {None}] /\ card'[i] = None
        /\ \A j \in ItemIds \ {i} : words'[j] = words[j] /\ card'[j] = card[j]
    BY <1>3 DEF Undo, CardGone, WordTables
  <2> QED BY <1>1, <1>2, <2>1 DEF WordTables
<1>4. ASSUME NEW new \in Word, words[i] # None, words' = [words EXCEPT ![i] = new], UNCHANGED card,
             new.word = words[i].word, new.streak = words[i].streak
      PROVE  WordTables'
  <2>1. Item[new.word] = i /\ new.streak <= recalls[i]
    BY <1>4, RowIs
  <2> QED BY <1>1, <1>4, <2>1, WordPut
<1>5. ASSUME NEW status \in Statuses, SetStatus(i, status) PROVE WordTables'
  <2> DEFINE new == [words[i] EXCEPT !.status = status]
  <2>1. words[i] # None /\ words' = [words EXCEPT ![i] = new] /\ UNCHANGED card
    BY <1>5 DEF SetStatus, WordTables
  <2>2. new \in Word /\ new.word = words[i].word /\ new.streak = words[i].streak
    BY <2>1, RowIs DEF Word
  <2> HIDE DEF new
  <2> QED BY <1>4, <2>1, <2>2
<1>6. ASSUME NEW days \in {3}, Schedule(i, days) PROVE WordTables'
  <2> DEFINE new == [words[i] EXCEPT !.due = days]
  <2>1. words[i] # None /\ words' = [words EXCEPT ![i] = new] /\ UNCHANGED card
    BY <1>6 DEF Schedule, WordTables
  <2>2. new \in Word /\ new.word = words[i].word /\ new.streak = words[i].streak
    BY <2>1, RowIs DEF Word
  <2> HIDE DEF new
  <2> QED BY <1>4, <2>1, <2>2
<1>7. ASSUME NEW w \in Spellings, Item[w] = i, TypingMistake(w) PROVE WordTables'
  <2>1. words[i] # None /\ words[i] \in Word
    BY <1>7, FoundIs DEF TypingMistake
  <2> DEFINE new == Mistyped(words[i])
  <2>2. words' = [words EXCEPT ![i] = new] /\ UNCHANGED card
    BY <1>7, <2>1 DEF TypingMistake, WordTables
  <2>3. new \in Word /\ new.word = words[i].word /\ new.streak = words[i].streak
    BY <2>1, MistypedIs
  <2> HIDE DEF new
  <2> QED BY <1>4, <2>1, <2>2, <2>3
<1> QED BY <1>2, <1>3, <1>5, <1>6, <1>7

\* What a request reads is what it may hold.
LEMMA ReadKeeps ==
  ASSUME WordTables, Writing, NEW q \in Writers,
         \/ \E w \in Spellings : ReadForAdd(q, w) \/ ReadForIngest(q, w)
         \/ \E i \in ItemIds : ReadWord(q, i) \/ OpenCard(q, i) \/ Enrich(q, i)
  PROVE  WordTables' /\ Writing'
<1>1. UNCHANGED <<words, card, recalls>>
  BY DEF ReadForAdd, ReadForIngest, ReadWord, OpenCard, Enrich
<1>2. WordTables'
  BY <1>1 DEF WordTables
<1>3. ASSUME NEW r, Holding(r), Enter(q, r) PROVE Writing'
  BY <1>1, <1>3, WriterPut DEF Enter
<1>4. ASSUME NEW w \in Spellings, ReadForAdd(q, w) PROVE Writing'
  <2> DEFINE found == Found(w)
             r == [pc |-> "add", on |-> w, found |-> found, with |-> None]
  <2>1. Enter(q, r)
    BY <1>4 DEF ReadForAdd
  <2>2. found # None => found \in Word
    BY FoundIs
  <2> HIDE DEF found
  <2>3. Holding(r)
    BY <2>2 DEF Holding
  <2> QED BY <1>3, <2>1, <2>3
<1>5. ASSUME NEW w \in Spellings, ReadForIngest(q, w) PROVE Writing'
  <2> DEFINE found == Found(w)
             r == [pc |-> "ingest", on |-> w, found |-> found, with |-> None]
  <2>1. Enter(q, r) /\ (found # None => found.status \notin Settled)
    BY <1>5 DEF ReadForIngest, Offers
  <2>2. found # None => found \in Word
    BY FoundIs
  <2> HIDE DEF found
  <2>3. Holding(r)
    BY <2>1, <2>2 DEF Holding
  <2> QED BY <1>3, <2>1, <2>3
<1>6. ASSUME NEW i \in ItemIds, ReadWord(q, i) PROVE Writing'
  <2> DEFINE found == words[i]
             r == [pc |-> "review", on |-> i, found |-> found, with |-> None]
  <2>1. Enter(q, r) /\ found # None
    BY <1>6 DEF ReadWord
  <2>2. found \in Word /\ found.streak <= recalls[i]
    BY <2>1, RowIs
  <2> HIDE DEF found
  <2>3. Holding(r)
    BY <2>2 DEF Holding
  <2> QED BY <1>3, <2>1, <2>3
<1>7. ASSUME NEW i \in ItemIds, OpenCard(q, i) PROVE Writing'
  <2> DEFINE found == card[i]
             source == IF found = None THEN "bundled" ELSE found.source
             with == [text |-> "bundled", source |-> source]
             r == [pc |-> "look", on |-> i, found |-> found, with |-> with]
  <2>1. Enter(q, r) /\ Lacking(found)
    BY <1>7 DEF OpenCard, Fills
  <2>2. source \in {"bundled", "model"}
    BY DEF WordTables, Card
  <2> HIDE DEF source, found
  <2>3. with \in Card
    BY <2>2 DEF Card
  <2> HIDE DEF with
  <2>4. Holding(r)
    BY <2>1, <2>3 DEF Holding
  <2> QED BY <1>3, <2>1, <2>4
<1>8. ASSUME NEW i \in ItemIds, Enrich(q, i) PROVE Writing'
  <2>1. PICK text \in {"model", "none"} :
          Enter(q, [pc |-> "model", on |-> i, found |-> None,
                    with |-> [text |-> text, source |-> "model"]])
    BY <1>8 DEF Enrich
  <2> DEFINE with == [text |-> text, source |-> "model"]
             r == [pc |-> "model", on |-> i, found |-> None, with |-> with]
  <2>2. with \in Card /\ with.source = "model"
    BY DEF Card
  <2> HIDE DEF with
  <2>3. Holding(r)
    BY <2>2 DEF Holding
  <2> QED BY <1>3, <2>1, <2>3 DEF with
<1> QED BY <1>2, <1>4, <1>5, <1>6, <1>7, <1>8

\* A card is written by who looked for its row.
LEMMA CardKeeps ==
  ASSUME WordTables, Writing, NEW q \in Writers, Answer(q) \/ LookForCard(q) \/ StoreCard(q)
  PROVE  WordTables' /\ Writing'
<1>1. /\ Holding(writer[q]) /\ writer[q].pc \in {"model", "look", "insert", "update"}
      /\ UNCHANGED <<words, recalls>>
  BY RestingIs DEF Answer, LookForCard, StoreCard, Writing
<1>2. writer[q].on \in ItemIds /\ writer[q].with \in Card
  BY <1>1 DEF Holding
<1>3. Writing'
  <2>1. CASE writer' = [writer EXCEPT ![q] = Resting]
    BY <1>1, <2>1, WriterPut
  <2>2. CASE \E pc \in {"look", "insert", "update"} : writer' = [writer EXCEPT ![q].pc = pc]
    <3>1. PICK pc \in {"look", "insert", "update"} : writer' = [writer EXCEPT ![q].pc = pc]
      BY <2>2
    <3>2. /\ DOMAIN writer' = Writers /\ \A o \in Writers \ {q} : writer'[o] = writer[o]
          /\ writer'[q] = [writer[q] EXCEPT !.pc = pc]
      BY <3>1 DEF Writing
    <3> QED BY <1>1, <3>1, <3>2 DEF Writing, Holding
  <2> QED BY <2>1, <2>2 DEF Answer, LookForCard, StoreCard, Leave
<1>4. WordTables'
  <2>1. CASE UNCHANGED card
    BY <1>1, <2>1 DEF WordTables
  <2>2. CASE card' # card
    <3>1. /\ card' = [card EXCEPT ![writer[q].on] = writer[q].with]
          /\ words[writer[q].on] # None
      BY <1>1, <1>2, <2>2 DEF Answer, LookForCard, StoreCard, WordTables
    <3> QED BY <1>1, <1>2, <3>1 DEF WordTables
  <2> QED BY <2>1, <2>2
<1> QED BY <1>3, <1>4

(***************************************************************************)
(* The word list: the theorems                                             *)
(***************************************************************************)
\* The list is empty, and nobody asks.
LEMMA WordsInvInit == WordsInit => WordsInv
BY DEF WordsInit, WordsInv, WordTables, Writing

\* Every step keeps the invariant.
LEMMA WordsInvStep == ASSUME WordsInv, [WordsNext]_wordVars PROVE WordsInv'
<1> USE DEF WordsInv
<1>1. ASSUME NEW i \in ItemIds,
             \/ Undo(i) \/ \E status \in Statuses : SetStatus(i, status)
             \/ \E days \in {3} : Schedule(i, days)
      PROVE  WordsInv'
  BY <1>1, ChangeKeeps
<1>2. ASSUME NEW w \in Spellings, TypingMistake(w) PROVE WordsInv'
  BY <1>2, FoundIs, ChangeKeeps
<1>3. ASSUME NEW q \in Writers,
             \/ \E w \in Spellings : ReadForAdd(q, w) \/ ReadForIngest(q, w)
             \/ \E i \in ItemIds : ReadWord(q, i) \/ OpenCard(q, i) \/ Enrich(q, i)
             \/ \E recalled \in BOOLEAN : WriteReview(q, recalled)
             \/ AddWord(q) \/ IngestWord(q) \/ Answer(q) \/ LookForCard(q) \/ StoreCard(q)
      PROVE  WordsInv'
  BY <1>3, ReadKeeps, ReviewKeeps, AddKeeps, CardKeeps
<1>4. CASE UNCHANGED wordVars
  BY <1>4 DEF wordVars, WordTables, Writing, Holding
<1> QED BY <1>1, <1>2, <1>3, <1>4 DEF WordsNext

\* The invariant holds in every state.
LEMMA WordsInvariant == WordsSpec => []WordsInv
<1>1. WordsInv /\ [WordsNext]_wordVars => WordsInv'
  BY WordsInvStep
<1> QED BY WordsInvInit, <1>1, PTL DEF WordsSpec

\* Whatever requests overlap (vocabulary.py), every word has a row of its own under its
\* item_id, and a card has a word.
THEOREM WordsTyped == WordsSpec => []WordsTypeOK
<1>1. WordsInv => WordsTypeOK
  BY DEF WordsInv, WordTables, WordsTypeOK
<1> QED BY <1>1, WordsInvariant, PTL

\* What the learner has settled stays so until the learner says otherwise.
LEMMA SettledStep ==
  ASSUME WordsInv, WordsNext, NEW i \in ItemIds
  PROVE  SettledKept(i)
<1> SUFFICES ASSUME words[i] # None, words[i].status \in Settled
             PROVE  /\ words'[i] # None
                    /\ \/ words'[i].status = words[i].status
                       \/ writer' = writer
                       \/ \E q \in Writers :
                            /\ writer[q].pc = "ingest" /\ writer'[q] = Resting
                            /\ writer[q].found # None => writer[q].found.status \notin Settled
  BY DEF SettledKept
<1>1. /\ words[i] \in Word /\ words' \in [ItemIds -> Word \cup {None}]
      /\ words \in [ItemIds -> Word \cup {None}] /\ None \notin Word /\ DOMAIN writer = Writers
  BY WordsInvStep, ItemsAssumption DEF WordsInv, WordTables, Writing
<1>2. ASSUME words' = words
      PROVE  words'[i] # None /\ words'[i].status = words[i].status
  BY <1>2
<1>3. ASSUME NEW j \in ItemIds,
             \/ Undo(j) \/ \E status \in Statuses : SetStatus(j, status)
             \/ \E days \in {3} : Schedule(j, days)
      PROVE  words'[i] # None /\ writer' = writer
  <2>1. CASE Undo(j)
    <3>1. i # j
      BY <2>1 DEF Undo, Settled
    <3> QED BY <1>1, <2>1, <3>1 DEF Undo
  <2>2. ASSUME NEW status \in Statuses, SetStatus(j, status) PROVE words'[i] # None /\ writer' = writer
    <3> DEFINE new == [words[j] EXCEPT !.status = status]
    <3>1. words[j] # None /\ words' = [words EXCEPT ![j] = new] /\ writer' = writer
      BY <1>1, <2>2 DEF SetStatus
    <3>2. new \in Word
      BY <1>1, <3>1 DEF Word
    <3> HIDE DEF new
    <3> QED BY <1>1, <3>1, <3>2
  <2>3. ASSUME NEW days \in {3}, Schedule(j, days) PROVE words'[i] # None /\ writer' = writer
    <3> DEFINE new == [words[j] EXCEPT !.due = days]
    <3>1. words[j] # None /\ words' = [words EXCEPT ![j] = new] /\ writer' = writer
      BY <1>1, <2>3 DEF Schedule
    <3>2. new \in Word
      BY <1>1, <3>1 DEF Word
    <3> HIDE DEF new
    <3> QED BY <1>1, <3>1, <3>2
  <2> QED BY <1>3, <2>1, <2>2, <2>3
<1>4. ASSUME NEW w \in Spellings, TypingMistake(w) PROVE words'[i] # None /\ writer' = writer
  <2> DEFINE j == Item[w]
             new == Mistyped(words[j])
  <2>1. j \in ItemIds /\ words[j] \in Word
    BY <1>4, FoundIs DEF TypingMistake, WordsInv
  <2>2. words' = [words EXCEPT ![j] = new] /\ writer' = writer
    BY <1>1, <1>4, <2>1 DEF TypingMistake
  <2>3. new \in Word
    BY <2>1, MistypedIs
  <2> HIDE DEF j, new
  <2> QED BY <1>1, <2>1, <2>2, <2>3
<1>5. ASSUME NEW q \in Writers, NEW recalled \in BOOLEAN, WriteReview(q, recalled)
      PROVE  words'[i] # None /\ words'[i].status = words[i].status
  <2> DEFINE j == writer[q].on
             n == Streak(writer[q].found.streak, recalled)
             d == Days(n)
             new == [words[j] EXCEPT !.streak = n, !.due = d]
  <2>1. CASE words[j] = None
    BY <1>2, <1>5, <2>1 DEF WriteReview
  <2>2. CASE words[j] # None
    <3>1. j \in ItemIds /\ writer[q].found.streak \in Nat
      BY <1>5, RestingIs DEF WriteReview, WordsInv, Writing, Holding, Word
    <3>2. n \in Nat /\ d \in Nat
      BY <3>1, DaysAre DEF Streak
    <3>3. words' = [words EXCEPT ![j] = new]
      BY <1>1, <1>5, <2>2, <3>1 DEF WriteReview
    <3> HIDE DEF n, d, j
    <3>4. new \in Word /\ new.status = words[j].status
      BY <1>1, <2>2, <3>1, <3>2 DEF Word
    <3> HIDE DEF new
    <3> QED BY <1>1, <3>1, <3>3, <3>4
  <2> QED BY <2>1, <2>2
<1>6. ASSUME NEW q \in Writers, AddWord(q)
      PROVE  words'[i] # None /\ words'[i].status = words[i].status
  <2> DEFINE j == Item[writer[q].on]
             changed == [words[j] EXCEPT !.source = "learner"]
  <2>1. j \in ItemIds
    BY <1>6, RestingIs, ItemsAssumption DEF AddWord, WordsInv, Writing, Holding
  <2>2. \/ words' = words
        \/ words[j] # None /\ words' = [words EXCEPT ![j] = changed]
        \/ words[j] = None /\ \A o \in ItemIds \ {j} : words'[o] = words[o]
    BY <1>1, <1>6 DEF AddWord, Stored
  <2>3. words[j] # None => changed \in Word /\ changed.status = words[j].status
    BY <1>1, <2>1 DEF Word
  <2> HIDE DEF changed, j
  <2> QED BY <1>1, <1>2, <2>1, <2>2, <2>3
<1>7. ASSUME NEW q \in Writers, IngestWord(q)
      PROVE  /\ words'[i] # None
             /\ writer[q].pc = "ingest" /\ writer'[q] = Resting
             /\ writer[q].found # None => writer[q].found.status \notin Settled
  <2> DEFINE j == Item[writer[q].on]
             changed == [words[j] EXCEPT !.status = "candidate", !.source = "dialogue"]
  <2>1. /\ j \in ItemIds /\ writer[q].pc = "ingest" /\ writer'[q] = Resting
        /\ writer[q].found # None => writer[q].found.status \notin Settled
    BY <1>1, <1>7, RestingIs, ItemsAssumption DEF IngestWord, Leave, WordsInv, Writing, Holding
  <2>2. \/ words' = words
        \/ words[j] # None /\ words' = [words EXCEPT ![j] = changed]
        \/ words[j] = None /\ \A o \in ItemIds \ {j} : words'[o] = words[o]
    BY <1>1, <1>7 DEF IngestWord, Stored
  <2>3. words[j] # None => changed \in Word
    BY <1>1, <2>1 DEF Word, Statuses
  <2> HIDE DEF changed, j
  <2> QED BY <1>1, <2>1, <2>2, <2>3
<1>8. ASSUME NEW q \in Writers,
             \/ \E w \in Spellings : ReadForAdd(q, w) \/ ReadForIngest(q, w)
             \/ \E j \in ItemIds : ReadWord(q, j) \/ OpenCard(q, j) \/ Enrich(q, j)
             \/ Answer(q) \/ LookForCard(q) \/ StoreCard(q)
      PROVE  words' = words
  BY <1>8 DEF ReadForAdd, ReadForIngest, ReadWord, OpenCard, Enrich, Answer, LookForCard, StoreCard
<1> QED BY <1>2, <1>3, <1>4, <1>5, <1>6, <1>7, <1>8 DEF WordsNext

\* What the model wrote on a card is replaced by the model, by who found the card
\* lacking, or goes with the word.
LEMMA CardStep ==
  ASSUME WordsInv, WordsNext, NEW i \in ItemIds
  PROVE  ModelTextKept(i)
<1> SUFFICES ASSUME card[i] # None, card[i].text = "model", card'[i] # card[i]
             PROVE  \/ card'[i] = None /\ words'[i] = None
                    \/ \E q \in Writers :
                         /\ writer[q].pc \in {"insert", "update"} /\ writer'[q] = Resting
                         /\ writer[q].with.source = "model" \/ Lacking(writer[q].found)
  BY DEF ModelTextKept
<1>1. /\ card \in [ItemIds -> Card \cup {None}] /\ words \in [ItemIds -> Word \cup {None}]
      /\ DOMAIN writer = Writers
  BY DEF WordsInv, WordTables, Writing
<1>2. CASE \E j \in ItemIds : Undo(j)
  BY <1>1, <1>2 DEF Undo, CardGone
<1>3. CASE \E q \in Writers : StoreCard(q)
  <2>1. PICK q \in Writers : StoreCard(q)
    BY <1>3
  <2>2. writer[q].pc \in {"insert", "update"} /\ writer'[q] = Resting
    BY <1>1, <2>1 DEF StoreCard, Leave
  <2>3. Holding(writer[q])
    BY <2>2, RestingIs DEF WordsInv, Writing
  <2>4. writer[q].with.source = "model" \/ Lacking(writer[q].found)
    BY <2>2, <2>3 DEF Holding
  <2> QED BY <2>2, <2>4
<1>4. (\E j \in ItemIds : Undo(j)) \/ (\E q \in Writers : StoreCard(q))
  <2>1. card' # card
    OBVIOUS
  <2> QED BY <2>1 DEF WordsNext, SetStatus, Schedule, TypingMistake, ReadForAdd, ReadForIngest,
        ReadWord, OpenCard, Enrich, WriteReview, AddWord, IngestWord, Answer, LookForCard
<1> QED BY <1>2, <1>3, <1>4

\* What the learner has settled, what the model wrote and the ladder are kept for the
\* learner (vocabulary.py): no streak is longer than the word was recalled, nobody but
\* the learner undoes what is settled, and nobody but the model rewrites a full card,
\* short of a run or an opening of the card that had read the row before.
THEOREM Kept == WordsSpec => KeptForLearner
<1>1. WordsInv => StreakEarned
  BY DEF WordsInv, WordTables, StreakEarned
<1>2. WordsInv /\ [WordsNext]_wordVars => [\A i \in ItemIds : SettledKept(i) /\ ModelTextKept(i)]_wordVars
  BY SettledStep, CardStep
<1> QED BY <1>1, <1>2, WordsInvariant, PTL DEF WordsSpec, KeptForLearner
(***************************************************************************)
(* The learner model: its tables                                           *)
(***************************************************************************)
\* A skill's mastery is what deriving it again would give.
Current(t, k) ==
  IF k \in DOMAIN t.mastery THEN t.mastery[k] = Derived(t, k) ELSE RowsOf(t, k) = {}

Distinct(rows) == \A d, e \in rows : d.skill = e.skill /\ d.source = e.source => d = e

\* The three tables, of which mastery is known as it was derived.
IsModel(t) == t = [evidence |-> t.evidence, mastery |-> t.mastery, review |-> t.review]
LearnerOK(t) ==
  /\ IsModel(t)
  /\ t.evidence \subseteq Evidence /\ Distinct(t.evidence)
  /\ t.review \in [Keys -> Review \cup {Nil}]
  /\ \A k \in Skills : Current(t, k)

\* A table is replaced.
LEMMA TableSet ==
  ASSUME NEW t, IsModel(t), NEW x
  PROVE  /\ [t EXCEPT !.evidence = x] = [evidence |-> x, mastery |-> t.mastery, review |-> t.review]
         /\ [t EXCEPT !.mastery = x] = [evidence |-> t.evidence, mastery |-> x, review |-> t.review]
         /\ [t EXCEPT !.review = x] = [evidence |-> t.evidence, mastery |-> t.mastery, review |-> x]
<1> DEFINE e == t.evidence
           m == t.mastery
           r == t.review
<1>1. t = [evidence |-> e, mastery |-> m, review |-> r]
  BY DEF IsModel
<1> HIDE DEF e, m, r
<1>2. /\ [t EXCEPT !.evidence = x] = [evidence |-> x, mastery |-> m, review |-> r]
      /\ [t EXCEPT !.mastery = x] = [evidence |-> e, mastery |-> x, review |-> r]
      /\ [t EXCEPT !.review = x] = [evidence |-> e, mastery |-> m, review |-> x]
  BY <1>1
<1> QED BY <1>2 DEF e, m, r

\* What a skill's mastery is derived from: its evidence and its reviews.
LEMMA SameDerived ==
  ASSUME NEW t, NEW u, NEW k, RowsOf(u, k) = RowsOf(t, k),
         \A key \in Keys : key[1] = k => Row(key, u) = Row(key, t)
  PROVE  Known(u, k) = Known(t, k) /\ NextReview(u, k) = NextReview(t, k)
         /\ Derived(u, k) = Derived(t, k)
<1>1. Known(u, k) = Known(t, k)
  BY DEF Known
<1>2. OpenKeys(u, k) = OpenKeys(t, k)
  BY DEF OpenKeys
<1>3. {Row(key, u).due : key \in OpenKeys(u, k)} = {Row(key, t).due : key \in OpenKeys(t, k)}
  BY <1>2 DEF OpenKeys
<1>4. NextReview(u, k) = NextReview(t, k)
  BY <1>2, <1>3 DEF NextReview
<1> QED BY <1>1, <1>4 DEF Derived

\* Evidence and reviews are the same.
LEMMA SameTables ==
  ASSUME NEW t, NEW u, NEW k, u.evidence = t.evidence, u.review = t.review
  PROVE  RowsOf(u, k) = RowsOf(t, k) /\ Known(u, k) = Known(t, k)
         /\ NextReview(u, k) = NextReview(t, k) /\ Derived(u, k) = Derived(t, k)
<1>1. RowsOf(u, k) = RowsOf(t, k)
  BY DEF RowsOf
<1>2. \A key \in Keys : key[1] = k => Row(key, u) = Row(key, t)
  BY DEF Row
<1> QED BY <1>1, <1>2, SameDerived

\* Some rows of mastery are made anew: they are current, and the others as they were.
LEMMA RederivedIs ==
  ASSUME NEW t, IsModel(t), NEW K
  PROVE  LET u == Rederived(t, K)
         IN /\ IsModel(u) /\ u.evidence = t.evidence /\ u.review = t.review
            /\ \A k \in K : Current(u, k)
            /\ \A k : Current(t, k) => Current(u, k)
<1> DEFINE m == [k \in DOMAIN t.mastery \cup K |-> IF k \in K THEN Derived(t, k) ELSE t.mastery[k]]
           u == Rederived(t, K)
<1>1. u = [evidence |-> t.evidence, mastery |-> m, review |-> t.review]
  BY TableSet DEF Rederived
<1>2. IsModel(u) /\ u.evidence = t.evidence /\ u.mastery = m /\ u.review = t.review
  <2> HIDE DEF m, u
  <2> QED BY <1>1 DEF IsModel
<1>3. ASSUME NEW k PROVE Derived(u, k) = Derived(t, k) /\ RowsOf(u, k) = RowsOf(t, k)
  BY <1>2, SameTables
<1>4. /\ DOMAIN m = DOMAIN t.mastery \cup K
      /\ \A k \in K : m[k] = Derived(t, k)
      /\ \A k \in DOMAIN t.mastery \ K : m[k] = t.mastery[k]
  OBVIOUS
<1> HIDE DEF u, m
<1>5. ASSUME NEW k \in K PROVE Current(u, k)
  BY <1>2, <1>3, <1>4 DEF Current
<1>6. ASSUME NEW k, Current(t, k) PROVE Current(u, k)
  <2>1. CASE k \in K
    BY <1>5, <2>1
  <2>2. CASE k \notin K
    BY <1>2, <1>3, <1>4, <1>6, <2>2 DEF Current
  <2> QED BY <2>1, <2>2
<1> QED BY <1>2, <1>5, <1>6 DEF u

\* A review of a skill whose mastery was current is replaced, and the skill's next
\* review looked for again.
LEMMA ReviewPut ==
  ASSUME NEW t, LearnerOK(t), NEW key \in Keys, NEW row \in Review
  PROVE  LET u == Refreshed([t EXCEPT !.review[key] = row], key[1])
         IN LearnerOK(u) /\ u.evidence = t.evidence
<1> DEFINE r == [t.review EXCEPT ![key] = row]
           v == [t EXCEPT !.review[key] = row]
           s == key[1]
           u == Refreshed(v, s)
<1>1. v = [evidence |-> t.evidence, mastery |-> t.mastery, review |-> r]
  BY TableSet DEF LearnerOK
<1>2. r \in [Keys -> Review \cup {Nil}] /\ \A x \in Keys \ {key} : r[x] = t.review[x]
  BY DEF LearnerOK
<1>3. s \in Skills
  BY DEF Keys
<1> HIDE DEF r, v
<1>4. /\ IsModel(v) /\ v.evidence = t.evidence /\ v.mastery = t.mastery /\ v.review = r
  BY <1>1 DEF IsModel
<1> HIDE DEF s
<1>5. ASSUME NEW k, k # s
      PROVE  Derived(v, k) = Derived(t, k) /\ RowsOf(v, k) = RowsOf(t, k)
  <2>1. RowsOf(v, k) = RowsOf(t, k)
    BY <1>4 DEF RowsOf
  <2>2. \A x \in Keys : x[1] = k => Row(x, v) = Row(x, t)
    BY <1>2, <1>4, <1>5 DEF Row, s
  <2> QED BY <2>1, <2>2, SameDerived
<1>6. RowsOf(v, s) = RowsOf(t, s) /\ Known(v, s) = Known(t, s)
  BY <1>4 DEF RowsOf, Known
<1>7. CASE s \notin DOMAIN t.mastery
  <2>1. u = v
    BY <1>4, <1>7 DEF Refreshed
  <2>2. \A k \in Skills : Current(v, k)
    BY <1>4, <1>5, <1>6, <1>7 DEF Current, LearnerOK
  <2> QED BY <1>2, <1>4, <2>1, <2>2 DEF LearnerOK, u, v, s
<1>8. CASE s \in DOMAIN t.mastery
  <2> DEFINE n == NextReview(v, s)
             m == [t.mastery EXCEPT ![s] = [t.mastery[s] EXCEPT !.next = n]]
             f == Known(t, s)
             o == NextReview(t, s)
  <2>1. u = [evidence |-> t.evidence, mastery |-> m, review |-> r]
    BY <1>4, <1>8, TableSet DEF Refreshed
  <2>2. t.mastery[s] = [from |-> f, next |-> o]
    BY <1>3, <1>8 DEF LearnerOK, Current, Derived
  <2> HIDE DEF n, f, o
  <2>3. [t.mastery[s] EXCEPT !.next = n] = [from |-> f, next |-> n]
    BY <2>2
  <2>4. /\ DOMAIN m = DOMAIN t.mastery /\ m[s] = [from |-> f, next |-> n]
        /\ \A k \in DOMAIN t.mastery \ {s} : m[k] = t.mastery[k]
    BY <1>8, <2>3
  <2> HIDE DEF m, u
  <2>5. IsModel(u) /\ u.evidence = t.evidence /\ u.mastery = m /\ u.review = r
    BY <2>1 DEF IsModel
  <2>6. ASSUME NEW k PROVE Derived(u, k) = Derived(v, k) /\ RowsOf(u, k) = RowsOf(v, k)
    BY <1>4, <2>5, SameTables
  <2>7. Current(u, s)
    <3>1. Derived(v, s) = [from |-> f, next |-> n]
      BY <1>6 DEF Derived, f, n
    <3> QED BY <1>8, <2>4, <2>5, <2>6, <3>1 DEF Current
  <2>8. ASSUME NEW k \in Skills, k # s PROVE Current(u, k)
    BY <1>5, <2>4, <2>5, <2>6, <2>8 DEF Current, LearnerOK
  <2> QED BY <1>2, <2>5, <2>7, <2>8 DEF LearnerOK, u, v, s
<1> QED BY <1>7, <1>8

(***************************************************************************)
(* The learner model: what a request makes of it                           *)
(***************************************************************************)
\* Days between reviews are a number, whatever the estimate.
LEMMA IntervalIs == ASSUME NEW score, NEW reps \in Nat PROVE IntervalDays(score, reps) \in Nat
<1> DEFINE base == IF score >= 85 THEN 14 ELSE IF score >= 70 THEN 7 ELSE IF score >= 50 THEN 3 ELSE 1
<1>1. base \in Nat /\ base * 2 \in Nat /\ base * 4 \in Nat
  <2>1. base \in {14, 7, 3, 1}
    OBVIOUS
  <2> HIDE DEF base
  <2> QED BY <2>1
<1> HIDE DEF base
<1>2. IntervalDays(score, reps) =
        IF reps > 0 /\ score >= 70 THEN base * (IF reps = 1 THEN 2 ELSE 4) ELSE base
  BY DEF IntervalDays, base
<1> QED BY <1>1, <1>2

\* A review that is scheduled is one.
LEMMA PlannedIs ==
  ASSUME NEW row \in Review \cup {Nil}, NEW known
  PROVE  Planned(row, known) \in Review
<1> DEFINE reps == IF row = Nil THEN 0 ELSE row.repetitions
           days == IntervalDays(Estimate(known), reps)
<1>1. reps \in Nat
  BY LearnerConstants DEF Review
<1>2. days \in Nat
  BY <1>1, IntervalIs
<1>3. Planned(row, known) = [status |-> "pending", due |-> days, repetitions |-> reps]
  BY DEF Planned
<1> HIDE DEF reps, days
<1> QED BY <1>1, <1>2, <1>3 DEF Review, Open

\* Evidence of one source is put in the place of what that source said before; the
\* mastery of its skill is derived anew.
LEMMA ObservedIs ==
  ASSUME NEW t, LearnerOK(t), NEW e \in Evidence
  PROVE  LET u == Observed(t, e)
         IN /\ LearnerOK(u) /\ u.review = t.review
            /\ \A s : e.source[1] # s => SessionRows(u, s) = SessionRows(t, s)
<1> DEFINE rows == {d \in t.evidence : d.skill # e.skill \/ d.source # e.source} \cup {e}
           v == Upserted(t, e)
           u == Observed(t, e)
<1>1. v = [evidence |-> rows, mastery |-> t.mastery, review |-> t.review]
  BY TableSet DEF Upserted, LearnerOK
<1>2. rows \subseteq Evidence /\ Distinct(rows)
  BY DEF LearnerOK, Distinct
<1>3. /\ \A k : k # e.skill => {d \in rows : d.skill = k} = {d \in t.evidence : d.skill = k}
      /\ \A s : e.source[1] # s => {d \in rows : d.source[1] = s} = {d \in t.evidence : d.source[1] = s}
  OBVIOUS
<1> HIDE DEF rows, v
<1>4. IsModel(v) /\ v.evidence = rows /\ v.mastery = t.mastery /\ v.review = t.review
  BY <1>1 DEF IsModel
<1>5. ASSUME NEW k \in Skills, k # e.skill PROVE Current(v, k)
  <2>1. RowsOf(v, k) = RowsOf(t, k)
    BY <1>3, <1>4, <1>5 DEF RowsOf
  <2>2. \A x \in Keys : x[1] = k => Row(x, v) = Row(x, t)
    BY <1>4 DEF Row
  <2>3. Derived(v, k) = Derived(t, k)
    BY <2>1, <2>2, SameDerived
  <2> QED BY <1>4, <2>1, <2>3 DEF Current, LearnerOK
<1>6. /\ IsModel(u) /\ u.evidence = rows /\ u.review = t.review
      /\ Current(u, e.skill) /\ \A k : Current(v, k) => Current(u, k)
  BY <1>4, RederivedIs DEF Observed, Recalculated, v
<1> HIDE DEF u
<1>7. \A k \in Skills : Current(u, k)
  BY <1>5, <1>6
<1>8. LearnerOK(u)
  BY <1>2, <1>6, <1>7 DEF LearnerOK
<1> QED BY <1>3, <1>6, <1>8 DEF SessionRows, u, v

\* Evidence is recorded, and a review scheduled if it is new.
LEMMA ObservedAnewIs ==
  ASSUME NEW t, LearnerOK(t), NEW e \in Evidence, <<e.skill, e.objective>> \in Keys
  PROVE  LET u == ObservedAnew(t, e)
         IN /\ LearnerOK(u)
            /\ \A s : e.source[1] # s => SessionRows(u, s) = SessionRows(t, s)
<1> DEFINE after == Observed(t, e)
           key == <<e.skill, e.objective>>
<1>1. LearnerOK(after) /\ \A s : e.source[1] # s => SessionRows(after, s) = SessionRows(t, s)
  BY ObservedIs
<1> HIDE DEF after
<1>2. CASE e \notin t.evidence
  <2> DEFINE row == Planned(after.review[key], after.mastery[key[1]].from)
             u == Refreshed([after EXCEPT !.review[key] = row], key[1])
  <2>1. ObservedAnew(t, e) = u
    BY <1>2 DEF ObservedAnew, Scheduled, after
  <2>2. key \in Keys /\ row \in Review
    BY <1>1, <1>2, PlannedIs DEF LearnerOK
  <2> HIDE DEF row, key
  <2>3. LearnerOK(u) /\ u.evidence = after.evidence
    BY <1>1, <2>2, ReviewPut
  <2> HIDE DEF u
  <2> QED BY <1>1, <2>1, <2>3 DEF SessionRows
<1>3. CASE e \in t.evidence
  BY <1>1, <1>3 DEF ObservedAnew, after
<1> QED BY <1>2, <1>3

\* The learner records evidence.
LEMMA RecordedIs ==
  ASSUME NEW t, LearnerOK(t), NEW k \in Skills, NEW o \in Objectives \cup {Nil},
         <<k, o>> \in Keys, NEW n \in Nat, NEW score \in {0, 100}
  PROVE  LET u == Recorded(t, k, o, n, score)
         IN LearnerOK(u) /\ \A s \in Sessions : SessionRows(u, s) = SessionRows(t, s)
<1> DEFINE source == <<"learner", n>>
           e == [skill |-> k, source |-> source, score |-> score, objective |-> o]
<1>1. source \in (Sessions \X (Items \cup {"criterion"})) \cup ({"learner"} \X Nat)
                 \cup ({"review"} \X Keys \X Nat \X Nat)
      /\ source[1] = "learner"
  OBVIOUS
<1> HIDE DEF source
<1>2. e \in Evidence /\ e.skill = k /\ e.objective = o /\ e.source = source
  BY <1>1 DEF Evidence
<1>3. Recorded(t, k, o, n, score) = ObservedAnew(t, e)
  BY DEF Recorded, source
<1> HIDE DEF e
<1>4. \A s \in Sessions : e.source[1] # s
  BY <1>1, <1>2, LearnerConstants
<1>5. <<e.skill, e.objective>> \in Keys
  BY <1>2
<1> DEFINE u == ObservedAnew(t, e)
<1>6. LearnerOK(u) /\ \A s : e.source[1] # s => SessionRows(u, s) = SessionRows(t, s)
  BY <1>2, <1>5, ObservedAnewIs
<1> QED BY <1>3, <1>4, <1>6

\* The answer to a review is evidence, whether or not the row that was read is there.
LEMMA ReviewAnsweredIs ==
  ASSUME NEW t, LearnerOK(t), NEW key \in Keys, NEW id \in Nat, NEW read \in Review,
         NEW score \in {0, 100}
  PROVE  LET u == ReviewAnswered(t, key, id, read, score)
         IN LearnerOK(u) /\ \A s \in Sessions : SessionRows(u, s) = SessionRows(t, s)
<1> DEFINE reps == Repetition(read)
           source == <<"review", key, id, reps>>
           e == [skill |-> key[1], source |-> source, score |-> score, objective |-> key[2]]
           u == Observed(t, e)
<1>1. reps \in Nat
  BY DEF Review, Repetition
<1> HIDE DEF reps
<1>2. source \in {"review"} \X Keys \X Nat \X Nat /\ source[1] = "review"
  BY <1>1
<1> HIDE DEF source
<1>3. e \in Evidence /\ e.source = source
  BY <1>2 DEF Evidence, Keys
<1>4. ReviewAnswered(t, key, id, read, score) = u
  BY DEF ReviewAnswered, source, reps
<1> HIDE DEF e
<1>5. \A s \in Sessions : e.source[1] # s
  BY <1>2, <1>3, LearnerConstants
<1>6. LearnerOK(u) /\ \A s : e.source[1] # s => SessionRows(u, s) = SessionRows(t, s)
  BY <1>3, ObservedIs
<1> HIDE DEF u
<1> QED BY <1>4, <1>5, <1>6

\* A review is counted up from the row that was read.
LEMMA CompletedIs ==
  ASSUME NEW t, LearnerOK(t), NEW key \in Keys, NEW read \in Review, NEW goesOn \in BOOLEAN
  PROVE  LET u == Completed(t, key, read, goesOn)
         IN LearnerOK(u) /\ u.evidence = t.evidence
<1> DEFINE reps == Repetition(read)
           days == IntervalDays(Estimate(t.mastery[key[1]].from), reps)
           due == IF goesOn THEN days ELSE read.due
           status == IF goesOn THEN "pending" ELSE "completed"
           row == [status |-> status, due |-> due, repetitions |-> reps]
<1>1. reps \in Nat /\ read.due \in Nat
  BY DEF Review, Repetition
<1> HIDE DEF reps
<1>2. days \in Nat
  BY <1>1, IntervalIs
<1> HIDE DEF days
<1>3. due \in Nat /\ status \in {"pending", "completed"}
  BY <1>1, <1>2
<1>4. Completed(t, key, read, goesOn) = Refreshed([t EXCEPT !.review[key] = row], key[1])
  BY DEF Completed, days, reps
<1> HIDE DEF due, status
<1>5. row \in Review
  BY <1>1, <1>3 DEF Review, Open
<1> HIDE DEF row
<1> QED BY <1>4, <1>5, ReviewPut

\* The status of a review is set.
LEMMA SetIs ==
  ASSUME NEW t, LearnerOK(t), NEW key \in Keys, t.review[key] # Nil,
         NEW status \in Open \cup {"dismissed"}
  PROVE  LET u == Set(t, key, status) IN LearnerOK(u) /\ u.evidence = t.evidence
<1> DEFINE row == [t.review[key] EXCEPT !.status = status]
<1>1. Set(t, key, status) = Refreshed([t EXCEPT !.review[key] = row], key[1])
  BY DEF Set
<1>2. row \in Review
  BY DEF LearnerOK, Review
<1> HIDE DEF row
<1> QED BY <1>1, <1>2, ReviewPut

(***************************************************************************)
(* The learner model: what a commit makes of it                            *)
(***************************************************************************)
\* What a document shows is one score an item, under the skill of the item.
LEMMA ShownIs ==
  ASSUME NEW d, DocumentOK(d)
  PROVE  /\ Shown(d) \subseteq [skill : Skills, item : Items \cup {"criterion"}, score : 0..100]
         /\ \A x, y \in Shown(d) : x.item = y.item => x = y
<1> DEFINE marked == {j \in DOMAIN d.marks : d.marks[j] # "unmarked"}
           right(i) == IF d.marks[i] = "right" THEN 100 ELSE 0
           A == {[skill |-> SkillOfItem[i], item |-> i, score |-> right(i)] : i \in marked}
           B == {[skill |-> CriterionSkill, item |-> "criterion", score |-> x] : x \in d.criteria}
<1>1. Shown(d) = A \cup B
  BY DEF Shown
<1>2. DOMAIN d.marks \subseteq Items /\ d.criteria \subseteq 0..100 /\ \A x, y \in d.criteria : x = y
  BY LearnerConstants DEF DocumentOK, Document, Markings
<1>3. marked \subseteq Items /\ \A i : right(i) \in 0..100
  BY <1>2
<1> HIDE DEF marked, right
<1>4. A \subseteq [skill : Skills, item : Items, score : 0..100]
      /\ \A x, y \in A : x.item = y.item => x = y
  BY <1>3, LearnerConstants
<1>5. B \subseteq [skill : Skills, item : {"criterion"}, score : 0..100]
      /\ \A x, y \in B : x.item = y.item => x = y
  BY <1>2, LearnerConstants
<1> HIDE DEF A, B
<1>6. \A x \in A : x.item # "criterion"
  BY <1>4, LearnerConstants
<1>7. \A x \in B : x.item = "criterion"
  BY <1>5
<1> QED BY <1>1, <1>4, <1>5, <1>6, <1>7

\* A document's evidence has the Session as its source, and one row a source.
LEMMA ProjectionIs ==
  ASSUME NEW s \in Sessions, NEW d, DocumentOK(d)
  PROVE  /\ Projection(s, d) \subseteq Evidence /\ Distinct(Projection(s, d))
         /\ \A e \in Projection(s, d) : e.source[1] = s
<1> DEFINE S == Shown(d)
           row(x) == [skill |-> x.skill, source |-> <<s, x.item>>, score |-> x.score,
                      objective |-> Nil]
<1>1. S \subseteq [skill : Skills, item : Items \cup {"criterion"}, score : 0..100]
      /\ \A x, y \in S : x.item = y.item => x = y
  BY ShownIs
<1>2. Projection(s, d) = {row(x) : x \in S}
  BY DEF Projection
<1> HIDE DEF S
<1>3. ASSUME NEW x \in S
      PROVE  row(x) \in Evidence /\ row(x).source = <<s, x.item>>
  <2> DEFINE source == <<s, x.item>>
  <2>1. x.skill \in Skills /\ x.item \in Items \cup {"criterion"} /\ x.score \in 0..100
    BY <1>1
  <2>2. source \in Sessions \X (Items \cup {"criterion"})
    BY <2>1
  <2> HIDE DEF source
  <2>3. row(x) \in Evidence /\ row(x).source = source
    BY <2>1, <2>2 DEF Evidence, source
  <2> QED BY <2>3 DEF source
<1>4. ASSUME NEW x \in S, NEW y \in S, row(x).source = row(y).source PROVE x = y
  <2>1. <<s, x.item>> = <<s, y.item>>
    BY <1>3, <1>4
  <2> QED BY <1>1, <2>1
<1> HIDE DEF row
<1>5. Projection(s, d) \subseteq Evidence /\ \A e \in Projection(s, d) : e.source[1] = s
  BY <1>2, <1>3
<1>6. Distinct(Projection(s, d))
  BY <1>2, <1>4 DEF Distinct
<1> QED BY <1>5, <1>6

\* A commit puts what the document shows in the place of what the Session showed, and
\* leaves the learner model current: the skills of either are derived anew.
LEMMA IngestedIs ==
  ASSUME NEW t, LearnerOK(t), NEW s \in Sessions, NEW d, DocumentOK(d), NEW touched \in BOOLEAN
  PROVE  LET u == Ingested(t, s, d, touched)
         IN /\ LearnerOK(u) /\ SessionRows(u, s) = Projection(s, d)
            /\ \A x : x # s => SessionRows(u, x) = SessionRows(t, x)
<1> DEFINE rows == Projection(s, d)
           changed == touched \/ SessionRows(t, s) # rows
           affected == Affected(t, s, rows)
           E == (t.evidence \ SessionRows(t, s)) \cup rows
           w == Replaced(t, s, rows)
           r == [key \in Keys |-> IF changed /\ key[1] \in affected /\ key[2] = Nil
                                  THEN Replanned(w, key) ELSE t.review[key]]
           v == [evidence |-> E, mastery |-> t.mastery, review |-> r]
           u == Ingested(t, s, d, touched)
<1>1. rows \subseteq Evidence /\ Distinct(rows) /\ \A e \in rows : e.source[1] = s
  BY ProjectionIs
<1> HIDE DEF rows
<1>2. E \subseteq Evidence /\ Distinct(E)
  BY <1>1 DEF LearnerOK, Distinct, SessionRows
<1>3. ASSUME NEW k, k \notin affected
      PROVE  {e \in E : e.skill = k} = {e \in t.evidence : e.skill = k}
  BY <1>1, <1>3 DEF SessionRows, Affected
<1>4. {e \in E : e.source[1] = s} = rows
  BY <1>1 DEF SessionRows
<1>5. ASSUME NEW x, x # s
      PROVE  {e \in E : e.source[1] = x} = {e \in t.evidence : e.source[1] = x}
  BY <1>1, <1>5 DEF SessionRows
<1>6. w = [evidence |-> E, mastery |-> t.mastery, review |-> t.review]
  BY TableSet DEF Replaced, LearnerOK
<1> HIDE DEF E, affected, changed, w
<1>7. IsModel(w) /\ w.evidence = E /\ w.mastery = t.mastery /\ w.review = t.review
  BY <1>6 DEF IsModel
<1>8. \A key \in Keys : Replanned(w, key) \in Review \cup {Nil}
  BY <1>7, PlannedIs DEF Replanned, LearnerOK, Row
<1>9. r \in [Keys -> Review \cup {Nil}]
      /\ \A key \in Keys : key[1] \notin affected => r[key] = t.review[key]
  BY <1>8 DEF LearnerOK
<1>10. u = Rederived(v, affected)
  <2> HIDE DEF r
  <2>1. [w EXCEPT !.review = r] = [evidence |-> w.evidence, mastery |-> w.mastery, review |-> r]
    BY <1>7, TableSet
  <2>2. [w EXCEPT !.review = r] = v
    BY <1>7, <2>1
  <2> HIDE DEF v
  <2> QED BY <1>7, <2>2 DEF Ingested, rows, changed, affected, w, r
<1> HIDE DEF r
<1>11. IsModel(v) /\ v.evidence = E /\ v.mastery = t.mastery /\ v.review = r
  BY DEF IsModel
<1> HIDE DEF v, u
<1>12. ASSUME NEW k \in Skills, k \notin affected PROVE Current(v, k)
  <2>1. RowsOf(v, k) = RowsOf(t, k)
    BY <1>11, <1>12, <1>3 DEF RowsOf
  <2>2. \A x \in Keys : x[1] = k => Row(x, v) = Row(x, t)
    BY <1>9, <1>11, <1>12 DEF Row
  <2>3. Derived(v, k) = Derived(t, k)
    BY <2>1, <2>2, SameDerived
  <2> QED BY <1>11, <2>1, <2>3 DEF Current, LearnerOK
<1>13. /\ IsModel(u) /\ u.evidence = E /\ u.review = r
       /\ \A k \in Skills : Current(u, k)
  BY <1>10, <1>11, <1>12, RederivedIs
<1>14. LearnerOK(u)
  BY <1>2, <1>9, <1>13 DEF LearnerOK
<1>15. SessionRows(u, s) = rows
  BY <1>13, <1>4 DEF SessionRows
<1>16. ASSUME NEW x, x # s PROVE SessionRows(u, x) = SessionRows(t, x)
  BY <1>13, <1>16, <1>5 DEF SessionRows
<1> QED BY <1>14, <1>15, <1>16 DEF rows, u

(***************************************************************************)
(* The study plan: the documents                                           *)
(***************************************************************************)
\* A new document is in order.
LEMMA StartsOK == \A d \in Starts : DocumentOK(d)
<1>1. ASSUME NEW m \in Modules, NEW timed \in BOOLEAN PROVE DocumentOK(NewDocument(m, timed))
  <2> DEFINE marks == <<>>
             none == {}
             zero == 0
  <2>1. marks \in Markings
    <3>1. marks \in [{} -> Marks]
      OBVIOUS
    <3> QED BY <3>1 DEF Markings
  <2>2. none \in SUBSET Labels /\ none \in SUBSET Scores /\ zero \in Nat /\ \A x, y \in none : x = y
    OBVIOUS
  <2>3. NewDocument(m, timed) =
          [module |-> m, timed |-> timed, status |-> "draft", submitted |-> FALSE,
           revealed |-> FALSE, hints |-> zero, versions |-> none, criteria |-> none,
           marks |-> marks, errors |-> zero]
    BY DEF NewDocument
  <2>4. "draft" \in DOMAIN Transitions
    BY DEF Transitions
  <2> HIDE DEF marks, none
  <2> QED BY <2>1, <2>2, <2>3, <2>4 DEF DocumentOK, Document
<1>2. "reading" \in Modules
  BY DEF Modules
<1> QED BY <1>1, <1>2 DEF Starts

\* Marks that are found are put with those that are there.
LEMMA MarkedIs ==
  ASSUME NEW marks \in Markings,
         NEW found \in Markings
  PROVE  Marked(marks, found) \in Markings
<1> DEFINE D == DOMAIN marks \cup DOMAIN found
<1>1. Marked(marks, found) \in [D -> Marks]
  BY DEF Marked, Markings
<1>2. D \in SUBSET Items
  BY DEF Markings
<1> HIDE DEF D
<1> QED BY <1>1, <1>2 DEF Markings

\* Whatever learner or tutor do to a document leaves it in order, if it is valid.
LEMMA WorkedOK ==
  ASSUME NEW d, DocumentOK(d), NEW e \in Worked(d), Valid(e)
  PROVE  DocumentOK(e)
<1>1. /\ d \in Document /\ \A x, y \in d.criteria : x = y
      /\ d.revealed => d.submitted
      /\ e.timed => e.hints = 0
  BY DEF DocumentOK, Valid
<1>2. {"learner_working", "awaiting_feedback", "awaiting_revision"} \subseteq DOMAIN Transitions
  BY DEF Transitions
<1>3. \A found \in Markings : Marked(d.marks, found) \in Markings
  BY <1>1, MarkedIs DEF Document
<1>4. SUFFICES e \in Document /\ (\A x, y \in e.criteria : x = y) /\ (e.revealed => e.submitted)
  BY <1>1 DEF DocumentOK
<1>5. CASE d.module = "writing"
  <2>1. CASE \E label \in Labels : e = SubmitVersion(d, label)
    <3>1. PICK label \in Labels : e = SubmitVersion(d, label)
      BY <2>1
    <3> DEFINE both == d.versions \cup {label}
    <3>2. both \in SUBSET Labels
          /\ e = [d EXCEPT !.versions = both, !.submitted = TRUE, !.status = "awaiting_feedback"]
      BY <1>1, <3>1 DEF SubmitVersion, Document
    <3> HIDE DEF both
    <3> QED BY <1>1, <1>2, <3>2 DEF Document
  <2>2. CASE \E label \in d.versions, score \in Scores, issues \in 0..1 :
               e = ReviewVersion(d, label, score, issues)
    <3>1. PICK score \in Scores, issues \in 0..1 :
            e = [d EXCEPT !.criteria = {score}, !.errors = issues, !.status = "awaiting_revision"]
      BY <2>2 DEF ReviewVersion
    <3> DEFINE one == {score}
    <3>2. one \in SUBSET Scores /\ issues \in Nat /\ \A x, y \in one : x = y
      OBVIOUS
    <3> HIDE DEF one
    <3> QED BY <1>1, <1>2, <3>1, <3>2 DEF Document, one
  <2> QED BY <1>5, <2>1, <2>2 DEF Worked
<1>6. CASE d.module = "reading"
  <2>1. CASE \E level \in 1..MaxHint : e = Hint(d, level) \/ e = GuidedHint(d, level)
    <3>1. PICK level \in 1..MaxHint : e = Hint(d, level) \/ e = GuidedHint(d, level)
      BY <2>1
    <3>2. level \in Nat
      BY PlanConstants
    <3>3. CASE e = Hint(d, level)
      <4>1. e = [d EXCEPT !.hints = level, !.status = "learner_working"]
        BY <3>3 DEF Hint
      <4> QED BY <1>1, <1>2, <3>2, <4>1 DEF Document
    <3>4. CASE e = GuidedHint(d, level)
      <4> DEFINE n == IF level > d.hints THEN level ELSE d.hints
      <4>1. n \in Nat /\ e = [d EXCEPT !.hints = n, !.status = "learner_working"]
        BY <1>1, <3>2, <3>4 DEF GuidedHint, Document
      <4> HIDE DEF n
      <4> QED BY <1>1, <1>2, <4>1 DEF Document
    <3> QED BY <3>1, <3>3, <3>4
  <2>2. CASE \E marks \in Markings : e = SubmitAnswers(d, marks)
    BY <1>1, <1>2, <2>2 DEF SubmitAnswers, Document
  <2>3. CASE \E revealed \in BOOLEAN, found \in Markings, issues \in 0..1 :
               RevealAllowed(d, revealed) /\ e = ReviewAnswers(d, revealed, found, issues)
    <3>1. PICK revealed \in BOOLEAN, found \in Markings, issues \in 0..1 :
            RevealAllowed(d, revealed) /\ e = ReviewAnswers(d, revealed, found, issues)
      BY <2>3
    <3> DEFINE marks == Marked(d.marks, found)
               shown == d.revealed \/ revealed
    <3>2. /\ marks \in Markings /\ shown \in BOOLEAN /\ issues \in Nat
          /\ shown => d.submitted
      BY <1>1, <1>3, <3>1 DEF RevealAllowed, Document
    <3>3. e = [d EXCEPT !.marks = marks, !.errors = issues, !.revealed = shown,
                        !.status = "awaiting_revision"]
      BY <3>1 DEF ReviewAnswers
    <3> HIDE DEF marks, shown
    <3> QED BY <1>1, <1>2, <3>2, <3>3 DEF Document
  <2> QED BY <1>6, <2>1, <2>2, <2>3 DEF Worked
<1>7. CASE d.module = "listening"
  <2>1. CASE \E item \in Items \ DOMAIN d.marks, mark \in {"right", "wrong"} :
               e = Attempt(d, item, mark)
    <3>1. PICK item \in Items, mark \in {"right", "wrong"} : e = Attempt(d, item, mark)
      BY <2>1
    <3> DEFINE found == [i \in {item} |-> mark]
               marks == Marked(d.marks, found)
               errs == d.errors + (IF mark = "wrong" THEN 1 ELSE 0)
    <3>2. found \in Markings
      <4>1. found \in [{item} -> Marks]
        BY DEF Marks
      <4> HIDE DEF found
      <4> QED BY <4>1 DEF Markings
    <3>3. e = [d EXCEPT !.marks = marks, !.errors = errs, !.status = "learner_working"]
      BY <3>1 DEF Attempt
    <3>4. errs \in Nat
      BY <1>1 DEF Document
    <3> HIDE DEF found
    <3>5. marks \in Markings
      BY <1>3, <3>2
    <3> HIDE DEF marks, errs
    <3> QED BY <1>1, <1>2, <3>3, <3>4, <3>5 DEF Document
  <2>2. CASE \E issues \in 0..1 : e = ReviewListening(d, issues)
    <3>1. PICK issues \in 0..1 : e = ReviewListening(d, issues)
      BY <2>2
    <3> DEFINE errs == d.errors + issues
    <3>2. errs \in Nat /\ e = [d EXCEPT !.errors = errs, !.status = "awaiting_revision"]
      BY <1>1, <3>1 DEF ReviewListening, Document
    <3> HIDE DEF errs
    <3> QED BY <1>1, <1>2, <3>2 DEF Document
  <2> QED BY <1>7, <2>1, <2>2 DEF Worked
<1>8. CASE d.module = "speaking"
  <2>1. PICK score \in Scores : e = Evaluate(d, score)
    BY <1>8 DEF Worked
  <2> DEFINE one == {score}
  <2>2. one \in SUBSET Scores /\ \A x, y \in one : x = y
    OBVIOUS
  <2>3. e = [d EXCEPT !.criteria = one, !.status = "awaiting_revision"]
    BY <2>1 DEF Evaluate
  <2> HIDE DEF one
  <2> QED BY <1>1, <1>2, <2>2, <2>3 DEF Document
<1> QED BY <1>1, <1>5, <1>6, <1>7, <1>8 DEF Document, Modules

\* So does every commit.
LEMMA DocumentsOK ==
  ASSUME NEW d, DocumentOK(d), NEW e \in Successors(d)
  PROVE  DocumentOK(e)
<1>1. Valid(e)
  BY DEF Successors
<1>2. ASSUME NEW status \in Transitions[d.status] \cup {"completed"}, e = Moved(d, status)
      PROVE  DocumentOK(e)
  <2>1. status \in DOMAIN Transitions
    BY DEF DocumentOK, Document, Transitions
  <2>2. e \in Document /\ e.criteria = d.criteria /\ e.revealed = d.revealed
        /\ e.submitted = d.submitted
    BY <1>2, <2>1 DEF Moved, DocumentOK, Document
  <2> QED BY <1>1, <2>2 DEF DocumentOK, Valid
<1> QED BY <1>1, <1>2, WorkedOK DEF Successors

(***************************************************************************)
(* The study plan: its invariant                                           *)
(***************************************************************************)
\* Each Session's evidence is what its document says.
SessionsOK ==
  /\ session \in [Sessions -> Document \cup {Nil}]
  /\ \A s \in Sessions : session[s] # Nil => DocumentOK(session[s])
  /\ \A s \in Sessions :
       SessionRows(learner, s) = IF session[s] = Nil THEN {} ELSE Projection(s, session[s])

\* Rows of errors have an id of their own, and a Session as rows of answers have.
RowsOK ==
  /\ lastId = [error |-> lastId.error, answer |-> lastId.answer] /\ lastId.error \in Nat
  /\ errors \subseteq [id : Nat, session : Sessions, status : {"active", "resolved"}]
  /\ \A r \in errors : r.id <= lastId.error /\ \A x \in errors : x.id = r.id => x = r
  /\ \A r \in answers : r.session \in Sessions

\* Objectives are achieved, and activities completed, as their status says; an activity
\* is for an objective that exists.
GoalsOK ==
  /\ objective \in [Objectives -> Objective \cup {Nil}]
  /\ \A o \in Objectives : objective[o] # Nil =>
       (objective[o].achieved <=> objective[o].status = "achieved")
  /\ activity \in [Activities -> Activity \cup {Nil}]
  /\ \A a \in Activities : activity[a] # Nil =>
       /\ activity[a].completed <=> activity[a].status = "completed"
       /\ activity[a].objective # Nil => objective[activity[a].objective] # Nil

\* A task's unit is its own or today's, and exists.
QueueOK ==
  /\ task \in [TaskKeys -> Task \cup {Nil}] /\ unit \in [UnitKeys -> Unit \cup {Nil}]
  /\ \A k \in TaskKeys : task[k] # Nil /\ task[k].unit # Nil =>
       task[k].unit \in {k, Consolidation} /\ unit[task[k].unit] # Nil

\* The rows a table has.
There(table) == {x \in DOMAIN table : table[x] # Nil}

\* What a request has read: a row that may have changed since, but is still there (of
\* the objectives O, activities A, tasks T and units U).
LearnerHolds(r, O, A) ==
  /\ r.pc = "answer" => r.on \in Keys /\ r.read \in Review /\ r.with \in Nat
  /\ r.pc = "edit" => r.on \in O /\ r.read \in Objective
  /\ r.pc = "change" => r.on \in A /\ r.read \in Activity

QueueHolds(r, T, U) ==
  /\ r.pc \in {"read", "write"} /\ r.goal = "start" /\ r.goal # Nil => r.on \in T
  /\ r.pc = "write" => \A c \in r.read : c.session \in Sessions
  /\ r.pc \in {"look", "make", "mark", "take", "claim", "complete"} => r.on \in T
  /\ r.pc = "mark" => r.on \in U
  /\ r.pc = "claim" => Consolidation \in U
  /\ r.pc = "complete" /\ r.with # Nil => r.with \in U
  /\ r.pc \in {"bind", "finish"} => r.on \in U
  /\ r.pc = "bind" => r.with \in Sessions

IsRequest(r) == DOMAIN r = {"pc", "goal", "on", "read", "with"}
Holds(r, O, A, T, U) == IsRequest(r) /\ LearnerHolds(r, O, A) /\ QueueHolds(r, T, U)

RequestsOK ==
  /\ DOMAIN request = Requests
  /\ \A q \in Requests :
       Holds(request[q], There(objective), There(activity), There(task), There(unit))

PlanInv ==
  /\ LearnerOK(learner) /\ SessionsOK /\ RowsOK /\ GoalsOK /\ QueueOK /\ RequestsOK
  /\ made \in [Keys -> Nat]

(***************************************************************************)
(* The study plan: what a request holds                                    *)
(***************************************************************************)
\* No row is ever taken away from these tables.
Grown ==
  /\ There(objective) \subseteq There(objective') /\ There(activity) \subseteq There(activity')
  /\ There(task) \subseteq There(task') /\ There(unit) \subseteq There(unit')

\* More rows do no harm to what is held.
LEMMA StillHeld ==
  ASSUME NEW r, NEW O, NEW A, NEW T, NEW U, NEW O2, NEW A2, NEW T2, NEW U2,
         Holds(r, O, A, T, U), O \subseteq O2, A \subseteq A2, T \subseteq T2, U \subseteq U2
  PROVE  Holds(r, O2, A2, T2, U2)
BY DEF Holds, LearnerHolds, QueueHolds

\* No request holds nothing.
LEMMA IdleHolds == ASSUME NEW O, NEW A, NEW T, NEW U PROVE Holds(Idle, O, A, T, U)
BY DEF Idle, Holds, IsRequest, LearnerHolds, QueueHolds

\* The requests but one are left alone.
LEMMA RequestPut ==
  ASSUME RequestsOK, Grown, NEW q \in Requests, NEW r, request' = [request EXCEPT ![q] = r],
         Holds(r, There(objective'), There(activity'), There(task'), There(unit'))
  PROVE  RequestsOK'
<1>1. DOMAIN request' = Requests /\ request'[q] = r
      /\ \A o \in Requests \ {q} : request'[o] = request[o]
  BY DEF RequestsOK
<1>2. ASSUME NEW o \in Requests
      PROVE  Holds(request'[o], There(objective'), There(activity'), There(task'), There(unit'))
  <2>1. CASE o = q
    BY <1>1, <2>1
  <2>2. CASE o # q
    BY <1>1, <2>2, StillHeld DEF RequestsOK, Grown
  <2> QED BY <2>1, <2>2
<1> QED BY <1>1, <1>2 DEF RequestsOK

\* All requests are left alone.
LEMMA RequestsKept ==
  ASSUME RequestsOK, Grown, UNCHANGED request
  PROVE  RequestsOK'
<1>1. ASSUME NEW o \in Requests
      PROVE  Holds(request'[o], There(objective'), There(activity'), There(task'), There(unit'))
  BY StillHeld DEF RequestsOK, Grown
<1> QED BY <1>1 DEF RequestsOK

\* What is not touched stays in order.
LEMMA RecordsSame ==
  ASSUME PlanInv, UNCHANGED <<learner, tables>>
  PROVE  LearnerOK(learner)' /\ SessionsOK' /\ RowsOK' /\ made' \in [Keys -> Nat]
BY DEF PlanInv, tables, SessionsOK, RowsOK

LEMMA GoalsSame == ASSUME PlanInv, UNCHANGED <<objective, activity>> PROVE GoalsOK'
BY DEF PlanInv, GoalsOK

LEMMA QueueSame == ASSUME PlanInv, UNCHANGED <<task, unit>> PROVE QueueOK'
BY DEF PlanInv, QueueOK

\* A request goes on with another thing in hand, and touches nothing.
LEMMA RequestKeeps ==
  ASSUME PlanInv, UNCHANGED <<learner, objective, activity, tables, task, unit>>,
         NEW q \in Requests, NEW r, request' = [request EXCEPT ![q] = r],
         Holds(r, There(objective), There(activity), There(task), There(unit))
  PROVE  PlanInv'
<1>1. Grown
  BY DEF Grown
<1>2. RequestsOK'
  BY <1>1, RequestPut DEF PlanInv
<1> QED BY <1>2, RecordsSame, GoalsSame, QueueSame DEF PlanInv

\* A request writes tasks and units, and goes on.
LEMMA QueueKeeps ==
  ASSUME PlanInv, QueueOK', There(task) \subseteq There(task'), There(unit) \subseteq There(unit'),
         UNCHANGED <<learner, objective, activity, tables>>,
         NEW q \in Requests, NEW r, request' = [request EXCEPT ![q] = r],
         Holds(r, There(objective), There(activity), There(task'), There(unit'))
  PROVE  PlanInv'
<1>1. Grown
  BY DEF Grown
<1>2. RequestsOK'
  BY <1>1, RequestPut DEF PlanInv
<1> QED BY <1>2, RecordsSame, GoalsSame DEF PlanInv

(***************************************************************************)
(* The study plan: commits                                                 *)
(***************************************************************************)
\* The application starts with nothing.
LEMMA PlanInvInit == Init => PlanInv
<1> SUFFICES ASSUME Init PROVE PlanInv
  OBVIOUS
<1> DEFINE none == {}
<1>1. /\ learner = [evidence |-> none, mastery |-> [k \in none |-> none],
                    review |-> [key \in Keys |-> Nil]]
      /\ objective = [o \in Objectives |-> Nil] /\ activity = [a \in Activities |-> Nil]
  BY DEF Init, LearnerInit
<1>2. LearnerOK(learner)
  <2> DEFINE m == [k \in none |-> none]
             r == [key \in Keys |-> Nil]
  <2>1. DOMAIN m = {} /\ r \in [Keys -> Review \cup {Nil}] /\ none = {}
    OBVIOUS
  <2> HIDE DEF m, r, none
  <2>2. IsModel(learner) /\ learner.evidence = {} /\ learner.mastery = m /\ learner.review = r
    BY <1>1, <2>1 DEF IsModel, m, r
  <2>3. \A k \in Skills : Current(learner, k)
    BY <2>1, <2>2 DEF Current, RowsOf
  <2> QED BY <2>1, <2>2, <2>3 DEF LearnerOK, Distinct
<1>3. SessionsOK
  <2>1. session = [s \in Sessions |-> Nil] /\ learner.evidence = {}
    BY <1>1 DEF Init
  <2> QED BY <2>1 DEF SessionsOK, SessionRows
<1>4. RowsOK
  <2> DEFINE zero == 0
  <2>1. lastId = [error |-> zero, answer |-> zero] /\ zero \in Nat /\ errors = {} /\ answers = {}
    BY DEF Init
  <2> HIDE DEF zero
  <2> QED BY <2>1 DEF RowsOK
<1>5. GoalsOK
  BY <1>1 DEF GoalsOK
<1>6. QueueOK
  BY DEF Init, QueueOK
<1>7. RequestsOK
  BY IdleHolds DEF Init, RequestsOK
<1>8. made \in [Keys -> Nat]
  BY DEF Init
<1> QED BY <1>2, <1>3, <1>4, <1>5, <1>6, <1>7, <1>8 DEF PlanInv

\* The next document of a Session is in order.
LEMMA NextDocumentOK ==
  ASSUME SessionsOK, NEW s \in Sessions, NEW d \in NextDocuments(s)
  PROVE  DocumentOK(d) /\ d # Nil
<1>1. DocumentOK(d)
  BY StartsOK, DocumentsOK DEF NextDocuments, SessionsOK
<1> QED BY <1>1, LearnerConstants DEF DocumentOK

\* The rows of a Session are written anew, under ids that were never used.
LEMMA RowsKept ==
  ASSUME RowsOK, NEW s \in Sessions, NEW d, DocumentOK(d), lastId' = NextIds(d),
         errors' = ErrorRows(s, d), answers' = AnswerRows(s, d)
  PROVE  RowsOK'
<1> DEFINE n == lastId.error
           m == lastId.answer + Len(Answered(d))
           row(i) == [id |-> n + i, session |-> s, status |-> "active"]
           fresh == {row(i) : i \in 1..d.errors}
           kept == {r \in errors : r.session # s}
<1>1. n \in Nat /\ d.errors \in Nat
  BY DEF RowsOK, DocumentOK, Document
<1>2. lastId'.error = n + d.errors /\ lastId' = [error |-> lastId'.error, answer |-> lastId'.answer]
  BY DEF NextIds
<1>3. errors' = kept \cup fresh
  BY DEF ErrorRows, Others
<1>4. ASSUME NEW i \in 1..d.errors
      PROVE  /\ row(i) \in [id : Nat, session : Sessions, status : {"active", "resolved"}]
             /\ row(i).id = n + i /\ n + i \in Nat /\ n < n + i /\ n + i <= n + d.errors
  BY <1>1
<1> HIDE DEF row
<1>5. /\ kept \subseteq [id : Nat, session : Sessions, status : {"active", "resolved"}]
      /\ \A r \in kept : r.id \in Nat /\ r.id <= n
      /\ \A r, x \in kept : x.id = r.id => x = r
  BY DEF RowsOK
<1>6. /\ fresh \subseteq [id : Nat, session : Sessions, status : {"active", "resolved"}]
      /\ \A r \in fresh : r.id \in Nat /\ n < r.id /\ r.id <= n + d.errors
  BY <1>4
<1>7. ASSUME NEW r \in fresh, NEW x \in fresh, x.id = r.id PROVE x = r
  <2>1. PICK i \in 1..d.errors, j \in 1..d.errors : r = row(i) /\ x = row(j)
    OBVIOUS
  <2>2. n + i = n + j
    BY <1>4, <1>7, <2>1
  <2>3. i = j
    BY <1>1, <2>2
  <2> QED BY <2>1, <2>3
<1> HIDE DEF fresh, kept, n
<1>8. \A r \in errors' : r.id <= lastId'.error /\ \A x \in errors' : x.id = r.id => x = r
  BY <1>1, <1>2, <1>3, <1>5, <1>6, <1>7
<1>9. \A r \in answers' : r.session \in Sessions
  BY DEF AnswerRows, Others, RowsOK
<1>10. errors' \subseteq [id : Nat, session : Sessions, status : {"active", "resolved"}]
       /\ lastId'.error \in Nat
  BY <1>1, <1>2, <1>3, <1>5, <1>6
<1> QED BY <1>2, <1>8, <1>9, <1>10 DEF RowsOK

\* Reviews are counted.
LEMMA NamesKept == ASSUME made \in [Keys -> Nat], NameReviews PROVE made' \in [Keys -> Nat]
BY DEF NameReviews

\* record_session: everything is rebuilt from the document in one transaction.
LEMMA RecordSessionKeeps ==
  ASSUME PlanInv, NEW s \in Sessions, RecordSession(s)
  PROVE  PlanInv'
<1>1. PICK d \in NextDocuments(s) :
        /\ lastId' = NextIds(d) /\ session' = [session EXCEPT ![s] = d]
        /\ errors' = ErrorRows(s, d) /\ answers' = AnswerRows(s, d)
        /\ \E touched \in BOOLEAN : learner' = Ingested(learner, s, d, touched)
        /\ NameReviews
        /\ UNCHANGED <<objective, activity, task, unit, request>>
  BY DEF RecordSession
<1>2. DocumentOK(d) /\ d # Nil
  BY NextDocumentOK DEF PlanInv
<1>3. /\ LearnerOK(learner') /\ SessionRows(learner', s) = Projection(s, d)
      /\ \A x : x # s => SessionRows(learner', x) = SessionRows(learner, x)
  <2>1. PICK touched \in BOOLEAN : learner' = Ingested(learner, s, d, touched)
    BY <1>1
  <2>2. LearnerOK(learner)
    BY DEF PlanInv
  <2> QED BY <1>2, <2>1, <2>2, IngestedIs
<1>4. SessionsOK'
  <2>1. /\ session' \in [Sessions -> Document \cup {Nil}] /\ session'[s] = d
        /\ \A x \in Sessions \ {s} : session'[x] = session[x]
    BY <1>1, <1>2 DEF PlanInv, SessionsOK, DocumentOK
  <2>2. \A x \in Sessions : session'[x] # Nil => DocumentOK(session'[x])
    BY <1>2, <2>1 DEF PlanInv, SessionsOK
  <2>3. ASSUME NEW x \in Sessions
        PROVE  SessionRows(learner', x) = IF session'[x] = Nil THEN {} ELSE Projection(x, session'[x])
    BY <1>2, <1>3, <2>1 DEF PlanInv, SessionsOK
  <2> QED BY <2>1, <2>2, <2>3 DEF SessionsOK
<1>5. RowsOK'
  BY <1>1, <1>2, RowsKept DEF PlanInv
<1>6. RequestsOK'
  BY <1>1, RequestsKept DEF PlanInv, Grown
<1>7. made' \in [Keys -> Nat]
  BY <1>1, NamesKept DEF PlanInv
<1> QED BY <1>1, <1>3, <1>4, <1>5, <1>6, <1>7, GoalsSame, QueueSame DEF PlanInv

\* update_error_status
LEMMA ResolveErrorsKeeps ==
  ASSUME PlanInv, ResolveErrors
  PROVE  PlanInv'
<1>1. UNCHANGED <<learner, objective, activity, session, answers, lastId, made, task, unit, request>>
  BY DEF ResolveErrors
<1>2. RowsOK'
  <2> DEFINE solved(r) == [r EXCEPT !.status = "resolved"]
  <2>1. errors' = {solved(r) : r \in errors}
    BY DEF ResolveErrors
  <2>2. ASSUME NEW r \in errors
        PROVE  /\ solved(r) \in [id : Nat, session : Sessions, status : {"active", "resolved"}]
               /\ solved(r).id = r.id
    BY DEF PlanInv, RowsOK
  <2> HIDE DEF solved
  <2>3. \A r \in errors : r.id <= lastId.error /\ \A x \in errors : x.id = r.id => x = r
    BY DEF PlanInv, RowsOK
  <2>4. \A r \in errors' : r.id <= lastId.error /\ \A x \in errors' : x.id = r.id => x = r
    BY <2>1, <2>2, <2>3
  <2>5. errors' \subseteq [id : Nat, session : Sessions, status : {"active", "resolved"}]
    BY <2>1, <2>2
  <2> QED BY <1>1, <2>4, <2>5 DEF PlanInv, RowsOK
<1>3. SessionsOK' /\ LearnerOK(learner')
  BY <1>1 DEF PlanInv, SessionsOK
<1>4. RequestsOK'
  BY <1>1, RequestsKept DEF PlanInv, Grown
<1> QED BY <1>1, <1>2, <1>3, <1>4, GoalsSame, QueueSame DEF PlanInv

(***************************************************************************)
(* The study plan: the learner's requests                                  *)
(***************************************************************************)
\* The learner model changes, and no Session's evidence.
LEMMA LearnerKeeps ==
  ASSUME PlanInv, LearnerOK(learner)',
         UNCHANGED <<objective, activity, session, errors, answers, lastId, task, unit>>,
         made' \in [Keys -> Nat],
         \A s \in Sessions : SessionRows(learner', s) = SessionRows(learner, s), RequestsOK'
  PROVE  PlanInv'
<1>1. SessionsOK' /\ RowsOK'
  BY DEF PlanInv, SessionsOK, RowsOK
<1> QED BY <1>1, GoalsSame, QueueSame DEF PlanInv

\* The learner records evidence, which is no Session's.
LEMMA RecordEvidenceKeeps ==
  ASSUME PlanInv, NEW k \in Skills, NEW o \in Objectives \cup {Nil}, <<k, o>> \in Keys,
         NEW score \in {0, 100}, RecordEvidence(k, o, score)
  PROVE  PlanInv'
<1>1. /\ learner' = Recorded(learner, k, o, 1, score) /\ NameReviews
      /\ UNCHANGED <<objective, activity, session, errors, answers, lastId, task, unit, request>>
  BY DEF RecordEvidence
<1>2. LearnerOK(learner') /\ \A s \in Sessions : SessionRows(learner', s) = SessionRows(learner, s)
  BY <1>1, RecordedIs DEF PlanInv
<1>3. RequestsOK'
  BY <1>1, RequestsKept DEF PlanInv, Grown
<1>4. made' \in [Keys -> Nat]
  BY <1>1, NamesKept DEF PlanInv
<1> QED BY <1>1, <1>2, <1>3, <1>4, LearnerKeeps

\* A review is moved by hand.
LEMMA MoveReviewKeeps ==
  ASSUME PlanInv, NEW key \in Keys, NEW status \in Open \cup {"dismissed"},
         MoveReview(key, status)
  PROVE  PlanInv'
<1>1. /\ learner' = Set(learner, key, status) /\ learner.review[key] # Nil
      /\ UNCHANGED <<objective, activity, tables, task, unit, request>>
  BY DEF MoveReview
<1>2. LearnerOK(learner') /\ learner'.evidence = learner.evidence
  BY <1>1, SetIs DEF PlanInv
<1>3. \A s \in Sessions : SessionRows(learner', s) = SessionRows(learner, s)
  BY <1>2 DEF SessionRows
<1>4. RequestsOK'
  BY <1>1, RequestsKept DEF PlanInv, Grown
<1> QED BY <1>1, <1>2, <1>3, <1>4, LearnerKeeps DEF PlanInv, tables

\* complete_learning_review: the row is read, and counted up from what was read.
LEMMA ReadReviewKeeps ==
  ASSUME PlanInv, NEW q \in Requests, NEW key \in Keys, ReadReview(q, key)
  PROVE  PlanInv'
<1> DEFINE r == [Idle EXCEPT !.pc = "answer", !.on = key, !.read = learner.review[key],
                   !.with = made[key]]
<1>1. /\ request' = [request EXCEPT ![q] = r] /\ learner.review[key] # Nil
      /\ UNCHANGED <<learner, objective, activity, tables, task, unit>>
  BY DEF ReadReview, Begin
<1>2. learner.review[key] \in Review /\ made[key] \in Nat
  BY <1>1 DEF PlanInv, LearnerOK
<1>3. /\ IsRequest(r) /\ r.pc = "answer" /\ r.on = key /\ r.read = learner.review[key]
      /\ r.with = made[key]
  BY DEF Idle, IsRequest
<1> HIDE DEF r
<1>4. Holds(r, There(objective), There(activity), There(task), There(unit))
  BY <1>2, <1>3 DEF Holds, LearnerHolds, QueueHolds
<1> QED BY <1>1, <1>4, RequestKeeps

LEMMA CompleteReviewKeeps ==
  ASSUME PlanInv, NEW q \in Requests, NEW score \in {0, 100}, NEW goesOn \in BOOLEAN,
         CompleteReview(q, score, goesOn)
  PROVE  PlanInv'
<1> DEFINE key == request[q].on
           read == request[q].read
           after == ReviewAnswered(learner, key, request[q].with, read, score)
<1>1. /\ learner' = Completed(after, key, read, goesOn) \/ learner' = after
      /\ request' = [request EXCEPT ![q] = Idle]
      /\ UNCHANGED <<objective, activity, tables, task, unit>>
  BY DEF CompleteReview, End
<1>2. key \in Keys /\ read \in Review /\ request[q].with \in Nat
  BY DEF CompleteReview, PlanInv, RequestsOK, Holds, LearnerHolds
<1>3. LearnerOK(after) /\ \A s \in Sessions : SessionRows(after, s) = SessionRows(learner, s)
  BY <1>2, ReviewAnsweredIs DEF PlanInv
<1> HIDE DEF key, read, after
<1>4. LearnerOK(learner') /\ learner'.evidence = after.evidence
  BY <1>1, <1>2, <1>3, CompletedIs
<1>5. \A s \in Sessions : SessionRows(learner', s) = SessionRows(learner, s)
  BY <1>3, <1>4 DEF SessionRows
<1>6. Holds(Idle, There(objective'), There(activity'), There(task'), There(unit'))
  BY IdleHolds
<1>7. RequestsOK'
  BY <1>1, <1>6, RequestPut DEF PlanInv, Grown
<1> QED BY <1>1, <1>4, <1>5, <1>7, LearnerKeeps DEF PlanInv, tables

\* Objectives and activities change, and those that are there stay.
LEMMA GoalsKeep ==
  ASSUME PlanInv, GoalsOK', UNCHANGED <<learner, tables, task, unit>>, RequestsOK'
  PROVE  PlanInv'
BY RecordsSame, QueueSame DEF PlanInv

\* create_learning_objective
LEMMA CreateObjectiveKeeps ==
  ASSUME PlanInv, NEW o \in Objectives, CreateObjective(o)
  PROVE  PlanInv'
<1> DEFINE row == NewObjective("active")
<1>1. /\ objective[o] = Nil /\ objective' = [objective EXCEPT ![o] = row]
      /\ UNCHANGED <<learner, activity, tables, task, unit, request>>
  BY DEF CreateObjective
<1>2. row \in Objective /\ row # Nil /\ (row.achieved <=> row.status = "achieved")
  <2> DEFINE status == "active"
             n == 0
             won == status = "achieved"
  <2>1. /\ status \in ObjectiveStatuses /\ n \in Nat /\ won \in BOOLEAN
        /\ won <=> status = "achieved"
        /\ row = [status |-> status, revision |-> n, achieved |-> won]
    BY DEF NewObjective, ObjectiveStatuses
  <2> HIDE DEF status, n, won, row
  <2> QED BY <2>1, LearnerConstants DEF Objective
<1> HIDE DEF row
<1>3. /\ objective' \in [Objectives -> Objective \cup {Nil}] /\ objective'[o] = row
      /\ \A x \in Objectives \ {o} : objective'[x] = objective[x]
  BY <1>1, <1>2 DEF PlanInv, GoalsOK
<1>4. There(objective) \subseteq There(objective')
  BY <1>2, <1>3 DEF There, PlanInv, GoalsOK
<1>5. GoalsOK'
  BY <1>1, <1>2, <1>3 DEF PlanInv, GoalsOK, Activity
<1>6. RequestsOK'
  BY <1>1, <1>4, RequestsKept DEF PlanInv, Grown
<1> QED BY <1>1, <1>5, <1>6, GoalsKeep

\* update_learning_objective
LEMMA ReadObjectiveKeeps ==
  ASSUME PlanInv, NEW q \in Requests, NEW o \in Objectives, ReadObjective(q, o)
  PROVE  PlanInv'
<1> DEFINE r == [Idle EXCEPT !.pc = "edit", !.on = o, !.read = objective[o]]
<1>1. /\ request' = [request EXCEPT ![q] = r] /\ objective[o] # Nil
      /\ UNCHANGED <<learner, objective, activity, tables, task, unit>>
  BY DEF ReadObjective, Begin
<1>2. objective[o] \in Objective /\ o \in There(objective)
  BY <1>1 DEF PlanInv, GoalsOK, There
<1>3. IsRequest(r) /\ r.pc = "edit" /\ r.on = o /\ r.read = objective[o]
  BY DEF Idle, IsRequest
<1> HIDE DEF r
<1>4. Holds(r, There(objective), There(activity), There(task), There(unit))
  BY <1>2, <1>3 DEF Holds, LearnerHolds, QueueHolds
<1> QED BY <1>1, <1>4, RequestKeeps

LEMMA WriteObjectiveKeeps ==
  ASSUME PlanInv, NEW q \in Requests, NEW status \in {Nil, "achieved", "paused"},
         WriteObjective(q, status)
  PROVE  PlanInv'
<1> DEFINE o == request[q].on
           row == Edited(objective[o], request[q].read, status)
<1>1. /\ objective' = [objective EXCEPT ![o] = row] /\ request' = [request EXCEPT ![q] = Idle]
      /\ UNCHANGED <<learner, activity, tables, task, unit>>
  BY DEF WriteObjective, End
<1>2. /\ o \in Objectives /\ objective[o] \in Objective /\ objective[o] # Nil
      /\ request[q].read \in Objective
  BY DEF WriteObjective, PlanInv, RequestsOK, Holds, LearnerHolds, GoalsOK, There
<1>3. row \in Objective /\ row # Nil /\ (row.achieved <=> row.status = "achieved")
  <2> DEFINE as == IF status = Nil THEN request[q].read.status ELSE status
             n == objective[o].revision + 1
             won == as = "achieved"
  <2>1. as \in ObjectiveStatuses /\ n \in Nat /\ won \in BOOLEAN
    BY <1>2 DEF Objective, ObjectiveStatuses
  <2>2. row = [status |-> as, revision |-> n, achieved |-> won]
    BY DEF Edited
  <2>3. won <=> as = "achieved"
    OBVIOUS
  <2> HIDE DEF as, n, won, row
  <2>4. row \in Objective
    BY <2>1, <2>2 DEF Objective
  <2> QED BY <2>2, <2>3, <2>4, LearnerConstants
<1> HIDE DEF row, o
<1>4. /\ objective' \in [Objectives -> Objective \cup {Nil}] /\ objective'[o] = row
      /\ \A x \in Objectives \ {o} : objective'[x] = objective[x]
  BY <1>1, <1>2, <1>3 DEF PlanInv, GoalsOK
<1>5. There(objective) \subseteq There(objective')
  BY <1>3, <1>4 DEF There, PlanInv, GoalsOK
<1>6. GoalsOK'
  BY <1>1, <1>3, <1>4 DEF PlanInv, GoalsOK, Activity
<1>7. RequestsOK'
  BY <1>1, <1>5, IdleHolds, RequestPut DEF PlanInv, Grown
<1> QED BY <1>1, <1>6, <1>7, GoalsKeep

\* create_learning_activity, for an objective that exists.
LEMMA CreateActivityKeeps ==
  ASSUME PlanInv, NEW a \in Activities, NEW status \in {"planned", "completed"},
         NEW o \in Objectives \cup {Nil}, NEW s \in Sessions \cup {Nil},
         CreateActivity(a, status, o, s)
  PROVE  PlanInv'
<1> DEFINE row == NewActivity(status, o, s)
<1>1. /\ activity[a] = Nil /\ activity' = [activity EXCEPT ![a] = row]
      /\ o # Nil => objective[o] # Nil
      /\ UNCHANGED <<learner, objective, tables, task, unit, request>>
  BY DEF CreateActivity
<1>2. /\ row \in Activity /\ row # Nil /\ row.objective = o
      /\ row.completed <=> row.status = "completed"
  <2> DEFINE begun == status = "in_progress"
             done == status = "completed"
             n == 0
  <2>1. begun \in BOOLEAN /\ done \in BOOLEAN /\ n \in Nat /\ (done <=> status = "completed")
        /\ status \in ActivityStatuses
    BY DEF ActivityStatuses
  <2>2. row = [status |-> status, revision |-> n, objective |-> o, session |-> s,
               started |-> begun, completed |-> done]
    BY DEF NewActivity
  <2> HIDE DEF begun, done, n, row
  <2> QED BY <2>1, <2>2, LearnerConstants DEF Activity
<1> HIDE DEF row
<1>3. /\ activity' \in [Activities -> Activity \cup {Nil}] /\ activity'[a] = row
      /\ \A x \in Activities \ {a} : activity'[x] = activity[x]
  BY <1>1, <1>2 DEF PlanInv, GoalsOK
<1>4. There(activity) \subseteq There(activity')
  BY <1>2, <1>3 DEF There, PlanInv, GoalsOK
<1>5. GoalsOK'
  BY <1>1, <1>2, <1>3 DEF PlanInv, GoalsOK
<1>6. RequestsOK'
  BY <1>1, <1>4, RequestsKept DEF PlanInv, Grown
<1> QED BY <1>1, <1>5, <1>6, GoalsKeep

\* update_learning_activity
LEMMA ReadActivityKeeps ==
  ASSUME PlanInv, NEW q \in Requests, NEW a \in Activities, ReadActivity(q, a)
  PROVE  PlanInv'
<1> DEFINE r == [Idle EXCEPT !.pc = "change", !.on = a, !.read = activity[a]]
<1>1. /\ request' = [request EXCEPT ![q] = r] /\ activity[a] # Nil
      /\ UNCHANGED <<learner, objective, activity, tables, task, unit>>
  BY DEF ReadActivity, Begin
<1>2. activity[a] \in Activity /\ a \in There(activity)
  BY <1>1 DEF PlanInv, GoalsOK, There
<1>3. IsRequest(r) /\ r.pc = "change" /\ r.on = a /\ r.read = activity[a]
  BY DEF Idle, IsRequest
<1> HIDE DEF r
<1>4. Holds(r, There(objective), There(activity), There(task), There(unit))
  BY <1>2, <1>3 DEF Holds, LearnerHolds, QueueHolds
<1> QED BY <1>1, <1>4, RequestKeeps

LEMMA WriteActivityKeeps ==
  ASSUME PlanInv, NEW q \in Requests, NEW status \in {Nil, "in_progress", "cancelled"},
         WriteActivity(q, status)
  PROVE  PlanInv'
<1> DEFINE a == request[q].on
           now == activity[a]
           row == Changed(now, request[q].read, status)
<1>1. /\ activity' = [activity EXCEPT ![a] = row] /\ request' = [request EXCEPT ![q] = Idle]
      /\ UNCHANGED <<learner, objective, tables, task, unit>>
  BY DEF WriteActivity, End
<1>2. /\ a \in Activities /\ now \in Activity /\ now # Nil /\ request[q].read \in Activity
  BY DEF WriteActivity, PlanInv, RequestsOK, Holds, LearnerHolds, GoalsOK, There
<1>3. /\ row \in Activity /\ row # Nil /\ row.objective = now.objective
      /\ row.completed <=> row.status = "completed"
  <2> DEFINE as == IF status = Nil THEN request[q].read.status ELSE status
             n == now.revision + 1
             begun == request[q].read.started \/ as \in {"in_progress", "completed"}
             done == as = "completed"
  <2>1. as \in ActivityStatuses /\ n \in Nat /\ begun \in BOOLEAN /\ done \in BOOLEAN
    BY <1>2 DEF Activity, ActivityStatuses
  <2>2. row = [now EXCEPT !.status = as, !.revision = n, !.started = begun, !.completed = done]
    BY DEF Changed
  <2>3. done <=> as = "completed"
    OBVIOUS
  <2> HIDE DEF as, n, begun, done, row, now
  <2> QED BY <1>2, <2>1, <2>2, <2>3, LearnerConstants DEF Activity
<1> HIDE DEF row
<1>4. /\ activity' \in [Activities -> Activity \cup {Nil}] /\ activity'[a] = row
      /\ \A x \in Activities \ {a} : activity'[x] = activity[x]
  BY <1>1, <1>2, <1>3 DEF PlanInv, GoalsOK
<1>5. There(activity) \subseteq There(activity')
  BY <1>3, <1>4 DEF There, PlanInv, GoalsOK
<1>6. GoalsOK'
  BY <1>1, <1>2, <1>3, <1>4 DEF PlanInv, GoalsOK
<1>7. RequestsOK'
  BY <1>1, <1>5, IdleHolds, RequestPut DEF PlanInv, Grown
<1> QED BY <1>1, <1>6, <1>7, GoalsKeep

(***************************************************************************)
(* The study plan: the queue                                               *)
(***************************************************************************)
\* What a request has in hand at each of its steps.
LEMMA HeldBy ==
  ASSUME PlanInv, NEW q \in Requests
  PROVE  Holds(request[q], There(objective), There(activity), There(task), There(unit))
BY DEF PlanInv, RequestsOK

\* Tasks and units that are there have a row each.
LEMMA TheRows ==
  ASSUME PlanInv
  PROVE  /\ There(task) \subseteq TaskKeys /\ There(unit) \subseteq UnitKeys
         /\ \A k \in There(task) : task[k] \in Task /\ task[k] # Nil
         /\ \A u \in There(unit) : unit[u] \in Unit /\ unit[u] # Nil
         /\ TaskKeys \subseteq UnitKeys /\ Consolidation \in UnitKeys /\ Primary \in UnitKeys
BY DEF PlanInv, QueueOK, There, UnitKeys

\* Only where the request is changes.
LEMMA GotoPut ==
  ASSUME PlanInv, NEW q \in Requests, NEW pc, Goto(q, pc)
  PROVE  LET r == [request[q] EXCEPT !.pc = pc]
         IN /\ request' = [request EXCEPT ![q] = r] /\ IsRequest(r)
            /\ r.pc = pc /\ r.goal = request[q].goal /\ r.on = request[q].on
            /\ r.read = request[q].read /\ r.with = request[q].with
BY HeldBy DEF Goto, Holds, IsRequest

\* The requests that bring the queue up to date begin.
LEMMA SyncReviewKeeps ==
  ASSUME PlanInv, NEW q \in Requests, SyncReview(q)
  PROVE  PlanInv'
<1> DEFINE r == [Idle EXCEPT !.pc = "read"]
<1>1. /\ request' = [request EXCEPT ![q] = r]
      /\ UNCHANGED <<learner, objective, activity, tables, task, unit>>
  BY DEF SyncReview, Begin
<1>2. IsRequest(r) /\ r.pc = "read" /\ r.goal = Nil
  BY DEF Idle, IsRequest
<1> HIDE DEF r
<1>3. Holds(r, There(objective), There(activity), There(task), There(unit))
  BY <1>2 DEF Holds, LearnerHolds, QueueHolds
<1> QED BY <1>1, <1>3, RequestKeeps

LEMMA StartTaskKeeps ==
  ASSUME PlanInv, NEW q \in Requests, NEW k \in TaskKeys, StartTask(q, k)
  PROVE  PlanInv'
<1> DEFINE r == [Idle EXCEPT !.pc = "read", !.goal = "start", !.on = k]
<1>1. /\ request' = [request EXCEPT ![q] = r] /\ task[k] # Nil
      /\ UNCHANGED <<learner, objective, activity, tables, task, unit>>
  BY DEF StartTask, Begin
<1>2. IsRequest(r) /\ r.pc = "read" /\ r.on = k
  BY DEF Idle, IsRequest
<1>3. k \in There(task)
  BY <1>1 DEF There, PlanInv, QueueOK
<1> HIDE DEF r
<1>4. Holds(r, There(objective), There(activity), There(task), There(unit))
  BY <1>2, <1>3 DEF Holds, LearnerHolds, QueueHolds
<1> QED BY <1>1, <1>4, RequestKeeps

LEMMA MaterialiseConsolidationKeeps ==
  ASSUME PlanInv, NEW q \in Requests, MaterialiseConsolidation(q)
  PROVE  PlanInv'
<1> DEFINE r == [Idle EXCEPT !.pc = "read", !.goal = "today"]
<1>1. /\ request' = [request EXCEPT ![q] = r]
      /\ UNCHANGED <<learner, objective, activity, tables, task, unit>>
  BY DEF MaterialiseConsolidation, Begin
<1>2. IsRequest(r) /\ r.pc = "read" /\ r.goal = "today"
  BY DEF Idle, IsRequest
<1> HIDE DEF r
<1>3. Holds(r, There(objective), There(activity), There(task), There(unit))
  BY <1>2 DEF Holds, LearnerHolds, QueueHolds
<1> QED BY <1>1, <1>3, RequestKeeps

\* _candidate_review_tasks: each candidate leads back to a Session.
LEMMA CandidateIs ==
  ASSUME PlanInv, NEW k \in Candidates
  PROVE  SessionOf(k) \in Sessions
<1>1. CASE \E r \in errors : k = <<"error", r.id>>
  <2>1. PICK r \in errors : k = <<"error", r.id>>
    BY <1>1
  <2> DEFINE x == CHOOSE x \in errors : x.id = k[2]
  <2>2. x \in errors
    BY <2>1
  <2>3. SessionOf(k) = x.session
    BY <2>1 DEF SessionOf
  <2> QED BY <2>2, <2>3 DEF PlanInv, RowsOK
<1>2. CASE \E r \in answers : k = <<"reading-answer", r.id>>
  <2>1. PICK r \in answers : k = <<"reading-answer", r.id>>
    BY <1>2
  <2> DEFINE x == CHOOSE x \in answers : x.id = k[2]
  <2>2. x \in answers
    BY <2>1
  <2>3. SessionOf(k) = x.session
    BY <2>1 DEF SessionOf
  <2> QED BY <2>2, <2>3 DEF PlanInv, RowsOK
<1>3. CASE \E s \in Sessions : k = <<"writing-v2", s>>
  BY <1>3 DEF SessionOf
<1> QED BY <1>1, <1>2, <1>3 DEF Candidates, Unresolved, Wrong

LEMMA ReadCandidatesKeeps ==
  ASSUME PlanInv, NEW q \in Requests, ReadCandidates(q)
  PROVE  PlanInv'
<1> DEFINE found == {[key |-> k, session |-> SessionOf(k)] : k \in Candidates}
           r == [request[q] EXCEPT !.pc = "write", !.read = found]
<1>1. \A c \in found : c.session \in Sessions
  BY CandidateIs
<1>2. /\ request[q].pc = "read"
      /\ request' = [request EXCEPT ![q].pc = "write", ![q].read = found]
      /\ UNCHANGED <<learner, objective, activity, tables, task, unit>>
  BY DEF ReadCandidates
<1> HIDE DEF found
<1>3. request' = [request EXCEPT ![q] = r]
  BY <1>2 DEF PlanInv, RequestsOK
<1>4. /\ IsRequest(r) /\ r.pc = "write" /\ r.read = found
      /\ r.goal = request[q].goal /\ r.on = request[q].on
  BY HeldBy DEF Holds, IsRequest
<1> HIDE DEF r
<1>5. Holds(r, There(objective), There(activity), There(task), There(unit))
  BY <1>1, <1>2, <1>4, HeldBy DEF Holds, LearnerHolds, QueueHolds
<1> QED BY <1>2, <1>3, <1>5, RequestKeeps

\* sync_review: a task is made for a candidate that has none, and an open one whose
\* reason is gone is closed; no task goes, and none changes its unit.
LEMMA WriteTasksKeeps ==
  ASSUME PlanInv, NEW q \in Requests, WriteTasks(q)
  PROVE  PlanInv'
<1> DEFINE found == request[q].read
           new(k) == CHOOSE c \in found : c.key = k
           goal == request[q].goal
           go == [request[q] EXCEPT !.pc = After(goal), !.read = Nil]
           r == IF goal = Nil THEN Idle ELSE go
<1>1. /\ task' = Synchronised(found) /\ request' = [request EXCEPT ![q] = r]
      /\ request[q].pc = "write"
      /\ UNCHANGED <<learner, objective, activity, tables, unit>>
  BY DEF WriteTasks
<1>2. \A c \in found : c.session \in Sessions
  BY <1>1, HeldBy DEF Holds, QueueHolds
<1>3. ASSUME NEW k \in TaskKeys
      PROVE  /\ task'[k] \in Task \cup {Nil} /\ (task[k] # Nil => task'[k] # Nil)
             /\ task'[k] # Nil /\ task'[k].unit # Nil => task[k] # Nil /\ task'[k].unit = task[k].unit
  <2>1. task[k] \in Task \cup {Nil}
    BY DEF PlanInv, QueueOK
  <2>2. CASE (\E c \in found : c.key = k) /\ task[k] = Nil
    <3>1. task'[k] = NewTask(new(k).session)
      BY <1>1, <2>2 DEF Synchronised, Queued
    <3>2. new(k).session \in Sessions
      BY <1>2, <2>2
    <3> HIDE DEF new
    <3>3. NewTask(new(k).session) \in Task /\ NewTask(new(k).session).unit = Nil
      BY <3>2 DEF NewTask, Task, Open
    <3> QED BY <2>2, <3>1, <3>3
  <2>3. CASE (\E c \in found : c.key = k) /\ task[k] # Nil
    BY <1>1, <2>1, <2>3 DEF Synchronised, Queued
  <2>4. CASE ~ \E c \in found : c.key = k
    <3>1. task'[k] = task[k] \/ (task[k] # Nil /\ task'[k] = Closed(task[k]))
      BY <1>1, <2>4 DEF Synchronised
    <3>2. task[k] # Nil => Closed(task[k]) \in Task /\ Closed(task[k]).unit = task[k].unit
      BY <2>1 DEF Closed, Task
    <3> QED BY <2>1, <3>1, <3>2, PlanConstants
  <2> QED BY <2>2, <2>3, <2>4
<1>4. DOMAIN task' = TaskKeys
  BY <1>1 DEF Synchronised
<1>5. task' \in [TaskKeys -> Task \cup {Nil}]
  <2>1. task' = [k \in TaskKeys |-> task'[k]]
    BY <1>1 DEF Synchronised
  <2> QED BY <1>3, <2>1
<1>6. QueueOK'
  BY <1>1, <1>3, <1>5 DEF PlanInv, QueueOK
<1>7. There(task) \subseteq There(task')
  BY <1>3, <1>4 DEF There, PlanInv, QueueOK
<1>8. Holds(r, There(objective), There(activity), There(task'), There(unit'))
  <2>1. CASE goal = Nil
    BY <2>1, IdleHolds
  <2>2. CASE goal # Nil
    <3>1. IsRequest(go) /\ go.pc = After(goal) /\ go.on = request[q].on
      BY HeldBy DEF Holds, IsRequest
    <3>2. goal = "start" => request[q].on \in There(task')
      BY <1>1, <1>7, <2>2, HeldBy DEF Holds, QueueHolds
    <3> HIDE DEF go
    <3> QED BY <2>2, <3>1, <3>2 DEF Holds, LearnerHolds, QueueHolds, After
  <2> QED BY <2>1, <2>2
<1> HIDE DEF r
<1> QED BY <1>1, <1>6, <1>7, <1>8, QueueKeeps

(***************************************************************************)
(* The study plan: practice units                                          *)
(***************************************************************************)
\* _create_unit: the unit of the key is there afterwards, and the others as they were.
LEMMA CreatedKeeps ==
  ASSUME PlanInv, NEW u \in UnitKeys, NEW status \in {"planned", "in_progress"},
         NEW s \in Sessions \cup {Nil}, NEW k \in TaskKeys \cup {Nil},
         Created(u, status, s, k), UNCHANGED task
  PROVE  QueueOK' /\ There(unit) \subseteq There(unit') /\ u \in There(unit')
<1> DEFINE row == NewUnit(status, s, k)
<1>1. unit \in [UnitKeys -> Unit \cup {Nil}]
  BY DEF PlanInv, QueueOK
<1>2. row \in Unit /\ row # Nil
  BY PlanConstants DEF NewUnit, Unit
<1> HIDE DEF row
<1>3. CASE unit[u] = Nil
  <2>1. unit' = [unit EXCEPT ![u] = row]
    BY <1>3 DEF Created, row
  <2>2. /\ unit' \in [UnitKeys -> Unit \cup {Nil}] /\ unit'[u] = row
        /\ \A x \in UnitKeys \ {u} : unit'[x] = unit[x]
    BY <1>1, <1>2, <2>1
  <2>3. There(unit) \subseteq There(unit') /\ u \in There(unit')
    BY <1>1, <1>2, <2>2 DEF There
  <2>4. \A x \in UnitKeys : unit[x] # Nil => unit'[x] # Nil
    BY <1>2, <2>2
  <2>5. \A x \in TaskKeys : task[x] # Nil /\ task[x].unit # Nil => task[x].unit \in UnitKeys
    BY DEF PlanInv, QueueOK, UnitKeys
  <2> QED BY <2>2, <2>3, <2>4, <2>5 DEF PlanInv, QueueOK
<1>4. CASE unit[u] # Nil
  <2>1. unit' = unit
    BY <1>4 DEF Created
  <2> QED BY <1>1, <1>4, <2>1 DEF PlanInv, QueueOK, There
<1> QED BY <1>3, <1>4

\* A task's row is replaced by one with its own unit or today's, which exists.
LEMMA TaskPut ==
  ASSUME PlanInv, NEW k \in TaskKeys, NEW row \in Task,
         row.unit # Nil => row.unit \in {k, Consolidation} /\ unit[row.unit] # Nil,
         task' = [task EXCEPT ![k] = row], UNCHANGED unit
  PROVE  QueueOK' /\ There(task) \subseteq There(task')
<1>1. /\ task' \in [TaskKeys -> Task \cup {Nil}] /\ task'[k] = row /\ row # Nil
      /\ \A x \in TaskKeys \ {k} : task'[x] = task[x]
  BY PlanConstants DEF PlanInv, QueueOK
<1>2. There(task) \subseteq There(task')
  BY <1>1 DEF There, PlanInv, QueueOK
<1> QED BY <1>1, <1>2 DEF PlanInv, QueueOK

\* start_review_task: the task is looked up, its unit made, and the task marked.
LEMMA LookUpTaskKeeps ==
  ASSUME PlanInv, NEW q \in Requests, LookUpTask(q)
  PROVE  PlanInv'
<1>1. request[q].pc = "look" /\ UNCHANGED <<learner, objective, activity, tables, task, unit>>
  BY DEF LookUpTask
<1>2. CASE Goto(q, "make")
  <2> DEFINE r == [request[q] EXCEPT !.pc = "make"]
  <2>1. /\ request' = [request EXCEPT ![q] = r] /\ IsRequest(r)
        /\ r.pc = "make" /\ r.on = request[q].on
    BY <1>2, GotoPut
  <2> HIDE DEF r
  <2>2. Holds(r, There(objective), There(activity), There(task), There(unit))
    BY <1>1, <2>1, HeldBy DEF Holds, LearnerHolds, QueueHolds
  <2> QED BY <1>1, <2>1, <2>2, RequestKeeps
<1>3. CASE End(q)
  BY <1>1, <1>3, IdleHolds, RequestKeeps DEF End
<1> QED BY <1>2, <1>3 DEF LookUpTask

LEMMA MakeUnitKeeps ==
  ASSUME PlanInv, NEW q \in Requests, MakeUnit(q)
  PROVE  PlanInv'
<1> DEFINE k == request[q].on
           r == [request[q] EXCEPT !.pc = "mark"]
<1>1. /\ request[q].pc = "make" /\ Created(k, "in_progress", task[k].session, k)
      /\ Goto(q, "mark") /\ UNCHANGED <<learner, objective, activity, tables, task>>
  BY DEF MakeUnit
<1>2. k \in There(task)
  BY <1>1, HeldBy DEF Holds, QueueHolds
<1>3. k \in TaskKeys /\ k \in UnitKeys /\ task[k].session \in Sessions \cup {Nil}
  BY <1>2, TheRows DEF Task
<1>4. QueueOK' /\ There(unit) \subseteq There(unit') /\ k \in There(unit')
  BY <1>1, <1>3, CreatedKeeps
<1>5. /\ request' = [request EXCEPT ![q] = r] /\ IsRequest(r) /\ r.pc = "mark" /\ r.on = k
  BY <1>1, GotoPut
<1> HIDE DEF r
<1>6. Holds(r, There(objective), There(activity), There(task'), There(unit'))
  BY <1>1, <1>2, <1>4, <1>5 DEF Holds, LearnerHolds, QueueHolds
<1> QED BY <1>1, <1>4, <1>5, <1>6, QueueKeeps

LEMMA MarkStartedKeeps ==
  ASSUME PlanInv, NEW q \in Requests, MarkStarted(q)
  PROVE  PlanInv'
<1> DEFINE k == request[q].on
           row == [task[k] EXCEPT !.status = "in_progress", !.unit = k]
<1>1. /\ request[q].pc = "mark" /\ request' = [request EXCEPT ![q] = Idle]
      /\ task' = [task EXCEPT ![k].status = "in_progress", ![k].unit = k]
      /\ UNCHANGED <<learner, objective, activity, tables, unit>>
  BY DEF MarkStarted, End
<1>2. k \in There(task) /\ k \in There(unit)
  BY <1>1, HeldBy DEF Holds, QueueHolds
<1>3. k \in TaskKeys /\ k \in UnitKeys /\ task[k] \in Task /\ unit[k] # Nil
  BY <1>2, TheRows
<1>4. task' = [task EXCEPT ![k] = row]
  BY <1>1, <1>3 DEF PlanInv, QueueOK
<1>5. row \in Task /\ row.unit = k
  BY <1>3 DEF Task, Open
<1> HIDE DEF row
<1>6. QueueOK' /\ There(task) \subseteq There(task')
  BY <1>1, <1>3, <1>4, <1>5, TaskPut
<1> QED BY <1>1, <1>6, IdleHolds, QueueKeeps

\* materialise_today_unit: a pending task is picked, the day's unit made, and the task
\* claimed; without a pending task the unit is a plan.
LEMMA PickTaskKeeps ==
  ASSUME PlanInv, NEW q \in Requests, PickTask(q)
  PROVE  PlanInv'
<1>1. UNCHANGED <<learner, objective, activity, tables, task, unit>>
  BY DEF PickTask
<1>2. ASSUME NEW k \in TaskKeys, task[k] # Nil,
             request' = [request EXCEPT ![q].pc = "take", ![q].on = k]
      PROVE  PlanInv'
  <2> DEFINE r == [request[q] EXCEPT !.pc = "take", !.on = k]
  <2>1. request' = [request EXCEPT ![q] = r]
    BY <1>2 DEF PlanInv, RequestsOK
  <2>2. IsRequest(r) /\ r.pc = "take" /\ r.on = k
    BY HeldBy DEF Holds, IsRequest
  <2>3. k \in There(task)
    BY <1>2 DEF There, PlanInv, QueueOK
  <2> HIDE DEF r
  <2>4. Holds(r, There(objective), There(activity), There(task), There(unit))
    BY <2>2, <2>3 DEF Holds, LearnerHolds, QueueHolds
  <2> QED BY <1>1, <2>1, <2>4, RequestKeeps
<1>3. CASE Goto(q, "plan")
  <2> DEFINE r == [request[q] EXCEPT !.pc = "plan"]
  <2>1. request' = [request EXCEPT ![q] = r] /\ IsRequest(r) /\ r.pc = "plan"
    BY <1>3, GotoPut
  <2> HIDE DEF r
  <2>2. Holds(r, There(objective), There(activity), There(task), There(unit))
    BY <2>1 DEF Holds, LearnerHolds, QueueHolds
  <2> QED BY <1>1, <2>1, <2>2, RequestKeeps
<1> QED BY <1>2, <1>3 DEF PickTask

LEMMA TakeTaskKeeps ==
  ASSUME PlanInv, NEW q \in Requests, TakeTask(q)
  PROVE  PlanInv'
<1> DEFINE k == request[q].on
           r == [request[q] EXCEPT !.pc = "claim"]
<1>1. /\ request[q].pc = "take" /\ Created(Consolidation, "in_progress", task[k].session, k)
      /\ Goto(q, "claim") /\ UNCHANGED <<learner, objective, activity, tables, task>>
  BY DEF TakeTask
<1>2. k \in There(task)
  BY <1>1, HeldBy DEF Holds, QueueHolds
<1>3. k \in TaskKeys /\ Consolidation \in UnitKeys /\ task[k].session \in Sessions \cup {Nil}
  BY <1>2, TheRows DEF Task
<1>4. QueueOK' /\ There(unit) \subseteq There(unit') /\ Consolidation \in There(unit')
  BY <1>1, <1>3, CreatedKeeps
<1>5. /\ request' = [request EXCEPT ![q] = r] /\ IsRequest(r) /\ r.pc = "claim" /\ r.on = k
  BY <1>1, GotoPut
<1> HIDE DEF r
<1>6. Holds(r, There(objective), There(activity), There(task'), There(unit'))
  BY <1>1, <1>2, <1>4, <1>5 DEF Holds, LearnerHolds, QueueHolds
<1> QED BY <1>1, <1>4, <1>5, <1>6, QueueKeeps

LEMMA ClaimTaskKeeps ==
  ASSUME PlanInv, NEW q \in Requests, ClaimTask(q)
  PROVE  PlanInv'
<1> DEFINE k == request[q].on
           row == Claimed(task[k])
<1>1. /\ request[q].pc = "claim" /\ request' = [request EXCEPT ![q] = Idle]
      /\ task' = [task EXCEPT ![k] = row]
      /\ UNCHANGED <<learner, objective, activity, tables, unit>>
  BY DEF ClaimTask, End
<1>2. k \in There(task) /\ Consolidation \in There(unit)
  BY <1>1, HeldBy DEF Holds, QueueHolds
<1>3. /\ k \in TaskKeys /\ task[k] \in Task /\ task[k] # Nil
      /\ Consolidation \in UnitKeys /\ unit[Consolidation] # Nil
  BY <1>2, TheRows
<1>4. row \in Task /\ row.unit \in {task[k].unit, Consolidation}
  BY <1>3 DEF Claimed, Task, Open
<1>5. row.unit # Nil => row.unit \in {k, Consolidation} /\ unit[row.unit] # Nil
  BY <1>3, <1>4 DEF PlanInv, QueueOK
<1> HIDE DEF row
<1>6. QueueOK' /\ There(task) \subseteq There(task')
  BY <1>1, <1>3, <1>4, <1>5, TaskPut
<1> QED BY <1>1, <1>6, IdleHolds, QueueKeeps

LEMMA PlanUnitKeeps ==
  ASSUME PlanInv, NEW q \in Requests, PlanUnit(q)
  PROVE  PlanInv'
<1>1. /\ Created(Consolidation, "planned", Nil, Nil) /\ request' = [request EXCEPT ![q] = Idle]
      /\ UNCHANGED <<learner, objective, activity, tables, task>>
  BY DEF PlanUnit, End
<1>2. QueueOK' /\ There(unit) \subseteq There(unit')
  BY <1>1, CreatedKeeps, TheRows
<1> QED BY <1>1, <1>2, IdleHolds, QueueKeeps

\* The primary slot is a plan.
LEMMA MaterialisePrimaryKeeps ==
  ASSUME PlanInv, MaterialisePrimary
  PROVE  PlanInv'
<1>1. /\ Created(Primary, "planned", Nil, Nil)
      /\ UNCHANGED <<learner, objective, activity, tables, task, request>>
  BY DEF MaterialisePrimary
<1>2. QueueOK' /\ There(unit) \subseteq There(unit')
  BY <1>1, CreatedKeeps, TheRows
<1>3. RequestsOK'
  BY <1>1, <1>2, RequestsKept DEF PlanInv, Grown
<1> QED BY <1>1, <1>2, <1>3, RecordsSame, GoalsSame DEF PlanInv

\* bind_practice_unit
LEMMA ReadUnitKeeps ==
  ASSUME PlanInv, NEW q \in Requests, NEW u \in UnitKeys, NEW s \in Sessions, ReadUnit(q, u, s)
  PROVE  PlanInv'
<1> DEFINE r == [Idle EXCEPT !.pc = "bind", !.on = u, !.with = s]
<1>1. /\ request' = [request EXCEPT ![q] = r] /\ unit[u] # Nil
      /\ UNCHANGED <<learner, objective, activity, tables, task, unit>>
  BY DEF ReadUnit, Begin
<1>2. IsRequest(r) /\ r.pc = "bind" /\ r.on = u /\ r.with = s
  BY DEF Idle, IsRequest
<1>3. u \in There(unit)
  BY <1>1 DEF There, PlanInv, QueueOK
<1> HIDE DEF r
<1>4. Holds(r, There(objective), There(activity), There(task), There(unit))
  BY <1>2, <1>3 DEF Holds, LearnerHolds, QueueHolds
<1> QED BY <1>1, <1>4, RequestKeeps

\* Units that are there may change.
LEMMA UnitsPut ==
  ASSUME PlanInv, unit' \in [UnitKeys -> Unit \cup {Nil}],
         \A u \in UnitKeys : unit[u] # Nil => unit'[u] # Nil,
         task' \in [TaskKeys -> Task \cup {Nil}],
         \A k \in TaskKeys : /\ task'[k] # Nil <=> task[k] # Nil
                             /\ task[k] # Nil => task'[k].unit = task[k].unit
  PROVE  QueueOK' /\ There(task) \subseteq There(task') /\ There(unit) \subseteq There(unit')
<1>1. There(task) \subseteq There(task') /\ There(unit) \subseteq There(unit')
  BY DEF There, PlanInv, QueueOK
<1>2. \A k \in TaskKeys : task[k] # Nil /\ task[k].unit # Nil =>
        task[k].unit \in {k, Consolidation} /\ task[k].unit \in UnitKeys /\ unit[task[k].unit] # Nil
  BY DEF PlanInv, QueueOK, UnitKeys
<1> QED BY <1>1, <1>2 DEF QueueOK

LEMMA BindUnitKeeps ==
  ASSUME PlanInv, NEW q \in Requests, BindUnit(q)
  PROVE  PlanInv'
<1> DEFINE u == request[q].on
           s == request[q].with
           row == [unit[u] EXCEPT !.status = "in_progress", !.session = s]
<1>1. /\ request[q].pc = "bind" /\ request' = [request EXCEPT ![q] = Idle]
      /\ unit' = [unit EXCEPT ![u].status = "in_progress", ![u].session = s]
      /\ UNCHANGED <<learner, objective, activity, tables, task>>
  BY DEF BindUnit, End
<1>2. u \in There(unit) /\ s \in Sessions
  BY <1>1, HeldBy DEF Holds, QueueHolds
<1>3. u \in UnitKeys /\ unit[u] \in Unit /\ unit \in [UnitKeys -> Unit \cup {Nil}]
  BY <1>2, TheRows DEF PlanInv, QueueOK
<1>4. unit' = [unit EXCEPT ![u] = row]
  BY <1>1, <1>3
<1>5. row \in Unit /\ row # Nil
  <2>1. row \in Unit
    BY <1>2, <1>3 DEF Unit
  <2> QED BY <2>1, PlanConstants
<1> HIDE DEF row
<1>6. /\ unit' \in [UnitKeys -> Unit \cup {Nil}]
      /\ \A x \in UnitKeys : unit[x] # Nil => unit'[x] # Nil
  BY <1>3, <1>4, <1>5
<1>7. QueueOK' /\ There(task) \subseteq There(task') /\ There(unit) \subseteq There(unit')
  BY <1>1, <1>6, UnitsPut DEF PlanInv, QueueOK
<1> QED BY <1>1, <1>7, IdleHolds, QueueKeeps

\* complete_review_task: the task's unit is read, and completed with it.
LEMMA ReadTaskKeeps ==
  ASSUME PlanInv, NEW q \in Requests, NEW k \in TaskKeys, ReadTask(q, k)
  PROVE  PlanInv'
<1> DEFINE u == task[k].unit
           r == [Idle EXCEPT !.pc = "complete", !.on = k, !.with = u]
<1>1. /\ request' = [request EXCEPT ![q] = r] /\ task[k] # Nil
      /\ UNCHANGED <<learner, objective, activity, tables, task, unit>>
  BY DEF ReadTask, Begin
<1>2. k \in There(task)
  BY <1>1 DEF There, PlanInv, QueueOK
<1>3. u # Nil => u \in There(unit)
  BY <1>1 DEF There, PlanInv, QueueOK, UnitKeys
<1> HIDE DEF u
<1>4. IsRequest(r) /\ r.pc = "complete" /\ r.on = k /\ r.with = u
  BY DEF Idle, IsRequest
<1> HIDE DEF r
<1>5. Holds(r, There(objective), There(activity), There(task), There(unit))
  BY <1>2, <1>3, <1>4 DEF Holds, LearnerHolds, QueueHolds
<1> QED BY <1>1, <1>5, RequestKeeps

\* A unit that is completed is one.
LEMMA UnitsCompleted ==
  ASSUME PlanInv, NEW us \in SUBSET There(unit), unit' = CompletedUnits(us)
  PROVE  /\ unit' \in [UnitKeys -> Unit \cup {Nil}]
         /\ \A u \in UnitKeys : unit[u] # Nil => unit'[u] # Nil
<1>1. ASSUME NEW u \in UnitKeys
      PROVE  unit'[u] \in Unit \cup {Nil} /\ (unit[u] # Nil => unit'[u] # Nil)
  <2>1. CASE u \in us
    <3> DEFINE row == [unit[u] EXCEPT !.status = "completed"]
    <3>1. unit'[u] = row
      BY <2>1 DEF CompletedUnits
    <3>2. row \in Unit
      BY <2>1, TheRows DEF Unit
    <3> QED BY <3>1, <3>2, PlanConstants
  <2>2. CASE u \notin us
    BY <2>2 DEF CompletedUnits, PlanInv, QueueOK
  <2> QED BY <2>1, <2>2
<1>2. unit' = [u \in UnitKeys |-> unit'[u]]
  BY DEF CompletedUnits
<1> QED BY <1>1, <1>2

\* A task that is closed keeps its unit.
LEMMA ClosedIs ==
  ASSUME NEW row \in Task
  PROVE  Closed(row) \in Task /\ Closed(row) # Nil /\ Closed(row).unit = row.unit
<1>1. Closed(row) \in Task /\ Closed(row).unit = row.unit
  BY DEF Closed, Task
<1> QED BY <1>1, PlanConstants

LEMMA CompleteTaskKeeps ==
  ASSUME PlanInv, NEW q \in Requests, CompleteTask(q)
  PROVE  PlanInv'
<1> DEFINE k == request[q].on
           us == {request[q].with} \ {Nil}
           row == Closed(task[k])
<1>1. /\ request[q].pc = "complete" /\ request' = [request EXCEPT ![q] = Idle]
      /\ task' = [task EXCEPT ![k] = row] /\ unit' = CompletedUnits(us)
      /\ UNCHANGED <<learner, objective, activity, tables>>
  BY DEF CompleteTask, End
<1>2. k \in There(task) /\ us \in SUBSET There(unit)
  BY <1>1, HeldBy DEF Holds, QueueHolds
<1>3. /\ k \in TaskKeys /\ task[k] # Nil /\ task \in [TaskKeys -> Task \cup {Nil}]
      /\ row \in Task /\ row # Nil /\ row.unit = task[k].unit
  BY <1>2, TheRows, ClosedIs DEF PlanInv, QueueOK
<1> HIDE DEF row, us
<1>4. /\ task' \in [TaskKeys -> Task \cup {Nil}]
      /\ \A x \in TaskKeys : /\ task'[x] # Nil <=> task[x] # Nil
                             /\ task[x] # Nil => task'[x].unit = task[x].unit
  BY <1>1, <1>3
<1>5. QueueOK' /\ There(task) \subseteq There(task') /\ There(unit) \subseteq There(unit')
  BY <1>1, <1>2, <1>4, UnitsCompleted, UnitsPut
<1> QED BY <1>1, <1>5, IdleHolds, QueueKeeps

\* finish: a unit of the finished Session is looked up, and completed with its tasks.
LEMMA ReadFinishedKeeps ==
  ASSUME PlanInv, NEW q \in Requests, NEW s \in Sessions, ReadFinished(q, s)
  PROVE  PlanInv'
<1>1. PICK u \in UnitKeys :
        /\ unit[u] # Nil
        /\ request' = [request EXCEPT ![q] = [Idle EXCEPT !.pc = "finish", !.on = u]]
        /\ UNCHANGED <<learner, objective, activity, tables, task, unit>>
  BY DEF ReadFinished, Begin
<1> DEFINE r == [Idle EXCEPT !.pc = "finish", !.on = u]
<1>2. IsRequest(r) /\ r.pc = "finish" /\ r.on = u
  BY DEF Idle, IsRequest
<1>3. u \in There(unit)
  BY <1>1 DEF There, PlanInv, QueueOK
<1>4. request' = [request EXCEPT ![q] = r]
  BY <1>1
<1> HIDE DEF r
<1>5. Holds(r, There(objective), There(activity), There(task), There(unit))
  BY <1>2, <1>3 DEF Holds, LearnerHolds, QueueHolds
<1> QED BY <1>1, <1>4, <1>5, RequestKeeps

LEMMA CompleteUnitKeeps ==
  ASSUME PlanInv, NEW q \in Requests, CompleteUnit(q)
  PROVE  PlanInv'
<1> DEFINE u == request[q].on
           us == {u}
<1>1. /\ request[q].pc = "finish" /\ request' = [request EXCEPT ![q] = Idle]
      /\ unit' = CompletedUnits(us) /\ task' = WithTasksClosed(u)
      /\ UNCHANGED <<learner, objective, activity, tables>>
  BY DEF CompleteUnit, End
<1>2. us \in SUBSET There(unit)
  BY <1>1, HeldBy DEF Holds, QueueHolds
<1> HIDE DEF us
<1>3. ASSUME NEW k \in TaskKeys
      PROVE  /\ task'[k] \in Task \cup {Nil} /\ (task'[k] # Nil <=> task[k] # Nil)
             /\ task[k] # Nil => task'[k].unit = task[k].unit
  <2>1. task[k] \in Task \cup {Nil}
    BY DEF PlanInv, QueueOK
  <2>2. task'[k] = task[k] \/ (task[k] # Nil /\ task'[k] = Closed(task[k]))
    BY <1>1 DEF WithTasksClosed
  <2> QED BY <2>1, <2>2, ClosedIs
<1>4. task' \in [TaskKeys -> Task \cup {Nil}]
  <2>1. task' = [k \in TaskKeys |-> task'[k]]
    BY <1>1 DEF WithTasksClosed
  <2> QED BY <1>3, <2>1
<1>5. QueueOK' /\ There(task) \subseteq There(task') /\ There(unit) \subseteq There(unit')
  BY <1>1, <1>2, <1>3, <1>4, UnitsCompleted, UnitsPut
<1> QED BY <1>1, <1>5, IdleHolds, QueueKeeps

(***************************************************************************)
(* The study plan: every step, and what follows                            *)
(***************************************************************************)
\* Nothing happens.
LEMMA PlanStutters == ASSUME PlanInv, UNCHANGED vars PROVE PlanInv'
<1>1. RequestsOK'
  BY RequestsKept DEF PlanInv, Grown, vars
<1> QED BY <1>1, RecordsSame, GoalsSame, QueueSame DEF PlanInv, vars

\* Every step of the plan.
LEMMA PlanInvStep == PlanInv /\ [Next]_vars => PlanInv'
<1> SUFFICES ASSUME PlanInv, [Next]_vars PROVE PlanInv'
  OBVIOUS
<1>1. ASSUME NEW s \in Sessions, RecordSession(s) PROVE PlanInv'
  BY <1>1, RecordSessionKeeps
<1>2. CASE ResolveErrors
  BY <1>2, ResolveErrorsKeeps
<1>3. CASE LearnerRequest
  BY <1>3, RecordEvidenceKeeps, MoveReviewKeeps, CreateObjectiveKeeps, CreateActivityKeeps
     DEF LearnerRequest
<1>4. CASE MaterialisePrimary
  BY <1>4, MaterialisePrimaryKeeps
<1>5. ASSUME NEW q \in Requests, LearnerStep(q) PROVE PlanInv'
  BY <1>5, ReadReviewKeeps, CompleteReviewKeeps, ReadObjectiveKeeps, WriteObjectiveKeeps,
     ReadActivityKeeps, WriteActivityKeeps DEF LearnerStep
<1>6. ASSUME NEW q \in Requests, QueueStep(q) PROVE PlanInv'
  BY <1>6, StartTaskKeeps, ReadTaskKeeps, SyncReviewKeeps, MaterialiseConsolidationKeeps,
     ReadCandidatesKeeps, WriteTasksKeeps, LookUpTaskKeeps, MakeUnitKeeps, MarkStartedKeeps,
     PickTaskKeeps, TakeTaskKeeps, ClaimTaskKeeps, PlanUnitKeeps, CompleteTaskKeeps DEF QueueStep
<1>7. ASSUME NEW q \in Requests, UnitStep(q) PROVE PlanInv'
  BY <1>7, ReadUnitKeeps, ReadFinishedKeeps, BindUnitKeeps, CompleteUnitKeeps DEF UnitStep
<1> QED BY <1>1, <1>2, <1>3, <1>4, <1>5, <1>6, <1>7, PlanStutters DEF Next

\* Its invariant.
LEMMA PlanInvariant == Spec => []PlanInv
<1>1. Init => PlanInv
  BY PlanInvInit
<1>2. PlanInv /\ [Next]_vars => PlanInv'
  BY PlanInvStep
<1> QED BY <1>1, <1>2, PTL DEF Spec

\* The tables have their types: a skill's evidence is one row a source, an objective is
\* achieved and an activity completed as its status says, ids of errors are never used
\* twice, and the unit of a task is its own or today's and is there.
THEOREM PlanTyped == Spec => []TypeOK
<1>1. PlanInv => TypeOK
  <2> SUFFICES ASSUME PlanInv PROVE TypeOK
    OBVIOUS
  <2>1. LearnerTypeOK
    <3>1. /\ learner.evidence \subseteq Evidence
          /\ \A d, e \in learner.evidence : d.skill = e.skill /\ d.source = e.source => d = e
          /\ \A key \in Keys : learner.review[key] \in Review \cup {Nil}
      BY DEF PlanInv, LearnerOK, Distinct
    <3> QED BY <3>1 DEF PlanInv, GoalsOK, LearnerTypeOK
  <2> QED BY <2>1 DEF PlanInv, SessionsOK, RowsOK, QueueOK, TypeOK
<1> QED BY <1>1, PlanInvariant, PTL

\* The learner model is what rebuilding it from the Sessions would give, after every
\* commit and beside every request: each Session's evidence is what its document says,
\* every skill's mastery that of the evidence, its next review the earliest open one.
THEOREM ModelIsCurrent == Spec => []ModelCurrent
<1>1. PlanInv => ModelCurrent
  BY DEF PlanInv, SessionsOK, LearnerOK, Current, ModelCurrent, MasteryCurrent
<1> QED BY <1>1, PlanInvariant, PTL

(***************************************************************************)
(* The study plan: what is done stays done                                 *)
(***************************************************************************)
\* The two parts of DoneStaysDone: what a step does to a task and to a unit.
TasksStay ==
  \A k \in TaskKeys : task[k] # Nil /\ task[k].status = "completed" =>
    \/ task'[k].status = "completed"
    \/ \E q \in Requests : request[q].pc = "mark" /\ request[q].on = k
UnitsStay ==
  \A u \in UnitKeys : unit[u] # Nil /\ unit[u].status = "completed" =>
    \/ unit'[u].status = "completed"
    \/ \E q \in Requests : request[q].pc = "bind" /\ request[q].on = u

\* Most steps leave them alone.
LEMMA TasksAlone == ASSUME UNCHANGED task PROVE TasksStay
BY DEF TasksStay

LEMMA UnitsAlone == ASSUME UNCHANGED unit PROVE UnitsStay
BY DEF UnitsStay

\* A unit is made only where there is none, and otherwise left as it is.
LEMMA CreatedStay ==
  ASSUME PlanInv, NEW u \in UnitKeys, NEW status, NEW s, NEW k, Created(u, status, s, k)
  PROVE  UnitsStay
<1>1. ASSUME NEW x \in UnitKeys, unit[x] # Nil PROVE unit'[x] = unit[x]
  <2> DEFINE row == NewUnit(status, s, k)
  <2>1. unit' = IF unit[u] = Nil THEN [unit EXCEPT ![u] = row] ELSE unit
    BY DEF Created
  <2> HIDE DEF row
  <2> QED BY <1>1, <2>1 DEF PlanInv, QueueOK
<1> QED BY <1>1 DEF UnitsStay

\* Units are completed, and those completed remain so.
LEMMA CompletedStay ==
  ASSUME PlanInv, NEW us, us \subseteq There(unit), unit' = CompletedUnits(us)
  PROVE  UnitsStay
<1>1. ASSUME NEW u \in UnitKeys, unit[u] # Nil, unit[u].status = "completed"
      PROVE  unit'[u].status = "completed"
  <2>1. CASE u \in us
    <3>1. unit'[u] = [unit[u] EXCEPT !.status = "completed"] /\ unit[u] \in Unit
      BY <1>1, <2>1, TheRows DEF CompletedUnits
    <3> QED BY <3>1 DEF Unit
  <2>2. CASE u \notin us
    BY <1>1, <2>2 DEF CompletedUnits
  <2> QED BY <2>1, <2>2
<1> QED BY <1>1 DEF UnitsStay

\* Bringing the queue up to date opens no task again.
LEMMA WriteTasksStay ==
  ASSUME PlanInv, NEW q \in Requests, WriteTasks(q)
  PROVE  TasksStay /\ UnitsStay
<1> DEFINE found == request[q].read
<1>1. task' = Synchronised(found) /\ UNCHANGED unit
  BY DEF WriteTasks
<1> HIDE DEF found
<1>2. ASSUME NEW k \in TaskKeys, task[k] # Nil, task[k].status = "completed"
      PROVE  task'[k] = task[k]
  BY <1>1, <1>2 DEF Synchronised, Queued, Open
<1> QED BY <1>1, <1>2, UnitsAlone DEF TasksStay

\* A task that is started was open when the request looked; any other stays as it is.
LEMMA MarkStartedStays ==
  ASSUME PlanInv, NEW q \in Requests, MarkStarted(q)
  PROVE  TasksStay /\ UnitsStay
<1>1. /\ request[q].pc = "mark" /\ UNCHANGED unit
      /\ task' = [task EXCEPT ![request[q].on].status = "in_progress",
                              ![request[q].on].unit = request[q].on]
  BY DEF MarkStarted
<1>2. ASSUME NEW k \in TaskKeys, k # request[q].on PROVE task'[k] = task[k]
  BY <1>1, <1>2 DEF PlanInv, QueueOK
<1> QED BY <1>1, <1>2, UnitsAlone DEF TasksStay

\* The day's unit takes no task that was completed meanwhile.
LEMMA ClaimTaskStays ==
  ASSUME PlanInv, NEW q \in Requests, ClaimTask(q)
  PROVE  TasksStay /\ UnitsStay
<1> DEFINE o == request[q].on
<1>1. task' = [task EXCEPT ![o] = Claimed(task[o])] /\ UNCHANGED unit
  BY DEF ClaimTask
<1> HIDE DEF o
<1>2. ASSUME NEW k \in TaskKeys, task[k] # Nil, task[k].status = "completed"
      PROVE  task'[k] = task[k]
  <2>1. Claimed(task[k]) = task[k]
    BY <1>2 DEF Claimed
  <2> QED BY <1>1, <2>1 DEF PlanInv, QueueOK
<1> QED BY <1>1, <1>2, UnitsAlone DEF TasksStay

\* A unit that is bound was not completed when the request looked.
LEMMA BindUnitStays ==
  ASSUME PlanInv, NEW q \in Requests, BindUnit(q)
  PROVE  TasksStay /\ UnitsStay
<1>1. /\ request[q].pc = "bind" /\ UNCHANGED task
      /\ unit' = [unit EXCEPT ![request[q].on].status = "in_progress",
                              ![request[q].on].session = request[q].with]
  BY DEF BindUnit
<1>2. ASSUME NEW u \in UnitKeys, u # request[q].on PROVE unit'[u] = unit[u]
  BY <1>1, <1>2 DEF PlanInv, QueueOK
<1> QED BY <1>1, <1>2, TasksAlone DEF UnitsStay

\* A closed task stays closed.
LEMMA CompleteTaskStays ==
  ASSUME PlanInv, NEW q \in Requests, CompleteTask(q)
  PROVE  TasksStay /\ UnitsStay
<1> DEFINE o == request[q].on
           us == {request[q].with} \ {Nil}
<1>1. /\ task' = [task EXCEPT ![o] = Closed(task[o])] /\ unit' = CompletedUnits(us)
      /\ request[q].pc = "complete"
  BY DEF CompleteTask
<1>2. o \in There(task) /\ us \subseteq There(unit)
  BY <1>1, HeldBy DEF Holds, QueueHolds
<1>3. Closed(task[o]).status = "completed"
  BY <1>2, TheRows DEF Closed, Task
<1> HIDE DEF o, us
<1>4. ASSUME NEW k \in TaskKeys, task[k].status = "completed" PROVE task'[k].status = "completed"
  BY <1>1, <1>3, <1>4 DEF PlanInv, QueueOK
<1> QED BY <1>1, <1>2, <1>4, CompletedStay DEF TasksStay

LEMMA CompleteUnitStays ==
  ASSUME PlanInv, NEW q \in Requests, CompleteUnit(q)
  PROVE  TasksStay /\ UnitsStay
<1> DEFINE u == request[q].on
           us == {u}
<1>1. /\ request[q].pc = "finish" /\ unit' = CompletedUnits(us) /\ task' = WithTasksClosed(u)
  BY DEF CompleteUnit
<1>2. us \subseteq There(unit)
  BY <1>1, HeldBy DEF Holds, QueueHolds
<1> HIDE DEF us
<1>3. ASSUME NEW k \in TaskKeys, task[k] # Nil, task[k].status = "completed"
      PROVE  task'[k] = task[k]
  BY <1>1, <1>3 DEF WithTasksClosed, Open
<1> QED BY <1>1, <1>2, <1>3, CompletedStay DEF TasksStay

\* A step of a request about the queue.
LEMMA QueueStepStays ==
  ASSUME PlanInv, NEW q \in Requests, QueueStep(q)
  PROVE  TasksStay /\ UnitsStay
<1>1. CASE (\E k \in TaskKeys : StartTask(q, k) \/ ReadTask(q, k)) \/ SyncReview(q)
           \/ MaterialiseConsolidation(q) \/ ReadCandidates(q) \/ LookUpTask(q) \/ PickTask(q)
  <2>1. UNCHANGED <<task, unit>>
    BY <1>1 DEF StartTask, ReadTask, SyncReview, MaterialiseConsolidation, ReadCandidates,
                LookUpTask, PickTask
  <2> QED BY <2>1, TasksAlone, UnitsAlone
<1>2. CASE MakeUnit(q) \/ TakeTask(q) \/ PlanUnit(q)
  <2>1. UNCHANGED task
    BY <1>2 DEF MakeUnit, TakeTask, PlanUnit
  <2>2. CASE MakeUnit(q)
    <3>1. request[q].on \in UnitKeys
      BY <2>2, HeldBy, TheRows DEF MakeUnit, Holds, QueueHolds
    <3> QED BY <2>2, <3>1, CreatedStay DEF MakeUnit, TasksStay
  <2>3. CASE TakeTask(q) \/ PlanUnit(q)
    BY <2>1, <2>3, TheRows, CreatedStay, TasksAlone DEF TakeTask, PlanUnit
  <2> QED BY <1>2, <2>1, <2>2, <2>3, TasksAlone
<1> QED BY <1>1, <1>2, WriteTasksStay, MarkStartedStays, ClaimTaskStays, CompleteTaskStays
        DEF QueueStep

\* What the learner is done with stays done: a completed task is opened again only by a
\* request that found it open and is about to start it, and a completed unit only by one
\* that is about to bind it.
THEOREM DoneStays == Spec => DoneStaysDone
<1>1. PlanInv /\ [Next]_vars => [TasksStay /\ UnitsStay]_vars
  <2> SUFFICES ASSUME PlanInv, Next PROVE TasksStay /\ UnitsStay
    OBVIOUS
  <2>1. CASE \E s \in Sessions : RecordSession(s)
    BY <2>1, TasksAlone, UnitsAlone DEF RecordSession
  <2>2. CASE ResolveErrors
    BY <2>2, TasksAlone, UnitsAlone DEF ResolveErrors
  <2>3. CASE LearnerRequest
    BY <2>3, TasksAlone, UnitsAlone
       DEF LearnerRequest, RecordEvidence, MoveReview, CreateObjective, CreateActivity
  <2>4. CASE MaterialisePrimary
    BY <2>4, TheRows, CreatedStay, TasksAlone DEF MaterialisePrimary
  <2>5. CASE \E q \in Requests : LearnerStep(q)
    BY <2>5, TasksAlone, UnitsAlone
       DEF LearnerStep, ReadReview, CompleteReview, ReadObjective, WriteObjective, ReadActivity,
           WriteActivity
  <2>6. CASE \E q \in Requests : QueueStep(q)
    BY <2>6, QueueStepStays
  <2>7. CASE \E q \in Requests : UnitStep(q)
    BY <2>7, BindUnitStays, CompleteUnitStays, TasksAlone, UnitsAlone
       DEF UnitStep, ReadUnit, ReadFinished
  <2> QED BY <2>1, <2>2, <2>3, <2>4, <2>5, <2>6, <2>7 DEF Next
<1> QED BY <1>1, PlanInvariant, PTL DEF Spec, DoneStaysDone, TasksStay, UnitsStay
=============================================================================
