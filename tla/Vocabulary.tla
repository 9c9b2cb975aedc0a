------------------------------ MODULE Vocabulary ------------------------------
(***************************************************************************)
(* The learner's word list (vocabulary.py, web/vocabulary_routes.py): words *)
(* the learner adds or the tutor taught, their reviews, and the card each  *)
(* word has.  Requests and tutor runs overlap; a step is one transaction,  *)
(* or a read that a later step relies on.  What is said about a word       *)
(* (meaning, usage, example) and the counts of reviews are left out; so is *)
(* the learner memory of a typing mistake, which LearnerMemory's creation  *)
(* is.                                                                     *)
(***************************************************************************)
EXTENDS Naturals, Sequences, TLC

CONSTANTS
  ItemIds,      \* item_id: the word in lower case, whatever its track
  Spellings,    \* a track and a word as it was written
  Item,         \* [Spellings -> ItemIds]
  Folded,       \* the spellings that are their own lower case
  Writers,      \* requests, tutor runs and enrichment jobs
  MaxArrivals,  \* bound: how many there are
  None

VARIABLES
  words,        \* vocabulary_items: [ItemIds -> row or None]
  card,         \* vocabulary_enrichments: [ItemIds -> row or None]
  writer,       \* [Writers -> where it is and what it has read]
  recalls,      \* history: [ItemIds -> how often the word was recalled]
  arrivals      \* history: how many there were

wordVars == <<words, card, writer, recalls, arrivals>>

Settled  == {"mastered", "known", "dismissed"}
Statuses == {"candidate", "learning"} \cup Settled
Ladder   == <<1, 2, 4, 7, 14, 30, 60>>

Resting == [pc |-> "idle", on |-> None, found |-> None, with |-> None]

WordsInit ==
  /\ words = [i \in ItemIds |-> None] /\ card = [i \in ItemIds |-> None]
  /\ writer = [q \in Writers |-> Resting]
  /\ recalls = [i \in ItemIds |-> 0] /\ arrivals = 0

Arrive == arrivals < MaxArrivals /\ arrivals' = arrivals + 1
Enter(q, r) == Arrive /\ writer[q] = Resting /\ writer' = [writer EXCEPT ![q] = r]
Leave(q) == writer' = [writer EXCEPT ![q] = Resting]

(***************************************************************************)
(* Words come and go                                                       *)
(***************************************************************************)
NewWord(w, status, source) ==
  [word |-> w, status |-> status, source |-> source, streak |-> 0, due |-> 0]

\* SELECT ... WHERE track_id=? AND word=?
Found(w) == IF words[Item[w]] # None /\ words[Item[w]].word = w THEN words[Item[w]] ELSE None

ReadForAdd(q, w) ==
  /\ Enter(q, [pc |-> "add", on |-> w, found |-> Found(w), with |-> None])
  /\ UNCHANGED <<words, card, recalls>>

\* The row that was found is updated, if it is still there; a new one is refused
\* when its item_id is taken, be it by another spelling.
Stored(i, found, new, changed) ==
  words' = IF found # None /\ words[i] # None THEN [words EXCEPT ![i] = changed]
           ELSE IF found = None /\ words[i] = None THEN [words EXCEPT ![i] = new]
           ELSE words

AddWord(q) ==
  /\ writer[q].pc = "add"
  /\ LET w == writer[q].on
         i == Item[w]
     IN Stored(i, writer[q].found, NewWord(w, "learning", "learner"),
               [words[i] EXCEPT !.source = "learner"])
  /\ Leave(q)
  /\ UNCHANGED <<card, recalls, arrivals>>

\* ingest_taught_words, by a tutor run: what the learner is done with is left alone.
\* Mutant: it is not.
OffersAgain(row) == TRUE
Offers(row) == row # None => row.status \notin Settled

ReadForIngest(q, w) ==
  /\ Offers(Found(w))
  /\ Enter(q, [pc |-> "ingest", on |-> w, found |-> Found(w), with |-> None])
  /\ UNCHANGED <<words, card, recalls>>

IngestWord(q) ==
  /\ writer[q].pc = "ingest"
  /\ LET w == writer[q].on
         i == Item[w]
     IN Stored(i, writer[q].found, NewWord(w, "candidate", "dialogue"),
               [words[i] EXCEPT !.status = "candidate", !.source = "dialogue"])
  /\ Leave(q)
  /\ UNCHANGED <<card, recalls, arrivals>>

\* undo_vocabulary_ingest looks and deletes; the deletion looks as well.  The card
\* goes with the word.  Mutant: the card stays.
CardStays(i) == card
CardGone(i) == [card EXCEPT ![i] = None]

Undo(i) ==
  /\ Arrive
  /\ words[i] # None /\ words[i].status = "candidate"
  /\ words' = [words EXCEPT ![i] = None] /\ card' = CardGone(i)
  /\ UNCHANGED <<writer, recalls>>

SetStatus(i, status) ==
  /\ Arrive
  /\ words[i] # None /\ words' = [words EXCEPT ![i].status = status]
  /\ UNCHANGED <<card, writer, recalls>>

(***************************************************************************)
(* Reviews                                                                 *)
(***************************************************************************)
\* record_typing_mistake looks for the word in lower case.
Mistyped(row) ==
  [row EXCEPT !.due = 1,
     !.status = IF row.status \in {"mastered", "known"} THEN "learning" ELSE row.status]

TypingMistake(w) ==
  /\ Arrive
  /\ w \in Folded /\ Found(w) # None
  /\ words' = [words EXCEPT ![Item[w]] = Mistyped(@)]
  /\ UNCHANGED <<card, writer, recalls>>

Schedule(i, days) ==
  /\ Arrive
  /\ words[i] # None /\ words' = [words EXCEPT ![i].due = days]
  /\ UNCHANGED <<card, writer, recalls>>

\* apply_adaptive_vocabulary_review counts on from the streak it read.
ReadWord(q, i) ==
  /\ words[i] # None
  /\ Enter(q, [pc |-> "review", on |-> i, found |-> words[i], with |-> None])
  /\ UNCHANGED <<words, card, recalls>>

Least(m, n) == IF m < n THEN m ELSE n
Days(streak) == IF streak = 0 THEN 1 ELSE Ladder[Least(streak, Len(Ladder))]

\* Mutant: a word that was missed keeps its place on the ladder.
KeptOn(streak, recalled) == streak + 1
Streak(streak, recalled) == IF recalled THEN streak + 1 ELSE 0

WriteReview(q, recalled) ==
  /\ writer[q].pc = "review"
  /\ LET i == writer[q].on
         n == Streak(writer[q].found.streak, recalled)
     IN /\ words' = IF words[i] = None THEN words
                    ELSE [words EXCEPT ![i].streak = n, ![i].due = Days(n)]
        /\ recalls' = [recalls EXCEPT ![i] = IF recalled THEN @ + 1 ELSE @]
  /\ Leave(q)
  /\ UNCHANGED <<card, arrivals>>

(***************************************************************************)
(* Word cards                                                              *)
(***************************************************************************)
\* ensure_deterministic_enrichment fills from the bundled presets what it finds
\* empty; source is that of the card there is.
Lacking(row) == row # None => row.text = "none"
\* Mutant: what the model wrote is filled as well.
FillsAnyway(row) == TRUE
Fills(row) == Lacking(row)

OpenCard(q, i) ==
  /\ words[i] # None /\ Fills(card[i])
  /\ Enter(q, [pc |-> "look", on |-> i, found |-> card[i],
               with |-> [text |-> "bundled",
                         source |-> IF card[i] = None THEN "bundled" ELSE card[i].source]])
  /\ UNCHANGED <<words, card, recalls>>

\* A job of the background queue, one at a time for a word: run_vocabulary_enrichment.
Enriching(i) == \E q \in Writers : writer[q].pc # "idle" /\ writer[q].on = i
                                     /\ writer[q].with # None /\ writer[q].with.source = "model"

Enrich(q, i) ==
  /\ words[i] # None /\ ~Enriching(i)
  /\ \E text \in {"model", "none"} :
       Enter(q, [pc |-> "model", on |-> i, found |-> None,
                 with |-> [text |-> text, source |-> "model"]])
  /\ UNCHANGED <<words, card, recalls>>

\* The model answers, or the job fails.
Answer(q) ==
  /\ writer[q].pc = "model"
  /\ \/ writer' = [writer EXCEPT ![q].pc = "look"]
     \/ Leave(q)
  /\ UNCHANGED <<words, card, recalls, arrivals>>

\* upsert_vocabulary_enrichment looks for the row itself ...
LookForCard(q) ==
  /\ writer[q].pc = "look"
  /\ writer' = [writer EXCEPT ![q].pc =
                   IF card[writer[q].on] = None THEN "insert" ELSE "update"]
  /\ UNCHANGED <<words, card, recalls, arrivals>>

\* ... and writes it, unless it is gone, or there by now, or its word is gone.
StoreCard(q) ==
  /\ writer[q].pc \in {"insert", "update"}
  /\ LET i == writer[q].on
         fits == IF writer[q].pc = "insert" THEN card[i] = None /\ words[i] # None
                                             ELSE card[i] # None
     IN card' = IF fits THEN [card EXCEPT ![i] = writer[q].with] ELSE card
  /\ Leave(q)
  /\ UNCHANGED <<words, recalls, arrivals>>

WordsNext ==
  \/ \E i \in ItemIds :
       \/ Undo(i)
       \/ \E status \in Statuses : SetStatus(i, status)
       \/ \E days \in {3} : Schedule(i, days)
  \/ \E w \in Spellings : TypingMistake(w)
  \/ \E q \in Writers :
       \/ \E w \in Spellings : ReadForAdd(q, w) \/ ReadForIngest(q, w)
       \/ \E i \in ItemIds : ReadWord(q, i) \/ OpenCard(q, i) \/ Enrich(q, i)
       \/ \E recalled \in BOOLEAN : WriteReview(q, recalled)
       \/ AddWord(q) \/ IngestWord(q) \/ Answer(q) \/ LookForCard(q) \/ StoreCard(q)

WordsSpec == WordsInit /\ [][WordsNext]_wordVars

(***************************************************************************)
(* Properties                                                              *)
(***************************************************************************)
Word == [word : Spellings, status : Statuses, source : {"learner", "dialogue"},
         streak : Nat, due : Nat]
Card == [text : {"none", "bundled", "model"}, source : {"bundled", "model"}]
ASSUME ItemsAssumption == Item \in [Spellings -> ItemIds] /\ None \notin Word \cup Card

\* Every row has its type and its own item_id, and a card has a word.
WordsTypeOK ==
  /\ \A i \in ItemIds : words[i] # None => words[i] \in Word /\ Item[words[i].word] = i
  /\ \A i \in ItemIds : card[i] # None => card[i] \in Card /\ words[i] # None

\* A word climbs the ladder only by being recalled: overlapping answers, and a word
\* that was undone and taught again meanwhile, lose a step but never win one.
StreakEarned == \A i \in ItemIds : words[i] # None => words[i].streak <= recalls[i]

\* What the learner has settled stays so, and in the list, until the learner says
\* otherwise or misspells it: the tutor teaching the word again does not touch it,
\* unless that run had read the word before it was settled.
SettledKept(i) ==
  words[i] # None /\ words[i].status \in Settled =>
    /\ words'[i] # None
    /\ \/ words'[i].status = words[i].status
       \/ writer' = writer
       \/ \E q \in Writers :
            /\ writer[q].pc = "ingest" /\ writer'[q] = Resting
            /\ writer[q].found # None => writer[q].found.status \notin Settled

\* What the model wrote on a card is replaced by the model alone, or goes with the
\* word.  (Bundled text that found the card empty is written over what came meanwhile.)
ModelTextKept(i) ==
  card[i] # None /\ card[i].text = "model" =>
    \/ card'[i] = None /\ words'[i] = None
    \/ card'[i].text = "model"
    \/ \E q \in Writers :
         /\ writer[q].pc \in {"insert", "update"} /\ writer'[q] = Resting
         /\ writer[q].with.source = "model" \/ Lacking(writer[q].found)

\* Neither the tutor, the model nor overlapping requests take from the learner what
\* was settled, written or not yet earned: the three of the above.
KeptForLearner ==
  /\ []StreakEarned
  /\ [][\A i \in ItemIds : SettledKept(i) /\ ModelTextKept(i)]_wordVars
=============================================================================
