--------------------------- MODULE ModelRoute_proof ---------------------------
(***************************************************************************)
(* Proofs about ModelRoute, for every number of providers, settings        *)
(* requests and calls, whatever they race.                                 *)
(***************************************************************************)
EXTENDS ModelRoute, FiniteSetTheorems, SequenceTheorems, TLAPS

(***************************************************************************)
(* The invariant                                                           *)
(***************************************************************************)
\* A provider's row: only a fallback has a place.
Fits(row) == row \in Row /\ (row.role = "fallback" <=> row.order > 0)

Table ==
  /\ provider \in [Providers -> Row \cup {Nil}]
  /\ provider[Builtin] # Nil
  /\ \A p \in Rows : Fits(provider[p])
  /\ Cardinality(InRole(provider, "primary")) <= 1

\* What a settings request has in hand: a row that fits before it writes one, keys
\* of providers that have any.
Writing(x) ==
  /\ x.provider \in Providers
  /\ x.pc \in {"look", "write"} => Fits(x.row)
  /\ x.pc = "look" => x.row.role = "primary"
  /\ x.pc = "update" => x.then \in {"primary", "fallback"}
  /\ x.pc = "delete" => x.provider # Builtin
  /\ x.key # "keep" => x.provider \in Keyed
  /\ x.pc = "load" => x.key # "keep"
  /\ x.pc = "save" => x.items \subseteq Keyed

EditPlaces == {"idle", "insert", "update", "look", "write", "delete", "load", "save", "replace"}
Edit ==
  [pc : EditPlaces, provider : Providers \cup {Nil}, row : Row \cup {Nil},
   then : {"primary", "fallback", Nil}, key : {"keep", "set", "clear"},
   primary : SUBSET Providers, last : Nat, items : SUBSET Keyed]

Editing ==
  /\ edit \in [Editors -> Edit]
  /\ \A e \in Editors : edit[e].pc # "idle" => Writing(edit[e])
  /\ keys \in [file : SUBSET Keyed, temp : (SUBSET Keyed) \cup {Nil}]

\* Where a call is on its route.  The bridge goes without a guard and is not counted.
CallPlaces ==
  {"idle", "attempt", "guard", "send", "read", "success", "count", "record", "answer"}
Call ==
  [pc : CallPlaces, route : Seq(Providers), at : Nat, fault : {Nil, "passing", "badRequest", "lasting"},
   seen : Nat, again : BOOLEAN]

Calling ==
  /\ call \in [Calls -> Call]
  /\ \A c \in Calls : call[c].pc # "idle" => call[c].at \in DOMAIN call[c].route
  /\ \A c \in Calls : call[c].pc \notin {"idle", "attempt", "answer"} => Now(c) # Builtin

\* Of a run's attempts all but the last have ended; that one is under way while the
\* call waits for its provider.
Logs == Seq({"running", "validated", "ended"})
LastAt(pc) == IF pc = "idle" THEN {"validated", "ended"}
              ELSE IF pc = "attempt" THEN {"ended"} ELSE {"running"}
EndsIn(log, statuses) ==
  \A i \in DOMAIN log : /\ i # Len(log) => log[i] = "ended"
                        /\ i = Len(log) => log[i] \in statuses
Attempting ==
  /\ attempts \in [Calls -> Logs]
  /\ \A c \in Calls : EndsIn(attempts[c], LastAt(call[c].pc))

\* A count that nobody has overtaken is at most the failures since the last answer,
\* and a circuit is open on a count of Trip.
Health == [failures : Nat, open : BOOLEAN]
Counting ==
  /\ health \in [Providers \ {Builtin} -> Health]
  /\ streak \in [Providers \ {Builtin} -> Nat]
  /\ \A p \in Providers \ {Builtin} :
       p \notin raced => /\ health[p].failures <= streak[p]
                         /\ health[p].open => streak[p] >= Trip

Inv == Table /\ Editing /\ Calling /\ Attempting /\ Counting

(***************************************************************************)
(* Settings                                                                *)
(***************************************************************************)
\* The fields of no request.
LEMMA NoEditIs ==
  /\ NoEdit \in Edit /\ NoEdit.pc = "idle" /\ NoEdit.provider = Nil /\ NoEdit.row = Nil
  /\ NoEdit.then = Nil /\ NoEdit.key = "keep" /\ NoEdit.primary = {} /\ NoEdit.last = 0
  /\ NoEdit.items = {}
BY DEF NoEdit, Edit, EditPlaces

\* A request put in the place of one.
LEMMA EditPut ==
  ASSUME Editing, NEW e \in Editors, NEW new \in Edit, edit' = [edit EXCEPT ![e] = new],
         new.pc # "idle" => Writing(new), UNCHANGED keys
  PROVE  Editing'
<1>1. edit' \in [Editors -> Edit] /\ edit'[e] = new /\ \A o \in Editors \ {e} : edit'[o] = edit[o]
  BY DEF Editing
<1> QED BY <1>1 DEF Editing, Writing

\* The next step of a request: nothing else of it changes.
LEMMA StepIs ==
  ASSUME Editing, NEW e \in Editors, NEW pc \in EditPlaces, Step(e, pc)
  PROVE  \E new \in Edit :
           /\ edit' = [edit EXCEPT ![e] = new]
           /\ new.pc = pc
           /\ pc # "idle" => /\ new.provider = edit[e].provider /\ new.row = edit[e].row
                             /\ new.then = edit[e].then /\ new.key = edit[e].key
                             /\ new.items = edit[e].items
<1> DEFINE new == [edit[e] EXCEPT !.pc = pc]
<1>1. edit[e] \in Edit
  BY DEF Editing
<1>2. /\ new \in Edit /\ new.pc = pc /\ new.provider = edit[e].provider /\ new.row = edit[e].row
      /\ new.then = edit[e].then /\ new.key = edit[e].key /\ new.items = edit[e].items
  BY <1>1 DEF Edit
<1>3. CASE pc = "idle"
  BY <1>3, NoEditIs DEF Step
<1>4. CASE pc # "idle"
  <2>1. edit' = [edit EXCEPT ![e] = new]
    BY <1>1, <1>4 DEF Step, Editing
  <2> HIDE DEF new
  <2> QED BY <1>2, <2>1
<1> QED BY <1>3, <1>4

\* A request that goes on writes what it is to write.
LEMMA StepKeeps ==
  ASSUME Editing, NEW e \in Editors, NEW pc \in EditPlaces, Step(e, pc), UNCHANGED keys,
         edit[e].pc # "idle", pc \notin {"look", "write", "delete"},
         pc = "update" => edit[e].then \in {"primary", "fallback"},
         pc = "load" => edit[e].key # "keep",
         pc = "save" => edit[e].items \subseteq Keyed
  PROVE  Editing'
<1>1. PICK new \in Edit :
        /\ edit' = [edit EXCEPT ![e] = new]
        /\ new.pc = pc
        /\ pc # "idle" => /\ new.provider = edit[e].provider /\ new.row = edit[e].row
                          /\ new.then = edit[e].then /\ new.key = edit[e].key
                          /\ new.items = edit[e].items
  BY StepIs
<1>2. new.pc # "idle" => Writing(new)
  BY <1>1 DEF Editing, Writing
<1> QED BY <1>1, <1>2, EditPut

\* What is left to do after a row was written, and after a key was.
LEMMA After ==
  ASSUME Editing, NEW e \in Editors
  PROVE  /\ AfterRow(e) \in {"load", "update", "idle"} /\ AfterKeys(e) \in {"update", "idle"}
         /\ AfterRow(e) = "load" => edit[e].key # "keep"
         /\ AfterRow(e) = "update" \/ AfterKeys(e) = "update" =>
              edit[e].then \in {"primary", "fallback"}
BY DEF AfterRow, AfterKeys, Editing, Edit

\* What an update has checked is a row that fits.
LEMMA CheckedIs ==
  ASSUME Table, NEW p \in Providers, provider[p] # Nil,
         NEW role \in {"primary", "fallback", "disabled"}, NEW enabled \in BOOLEAN,
         NEW key \in {"keep", "set", "clear"}, key # "keep" => p \in Keyed
  PROVE  Checked(p, role, enabled, key) \in Edit /\ Writing(Checked(p, role, enabled, key))
<1> DEFINE r == [provider[p] EXCEPT !.role = role, !.enabled = enabled]
           row == Ordered(r)
           pc == IF role = "primary" THEN "look" ELSE "write"
           new == [NoEdit EXCEPT !.pc = pc, !.provider = p, !.row = row, !.key = key]
<1>1. provider[p] \in Row
  BY DEF Table
<1>2. r \in Row /\ r.role = role
  BY <1>1 DEF Row
<1> HIDE DEF r
<1>3. Fits(row) /\ row.role = role
  <2>1. CASE role # "fallback"
    <3>1. row = [r EXCEPT !.order = 0]
      BY <1>2, <2>1 DEF Ordered
    <3>2. row \in Row /\ row.order = 0 /\ row.role = role
      BY <1>2, <3>1 DEF Row
    <3> QED BY <2>1, <3>2 DEF Fits
  <2>2. CASE role = "fallback" /\ r.order = 0
    <3>1. row = [r EXCEPT !.order = 1]
      BY <1>2, <2>2 DEF Ordered
    <3>2. row \in Row /\ row.order = 1 /\ row.role = role
      BY <1>2, <3>1 DEF Row
    <3> QED BY <2>2, <3>2 DEF Fits
  <2>3. CASE role = "fallback" /\ r.order # 0
    <3>1. row = [r EXCEPT !.order = r.order]
      BY <1>2, <2>3 DEF Ordered
    <3>2. row \in Row /\ row.order = r.order /\ row.role = role /\ r.order \in Nat
      BY <1>2, <3>1 DEF Row
    <3> QED BY <2>3, <3>2 DEF Fits
  <2> QED BY <2>1, <2>2, <2>3
<1>4. Checked(p, role, enabled, key) = new
  BY DEF Checked, r
<1> HIDE DEF row
<1>5. pc \in EditPlaces /\ pc \in {"look", "write"} /\ (pc = "look" => role = "primary")
  BY DEF EditPlaces
<1> HIDE DEF pc
<1>6. /\ new \in Edit /\ new.pc = pc /\ new.provider = p /\ new.row = row /\ new.key = key
      /\ new.then = Nil
  BY <1>3, <1>5, NoEditIs DEF Edit, Fits
<1> HIDE DEF new
<1> QED BY <1>3, <1>4, <1>5, <1>6 DEF Writing

\* A request of the settings begins.
LEMMA BeginKeeps ==
  ASSUME Editing, NEW e \in Editors, NEW new \in Edit, Writing(new), Begin(e, new)
  PROVE  Editing'
BY EditPut DEF Begin

\* create_model_provider begins with a row to insert.
LEMMA CreateKeeps ==
  ASSUME Editing, NEW e \in Editors, NEW p \in Providers,
         NEW role \in {"primary", "fallback", "disabled"}, NEW key \in KeyChanges(p),
         CreateProvider(e, p, role, key)
  PROVE  Editing'
<1> DEFINE then == IF role = "disabled" THEN Nil ELSE role
           new == [NoEdit EXCEPT !.pc = "insert", !.provider = p, !.key = key, !.then = then]
<1>1. then \in {"primary", "fallback", Nil}
  OBVIOUS
<1>2. key \in {"keep", "set", "clear"} /\ (key # "keep" => p \in Keyed)
  BY DEF KeyChanges
<1> HIDE DEF then
<1>3. new \in Edit /\ new.pc = "insert" /\ new.provider = p /\ new.key = key
  BY <1>1, <1>2, NoEditIs DEF Edit, EditPlaces
<1>4. Begin(e, new)
  BY DEF CreateProvider, then
<1> HIDE DEF new
<1>5. Writing(new)
  BY <1>2, <1>3 DEF Writing
<1> QED BY <1>3, <1>4, <1>5, BeginKeeps

\* delete_model_provider begins with a row to delete, which is not the bridge's.
LEMMA DeleteKeeps ==
  ASSUME Editing, NEW e \in Editors, NEW p \in Providers, DeleteProvider(e, p)
  PROVE  Editing'
<1> DEFINE key == IF p \in Keyed THEN "clear" ELSE "keep"
           new == [NoEdit EXCEPT !.pc = "delete", !.provider = p, !.key = key]
<1>1. key \in {"keep", "set", "clear"} /\ (key # "keep" => p \in Keyed)
  OBVIOUS
<1> HIDE DEF key
<1>2. new \in Edit /\ new.pc = "delete" /\ new.provider = p /\ new.key = key
  BY <1>1, NoEditIs DEF Edit, EditPlaces
<1>3. Begin(e, new) /\ p # Builtin
  BY DEF DeleteProvider, key
<1> HIDE DEF new
<1>4. Writing(new)
  BY <1>1, <1>2, <1>3 DEF Writing
<1> QED BY <1>2, <1>3, <1>4, BeginKeeps

\* Every step of a settings request leaves the requests what they may be.
LEMMA EditsStep ==
  ASSUME Table, Editing, NEW e \in Editors,
         \/ \E p \in Providers, role \in {"primary", "fallback", "disabled"} :
              \/ \E key \in KeyChanges(p) \ {"clear"} : CreateProvider(e, p, role, key)
              \/ \E enabled \in BOOLEAN, key \in KeyChanges(p) :
                   UpdateProvider(e, p, role, enabled, key)
         \/ \E p \in Providers : DeleteProvider(e, p)
         \/ InsertProvider(e) \/ UpdateCreated(e) \/ LookForPrimary(e) \/ WriteProvider(e)
         \/ RemoveProvider(e) \/ LoadKeys(e) \/ SaveKeys(e) \/ ReplaceKeys(e)
  PROVE  Editing'
<1>0. /\ edit[e] \in Edit /\ (edit[e].pc # "idle" => Writing(edit[e]))
      /\ "idle" \in EditPlaces /\ AfterRow(e) \in EditPlaces /\ AfterKeys(e) \in EditPlaces
  BY After DEF Editing, EditPlaces
<1>1. ASSUME NEW p \in Providers, NEW role \in {"primary", "fallback", "disabled"},
             NEW key \in KeyChanges(p), CreateProvider(e, p, role, key)
      PROVE  Editing'
  BY <1>1, CreateKeeps
<1>2. ASSUME NEW p \in Providers, NEW role \in {"primary", "fallback", "disabled"},
             NEW enabled \in BOOLEAN, NEW key \in KeyChanges(p),
             UpdateProvider(e, p, role, enabled, key)
      PROVE  Editing'
  <2>1. provider[p] # Nil /\ Begin(e, Checked(p, role, enabled, key))
    BY <1>2 DEF UpdateProvider
  <2>2. key \in {"keep", "set", "clear"} /\ (key # "keep" => p \in Keyed)
    BY DEF KeyChanges
  <2>3. /\ Checked(p, role, enabled, key) \in Edit /\ Writing(Checked(p, role, enabled, key))
    BY <2>1, <2>2, CheckedIs
  <2> QED BY <2>1, <2>3, BeginKeeps
<1>3. ASSUME NEW p \in Providers, DeleteProvider(e, p) PROVE Editing'
  BY <1>3, DeleteKeeps
<1>4. CASE InsertProvider(e)
  <2>1. edit[e].pc = "insert" /\ UNCHANGED keys /\ (Step(e, AfterRow(e)) \/ Step(e, "idle"))
    BY <1>4 DEF InsertProvider
  <2> QED BY <1>0, <2>1, After, StepKeeps
<1>5. CASE UpdateCreated(e)
  <2> DEFINE p == edit[e].provider
             new == Checked(p, edit[e].then, provider[p].enabled, "keep")
  <2>1. /\ edit[e].pc = "update" /\ UNCHANGED keys
        /\ \/ edit' = [edit EXCEPT ![e] = NoEdit]
           \/ provider[p] # Nil /\ edit' = [edit EXCEPT ![e] = new]
    BY <1>5 DEF UpdateCreated
  <2>2. CASE edit' = [edit EXCEPT ![e] = NoEdit]
    BY <2>1, <2>2, NoEditIs, EditPut
  <2>3. CASE provider[p] # Nil /\ edit' = [edit EXCEPT ![e] = new]
    <3>1. /\ p \in Providers /\ edit[e].then \in {"primary", "fallback", "disabled"}
          /\ provider[p].enabled \in BOOLEAN
      BY <1>0, <2>1, <2>3 DEF Writing, Table, Row
    <3>2. new \in Edit /\ Writing(new)
      BY <2>3, <3>1, CheckedIs
    <3> HIDE DEF new
    <3> QED BY <2>1, <2>3, <3>2, EditPut
  <2> QED BY <2>1, <2>2, <2>3
<1>6. CASE LookForPrimary(e)
  <2> DEFINE primary == InRole(provider, "primary") \ {edit[e].provider}
  <2>1. PICK last \in {provider[p].order : p \in Rows} :
          edit' = [edit EXCEPT ![e].pc = "write", ![e].primary = primary, ![e].last = last]
    BY <1>6 DEF LookForPrimary
  <2>2. /\ edit[e].pc = "look" /\ UNCHANGED keys /\ primary \in SUBSET Providers
    BY <1>6 DEF LookForPrimary, InRole
  <2>3. last \in Nat
    BY <2>1 DEF Table, Fits, Row
  <2> HIDE DEF primary
  <2> DEFINE new == [edit[e] EXCEPT !.pc = "write", !.primary = primary, !.last = last]
  <2>4. /\ new \in Edit /\ new.pc = "write" /\ new.provider = edit[e].provider
        /\ new.row = edit[e].row /\ new.key = edit[e].key
    BY <1>0, <2>2, <2>3 DEF Edit, EditPlaces
  <2>5. edit' = [edit EXCEPT ![e] = new]
    BY <2>1 DEF Editing
  <2> HIDE DEF new
  <2>6. Writing(new)
    BY <1>0, <2>2, <2>4 DEF Writing
  <2> QED BY <2>2, <2>4, <2>5, <2>6, EditPut
<1>7. CASE WriteProvider(e) \/ RemoveProvider(e)
  <2>1. /\ edit[e].pc \in {"write", "delete"} /\ UNCHANGED keys
        /\ Step(e, AfterRow(e)) \/ Step(e, "idle")
    BY <1>7 DEF WriteProvider, RemoveProvider
  <2> QED BY <1>0, <2>1, After, StepKeeps
<1>8. CASE LoadKeys(e)
  <2> DEFINE p == edit[e].provider
             items == IF edit[e].key = "set" THEN keys.file \cup {p} ELSE keys.file \ {p}
             new == [edit[e] EXCEPT !.pc = "save", !.items = items]
  <2>1. /\ edit[e].pc = "load" /\ UNCHANGED keys
        /\ Step(e, AfterKeys(e)) \/ edit' = [edit EXCEPT ![e].pc = "save", ![e].items = items]
    BY <1>8 DEF LoadKeys
  <2>2. items \in SUBSET Keyed
    BY <1>0, <2>1 DEF Writing, Editing
  <2>3. CASE Step(e, AfterKeys(e))
    BY <1>0, <2>1, <2>3, After, StepKeeps
  <2>4. CASE edit' = [edit EXCEPT ![e].pc = "save", ![e].items = items]
    <3> HIDE DEF items
    <3>1. /\ new \in Edit /\ new.pc = "save" /\ new.provider = edit[e].provider
          /\ new.key = edit[e].key /\ new.items = items
      BY <1>0, <2>2 DEF Edit, EditPlaces
    <3>2. edit' = [edit EXCEPT ![e] = new]
      BY <2>4 DEF Editing
    <3> HIDE DEF new
    <3>3. Writing(new)
      BY <1>0, <2>1, <2>2, <3>1 DEF Writing
    <3> QED BY <2>1, <3>1, <3>2, <3>3, EditPut
  <2> QED BY <2>1, <2>3, <2>4
<1>9. CASE SaveKeys(e) \/ ReplaceKeys(e)
  <2>1. /\ edit[e].pc \in {"save", "replace"}
        /\ \E pc \in {"replace", "idle", AfterKeys(e)} : Step(e, pc)
    BY <1>9 DEF SaveKeys, ReplaceKeys
  <2>2. keys' \in [file : SUBSET Keyed, temp : (SUBSET Keyed) \cup {Nil}]
    <3>1. CASE SaveKeys(e)
      <4>1. edit[e].items \in SUBSET Keyed /\ keys' = [keys EXCEPT !.temp = edit[e].items]
        BY <1>0, <3>1 DEF SaveKeys, Writing
      <4> QED BY <4>1 DEF Editing
    <3>2. CASE ReplaceKeys(e)
      BY <3>2 DEF ReplaceKeys, Editing
    <3> QED BY <1>9, <3>1, <3>2
  <2>3. PICK pc \in {"replace", "idle", AfterKeys(e)} : Step(e, pc)
    BY <2>1
  <2>4. pc \in EditPlaces
    BY <1>0, <2>3 DEF EditPlaces
  <2>5. PICK new \in Edit :
          /\ edit' = [edit EXCEPT ![e] = new]
          /\ new.pc = pc
          /\ pc # "idle" => /\ new.provider = edit[e].provider /\ new.row = edit[e].row
                            /\ new.then = edit[e].then /\ new.key = edit[e].key
                            /\ new.items = edit[e].items
    BY <2>3, <2>4, StepIs
  <2>6. new.pc # "idle" => Writing(new)
    BY <1>0, <2>1, <2>3, <2>5, After DEF Writing
  <2>7. /\ edit' \in [Editors -> Edit] /\ edit'[e] = new
        /\ \A o \in Editors \ {e} : edit'[o] = edit[o]
    BY <2>5 DEF Editing
  <2> QED BY <2>2, <2>6, <2>7 DEF Editing, Writing
<1> QED BY <1>1, <1>2, <1>3, <1>4, <1>5, <1>6, <1>7, <1>8, <1>9

(***************************************************************************)
(* The table of providers                                                  *)
(***************************************************************************)
\* A table of whose providers each is what it was, or in no leading role, has no
\* primary it did not have.
LEMMA NoNewPrimary ==
  ASSUME Table, NEW new \in [Providers -> Row \cup {Nil}],
         \A p \in Providers : new[p] = provider[p] \/ new[p] = Nil \/ new[p].role # "primary"
  PROVE  Cardinality(InRole(new, "primary")) <= 1
<1>1. InRole(new, "primary") \subseteq InRole(provider, "primary")
  BY DEF InRole
<1>2. IsFiniteSet(InRole(provider, "primary"))
  BY FS_Subset, ProvidersAssumption DEF InRole
<1>3. /\ Cardinality(InRole(new, "primary")) <= Cardinality(InRole(provider, "primary"))
      /\ Cardinality(InRole(new, "primary")) \in Nat
      /\ Cardinality(InRole(provider, "primary")) \in Nat
  BY <1>1, <1>2, FS_Subset, FS_CardinalityType
<1> QED BY <1>3 DEF Table

\* What update_model_provider writes: its own row, and the primary it has read among
\* the fallbacks.
LEMMA WrittenIs ==
  ASSUME Table, Editing, NEW e \in Editors, edit[e].pc = "write"
  PROVE  /\ Written(e) \in [Providers -> Row \cup {Nil}]
         /\ Written(e)[Builtin] # Nil
         /\ \A p \in Providers : Written(e)[p] # Nil => Fits(Written(e)[p])
<1>1. edit[e] \in Edit /\ Fits(edit[e].row) /\ edit[e].last \in Nat
  BY DEF Editing, Writing, Edit
<1>2. ASSUME NEW p \in Providers, provider[p] # Nil
      PROVE  LET row == [provider[p] EXCEPT !.role = "fallback", !.order = edit[e].last + 1]
             IN Fits(row)
  <2> DEFINE order == edit[e].last + 1
             row == [provider[p] EXCEPT !.role = "fallback", !.order = order]
  <2>1. provider[p] \in Row /\ order \in Nat /\ order > 0
    BY <1>1, <1>2 DEF Table
  <2> HIDE DEF order
  <2>2. row \in Row /\ row.role = "fallback" /\ row.order = order
    BY <2>1 DEF Row
  <2> HIDE DEF row
  <2>3. Fits(row)
    BY <2>1, <2>2 DEF Fits
  <2> QED BY <2>3 DEF row, order
<1>3. ASSUME NEW p \in Providers
      PROVE  /\ Written(e)[p] = Nil \/ Fits(Written(e)[p])
             /\ provider[p] # Nil => Written(e)[p] # Nil
  <2>1. CASE provider[p] = Nil
    BY <2>1 DEF Written
  <2>2. CASE provider[p] # Nil
    <3>1. Fits(Written(e)[p])
      <4>1. CASE p = edit[e].provider
        BY <1>1, <2>2, <4>1 DEF Written
      <4>2. CASE p # edit[e].provider /\ p \in edit[e].primary
        BY <1>2, <2>2, <4>2 DEF Written
      <4>3. CASE p # edit[e].provider /\ p \notin edit[e].primary
        BY <2>2, <4>3 DEF Written, Table, Rows
      <4> QED BY <4>1, <4>2, <4>3
    <3> QED BY <3>1, NilAssumption DEF Fits
  <2> QED BY <2>1, <2>2
<1>4. \A p \in Providers : Written(e)[p] \in Row \cup {Nil}
  BY <1>3 DEF Fits
<1>5. Written(e) \in [Providers -> Row \cup {Nil}]
  <2>1. Written(e) = [p \in Providers |-> Written(e)[p]]
    BY DEF Written
  <2> QED BY <1>4, <2>1
<1>6. Written(e)[Builtin] # Nil
  BY <1>3, ProvidersAssumption DEF Table
<1> QED BY <1>3, <1>5, <1>6

\* Only three steps change the table.
LEMMA TableStep == ASSUME Table, Editing, Next PROVE Table'
<1> DEFINE row == [role |-> "disabled", order |-> 0, enabled |-> TRUE]
<1>1. ASSUME NEW e \in Editors, InsertProvider(e), provider' # provider PROVE Table'
  <2>1. edit[e].provider \in Providers
    BY <1>1 DEF InsertProvider, Editing, Writing
  <2>2. provider' = [provider EXCEPT ![edit[e].provider] = row]
    BY <1>1 DEF InsertProvider
  <2>3. row \in Row /\ row # Nil /\ row.role = "disabled" /\ Fits(row)
    <3>1. row \in Row /\ row.role = "disabled" /\ row.order = 0
      BY DEF Row
    <3> HIDE DEF row
    <3> QED BY <3>1, NilAssumption DEF Fits
  <2> HIDE DEF row
  <2>4. /\ provider' \in [Providers -> Row \cup {Nil}] /\ provider'[edit[e].provider] = row
        /\ \A p \in Providers \ {edit[e].provider} : provider'[p] = provider[p]
    BY <2>1, <2>2, <2>3 DEF Table
  <2>5. Cardinality(InRole(provider', "primary")) <= 1
    BY <2>3, <2>4, NoNewPrimary
  <2> QED BY <2>3, <2>4, <2>5, ProvidersAssumption DEF Table, Rows, InRole
<1>2. ASSUME NEW e \in Editors, RemoveProvider(e) PROVE Table'
  <2>1. edit[e].provider \in Providers /\ edit[e].provider # Builtin
    BY <1>2 DEF RemoveProvider, Editing, Writing
  <2>2. provider' = [provider EXCEPT ![edit[e].provider] = Nil]
    BY <1>2 DEF RemoveProvider
  <2>3. /\ provider' \in [Providers -> Row \cup {Nil}] /\ provider'[edit[e].provider] = Nil
        /\ \A p \in Providers \ {edit[e].provider} : provider'[p] = provider[p]
    BY <2>1, <2>2 DEF Table
  <2>4. Cardinality(InRole(provider', "primary")) <= 1
    BY <2>3, NoNewPrimary
  <2> QED BY <2>1, <2>3, <2>4, ProvidersAssumption DEF Table, Rows, InRole
<1>3. ASSUME NEW e \in Editors, WriteProvider(e), provider' # provider PROVE Table'
  <2>1. edit[e].pc = "write" /\ provider' = Written(e) /\ IndexAllows(Written(e))
    BY <1>3 DEF WriteProvider
  <2> QED BY <2>1, WrittenIs DEF Table, Rows, IndexAllows, InRole
<1>4. ASSUME UNCHANGED provider PROVE Table'
  BY <1>4 DEF Table, Rows, InRole
<1>5. \/ UNCHANGED provider
      \/ \E e \in Editors : InsertProvider(e) \/ RemoveProvider(e) \/ WriteProvider(e)
  <2>1. ASSUME NEW e \in Editors,
               \/ \E p \in Providers, role \in {"primary", "fallback", "disabled"} :
                    \/ \E key \in KeyChanges(p) \ {"clear"} : CreateProvider(e, p, role, key)
                    \/ \E enabled \in BOOLEAN, key \in KeyChanges(p) :
                         UpdateProvider(e, p, role, enabled, key)
               \/ \E p \in Providers : DeleteProvider(e, p)
               \/ UpdateCreated(e) \/ LookForPrimary(e)
               \/ LoadKeys(e) \/ SaveKeys(e) \/ ReplaceKeys(e)
        PROVE  UNCHANGED provider
    BY <2>1 DEF CreateProvider, UpdateProvider, DeleteProvider, Begin, UpdateCreated,
                LookForPrimary, LoadKeys, SaveKeys, ReplaceKeys
  <2>2. ASSUME NEW c \in Calls,
               \/ StartCall(c) \/ OpenAttempt(c) \/ Skip(c) \/ Guard(c) \/ Connect(c)
               \/ ReadObject(c) \/ ReadStream(c) \/ NoResult(c) \/ RecordSuccess(c)
               \/ \E p \in Providers : StartTest(c, p)
               \/ HealthRefused(c) \/ ReadFailures(c) \/ WriteFailures(c) \/ Answer(c)
               \/ Interrupt(c)
        PROVE  UNCHANGED provider
    BY <2>2 DEF StartCall, OpenAttempt, Skip, Guard, Connect, ReadObject, ReadStream, NoResult,
                RecordSuccess, StartTest, HealthRefused, ReadFailures, WriteFailures, Answer,
                Interrupt, settings
  <2>3. ASSUME NEW p \in Providers, CoolDown(p) PROVE UNCHANGED provider
    BY <2>3 DEF CoolDown, settings
  <2> QED BY <2>1, <2>2, <2>3 DEF Next
<1> QED BY <1>1, <1>2, <1>3, <1>4, <1>5

(***************************************************************************)
(* Calls                                                                   *)
(***************************************************************************)
\* The fields of no call.
LEMMA NoCallIs ==
  /\ NoCall \in Call /\ NoCall.pc = "idle" /\ NoCall.route = <<>> /\ NoCall.at = 1
  /\ NoCall.fault = Nil /\ NoCall.seen = 0 /\ NoCall.again = FALSE
BY DEF NoCall, Call, CallPlaces

\* Each provider of a route is one of the learner's, and there is one.
LEMMA RoutesAre ==
  ASSUME NEW route \in Routes \cup {<<p>> : p \in {q \in Providers : Available(q)}}
  PROVE  route \in Seq(Providers) /\ 1 \in DOMAIN route
<1>1. \A p \in Providers : <<p>> \in Seq(Providers) /\ 1 \in DOMAIN <<p>>
  OBVIOUS
<1>2. CASE route \in Routes
  <2>1. PICK p \in Providers, s \in Fallbacks : route = <<p>> \o s
    <3>1. InRole(provider, "primary") \subseteq Providers
      BY DEF InRole
    <3> QED BY <1>2, <3>1 DEF Routes
  <2>2. IsFiniteSet(InRole(provider, "fallback"))
    BY FS_Subset, ProvidersAssumption DEF InRole
  <2>3. Cardinality(InRole(provider, "fallback")) \in Nat
    BY <2>2, FS_CardinalityType
  <2> DEFINE n == Cardinality(InRole(provider, "fallback"))
  <2>4. s \in [1..n -> Providers]
    BY <2>1 DEF Fallbacks, SetToSeqs, InRole
  <2>5. s \in Seq(Providers)
    <3> HIDE DEF n
    <3>1. n \in Nat
      BY <2>3 DEF n
    <3> QED BY <2>4, <3>1
  <2>6. <<p>> \in Seq(Providers) /\ Len(<<p>>) = 1 /\ Len(s) \in Nat
    BY <2>5
  <2>7. <<p>> \o s \in Seq(Providers) /\ Len(<<p>> \o s) = 1 + Len(s)
    BY <2>5, <2>6, ConcatProperties
  <2> QED BY <2>1, <2>6, <2>7
<1> QED BY <1>1, <1>2

\* What a call is put in the place of, and what becomes of its attempts.
LEMMA CallPut ==
  ASSUME Calling, Attempting, NEW c \in Calls, NEW new \in Call,
         call' = [call EXCEPT ![c] = new],
         new.pc # "idle" => new.at \in DOMAIN new.route,
         new.pc \notin {"idle", "attempt", "answer"} => new.route[new.at] # Builtin,
         NEW log \in Logs, attempts' = [attempts EXCEPT ![c] = log],
         EndsIn(log, LastAt(new.pc))
  PROVE  Calling' /\ Attempting'
<1>1. call' \in [Calls -> Call] /\ call'[c] = new /\ \A o \in Calls \ {c} : call'[o] = call[o]
  BY DEF Calling
<1>2. /\ attempts' \in [Calls -> Logs] /\ attempts'[c] = log
      /\ \A o \in Calls \ {c} : attempts'[o] = attempts[o]
  BY DEF Attempting
<1>3. Calling'
  BY <1>1 DEF Calling, Now
<1>4. Attempting'
  BY <1>1, <1>2 DEF Attempting
<1> QED BY <1>3, <1>4

\* A call that goes on while its provider works for it leaves its attempts alone.
LEMMA GoesOn ==
  ASSUME Calling, Attempting, NEW c \in Calls, NEW new \in Call,
         call' = [call EXCEPT ![c] = new], UNCHANGED attempts,
         call[c].pc \notin {"idle", "attempt"}, new.pc \notin {"idle", "attempt"},
         new.route = call[c].route, new.at = call[c].at,
         new.pc # "answer" => Now(c) # Builtin
  PROVE  Calling' /\ Attempting'
<1>1. /\ attempts[c] \in Logs /\ attempts' = [attempts EXCEPT ![c] = attempts[c]]
      /\ call[c].at \in DOMAIN call[c].route
  BY DEF Attempting, Calling
<1>2. LastAt(new.pc) = LastAt(call[c].pc)
  BY DEF LastAt
<1>3. EndsIn(attempts[c], LastAt(new.pc))
  BY <1>2 DEF Attempting
<1>4. new.at \in DOMAIN new.route /\ (new.pc # "answer" => new.route[new.at] # Builtin)
  BY <1>1 DEF Now
<1> QED BY <1>1, <1>3, <1>4, CallPut

\* The end of an attempt that is under way.
LEMMA CompleteIs ==
  ASSUME Attempting, NEW c \in Calls, call[c].pc \notin {"idle", "attempt"},
         NEW status \in {"validated", "ended"}, Complete(c, status)
  PROVE  \E log \in Logs : attempts' = [attempts EXCEPT ![c] = log] /\ EndsIn(log, {status})
<1> USE DEF Logs, EndsIn, LastAt
<1> DEFINE old == attempts[c]
           log == IF old # <<>> /\ Last(old) = "running" THEN Append(Front(old), status) ELSE old
<1>1. /\ old \in Seq({"running", "validated", "ended"})
      /\ \A i \in DOMAIN old : /\ i # Len(old) => old[i] = "ended"
                               /\ i = Len(old) => old[i] = "running"
      /\ attempts' = [attempts EXCEPT ![c] = log]
  BY DEF Attempting, Complete
<1>2. CASE old = <<>>
  <2>1. log = <<>>
    BY <1>2
  <2> HIDE DEF log
  <2>2. log \in Seq({"running", "validated", "ended"}) /\ DOMAIN log = {}
    BY <2>1
  <2> QED BY <1>1, <2>2
<1>3. CASE old # <<>>
  <2> HIDE DEF old
  <2>1. Len(old) \in Nat \ {0} /\ Last(old) = "running"
    BY <1>1, <1>3 DEF Last
  <2>2. log = Append(SubSeq(old, 1, Len(old) - 1), status)
    BY <1>3, <2>1 DEF Front
  <2> DEFINE n == Len(old) - 1
             front == SubSeq(old, 1, n)
  <2>3. /\ front \in Seq({"running", "validated", "ended"}) /\ Len(front) = n
        /\ \A i \in 1 .. n : front[i] = old[i]
    <3>1. n \in Nat /\ \A i \in 1 .. n : old[i] \in {"running", "validated", "ended"}
      BY <1>1, <2>1
    <3> HIDE DEF n
    <3>2. /\ front \in Seq({"running", "validated", "ended"})
          /\ Len(front) = IF 1 <= n THEN n - 1 + 1 ELSE 0
          /\ \A i \in 1 .. n - 1 + 1 : front[i] = old[1 + i - 1]
      BY <3>1, SubSeqProperties
    <3> QED BY <3>1, <3>2
  <2> HIDE DEF front
  <2>4. /\ log \in Seq({"running", "validated", "ended"}) /\ Len(log) = Len(old)
        /\ log[Len(old)] = status
        /\ \A i \in 1 .. Len(old) - 1 : log[i] = old[i]
    <3>1. log = Append(front, status) /\ Len(front) = Len(old) - 1
      BY <2>2, <2>3 DEF front
    <3>2. /\ Append(front, status) \in Seq({"running", "validated", "ended"})
          /\ Len(Append(front, status)) = Len(front) + 1
          /\ \A i \in 1 .. Len(front) : Append(front, status)[i] = front[i]
          /\ Append(front, status)[Len(front) + 1] = status
      BY <2>3, AppendProperties
    <3> HIDE DEF log
    <3>3. Len(front) = n /\ Len(front) + 1 = Len(old)
      BY <2>1, <2>3
    <3> QED BY <2>3, <3>1, <3>2, <3>3
  <2>5. \A i \in DOMAIN log : /\ i # Len(log) => log[i] = "ended"
                              /\ i = Len(log) => log[i] = status
    BY <1>1, <2>1, <2>4
  <2> HIDE DEF log
  <2> QED BY <1>1, <2>4, <2>5 DEF old
<1> QED BY <1>2, <1>3

\* A call at the next place of its route.
LEMMA AtIs ==
  ASSUME Calling, NEW c \in Calls, NEW pc \in CallPlaces, NEW i \in DOMAIN call[c].route
  PROVE  /\ At(c, pc, i) \in Call /\ At(c, pc, i).pc = pc /\ At(c, pc, i).at = i
         /\ At(c, pc, i).route = call[c].route
<1>1. call[c].route \in Seq(Providers) /\ i \in Nat
  BY DEF Calling, Call
<1> QED BY <1>1, NoCallIs DEF At, Call

\* A call whose provider failed it goes on to the next one, or fails.
LEMMA FailKeeps ==
  ASSUME Calling, Attempting, NEW c \in Calls, Fail(c), call[c].pc \notin {"idle", "attempt"}
  PROVE  Calling' /\ Attempting'
<1>1. PICK log \in Logs : attempts' = [attempts EXCEPT ![c] = log] /\ EndsIn(log, {"ended"})
  BY CompleteIs DEF Fail
<1>6. EndsIn(log, LastAt("attempt")) /\ EndsIn(log, LastAt("idle"))
  BY <1>1 DEF EndsIn, LastAt
<1>2. call[c].at \in DOMAIN call[c].route /\ call[c].route \in Seq(Providers)
  BY DEF Calling, Call
<1> DEFINE next == At(c, "attempt", call[c].at + 1)
<1>3. call' = [call EXCEPT ![c] = IF call[c].at < Len(call[c].route) THEN next ELSE NoCall]
  BY DEF Fail, Calling
<1>4. CASE call[c].at < Len(call[c].route)
  <2>1. call[c].at + 1 \in DOMAIN call[c].route
    BY <1>2, <1>4
  <2>2. next \in Call /\ next.pc = "attempt" /\ next.at \in DOMAIN next.route
    BY <2>1, AtIs DEF CallPlaces
  <2> HIDE DEF next
  <2> QED BY <1>1, <1>3, <1>4, <1>6, <2>2, CallPut
<1>5. CASE ~(call[c].at < Len(call[c].route))
  BY <1>1, <1>3, <1>5, <1>6, NoCallIs, CallPut
<1> QED BY <1>4, <1>5

\* The next step of a call: nothing else of it changes.
LEMMA GotoIs ==
  ASSUME Calling, NEW c \in Calls, NEW pc \in CallPlaces, Goto(c, pc)
  PROVE  \E new \in Call :
           /\ call' = [call EXCEPT ![c] = new]
           /\ new.pc = pc /\ new.route = call[c].route /\ new.at = call[c].at
<1> DEFINE new == [call[c] EXCEPT !.pc = pc]
<1>1. new \in Call /\ new.pc = pc /\ new.route = call[c].route /\ new.at = call[c].at
  BY DEF Calling, Call
<1>2. call' = [call EXCEPT ![c] = new]
  BY DEF Goto, Calling
<1> HIDE DEF new
<1> QED BY <1>1, <1>2

\* A step of a call to a place where its provider still works for it.
LEMMA GotoKeeps ==
  ASSUME Calling, Attempting, NEW c \in Calls, NEW pc \in CallPlaces, Goto(c, pc),
         UNCHANGED attempts, call[c].pc \notin {"idle", "attempt", "answer"},
         pc \notin {"idle", "attempt"}
  PROVE  Calling' /\ Attempting'
<1>1. PICK new \in Call :
        /\ call' = [call EXCEPT ![c] = new]
        /\ new.pc = pc /\ new.route = call[c].route /\ new.at = call[c].at
  BY GotoIs
<1>2. Now(c) # Builtin
  BY DEF Calling
<1> QED BY <1>1, <1>2, GoesOn

\* A call begins, with no attempt yet: of a run along its route, or of a test.
LEMMA BeginsKeeps ==
  ASSUME Calling, Attempting, NEW c \in Calls, NEW route \in Seq(Providers), 1 \in DOMAIN route,
         NEW pc \in {"attempt", "guard"}, NEW again \in BOOLEAN,
         pc = "guard" => route[1] # Builtin,
         call' = [call EXCEPT ![c] = [NoCall EXCEPT !.pc = pc, !.route = route, !.again = again]],
         attempts' = [attempts EXCEPT ![c] = <<>>]
  PROVE  Calling' /\ Attempting'
<1> DEFINE new == [NoCall EXCEPT !.pc = pc, !.route = route, !.again = again]
           log == <<>>
<1>1. new \in Call /\ new.pc = pc /\ new.route = route /\ new.at = 1
  BY NoCallIs DEF Call, CallPlaces
<1>2. log \in Logs /\ EndsIn(log, LastAt(new.pc))
  BY DEF Logs, EndsIn
<1>3. call' = [call EXCEPT ![c] = new] /\ attempts' = [attempts EXCEPT ![c] = log]
  OBVIOUS
<1> HIDE DEF new, log
<1> QED BY <1>1, <1>2, <1>3, CallPut

\* An attempt is opened: the ones before it have ended.
LEMMA OpenKeeps ==
  ASSUME Calling, Attempting, NEW c \in Calls, OpenAttempt(c)
  PROVE  Calling' /\ Attempting'
<1> DEFINE old == attempts[c]
           log == Append(old, "running")
           pc == IF Now(c) = Builtin THEN "answer" ELSE "guard"
<1>1. pc \in CallPlaces /\ Goto(c, pc) /\ call[c].pc = "attempt"
  BY DEF OpenAttempt, CallPlaces
<1>2. PICK new \in Call :
        /\ call' = [call EXCEPT ![c] = new]
        /\ new.pc = pc /\ new.route = call[c].route /\ new.at = call[c].at
  <2> HIDE DEF pc
  <2> QED BY <1>1, GotoIs
<1>3. attempts' = [attempts EXCEPT ![c] = log]
  BY DEF OpenAttempt, Attempted, Attempting
<1>4. old \in Seq({"running", "validated", "ended"}) /\ EndsIn(old, LastAt("attempt"))
  BY <1>1 DEF Attempting, Logs
<1>5. log \in Logs /\ EndsIn(log, {"running"})
  <2>1. /\ log \in Seq({"running", "validated", "ended"}) /\ Len(log) = Len(old) + 1
        /\ \A i \in 1 .. Len(old) : log[i] = old[i]
        /\ log[Len(old) + 1] = "running"
    <3> HIDE DEF old
    <3> QED BY <1>4, AppendProperties
  <2> HIDE DEF log, old
  <2> QED BY <1>4, <2>1 DEF Logs, EndsIn, LastAt
<1>6. /\ new.at \in DOMAIN new.route /\ new.pc \in {"answer", "guard"}
      /\ new.pc = "guard" => new.route[new.at] # Builtin
  BY <1>1, <1>2 DEF Calling, Now
<1>7. LastAt(new.pc) = {"running"}
  BY <1>6 DEF LastAt
<1> HIDE DEF log, old, pc
<1> QED BY <1>2, <1>3, <1>5, <1>6, <1>7, CallPut

\* The steps of a call, each from the places it can be taken from.
CallStep(c) ==
  \/ StartCall(c) \/ OpenAttempt(c) \/ Skip(c) \/ Guard(c) \/ Connect(c)
  \/ ReadObject(c) \/ ReadStream(c) \/ NoResult(c) \/ RecordSuccess(c)
  \/ \E p \in Providers : StartTest(c, p)
  \/ HealthRefused(c) \/ ReadFailures(c) \/ WriteFailures(c) \/ Answer(c) \/ Interrupt(c)

\* A failure is noted with the call, to be counted.
LEMMA FailsKeeps ==
  ASSUME Calling, Attempting, NEW c \in Calls, NEW answer, Fails(c, answer), UNCHANGED attempts,
         call[c].pc \in {"send", "read"}
  PROVE  Calling' /\ Attempting'
<1> DEFINE fault == Fault(answer)
           new == [call[c] EXCEPT !.pc = "count", !.fault = fault]
<1>1. fault \in {"passing", "badRequest", "lasting"}
  BY DEF Fault
<1> HIDE DEF fault
<1>2. new \in Call /\ new.pc = "count" /\ new.route = call[c].route /\ new.at = call[c].at
  BY <1>1 DEF Calling, Call, CallPlaces
<1>3. call' = [call EXCEPT ![c] = new]
  BY DEF Fails, Calling, fault
<1> HIDE DEF new
<1>4. Now(c) # Builtin
  BY DEF Calling
<1> QED BY <1>2, <1>3, <1>4, GoesOn

\* Every step of a call leaves the calls and their attempts what they may be.
LEMMA CallsStep ==
  ASSUME Calling, Attempting, Counting, NEW c \in Calls, CallStep(c)
  PROVE  Calling' /\ Attempting'
<1>0. {"guard", "send", "read", "success", "answer", "record"} \subseteq CallPlaces
  BY DEF CallPlaces
<1>1. CASE StartCall(c)
  <2>1. PICK route \in Routes \cup {<<p>> : p \in {q \in Providers : Available(q)}} :
          call' = [call EXCEPT ![c] = [NoCall EXCEPT !.pc = "attempt", !.route = route]]
    BY <1>1 DEF StartCall
  <2>2. route \in Seq(Providers) /\ 1 \in DOMAIN route
    BY RoutesAre
  <2> DEFINE x == [NoCall EXCEPT !.pc = "attempt", !.route = route]
             y == [NoCall EXCEPT !.pc = "attempt", !.route = route, !.again = FALSE]
  <2>3. /\ x \in Call /\ y \in Call /\ x.pc = y.pc /\ x.route = y.route /\ x.at = y.at
        /\ x.fault = y.fault /\ x.seen = y.seen /\ x.again = y.again
    BY <2>2, NoCallIs DEF Call, CallPlaces
  <2>4. x = y
    <3> HIDE DEF x, y
    <3> QED BY <2>3 DEF Call
  <2>5. attempts' = [attempts EXCEPT ![c] = <<>>] /\ call' = [call EXCEPT ![c] = y]
    BY <1>1, <2>1, <2>4 DEF StartCall
  <2> QED BY <2>2, <2>5, BeginsKeeps
<1>2. ASSUME NEW p \in Providers, StartTest(c, p) PROVE Calling' /\ Attempting'
  <2> DEFINE route == <<p>>
  <2>1. /\ call' = [call EXCEPT ![c] = [NoCall EXCEPT !.pc = "guard", !.route = route, !.again = TRUE]]
        /\ attempts' = [attempts EXCEPT ![c] = <<>>] /\ p # Builtin
    BY <1>2 DEF StartTest
  <2>2. route \in Seq(Providers) /\ 1 \in DOMAIN route /\ route[1] # Builtin
    BY <2>1
  <2> HIDE DEF route
  <2> QED BY <2>1, <2>2, BeginsKeeps
<1>3. CASE OpenAttempt(c)
  BY <1>3, OpenKeeps
<1>4. CASE Skip(c) \/ NoResult(c) \/ HealthRefused(c)
  <2>1. Fail(c) /\ call[c].pc \notin {"idle", "attempt"}
    BY <1>4 DEF Skip, NoResult, HealthRefused
  <2> QED BY <2>1, FailKeeps
<1>5. CASE Guard(c)
  <2>1. call[c].pc = "guard" /\ (Fail(c) \/ (Goto(c, "send") /\ UNCHANGED attempts))
    BY <1>5 DEF Guard
  <2> QED BY <1>0, <2>1, FailKeeps, GotoKeeps
<1>6. CASE Connect(c) \/ ReadObject(c) \/ ReadStream(c)
  <2>1. /\ UNCHANGED attempts /\ call[c].pc \in {"send", "read"}
        /\ \/ Goto(c, "read") \/ Goto(c, "success")
           \/ \E answer \in {"unreachable", "429", "400", "401"} : Fails(c, answer)
    BY <1>6 DEF Connect, ReadObject, ReadStream
  <2> QED BY <1>0, <2>1, GotoKeeps, FailsKeeps
<1>7. CASE RecordSuccess(c)
  <2>1. call[c].pc = "success" /\ Goto(c, "answer") /\ UNCHANGED attempts
    BY <1>7 DEF RecordSuccess
  <2> QED BY <1>0, <2>1, GotoKeeps
<1>8. CASE ReadFailures(c)
  <2>1. Now(c) \in Providers \ {Builtin} /\ call[c] \in Call /\ call[c].pc = "count"
    <3>1. /\ call[c].pc = "count" /\ call[c] \in Call /\ call[c].at \in DOMAIN call[c].route
          /\ Now(c) # Builtin
      BY <1>8 DEF ReadFailures, Calling
    <3> QED BY <3>1 DEF Now, Call
  <2> DEFINE seen == health[Now(c)].failures
             new == [call[c] EXCEPT !.pc = "record", !.seen = seen]
  <2>2. seen \in Nat
    BY <2>1 DEF Counting, Health
  <2>3. UNCHANGED attempts /\ call' = [call EXCEPT ![c].pc = "record", ![c].seen = seen]
    BY <1>8 DEF ReadFailures
  <2> HIDE DEF seen
  <2>4. new \in Call /\ new.pc = "record" /\ new.route = call[c].route /\ new.at = call[c].at
    BY <2>1, <2>2 DEF Call, CallPlaces
  <2>5. call' = [call EXCEPT ![c] = new]
    BY <2>3 DEF Calling
  <2> HIDE DEF new
  <2> QED BY <2>1, <2>3, <2>4, <2>5, GoesOn
<1>9. CASE WriteFailures(c)
  <2>1. CASE Fail(c)
    BY <1>9, <2>1, FailKeeps DEF WriteFailures
  <2>2. CASE ~Fail(c)
    <3> DEFINE next == At(c, "guard", call[c].at)
               new == [next EXCEPT !.again = TRUE]
    <3>1. /\ call[c].pc = "record" /\ UNCHANGED attempts
          /\ call' = [call EXCEPT ![c] = new]
      BY <1>9, <2>2 DEF WriteFailures, Calling
    <3>2. call[c].at \in DOMAIN call[c].route /\ Now(c) # Builtin
      BY <3>1 DEF Calling
    <3>3. /\ next \in Call /\ next.pc = "guard" /\ next.route = call[c].route
          /\ next.at = call[c].at
      BY <1>0, <3>2, AtIs
    <3> HIDE DEF next
    <3>4. new \in Call /\ new.pc = "guard" /\ new.route = call[c].route /\ new.at = call[c].at
      BY <3>3 DEF Call
    <3> HIDE DEF new
    <3> QED BY <3>1, <3>2, <3>4, GoesOn
  <2> QED BY <2>1, <2>2
<1>10. ASSUME NEW status \in {"validated", "ended"}, Complete(c, status),
              call' = [call EXCEPT ![c] = NoCall], call[c].pc \notin {"idle", "attempt"}
       PROVE  Calling' /\ Attempting'
  <2>1. PICK log \in Logs : attempts' = [attempts EXCEPT ![c] = log] /\ EndsIn(log, {status})
    BY <1>10, CompleteIs
  <2>2. EndsIn(log, LastAt(NoCall.pc))
    BY <2>1, NoCallIs DEF EndsIn, LastAt
  <2> QED BY <1>10, <2>1, <2>2, NoCallIs, CallPut
<1>11. CASE Answer(c)
  <2>1. /\ call[c].pc = "answer"
        /\ Fail(c) \/ (Complete(c, "validated") /\ call' = [call EXCEPT ![c] = NoCall])
    BY <1>11 DEF Answer
  <2> QED BY <1>10, <2>1, FailKeeps
<1>12. CASE Interrupt(c)
  <2>1. call[c].pc # "idle" /\ Complete(c, "ended") /\ call' = [call EXCEPT ![c] = NoCall]
    BY <1>12 DEF Interrupt
  <2>2. CASE call[c].pc # "attempt"
    BY <1>10, <2>1, <2>2
  <2>3. CASE call[c].pc = "attempt"
    <3> DEFINE log == attempts[c]
    <3>1. log \in Logs /\ EndsIn(log, {"ended"})
      BY <2>3 DEF Attempting, LastAt
    <3>2. ~(log # <<>> /\ Last(log) = "running")
      <4>1. ASSUME log # <<>> PROVE Last(log) = "ended"
        <5> HIDE DEF log
        <5>1. Len(log) \in DOMAIN log
          BY <3>1, <4>1 DEF Logs
        <5> QED BY <3>1, <5>1 DEF EndsIn, Last
      <4> QED BY <4>1
    <3>3. attempts' = [attempts EXCEPT ![c] = log]
      BY <2>1, <3>2 DEF Complete, Attempting
    <3>4. EndsIn(log, LastAt(NoCall.pc))
      BY <3>1, NoCallIs DEF EndsIn, LastAt
    <3> HIDE DEF log
    <3> QED BY <2>1, <3>1, <3>3, <3>4, NoCallIs, CallPut
  <2> QED BY <2>2, <2>3
<1> QED BY <1>1, <1>2, <1>3, <1>4, <1>5, <1>6, <1>7, <1>8, <1>9, <1>11, <1>12 DEF CallStep

(***************************************************************************)
(* Health                                                                  *)
(***************************************************************************)
\* What is written back is a count, open only when Trip is reached.
LEMMA CountedIs ==
  ASSUME NEW seen \in Nat, NEW fault
  PROVE  LET new == Counted(seen, fault)
         IN /\ new \in Health
            /\ fault = "passing" => new.failures = seen + 1 /\ (new.open => seen + 1 >= Trip)
            /\ fault # "passing" => new.failures = seen /\ ~new.open
<1>1. CASE fault = "passing"
  <2> DEFINE n == seen + 1
             open == n >= Trip
  <2>1. n \in Nat /\ open \in BOOLEAN
    OBVIOUS
  <2>2. Counted(seen, fault) = [failures |-> n, open |-> open]
    BY <1>1 DEF Counted
  <2> DEFINE new == [failures |-> n, open |-> open]
  <2> HIDE DEF open
  <2>3. new \in Health /\ new.failures = n /\ new.open = open
    BY <2>1 DEF Health
  <2> HIDE DEF new
  <2>4. new.open => n >= Trip
    BY <2>3 DEF open
  <2> QED BY <1>1, <2>2, <2>3, <2>4 DEF new
<1>2. CASE fault # "passing"
  BY <1>2 DEF Counted, Health
<1> QED BY <1>1, <1>2

\* Every step keeps the counts: they fall only with the history, and rise with it
\* unless something came in between.
LEMMA CountsStep == ASSUME Calling, Editing, Counting, Next PROVE Counting'
<1> DEFINE P == Providers \ {Builtin}
<1>1. ASSUME NEW p \in P, health' = [health EXCEPT ![p] = Healthy],
             streak' = [streak EXCEPT ![p] = 0], raced' = raced \ {p}
      PROVE  Counting'
  <2>1. Healthy \in Health /\ Healthy.failures = 0 /\ ~Healthy.open
    BY DEF Healthy, Health
  <2>2. /\ health' \in [P -> Health] /\ streak' \in [P -> Nat]
        /\ health'[p] = Healthy /\ streak'[p] = 0
        /\ \A q \in P \ {p} : health'[q] = health[q] /\ streak'[q] = streak[q]
    BY <1>1, <2>1 DEF Counting
  <2> QED BY <1>1, <2>1, <2>2 DEF Counting
<1>2. ASSUME NEW c \in Calls, call[c].pc \in {"success", "record"} PROVE Now(c) \in P
  <2>1. /\ call[c] \in Call /\ call[c].at \in DOMAIN call[c].route
        /\ Now(c) # Builtin
    BY <1>2 DEF Calling
  <2> QED BY <2>1 DEF Now, Call
<1>3. ASSUME NEW c \in Calls, RecordSuccess(c) PROVE Counting'
  BY <1>1, <1>2, <1>3 DEF RecordSuccess
<1>4. ASSUME NEW e \in Editors, RemoveProvider(e) PROVE Counting'
  <2>1. edit[e].provider \in P
    BY <1>4 DEF RemoveProvider, Editing, Writing
  <2> QED BY <1>1, <1>4, <2>1 DEF RemoveProvider
<1>5. ASSUME NEW c \in Calls, WriteFailures(c) PROVE Counting'
  <2> DEFINE p == Now(c)
             fault == call[c].fault
             seen == call[c].seen
             new == Counted(seen, fault)
  <2>1. p \in P /\ seen \in Nat
    <3>1. call[c].pc = "record" /\ call[c] \in Call
      BY <1>5 DEF WriteFailures, Calling
    <3> QED BY <1>2, <3>1 DEF Call
  <2>2. /\ health' = [health EXCEPT ![p] = new]
        /\ streak' = IF fault = "passing" THEN [streak EXCEPT ![p] = @ + 1] ELSE streak
        /\ raced' = IF health[p].failures = seen THEN raced ELSE raced \cup {p}
    BY <1>5 DEF WriteFailures
  <2>3. /\ new \in Health
        /\ fault = "passing" => new.failures = seen + 1 /\ (new.open => seen + 1 >= Trip)
        /\ fault # "passing" => new.failures = seen /\ ~new.open
    BY <2>1, CountedIs
  <2> HIDE DEF p, fault, seen, new
  <2>4. /\ health' \in [P -> Health] /\ streak' \in [P -> Nat] /\ health'[p] = new
        /\ \A q \in P \ {p} : health'[q] = health[q] /\ streak'[q] = streak[q]
        /\ streak'[p] = IF fault = "passing" THEN streak[p] + 1 ELSE streak[p]
    BY <2>1, <2>2, <2>3 DEF Counting
  <2>5. ASSUME p \notin raced'
        PROVE  new.failures <= streak'[p] /\ (new.open => streak'[p] >= Trip)
    <3>1. health[p].failures = seen /\ seen <= streak[p] /\ streak[p] \in Nat
      BY <2>1, <2>2, <2>5 DEF Counting
    <3> QED BY <2>1, <2>3, <2>4, <3>1, ProvidersAssumption
  <2>6. \A q \in P \ {p} : q \notin raced' => q \notin raced
    BY <2>2
  <2> QED BY <2>4, <2>5, <2>6 DEF Counting
<1>6. ASSUME NEW p \in Providers, CoolDown(p) PROVE Counting'
  <2> DEFINE new == [health[p] EXCEPT !.open = FALSE]
  <2>1. p \in P /\ UNCHANGED <<streak, raced>> /\ health' = [health EXCEPT ![p] = new]
    BY <1>6 DEF CoolDown, Counting
  <2>2. new \in Health /\ new.failures = health[p].failures /\ ~new.open
    BY <2>1 DEF Counting, Health
  <2> HIDE DEF new
  <2>3. /\ health' \in [P -> Health] /\ health'[p] = new
        /\ \A q \in P \ {p} : health'[q] = health[q]
    BY <2>1, <2>2 DEF Counting
  <2> QED BY <2>1, <2>2, <2>3 DEF Counting
<1>7. ASSUME UNCHANGED <<health, streak, raced>> PROVE Counting'
  BY <1>7 DEF Counting
<1>8. ASSUME NEW e \in Editors,
             \/ \E p \in Providers, role \in {"primary", "fallback", "disabled"} :
                  \/ \E key \in KeyChanges(p) \ {"clear"} : CreateProvider(e, p, role, key)
                  \/ \E enabled \in BOOLEAN, key \in KeyChanges(p) :
                       UpdateProvider(e, p, role, enabled, key)
             \/ \E p \in Providers : DeleteProvider(e, p)
             \/ InsertProvider(e) \/ UpdateCreated(e) \/ LookForPrimary(e) \/ WriteProvider(e)
             \/ LoadKeys(e) \/ SaveKeys(e) \/ ReplaceKeys(e)
      PROVE  UNCHANGED <<health, streak, raced>>
  BY <1>8 DEF CreateProvider, UpdateProvider, DeleteProvider, Begin, InsertProvider,
              UpdateCreated, LookForPrimary, WriteProvider, LoadKeys, SaveKeys, ReplaceKeys, traffic
<1>9. ASSUME NEW c \in Calls,
             \/ StartCall(c) \/ OpenAttempt(c) \/ Skip(c) \/ Guard(c) \/ Connect(c)
             \/ ReadObject(c) \/ ReadStream(c) \/ NoResult(c)
             \/ \E p \in Providers : StartTest(c, p)
             \/ HealthRefused(c) \/ ReadFailures(c) \/ Answer(c) \/ Interrupt(c)
      PROVE  UNCHANGED <<health, streak, raced>>
  BY <1>9 DEF StartCall, OpenAttempt, Skip, Guard, Connect, ReadObject, ReadStream, NoResult,
              StartTest, HealthRefused, ReadFailures, Answer, Interrupt
<1> QED BY <1>3, <1>4, <1>5, <1>6, <1>7, <1>8, <1>9 DEF Next

(***************************************************************************)
(* The theorems                                                            *)
(***************************************************************************)
\* There is the bridge, and no call.
LEMMA InvInit == Init => Inv
<1> SUFFICES ASSUME Init PROVE Inv
  OBVIOUS
<1>1. Table
  <2>1. BuiltinRow \in Row /\ BuiltinRow.role = "disabled" /\ BuiltinRow.order = 0
    BY DEF BuiltinRow, Row
  <2>2. /\ provider \in [Providers -> Row \cup {Nil}] /\ provider[Builtin] = BuiltinRow
        /\ \A p \in Providers : provider[p] \in {BuiltinRow, Nil}
    BY <2>1, ProvidersAssumption DEF Init
  <2>3. InRole(provider, "primary") = {}
    BY <2>1, <2>2 DEF InRole
  <2> QED BY <2>1, <2>2, <2>3, NilAssumption, FS_EmptySet DEF Table, Rows, Fits
<1>2. Editing
  BY NoEditIs DEF Init, Editing
<1>3. Calling
  BY NoCallIs DEF Init, Calling
<1>4. Attempting
  <2>1. <<>> \in Logs /\ \A s : EndsIn(<<>>, s)
    BY DEF Logs, EndsIn
  <2> QED BY <2>1 DEF Init, Attempting
<1>5. Counting
  BY DEF Init, Counting, Healthy, Health
<1> QED BY <1>1, <1>2, <1>3, <1>4, <1>5 DEF Inv

\* Every step keeps the invariant: a settings request leaves the calls alone, but for
\* the health of a provider it deletes, and a call leaves the settings alone.
LEMMA InvStep == ASSUME Inv, [Next]_vars PROVE Inv'
<1> USE DEF Inv
<1>1. ASSUME Next PROVE Inv'
  <2>1. Table' /\ Counting'
    BY <1>1, TableStep, CountsStep
  <2>2. Editing' /\ Calling' /\ Attempting'
    <3>1. ASSUME NEW e \in Editors,
                 \/ \E p \in Providers, role \in {"primary", "fallback", "disabled"} :
                      \/ \E key \in KeyChanges(p) \ {"clear"} : CreateProvider(e, p, role, key)
                      \/ \E enabled \in BOOLEAN, key \in KeyChanges(p) :
                           UpdateProvider(e, p, role, enabled, key)
                 \/ \E p \in Providers : DeleteProvider(e, p)
                 \/ InsertProvider(e) \/ UpdateCreated(e) \/ LookForPrimary(e)
                 \/ WriteProvider(e) \/ RemoveProvider(e) \/ LoadKeys(e) \/ SaveKeys(e)
                 \/ ReplaceKeys(e)
          PROVE  Editing' /\ Calling' /\ Attempting'
      <4>1. UNCHANGED <<call, attempts>>
        BY <3>1 DEF CreateProvider, UpdateProvider, DeleteProvider, Begin, InsertProvider,
             UpdateCreated, LookForPrimary, WriteProvider, RemoveProvider, LoadKeys, SaveKeys,
             ReplaceKeys, traffic
      <4>2. Calling' /\ Attempting'
        BY <4>1 DEF Calling, Attempting, Now
      <4> QED BY <3>1, <4>2, EditsStep
    <3>2. ASSUME NEW c \in Calls, CallStep(c) PROVE Editing' /\ Calling' /\ Attempting'
      <4>1. UNCHANGED <<edit, keys>>
        BY <3>2 DEF CallStep, StartCall, OpenAttempt, Skip, Guard, Connect, ReadObject, ReadStream,
             NoResult, RecordSuccess, StartTest, HealthRefused, ReadFailures, WriteFailures, Answer,
             Interrupt, settings
      <4> QED BY <3>2, <4>1, CallsStep DEF Editing, Writing
    <3>3. ASSUME NEW p \in Providers, CoolDown(p) PROVE Editing' /\ Calling' /\ Attempting'
      <4>1. UNCHANGED <<edit, keys, call, attempts>>
        BY <3>3 DEF CoolDown, settings
      <4> QED BY <4>1 DEF Editing, Writing, Calling, Attempting, Now
    <3> QED BY <1>1, <3>1, <3>2, <3>3 DEF Next, CallStep
  <2> QED BY <2>1, <2>2
<1>2. ASSUME UNCHANGED vars PROVE Inv'
  <2>1. UNCHANGED <<provider, keys, edit, health, call, attempts, streak, raced>>
    BY <1>2 DEF vars
  <2> QED BY <2>1 DEF Table, Rows, InRole, Editing, Writing, Calling, Now, Attempting, Counting
<1> QED BY <1>1, <1>2

\* The invariant holds in every state.
LEMMA Invariant == Spec => []Inv
<1>1. Inv /\ [Next]_vars => Inv'
  BY InvStep
<1> QED BY InvInit, <1>1, PTL DEF Spec

\* Whatever settings requests and calls race (model_providers.py, credential_store.py):
\* at most one enabled provider is the primary, a fallback has a place and nothing else
\* has one, keys are of providers that have any, and of a run's attempts only the last
\* can be under way or accepted.
THEOREM TypeCorrect == Spec => []TypeOK
<1>1. ASSUME Inv PROVE TypeOK
  <2>1. \A p \in Rows : (provider[p].role = "fallback") <=> (provider[p].order > 0)
    BY <1>1 DEF Inv, Table, Fits
  <2>2. keys.file \subseteq Keyed /\ (keys.temp = Nil \/ keys.temp \subseteq Keyed)
    BY <1>1 DEF Inv, Editing
  <2>3. \A e \in Editors : edit[e].pc \in EditPlaces
    BY <1>1 DEF Inv, Editing, Edit
  <2>4. ASSUME NEW c \in Calls
        PROVE  /\ call[c].pc \in CallPlaces
               /\ \A i \in DOMAIN attempts[c] :
                    attempts[c][i] # "ended" =>
                      /\ i = Len(attempts[c])
                      /\ call[c].pc = "idle" <=> attempts[c][i] = "validated"
    <3>1. call[c].pc \in CallPlaces /\ EndsIn(attempts[c], LastAt(call[c].pc))
      BY <1>1 DEF Inv, Calling, Call, Attempting
    <3> QED BY <3>1 DEF EndsIn, LastAt
  <2> QED BY <1>1, <2>1, <2>2, <2>3, <2>4 DEF Inv, Table, TypeOK, EditPlaces, CallPlaces
<1> QED BY <1>1, Invariant, PTL

\* A provider is shut out only after Trip failures in a row, or after a count was
\* written back over what came in meanwhile (_record_provider_failure).
THEOREM Opened == Spec => []OpenedForCause
<1>1. Inv => OpenedForCause
  BY DEF Inv, Counting, OpenedForCause
<1> QED BY <1>1, Invariant, PTL
=============================================================================
