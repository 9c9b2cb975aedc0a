------------------------------ MODULE ModelRoute ------------------------------
(***************************************************************************)
(* The model providers: their settings, the file with their keys, and the  *)
(* calls that go along the route (model_providers.py, credential_store.py, *)
(* the provider attempts of storage.py).                                   *)
(*                                                                         *)
(* A settings request reads a provider, checks, and writes every column    *)
(* back in a later transaction; a key is put into one file that is loaded, *)
(* changed and replaced without a lock.  A call reads the route once and   *)
(* tries its providers in order; what it learns of a provider's health is  *)
(* a count that is read and written back.                                  *)
(***************************************************************************)
EXTENDS Naturals, FiniteSets, Sequences, SequencesExt

CONSTANTS
  Providers,   \* provider ids
  Builtin,     \* the ChatGPT bridge: always there, no key, no HTTP
  Keyed,       \* auth_mode "api_key"
  Editors,     \* settings requests under way
  Calls,       \* agent runs at work
  Trip,        \* failures in a row that open a circuit
  MaxEdits,    \* bound: settings requests
  MaxCalls,    \* bound: calls
  MaxAsked,    \* bound: both together
  Nil

ASSUME ProvidersAssumption ==
  /\ IsFiniteSet(Providers)
  /\ Builtin \in Providers /\ Keyed \subseteq Providers \ {Builtin}
  /\ Trip \in Nat \ {0}

VARIABLES
  provider,    \* model_providers: [Providers -> row or Nil]
  keys,        \* credentials.json and its temporary file
  edit,        \* [Editors -> what a request has read and has left to do]
  health,      \* provider_health
  call,        \* [Calls -> where a call is on its route]
  attempts,    \* provider_attempts of the run: "running", "validated", or "ended" for
               \* failed, rejected, skipped, interrupted and cancelled
  edits, calls,
  streak,      \* history: failures of a provider since it last answered
  raced        \* history: providers whose count was, since the last answer, written
               \* back over what had come in

settings == <<provider, keys, edit, edits>>
traffic  == <<health, call, attempts, calls, streak, raced>>
vars == <<provider, keys, edit, health, call, attempts, edits, calls, streak, raced>>

NoEdit == [pc |-> "idle", provider |-> Nil, row |-> Nil, then |-> Nil, key |-> "keep",
           primary |-> {}, last |-> 0, items |-> {}]
NoCall == [pc |-> "idle", route |-> <<>>, at |-> 1, fault |-> Nil, seen |-> 0, again |-> FALSE]

Healthy == [failures |-> 0, open |-> FALSE]
BuiltinRow == [role |-> "disabled", order |-> 0, enabled |-> TRUE]

Init ==
  /\ provider = [p \in Providers |-> IF p = Builtin THEN BuiltinRow ELSE Nil]
  /\ keys = [file |-> {}, temp |-> Nil]
  /\ edit = [e \in Editors |-> NoEdit]
  /\ health = [p \in Providers \ {Builtin} |-> Healthy]
  /\ call = [c \in Calls |-> NoCall]
  /\ attempts = [c \in Calls |-> <<>>]
  /\ edits = 0 /\ calls = 0
  /\ streak = [p \in Providers \ {Builtin} |-> 0] /\ raced = {}

(***************************************************************************)
(* Settings                                                                *)
(***************************************************************************)
Rows == {p \in Providers : provider[p] # Nil}
InRole(table, role) ==
  {p \in Providers : table[p] # Nil /\ table[p].role = role /\ table[p].enabled}

KeyChanges(p) == IF p \in Keyed THEN {"keep", "set", "clear"} ELSE {"keep"}

Begin(e, record) ==
  /\ edits < MaxEdits /\ edits + calls < MaxAsked /\ edits' = edits + 1
  /\ edit[e].pc = "idle" /\ edit' = [edit EXCEPT ![e] = record]
  /\ UNCHANGED <<provider, keys, traffic>>

\* The state after e's step is pc; a request that has nothing left to do is idle.
Step(e, pc) == edit' = [edit EXCEPT ![e] = IF pc = "idle" THEN NoEdit ELSE [@ EXCEPT !.pc = pc]]

AfterRow(e)  == IF edit[e].key # "keep" THEN "load"
                ELSE IF edit[e].then # Nil THEN "update" ELSE "idle"
AfterKeys(e) == IF edit[e].then # Nil THEN "update" ELSE "idle"

\* create_model_provider: the id is looked up, the row is inserted disabled, the
\* key is stored, and only then update_model_provider gives it its role.
CreateProvider(e, p, role, key) ==
  /\ provider[p] = Nil
  /\ Begin(e, [NoEdit EXCEPT !.pc = "insert", !.provider = p, !.key = key,
                             !.then = IF role = "disabled" THEN Nil ELSE role])

InsertProvider(e) ==
  LET p == edit[e].provider
  IN /\ edit[e].pc = "insert"
     /\ IF provider[p] = Nil
        THEN /\ provider' = [provider EXCEPT ![p] =
                               [role |-> "disabled", order |-> 0, enabled |-> TRUE]]
             /\ Step(e, AfterRow(e))
        ELSE Step(e, "idle") /\ UNCHANGED provider
     /\ UNCHANGED <<keys, edits, traffic>>

\* update_model_provider, from its first read to its last check: r is the row it
\* will write back.
Acceptable(p, r, key) ==
  r.role # "disabled" => r.enabled /\ (p \in Keyed => key = "set" \/ p \in keys.file)

Ordered(r) ==
  [r EXCEPT !.order = IF r.role # "fallback" THEN 0 ELSE IF r.order = 0 THEN 1 ELSE r.order]

Checked(p, role, enabled, key) ==
  LET r == [provider[p] EXCEPT !.role = role, !.enabled = enabled]
  IN [NoEdit EXCEPT !.pc = IF role = "primary" THEN "look" ELSE "write",
                    !.provider = p, !.row = Ordered(r), !.key = key]

UpdateProvider(e, p, role, enabled, key) ==
  /\ provider[p] # Nil
  /\ Acceptable(p, [provider[p] EXCEPT !.role = role, !.enabled = enabled], key)
  /\ Begin(e, Checked(p, role, enabled, key))

UpdateCreated(e) ==
  LET p == edit[e].provider
      ok == /\ provider[p] # Nil
            /\ Acceptable(p, [provider[p] EXCEPT !.role = edit[e].then], "keep")
  IN /\ edit[e].pc = "update"
     /\ edit' = [edit EXCEPT ![e] =
          IF ok THEN Checked(p, edit[e].then, provider[p].enabled, "keep") ELSE NoEdit]
     /\ UNCHANGED <<provider, keys, edits, traffic>>

\* The primary to be demoted and the last place among the fallbacks are read
\* before the first UPDATE opens the transaction.
LookForPrimary(e) ==
  /\ edit[e].pc = "look"
  /\ \E last \in {provider[p].order : p \in Rows} :
       /\ \A p \in Rows : provider[p].order <= last
       /\ edit' = [edit EXCEPT ![e].pc = "write",
                               ![e].primary = InRole(provider, "primary") \ {edit[e].provider},
                               ![e].last = last]
  /\ UNCHANGED <<provider, keys, edits, traffic>>

Written(e) ==
  [p \in Providers |->
     IF provider[p] = Nil THEN Nil
     ELSE IF p = edit[e].provider THEN edit[e].row
     ELSE IF p \in edit[e].primary
     THEN [provider[p] EXCEPT !.role = "fallback", !.order = edit[e].last + 1]
     ELSE provider[p]]

\* idx_model_providers_primary.  Mutant: the table has no such index.
AnyTable(table) == TRUE
IndexAllows(table) == Cardinality(InRole(table, "primary")) <= 1

WriteProvider(e) ==
  /\ edit[e].pc = "write"
  /\ IF IndexAllows(Written(e))
     THEN provider' = Written(e) /\ Step(e, AfterRow(e))
     ELSE UNCHANGED provider /\ Step(e, "idle")
  /\ UNCHANGED <<keys, edits, traffic>>

\* delete_model_provider refuses the primary it has read, not the one it deletes.
DeleteProvider(e, p) ==
  /\ p # Builtin /\ provider[p] # Nil /\ provider[p].role # "primary"
  /\ Begin(e, [NoEdit EXCEPT !.pc = "delete", !.provider = p,
                             !.key = IF p \in Keyed THEN "clear" ELSE "keep"])

\* What is known of its health goes with it (ON DELETE CASCADE).
RemoveProvider(e) ==
  LET p == edit[e].provider
  IN /\ edit[e].pc = "delete"
     /\ provider' = [provider EXCEPT ![p] = Nil]
     /\ health' = [health EXCEPT ![p] = Healthy]
     /\ streak' = [streak EXCEPT ![p] = 0] /\ raced' = raced \ {p}
     /\ Step(e, AfterRow(e))
     /\ UNCHANGED <<keys, edits, call, attempts, calls>>

(***************************************************************************)
(* The credential store                                                    *)
(***************************************************************************)
LoadKeys(e) ==
  /\ edit[e].pc = "load"
  /\ LET p == edit[e].provider
         items == IF edit[e].key = "set" THEN keys.file \cup {p} ELSE keys.file \ {p}
     IN IF edit[e].key = "clear" /\ p \notin keys.file
        THEN Step(e, AfterKeys(e))
        ELSE edit' = [edit EXCEPT ![e].pc = "save", ![e].items = items]
  /\ UNCHANGED <<provider, keys, edits, traffic>>

SaveKeys(e) ==
  /\ edit[e].pc = "save"
  /\ keys' = [keys EXCEPT !.temp = edit[e].items]
  /\ Step(e, "replace")
  /\ UNCHANGED <<provider, edits, traffic>>

\* Both writers use one temporary name; the second replacement finds it gone.
ReplaceKeys(e) ==
  /\ edit[e].pc = "replace"
  /\ IF keys.temp = Nil THEN UNCHANGED keys /\ Step(e, "idle")
     ELSE keys' = [file |-> keys.temp, temp |-> Nil] /\ Step(e, AfterKeys(e))
  /\ UNCHANGED <<provider, edits, traffic>>

(***************************************************************************)
(* A call along the route                                                  *)
(***************************************************************************)
Available(p) ==
  provider[p] # Nil /\ provider[p].enabled /\ (p \in Keyed => p \in keys.file)

\* The primary, and the fallbacks by fallback_order.
Fallbacks ==
  {t \in SetToSeqs(InRole(provider, "fallback")) :
     \A i, j \in DOMAIN t : i < j => provider[t[i]].order <= provider[t[j]].order}
Routes == UNION {{<<p>> \o s : s \in Fallbacks} : p \in InRole(provider, "primary")}

\* active_model_route, for the provider a task is set to or for the route.
StartCall(c) ==
  /\ calls < MaxCalls /\ edits + calls < MaxAsked /\ calls' = calls + 1
  /\ call[c].pc = "idle"
  /\ \E route \in Routes \cup {<<p>> : p \in {q \in Providers : Available(q)}} :
       call' = [call EXCEPT ![c] = [NoCall EXCEPT !.pc = "attempt", !.route = route]]
  /\ attempts' = [attempts EXCEPT ![c] = <<>>]
  /\ UNCHANGED <<settings, health, streak, raced>>

\* test_model_provider and list_provider_models ask for the models of a provider:
\* an attempt of no run, which is counted like any other.
StartTest(c, p) ==
  /\ calls < MaxCalls /\ edits + calls < MaxAsked /\ calls' = calls + 1
  /\ call[c].pc = "idle" /\ p # Builtin /\ provider[p] # Nil
  /\ call' = [call EXCEPT ![c] = [NoCall EXCEPT !.pc = "guard", !.route = <<p>>, !.again = TRUE]]
  /\ attempts' = [attempts EXCEPT ![c] = <<>>]
  /\ UNCHANGED <<settings, health, streak, raced>>

Now(c) == call[c].route[call[c].at]
Goto(c, pc) == call' = [call EXCEPT ![c].pc = pc]

\* update_provider_attempt leaves an attempt alone that has been completed.
Complete(c, status) ==
  attempts' = [attempts EXCEPT ![c] =
    IF @ # <<>> /\ Last(@) = "running" THEN Append(Front(@), status) ELSE @]

\* Stage pc of the call's route at place i, with nothing sent yet.
At(c, pc, i) == [NoCall EXCEPT !.pc = pc, !.route = call[c].route, !.at = i]

\* What the handler of _start does: on to the next provider, or the call fails.
Fail(c) ==
  /\ Complete(c, "ended")
  /\ call' = [call EXCEPT ![c] =
       IF @.at < Len(@.route) THEN At(c, "attempt", @.at + 1) ELSE NoCall]

\* create_provider_attempt: under the next index of its run.
Attempted(c) == attempts' = [attempts EXCEPT ![c] = Append(@, "running")]

OpenAttempt(c) ==
  /\ call[c].pc = "attempt"
  /\ Attempted(c)
  /\ Goto(c, IF Now(c) = Builtin THEN "answer" ELSE "guard")
  /\ UNCHANGED <<settings, health, calls, streak, raced>>

\* The provider cannot read the media of the request.
Skip(c) ==
  /\ \/ call[c].pc = "guard" /\ ~call[c].again
     \/ call[c].pc = "answer" /\ Now(c) = Builtin
  /\ Fail(c)
  /\ UNCHANGED <<settings, health, calls, streak, raced>>

\* _guard_provider_circuit and the key; neither failure is counted.
Guard(c) ==
  /\ call[c].pc = "guard"
  /\ IF health[Now(c)].open \/ (Now(c) \in Keyed /\ Now(c) \notin keys.file)
     THEN Fail(c)
     ELSE Goto(c, "send") /\ UNCHANGED attempts
  /\ UNCHANGED <<settings, health, calls, streak, raced>>

\* What a refused or broken request counts as.  Only a passing fault is worth
\* asking again, which Connect has done max_retries times by then.
Fault(answer) ==
  CASE answer \in {"unreachable", "408", "429", "500", "502", "503", "504"} -> "passing"
    [] answer \in {"400", "404", "405", "422"}                              -> "badRequest"
    [] OTHER                                                                -> "lasting"

Fails(c, answer) ==
  call' = [call EXCEPT ![c].pc = "count", ![c].fault = Fault(answer)]

\* _open_provider_response, from the request to the header of the answer.
Connect(c) ==
  /\ call[c].pc = "send"
  /\ \/ Goto(c, "read")
     \/ \E answer \in {"unreachable", "429", "400", "401"} : Fails(c, answer)
  /\ UNCHANGED <<settings, health, attempts, calls, streak, raced>>

\* The body: one JSON object ...
ReadObject(c) ==
  /\ call[c].pc = "read"
  /\ \/ Goto(c, "success")
     \/ Fails(c, "unreachable")              \* interrupted, no JSON, or no object
  /\ UNCHANGED <<settings, health, attempts, calls, streak, raced>>

\* ... or a stream of them, of which a broken one is passed over.  A stream that
\* ends early with some text in it is an answer; a test never streams.
ReadStream(c) ==
  /\ call[c].pc = "read" /\ attempts[c] # <<>>
  /\ \/ Goto(c, "success")
     \/ Fails(c, "unreachable")              \* interrupted, or no text
  /\ UNCHANGED <<settings, health, attempts, calls, streak, raced>>

\* _record_provider_success.
RecordSuccess(c) ==
  /\ call[c].pc = "success" /\ provider[Now(c)] # Nil
  /\ health' = [health EXCEPT ![Now(c)] = Healthy]
  /\ streak' = [streak EXCEPT ![Now(c)] = 0] /\ raced' = raced \ {Now(c)}
  /\ Goto(c, "answer")
  /\ UNCHANGED <<settings, attempts, calls>>

\* The provider was deleted meanwhile: the foreign key refuses a row of its health.
HealthRefused(c) ==
  /\ call[c].pc \in {"success", "record"} /\ provider[Now(c)] = Nil
  /\ Fail(c)
  /\ UNCHANGED <<settings, health, calls, streak, raced>>

\* _record_provider_failure: the count is read ...
ReadFailures(c) ==
  /\ call[c].pc = "count"
  /\ call' = [call EXCEPT ![c].pc = "record", ![c].seen = health[Now(c)].failures]
  /\ UNCHANGED <<settings, health, attempts, calls, streak, raced>>

\* ... and written back.  Only a passing fault counts, and only a passing fault
\* opens the circuit; any other closes it.
\* Mutant: the circuit opens one failure early.
OpensEarly(seen, fault) ==
  IF fault = "passing" THEN [failures |-> seen + 1, open |-> seen + 2 >= Trip]
                       ELSE [failures |-> seen, open |-> FALSE]
Counted(seen, fault) ==
  IF fault = "passing" THEN [failures |-> seen + 1, open |-> seen + 1 >= Trip]
                       ELSE [failures |-> seen, open |-> FALSE]

\* A bad request of a run is sent once more, with a plainer response format.
WriteFailures(c) ==
  LET p == Now(c)
      fault == call[c].fault
  IN /\ call[c].pc = "record" /\ provider[p] # Nil
     /\ health' = [health EXCEPT ![p] = Counted(call[c].seen, fault)]
     /\ streak' = IF fault = "passing" THEN [streak EXCEPT ![p] = @ + 1] ELSE streak
     /\ raced' = IF health[p].failures = call[c].seen THEN raced ELSE raced \cup {p}
     /\ IF fault = "badRequest" /\ ~call[c].again
        THEN /\ call' = [call EXCEPT ![c] = [At(c, "guard", @.at) EXCEPT !.again = TRUE]]
             /\ UNCHANGED attempts
        ELSE Fail(c)
     /\ UNCHANGED <<settings, calls>>

\* There is no completion in the answer, or its text is no JSON object.
NoResult(c) ==
  /\ call[c].pc = "answer" /\ Now(c) # Builtin
  /\ Fail(c)
  /\ UNCHANGED <<settings, health, calls, streak, raced>>

\* The result passes the contract, or it does not; what the bridge answers is not
\* counted.
Answer(c) ==
  /\ call[c].pc = "answer"
  /\ \/ Complete(c, "validated") /\ call' = [call EXCEPT ![c] = NoCall]
     \/ Fail(c)
  /\ UNCHANGED <<settings, health, calls, streak, raced>>

\* The run's process is killed; close_open_provider_attempts.
Interrupt(c) ==
  /\ call[c].pc # "idle"
  /\ Complete(c, "ended")
  /\ call' = [call EXCEPT ![c] = NoCall]
  /\ UNCHANGED <<settings, health, calls, streak, raced>>

CoolDown(p) ==
  /\ p # Builtin /\ health[p].open
  /\ health' = [health EXCEPT ![p].open = FALSE]
  /\ UNCHANGED <<settings, call, attempts, calls, streak, raced>>

Next ==
  \/ \E e \in Editors :
       \/ \E p \in Providers, role \in {"primary", "fallback", "disabled"} :
            \/ \E key \in KeyChanges(p) \ {"clear"} : CreateProvider(e, p, role, key)
            \/ \E enabled \in BOOLEAN, key \in KeyChanges(p) :
                 UpdateProvider(e, p, role, enabled, key)
       \/ \E p \in Providers : DeleteProvider(e, p)
       \/ InsertProvider(e) \/ UpdateCreated(e) \/ LookForPrimary(e) \/ WriteProvider(e)
       \/ RemoveProvider(e) \/ LoadKeys(e) \/ SaveKeys(e) \/ ReplaceKeys(e)
  \/ \E c \in Calls :
       \/ StartCall(c) \/ OpenAttempt(c) \/ Skip(c) \/ Guard(c) \/ Connect(c)
       \/ ReadObject(c) \/ ReadStream(c) \/ NoResult(c) \/ RecordSuccess(c)
       \/ \E p \in Providers : StartTest(c, p)
       \/ HealthRefused(c) \/ ReadFailures(c) \/ WriteFailures(c) \/ Answer(c) \/ Interrupt(c)
  \/ \E p \in Providers : CoolDown(p)

Spec == Init /\ [][Next]_vars

(***************************************************************************)
(* Properties                                                              *)
(***************************************************************************)
Row == [role : {"primary", "fallback", "disabled"}, order : Nat, enabled : BOOLEAN]
ASSUME NilAssumption == Nil \notin Row

\* Every variable has its type; whatever requests race, at most one enabled
\* provider is the primary, a fallback has a place and nothing else has one; and
\* of a run's attempts only the last can be under way or accepted.
TypeOK ==
  /\ provider \in [Providers -> Row \cup {Nil}]
  /\ provider[Builtin] # Nil
  /\ Cardinality(InRole(provider, "primary")) <= 1
  /\ \A p \in Rows : (provider[p].role = "fallback") <=> (provider[p].order > 0)
  /\ keys.file \subseteq Keyed /\ (keys.temp = Nil \/ keys.temp \subseteq Keyed)
  /\ \A e \in Editors : edit[e].pc \in {"idle", "insert", "update", "look", "write", "delete",
                                        "load", "save", "replace"}
  /\ \A c \in Calls :
       /\ call[c].pc \in {"idle", "attempt", "guard", "send", "read", "success", "count",
                          "record", "answer"}
       /\ \A i \in DOMAIN attempts[c] :
            attempts[c][i] # "ended" =>
              /\ i = Len(attempts[c])
              /\ call[c].pc = "idle" <=> attempts[c][i] = "validated"

\* A provider is shut out only after it failed Trip times in a row without an
\* answer in between, unless a count was written back over what came in meanwhile.
OpenedForCause ==
  \A p \in Providers \ {Builtin} : health[p].open => p \in raced \/ streak[p] >= Trip
=============================================================================
