------------------------------- MODULE Counters -------------------------------
(***************************************************************************)
(* The counter applications, which differ in when they save: the counter   *)
(* of test_wasm_counter and the one of test_memory_usage save when a       *)
(* transaction ends, the counter without state of test_has_empty_storage   *)
(* only when an operation asks for it.  The application state-triviality   *)
(* creates one of the last kind and looks at its storage through contract  *)
(* calls, which see the instance of the transaction, and service queries,  *)
(* which see what is saved.  Its test then tells it what to find.          *)
(*                                                                         *)
(* External: the runtime, which loads an instance when it is first called  *)
(* in a transaction, and undoes a transaction that panics.                 *)
(***************************************************************************)
EXTENDS Integers

CONSTANTS
  MaxApplications,   \* bound on the counters that are created
  Modulus,           \* 2^64: a release build wraps
  Amounts            \* values that counters are created with or incremented by

(* Storages and instances without a value.                                  *)
NoCounter == -2
EmptyStorage == -1
NoInstance == -1

NoKind == "not created"

CounterValues == 0..(Modulus - 1)
Applications == 1..MaxApplications

ASSUME CountersAssumption ==
  MaxApplications \in Nat /\ Modulus \in Nat \ {0} /\ Amounts \subseteq CounterValues

VARIABLES
  kind,       \* of each counter
  storage,    \* what is saved of it
  app_id,     \* the counter that state-triviality created last, or 0
  creation,   \* the CreateAndCall that is executed, and its next step
  instance,   \* its counter, in memory
  panicked,   \* whether an assertion of state-triviality has failed
  expected,   \* what the test has to ask for next: "trivial", "not trivial" or "nothing"
  asked       \* history: whether something has asked to save the counter

countersVars == <<kind, storage, app_id, creation, instance, panicked, expected, asked>>

(* The identifier that no application has.                                  *)
AppIdNotExist == 0

NoCall == [step |-> 0, app |-> 0, value |-> 0, do_save |-> FALSE]

-----------------------------------------------------------------------------

Load(a) == IF storage[a] = EmptyStorage THEN 0 ELSE storage[a]
Increased(old, value) == (old + value) % Modulus

SavesAtTheEnd(a) == kind[a] # "counter-no-state"

(* has_empty_storage, also of an application that does not exist.           *)
HasEmptyStorage(a) == a \in Applications => storage[a] \in {EmptyStorage, NoCounter}

(* The test asks at once for the storage that it has had created.           *)
Free == creation = NoCall /\ expected = "nothing"

Create(a, k) ==
  /\ a \in Applications /\ kind[a] = NoKind
  /\ \A b \in Applications : b < a => kind[b] # NoKind
  /\ kind' = [kind EXCEPT ![a] = k]

(* instantiate of the first kind sets a value, and all store.               *)
CreateCounter ==
  /\ Free
  /\ \E a \in Applications :
       \/ \E value \in Amounts :
            /\ Create(a, "counter")
            /\ storage' = [storage EXCEPT ![a] = value]
            /\ asked' = [asked EXCEPT ![a] = TRUE]
       \/ /\ Create(a, "memory counter")
          /\ storage' = [storage EXCEPT ![a] = EmptyStorage]
          /\ UNCHANGED asked
  /\ UNCHANGED <<app_id, creation, instance, panicked, expected>>

(* An operation on a counter, which loads it, executes and stores.          *)
Increment(a, value, do_save) ==
  /\ Free /\ kind[a] # NoKind
  /\ LET saves == SavesAtTheEnd(a) \/ do_save
     IN /\ storage' = IF saves THEN [storage EXCEPT ![a] = Increased(Load(a), value)] ELSE storage
        /\ asked' = [asked EXCEPT ![a] = @ \/ saves]
  /\ UNCHANGED <<kind, app_id, creation, instance, panicked, expected>>

-----------------------------------------------------------------------------
(* CreateAndCall.                                                           *)

(* The instance is loaded by the first call, and a query does not save.     *)
Instance(a) == IF instance = NoInstance THEN Load(a) ELSE instance

NextCall == creation' = [creation EXCEPT !.step = @ + 1]

(* assert! of a claim, whose failure undoes the transaction.                *)
Claim(holds) ==
  IF holds THEN NextCall /\ UNCHANGED <<kind, storage, asked, panicked>>
  ELSE /\ panicked' = TRUE /\ creation' = NoCall
       /\ kind' = [kind EXCEPT ![creation.app] = NoKind]
       /\ storage' = [storage EXCEPT ![creation.app] = NoCounter]
       /\ asked' = [asked EXCEPT ![creation.app] = FALSE]

CreateAndCall(value, do_save) ==
  /\ Free
  /\ \E a \in Applications :
       /\ Create(a, "counter-no-state")
       /\ storage' = [storage EXCEPT ![a] = EmptyStorage]
       /\ creation' = [step |-> 1, app |-> a, value |-> value, do_save |-> do_save]
  /\ instance' = NoInstance
  /\ UNCHANGED <<app_id, panicked, expected, asked>>

AssertTrivial ==
  /\ creation.step = 1
  /\ Claim(HasEmptyStorage(creation.app) /\ HasEmptyStorage(AppIdNotExist))
  /\ UNCHANGED <<app_id, instance, expected>>

(* By a contract call, and by a service query.                              *)
QueryBefore ==
  /\ creation.step = 2
  /\ instance' = Instance(creation.app)
  /\ Claim(Instance(creation.app) = 0 /\ Load(creation.app) = 0)
  /\ UNCHANGED <<app_id, expected>>

(* Mutant of CallIncrement: the counter is saved in any case.               *)
CallIncrementSaved ==
  /\ creation.step = 3
  /\ instance' = Increased(Instance(creation.app), creation.value)
  /\ storage' = [storage EXCEPT ![creation.app] = instance']
  /\ asked' = [asked EXCEPT ![creation.app] = creation.do_save]
  /\ NextCall
  /\ UNCHANGED <<kind, app_id, panicked, expected>>

CallIncrement ==
  /\ creation.step = 3
  /\ instance' = Increased(Instance(creation.app), creation.value)
  /\ storage' = IF creation.do_save THEN [storage EXCEPT ![creation.app] = instance'] ELSE storage
  /\ asked' = [asked EXCEPT ![creation.app] = creation.do_save]
  /\ NextCall
  /\ UNCHANGED <<kind, app_id, panicked, expected>>

QueryAfter ==
  /\ creation.step = 4
  /\ Claim(/\ Instance(creation.app) = creation.value
           /\ Load(creation.app) = IF creation.do_save THEN creation.value ELSE 0)
  /\ UNCHANGED <<app_id, instance, expected>>

AssertSaved ==
  /\ creation.step = 5
  /\ Claim(HasEmptyStorage(creation.app) = ~creation.do_save)
  /\ UNCHANGED <<app_id, instance, expected>>

(* The transaction ends: state-triviality stores, the counter does not.  It *)
(* was the test's, which expects what it has asked for.                     *)
StoreAll ==
  /\ creation.step = 6
  /\ app_id' = creation.app
  /\ creation' = NoCall
  /\ instance' = NoInstance
  /\ expected' = IF creation.do_save THEN "not trivial" ELSE "trivial"
  /\ UNCHANGED <<kind, storage, panicked, asked>>

(* The expected value comes with the operation.                             *)
TestTrivialState ==
  /\ creation = NoCall /\ expected # "nothing"
  /\ panicked' = (panicked \/ HasEmptyStorage(app_id) # (expected = "trivial"))
  /\ expected' = "nothing"
  /\ UNCHANGED <<kind, storage, app_id, creation, instance, asked>>

-----------------------------------------------------------------------------

CountersInit ==
  /\ kind = [a \in Applications |-> NoKind]
  /\ storage = [a \in Applications |-> NoCounter]
  /\ app_id = 0
  /\ creation = NoCall
  /\ instance = NoInstance
  /\ panicked = FALSE
  /\ expected = "nothing"
  /\ asked = [a \in Applications |-> FALSE]

CountersNext ==
  \/ CreateCounter
  \/ \E a \in Applications, value \in Amounts, do_save \in BOOLEAN : Increment(a, value, do_save)
  \/ \E value \in Amounts, do_save \in BOOLEAN : CreateAndCall(value, do_save)
  \/ AssertTrivial
  \/ QueryBefore
  \/ CallIncrement
  \/ QueryAfter
  \/ AssertSaved
  \/ StoreAll
  \/ TestTrivialState

CountersSpec == CountersInit /\ [][CountersNext]_countersVars

-----------------------------------------------------------------------------
(* Properties.                                                              *)

(* A counter has an empty storage until something asks to save it, within   *)
(* a transaction and after it, and the assertions of state-triviality hold, *)
(* also the one about what its test expects, whatever it increments by and  *)
(* whether it saves or not.                                                 *)
SavesDecide ==
  /\ ~panicked
  /\ \A a \in Applications : kind[a] # NoKind => (HasEmptyStorage(a) <=> ~asked[a])

=============================================================================
