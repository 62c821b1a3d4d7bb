--------------------------- MODULE StorageBenchmark ---------------------------
(***************************************************************************)
(* The storage benchmark (benchmark_multi_operations_storage): for three   *)
(* databases in turn it writes the same pairs in one batch, one by one,    *)
(* and in concurrent futures, each into a fresh store, then writes them    *)
(* once more and reads them back in the same three ways.  Keys are random  *)
(* bytes of a size that the user chooses, so that two may be equal.        *)
(*                                                                         *)
(* External: the databases, where each request succeeds or fails, and a    *)
(* batch in which the last of several writes to a key counts.              *)
(***************************************************************************)
EXTENDS Integers, Sequences, FiniteSets

CONSTANTS
  Keys,
  Values,
  NumPairs,       \* num_key
  NumDatabases    \* DynamoDb, ScyllaDb and RocksDb

Absent == "absent"

ASSUME StorageAssumption ==
  NumPairs \in Nat /\ NumDatabases \in Nat \ {0} /\ Absent \notin Values

Ways == {"multi", "loop", "futures"}
Indices == 1..NumPairs

VARIABLES
  pairs,      \* the keys and values, the same for every database
  database,
  kernel,     \* "none", "write", "read", or "done", "failed", "panic" at the end
  way,        \* of writing or of reading
  pending,    \* pairs that are still to be written or read this way
  stores,     \* the stores of the write kernel
  read_store,
  answers     \* what was read this way

storageVars == <<pairs, database, kernel, way, pending, stores, read_store, answers>>

EmptyStore == [k \in Keys |-> Absent]
EmptyStores == [w \in Ways |-> EmptyStore]

Put(store, i) == [store EXCEPT ![pairs[i].key] = pairs[i].value]

(* The pairs written in one batch.                                          *)
LastWrite(k) == CHOOSE i \in Indices :
             pairs[i].key = k /\ \A j \in Indices : pairs[j].key = k => j <= i
AllWritten == [k \in Keys |-> IF \E i \in Indices : pairs[i].key = k THEN pairs[LastWrite(k)].value
                         ELSE Absent]

Following(w) == CASE w = "multi" -> "loop" [] w = "loop" -> "futures" [] w = "futures" -> "multi"

-----------------------------------------------------------------------------

(* The generator starts from one seed in every kernel.                      *)
Generate ==
  /\ kernel = "none"
  /\ pairs' \in [Indices -> [key : Keys, value : Values]]
  /\ kernel' = "write" /\ pending' = Indices
  /\ UNCHANGED <<database, way, stores, read_store, answers>>

(* A request fails, `?` ends the benchmark, and futures that are not done   *)
(* are dropped.                                                             *)
RequestFails ==
  /\ kernel \in {"write", "read"}
  /\ kernel' = "failed"
  /\ UNCHANGED <<pairs, database, way, pending, stores, read_store, answers>>

WriteMulti ==
  /\ kernel = "write" /\ way = "multi" /\ pending # {}
  /\ stores' = [stores EXCEPT !["multi"] = AllWritten]
  /\ pending' = {}
  /\ UNCHANGED <<pairs, database, kernel, way, read_store, answers>>

Turn(i) == way = "loop" => \A j \in pending : i <= j

(* Mutant of WriteOne: every write starts from an empty store.              *)
WriteOneAfresh(i) ==
  /\ kernel = "write" /\ way # "multi" /\ Turn(i)
  /\ stores' = [stores EXCEPT ![way] = Put(EmptyStore, i)]
  /\ pending' = pending \ {i}
  /\ UNCHANGED <<pairs, database, kernel, way, read_store, answers>>

(* A write of the loop, or of whichever future runs next.                   *)
WriteOne(i) ==
  /\ kernel = "write" /\ way # "multi" /\ Turn(i)
  /\ stores' = [stores EXCEPT ![way] = Put(@, i)]
  /\ pending' = pending \ {i}
  /\ UNCHANGED <<pairs, database, kernel, way, read_store, answers>>

(* All is written this way.  After the last one the read kernel writes its  *)
(* own store in one batch.                                                  *)
Written ==
  /\ kernel = "write" /\ pending = {}
  /\ way' = Following(way)
  /\ pending' = Indices
  /\ IF way = "futures" THEN kernel' = "read" /\ read_store' = AllWritten
     ELSE UNCHANGED <<kernel, read_store>>
  /\ UNCHANGED <<pairs, database, stores, answers>>

ReadMulti ==
  /\ kernel = "read" /\ way = "multi" /\ pending # {}
  /\ answers' = [i \in Indices |-> read_store[pairs[i].key]]
  /\ pending' = {}
  /\ UNCHANGED <<pairs, database, kernel, way, stores, read_store>>

ReadOne(i) ==
  /\ kernel = "read" /\ way # "multi" /\ Turn(i)
  /\ answers' = [answers EXCEPT ![i] = read_store[pairs[i].key]]
  /\ pending' = pending \ {i}
  /\ UNCHANGED <<pairs, database, kernel, way, stores, read_store>>

(* assert_eq!(values, read_values), for the values of all pairs.            *)
Checked ==
  /\ kernel = "read" /\ pending = {}
  /\ answers' = [i \in Indices |-> Absent]
  /\ IF \E i \in Indices : answers[i] # pairs[i].value
     THEN kernel' = "panic" /\ UNCHANGED <<database, way, pending, stores, read_store>>
     ELSE /\ way' = Following(way)
          /\ pending' = Indices
          /\ IF way # "futures" THEN UNCHANGED <<kernel, database, stores, read_store>>
             ELSE /\ stores' = EmptyStores /\ read_store' = EmptyStore
                  /\ IF database = NumDatabases
                     THEN kernel' = "done" /\ UNCHANGED database
                     ELSE kernel' = "write" /\ database' = database + 1
  /\ UNCHANGED pairs

StorageInit ==
  /\ pairs = <<>>
  /\ database = 1
  /\ kernel = "none" /\ way = "multi" /\ pending = {}
  /\ stores = EmptyStores /\ read_store = EmptyStore
  /\ answers = [i \in Indices |-> Absent]

StorageNext ==
  \/ Generate
  \/ RequestFails
  \/ WriteMulti
  \/ \E i \in pending : WriteOne(i)
  \/ Written
  \/ ReadMulti
  \/ \E i \in pending : ReadOne(i)
  \/ Checked

StorageSpec == StorageInit /\ [][StorageNext]_storageVars

-----------------------------------------------------------------------------
(* Properties.                                                              *)

(* Equal keys have equal values, which holds when keys are distinct.        *)
Unambiguous == \A i, j \in Indices : pairs[i].key = pairs[j].key => pairs[i].value = pairs[j].value

(* The three ways of writing leave the same store, whatever the order of    *)
(* the futures, and the three ways of reading find what was written: only   *)
(* two values for one key make the futures differ or an assertion fail.     *)
WaysAgree ==
  /\ kernel = "read" =>
       /\ stores["loop"] = stores["multi"]
       /\ Unambiguous => stores["futures"] = stores["multi"]
  /\ kernel = "panic" => ~Unambiguous

=============================================================================
