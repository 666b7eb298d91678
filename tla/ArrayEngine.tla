---------------------------- MODULE ArrayEngine ----------------------------
(***************************************************************************)
(* The array engine of the key-value store (kv_engine/kvstore_array.c): a  *)
(* fixed table of key/value slots and array_idx, which is at once the      *)
(* number of stored pairs and the upper bound of every scan.               *)
(*                                                                         *)
(* kvs_array_delete empties a slot and decrements array_idx without moving *)
(* anything, so a hole may lie below array_idx while a stored pair lies at *)
(* or above it.  The module keeps those layouts exactly.  A scan that runs *)
(* strcmp on the NULL key of a hole ends the process: status "crashed".    *)
(*                                                                         *)
(* One call of the engine is one step: the server that calls it is single  *)
(* threaded and no call waits for anything.                                *)
(***************************************************************************)
EXTENDS Integers, FiniteSets

CONSTANTS
    Key,            \* the keys clients use
    Value,          \* the values clients use
    NULL,           \* the null pointer
    KVS_ARRAY_SIZE  \* number of slots

ASSUME ArrayAssumption ==
    /\ KVS_ARRAY_SIZE \in Nat \ {0}
    /\ NULL \notin Key \cup Value

VARIABLES
    array_table,  \* slot -> [key, value], NULL where the pointer is NULL
    array_idx,    \* the counter that bounds every scan
    allocs,       \* heap blocks the engine owns: the table and the copies
    status,       \* "running", or "crashed" once the process has died
    ret           \* the call that returned last: function, key, result

vars == <<array_table, array_idx, allocs, status, ret>>

Slot == 0 .. KVS_ARRAY_SIZE - 1
Empty == [key |-> NULL, value |-> NULL]
Live == {i \in Slot : array_table[i].key # NULL}

Return(fn, k, val) == ret' = [fn |-> fn, key |-> k, val |-> val]
Fail(fn, k) == Return(fn, k, -1) /\ UNCHANGED <<array_table, array_idx, allocs, status>>
Crash == status' = "crashed" /\ UNCHANGED <<array_table, array_idx, allocs, ret>>

(***************************************************************************)
(* Where the scans stop.  FirstFree is the slot kvs_array_set fills: the   *)
(* first hole below array_idx, or array_idx itself when there is none.     *)
(* StopsAt is the first slot below array_idx that holds k or is a hole;    *)
(* RunsOut says that the scan for k reaches array_idx.                     *)
(***************************************************************************)
FirstFree_IgnoresHoles(i) == i = array_idx

FirstFree(i) ==
    /\ i <= array_idx
    /\ i < array_idx => i \notin Live
    /\ \A j \in Slot : j < i => j \in Live

StopsAt(k, i) ==
    /\ i < array_idx
    /\ array_table[i].key \in {k, NULL}
    /\ \A j \in Slot : j < i => array_table[j].key \notin {k, NULL}

RunsOut_OneShort(k) ==
    \A j \in Slot : j < array_idx - 1 => array_table[j].key \notin {k, NULL}

RunsOut(k) == \A j \in Slot : j < array_idx => array_table[j].key \notin {k, NULL}

(***************************************************************************)
(* Steps shared by the calls: emptying a slot (both copies freed, both     *)
(* pointers NULL, the counter decremented), and the result of a scan that  *)
(* found nothing, which is the scan index, that is array_idx.              *)
(***************************************************************************)
Vacate_KeepsIdx(i) ==
    /\ array_table' = [array_table EXCEPT ![i] = Empty]
    /\ array_idx' = array_idx
    /\ allocs' = allocs - 2

Vacate_LeaksKey(i) ==
    /\ array_table' = [array_table EXCEPT ![i] = Empty]
    /\ array_idx' = array_idx - 1
    /\ allocs' = allocs - 1

Vacate(i) ==
    /\ array_table' = [array_table EXCEPT ![i] = Empty]
    /\ array_idx' = array_idx - 1
    /\ allocs' = allocs - 2

Miss_Decrements(fn, k) ==
    /\ Return(fn, k, array_idx)
    /\ array_idx' = array_idx - 1
    /\ UNCHANGED <<array_table, allocs, status>>

Miss(fn, k) ==
    /\ Return(fn, k, array_idx)
    /\ UNCHANGED <<array_table, array_idx, allocs, status>>

(***************************************************************************)
(* kvstore_array_create: a zeroed table.                                   *)
(***************************************************************************)
Init ==
    /\ array_table = [i \in Slot |-> Empty]
    /\ array_idx = 0
    /\ allocs = 1
    /\ status = "running"
    /\ ret = [fn |-> "create", key |-> NULL, val |-> 0]

(***************************************************************************)
(* kvs_array_set.  It refuses a NULL argument, a full table and a failed   *)
(* malloc (the second copy failing frees the first); otherwise it stores   *)
(* the pair, without looking whether the key is already there.             *)
(***************************************************************************)
kvs_array_set(k, v) ==
    /\ status = "running"
    /\ \/ /\ NULL \in {k, v} \/ array_idx = KVS_ARRAY_SIZE
          /\ Fail("set", k)
       \/ /\ NULL \notin {k, v} /\ array_idx # KVS_ARRAY_SIZE
          /\ Fail("set", k)  \* malloc returned NULL
       \/ /\ NULL \notin {k, v} /\ array_idx # KVS_ARRAY_SIZE
          /\ \E i \in Slot :
                /\ FirstFree(i)
                /\ array_table' = [array_table EXCEPT ![i] = [key |-> k, value |-> v]]
          /\ array_idx' = array_idx + 1
          /\ allocs' = allocs + 2
          /\ Return("set", k, 0)
          /\ UNCHANGED status

(***************************************************************************)
(* kvs_array_get.  A hole ends the scan with NULL; a NULL key is only      *)
(* noticed by strcmp.                                                      *)
(***************************************************************************)
kvs_array_get(k) ==
    /\ status = "running"
    /\ \/ /\ k # NULL
          /\ \/ \E i \in Slot : StopsAt(k, i) /\ Return("get", k, array_table[i].value)
             \/ RunsOut(k) /\ Return("get", k, NULL)
          /\ UNCHANGED <<array_table, array_idx, allocs, status>>
       \/ /\ k = NULL /\ (array_idx = 0 \/ 0 \notin Live)
          /\ Return("get", k, NULL)
          /\ UNCHANGED <<array_table, array_idx, allocs, status>>
       \/ /\ k = NULL /\ array_idx > 0 /\ 0 \in Live
          /\ Crash

(***************************************************************************)
(* kvs_array_delete.  It runs strcmp on every slot it passes, holes        *)
(* included.                                                               *)
(***************************************************************************)
kvs_array_delete(k) ==
    /\ status = "running"
    /\ \/ /\ k = NULL
          /\ Fail("delete", k)
       \/ /\ k # NULL
          /\ \E i \in Slot :
                /\ StopsAt(k, i)
                /\ \/ /\ i \in Live
                      /\ Vacate(i)
                      /\ Return("delete", k, 0)
                      /\ UNCHANGED status
                   \/ /\ i \notin Live
                      /\ Crash
       \/ /\ k # NULL /\ RunsOut(k)
          /\ Miss("delete", k)

(***************************************************************************)
(* kvs_array_modify.  The old value is freed before the new one is         *)
(* allocated, and strncpy writes to the new one unchecked.                 *)
(***************************************************************************)
kvs_array_modify(k, v) ==
    /\ status = "running"
    /\ \/ /\ NULL \in {k, v}
          /\ Fail("modify", k)
       \/ /\ NULL \notin {k, v}
          /\ \E i \in Slot :
                /\ StopsAt(k, i)
                /\ \/ /\ i \in Live
                      /\ array_table' = [array_table EXCEPT ![i].value = v]
                      /\ Return("modify", k, 0)
                      /\ UNCHANGED <<array_idx, allocs, status>>
                   \/ /\ i \in Live  \* malloc returned NULL
                      /\ array_table' = [array_table EXCEPT ![i].value = NULL]
                      /\ allocs' = allocs - 1
                      /\ status' = "crashed"
                      /\ UNCHANGED <<array_idx, ret>>
                   \/ /\ i \notin Live
                      /\ Crash
       \/ /\ NULL \notin {k, v} /\ RunsOut(k)
          /\ Miss("modify", k)

kvs_array_count ==
    /\ status = "running"
    /\ Return("count", NULL, array_idx)
    /\ UNCHANGED <<array_table, array_idx, allocs, status>>

Next ==
    \/ \E k \in Key \cup {NULL}, v \in Value \cup {NULL} : kvs_array_set(k, v)
    \/ \E k \in Key \cup {NULL} : kvs_array_get(k)
    \/ \E k \in Key \cup {NULL} : kvs_array_delete(k)
    \/ \E k \in Key \cup {NULL}, v \in Value \cup {NULL} : kvs_array_modify(k, v)
    \/ kvs_array_count

Spec == Init /\ [][Next]_vars

-----------------------------------------------------------------------------

(* Types of the table, the counters and the last result.  array_idx never  *)
(* leaves 0..KVS_ARRAY_SIZE, so every scan stays inside the table.         *)
TypeOK ==
    /\ array_table \in [Slot -> [key : Key \cup {NULL}, value : Value \cup {NULL}]]
    /\ array_idx \in 0 .. KVS_ARRAY_SIZE
    /\ allocs \in Int
    /\ status \in {"running", "crashed"}
    /\ ret \in [fn : {"create", "set", "get", "delete", "modify", "count"},
                 key : Key \cup {NULL}, val : Int \cup Value \cup {NULL}]

(* array_idx counts the occupied slots, whatever holes deletions have left *)
(* and wherever the stored pairs lie: the count kvs_array_count reports,   *)
(* and the test for a full table in kvs_array_set, are about all pairs.    *)
SlotAccounting == Cardinality(Live) = array_idx

(* The two copies of every stored pair and the table are all the engine    *)
(* owns: kvs_array_delete frees both copies, kvs_array_modify replaces one *)
(* block by one block, and no failure path of kvs_array_set leaks.  A slot *)
(* has both copies or neither.                                             *)
HeapOwned ==
    status = "running" =>
        /\ allocs = 1 + 2 * array_idx
        /\ \A i \in Slot : array_table[i].key = NULL <=> array_table[i].value = NULL

Stored(k) == \E i \in Slot : array_table[i].key = k

(* What a caller may conclude from a result, although pairs can lie above  *)
(* array_idx where no scan looks: a positive result of delete or modify    *)
(* ("no exist") means that no slot at all held the key; a zero means that  *)
(* the key was stored or that the table was empty; a value returned by get *)
(* was stored under that key, and with no hole below array_idx a NULL from *)
(* get means that the key was not stored; set fails on a full table only   *)
(* when no slot is free.                                                   *)
RepliesTruthful ==
    [][status' = "running" =>
        LET r == ret' IN
        /\ (r.fn \in {"delete", "modify"} /\ r.val > 0) => ~Stored(r.key)
        /\ (r.fn \in {"delete", "modify"} /\ r.val = 0) => Stored(r.key) \/ array_idx = 0
        /\ (r.fn = "get" /\ r.val # NULL) =>
                \E i \in Slot : array_table[i] = [key |-> r.key, value |-> r.val]
        /\ (r.fn = "get" /\ r.val = NULL /\ r.key # NULL /\ Live = 0 .. array_idx - 1) =>
                ~Stored(r.key)
        /\ (r.fn = "set" /\ array_idx = KVS_ARRAY_SIZE) => Live = Slot]_vars

(* No call writes over a stored pair: in one step an occupied slot either  *)
(* keeps its key or is emptied, and at most one slot changes.  The store   *)
(* at array_table[array_idx] in kvs_array_set is safe although pairs may   *)
(* lie at or above array_idx.                                              *)
NoLiveOverwritten ==
    [][/\ \A i \in Live : array_table'[i].key \in {array_table[i].key, NULL}
       /\ \A i, j \in Slot : array_table'[i] # array_table[i] /\ array_table'[j] # array_table[j]
                                => i = j]_vars

(* The comment on kvs_array_delete, "i > 0 : no exist" (kvstore_array.c    *)
(* line 93): a key that is not stored gives a positive result, so that     *)
(* zero means that a pair was deleted.                                     *)
DeleteZeroMeansDeleted ==
    [][(ret'.fn = "delete" /\ ret'.val = 0) => Stored(ret'.key)]_vars

(***************************************************************************)
(* The bag of pairs the table stands for: where the pairs lie, and which   *)
(* of them the scans can reach, is hidden.                                 *)
(***************************************************************************)
PairCount(k, v) == Cardinality({i \in Slot : array_table[i] = [key |-> k, value |-> v]})
PairsOf == [p \in Key \X Value |-> IF status = "running" THEN PairCount(p[1], p[2]) ELSE 0]
SizeOf == IF status = "running" THEN array_idx ELSE 0

Store == INSTANCE PairStore WITH
    Capacity <- KVS_ARRAY_SIZE,
    pairs <- PairsOf,
    size <- SizeOf,
    halted <- (status = "crashed"),
    last <- ret

(* The array engine implements the bag of pairs: every call of             *)
(* kvstore_array.c is a step of PairStore, so that holes and pairs above   *)
(* array_idx never lose, duplicate or invent a pair.                       *)
ImplementsPairStore == Store!Spec

=============================================================================
