------------------------- MODULE ArrayEngineProofs -------------------------
(***************************************************************************)
(* Proofs about the array engine, for every set of keys and values and     *)
(* every table size.                                                       *)
(*                                                                         *)
(* The inductive invariant is TypeOK /\ SlotAccounting.  Its heart is the  *)
(* lemma CompactWhenNoHole: when every slot below array_idx is occupied    *)
(* there is no other occupied slot, by counting, so the slot at array_idx  *)
(* is free although pairs may have lain above array_idx before.            *)
(***************************************************************************)
EXTENDS ArrayEngine, FiniteSetTheorems, TLAPS

(* The table is finite, and so is the set of occupied slots. *)
LEMMA LiveFinite ==
    /\ IsFiniteSet(Slot) /\ Cardinality(Slot) = KVS_ARRAY_SIZE
    /\ Live \in SUBSET Slot /\ IsFiniteSet(Live)
<1>1. IsFiniteSet(Slot) /\ Cardinality(Slot) = KVS_ARRAY_SIZE
  BY FS_Interval, ArrayAssumption DEF Slot
<1>2. Live \in SUBSET Slot
  BY DEF Live
<1>3. IsFiniteSet(Live)
  BY <1>1, <1>2, FS_Subset
<1>4. QED
  BY <1>1, <1>2, <1>3

(* A table whose slots below array_idx are all occupied holds nothing at   *)
(* or above array_idx: the occupied slots are counted by array_idx.  So    *)
(* the slot kvs_array_set fills is empty, and a scan that runs out has     *)
(* seen every stored pair: the key is nowhere in the table.                *)
LEMMA CompactWhenNoHole ==
    ASSUME TypeOK, SlotAccounting
    PROVE  /\ \A i \in Slot : FirstFree(i) => i \notin Live
           /\ \A k \in Key : RunsOut(k) => ~Stored(k)
<1>1. ASSUME \A j \in Slot : j < array_idx => j \in Live
      PROVE  Live = 0 .. array_idx - 1
  <2> DEFINE Low == 0 .. array_idx - 1
  <2>1. array_idx \in 0 .. KVS_ARRAY_SIZE
    BY DEF TypeOK
  <2>2. Low \in SUBSET Live
    BY <1>1, <2>1, ArrayAssumption DEF Slot
  <2>3. Cardinality(Low) = array_idx
    BY <2>1, ArrayAssumption, FS_Interval
  <2>4. QED
    BY <2>2, <2>3, LiveFinite, FS_Subset, Zenon DEF SlotAccounting
<1>2. ASSUME NEW i \in Slot, FirstFree(i)
      PROVE  i \notin Live
  <2>1. CASE i < array_idx
    BY <1>2, <2>1 DEF FirstFree
  <2>2. CASE i = array_idx
    <3>1. Live = 0 .. array_idx - 1
      BY <1>1, <1>2, <2>2 DEF FirstFree
    <3>2. QED
      BY <2>2, <3>1, ArrayAssumption DEF Slot
  <2>3. QED
    BY <1>2, <2>1, <2>2, ArrayAssumption DEF FirstFree, TypeOK, Slot
<1>3. ASSUME NEW k \in Key, RunsOut(k)
      PROVE  ~Stored(k)
  <2>1. Live = 0 .. array_idx - 1
    BY <1>1, <1>3 DEF RunsOut, Live
  <2>2. ASSUME NEW i \in Slot, array_table[i].key = k
        PROVE  FALSE
    <3>1. i \in Live
      BY <2>2, ArrayAssumption DEF Live
    <3>2. i < array_idx
      BY <2>1, <3>1, ArrayAssumption DEF TypeOK
    <3>3. QED
      BY <1>3, <2>2, <3>2 DEF RunsOut
  <2>3. QED
    BY <2>2 DEF Stored
<1>4. QED
  BY <1>2, <1>3

(* The four things a step may do to the table and its counter: fill the    *)
(* first free slot, empty an occupied slot below array_idx, change the     *)
(* value of an occupied slot, or nothing.                                  *)
Fills == \E i \in Slot, k \in Key, v \in Value :
    /\ FirstFree(i) /\ array_idx # KVS_ARRAY_SIZE
    /\ array_table' = [array_table EXCEPT ![i] = [key |-> k, value |-> v]]
    /\ array_idx' = array_idx + 1

Empties == \E i \in Live :
    /\ i < array_idx
    /\ array_table' = [array_table EXCEPT ![i] = Empty]
    /\ array_idx' = array_idx - 1

Revalues == \E i \in Live, w \in Value \cup {NULL} :
    /\ array_table' = [array_table EXCEPT ![i].value = w]
    /\ array_idx' = array_idx

Keeps == UNCHANGED <<array_table, array_idx>>

(* Every step of kvstore_array.c fills, empties or changes the value of    *)
(* one slot, or keeps the table.                                           *)
LEMMA TableStep ==
    ASSUME [Next]_vars
    PROVE  Fills \/ Empties \/ Revalues \/ Keeps
<1>1. ASSUME NEW k \in Key \cup {NULL}, NEW v \in Value \cup {NULL}, kvs_array_set(k, v)
      PROVE  Fills \/ Keeps
  BY <1>1 DEF kvs_array_set, Fail, Fills, Keeps
<1>2. ASSUME NEW k \in Key \cup {NULL}, kvs_array_get(k)
      PROVE  Keeps
  BY <1>2 DEF kvs_array_get, Crash, Keeps
<1>3. ASSUME NEW k \in Key \cup {NULL}, kvs_array_delete(k)
      PROVE  Empties \/ Keeps
  BY <1>3 DEF kvs_array_delete, Fail, Crash, Miss, StopsAt, Vacate, Empties, Keeps
<1>4. ASSUME NEW k \in Key \cup {NULL}, NEW v \in Value \cup {NULL}, kvs_array_modify(k, v)
      PROVE  Revalues \/ Keeps
  BY <1>4 DEF kvs_array_modify, Fail, Crash, Miss, Revalues, Keeps
<1>5. CASE kvs_array_count
  BY <1>5 DEF kvs_array_count, Keeps
<1>6. CASE UNCHANGED vars
  BY <1>6 DEF vars, Keeps
<1>7. QED
  BY <1>1, <1>2, <1>3, <1>4, <1>5, <1>6 DEF Next

(* The table and array_idx keep their types; in particular every scan of   *)
(* kvstore_array.c stays inside the table.                                 *)
THEOREM TypeCorrect == Spec => []TypeOK
<1>1. Init => TypeOK
  BY ArrayAssumption DEF Init, TypeOK, Empty
<1>2. TypeOK /\ [Next]_vars => TypeOK'
  <2> SUFFICES ASSUME TypeOK, [Next]_vars
               PROVE  TypeOK'
    OBVIOUS
  <2>1. /\ array_table' \in [Slot -> [key : Key \cup {NULL}, value : Value \cup {NULL}]]
        /\ array_idx' \in 0 .. KVS_ARRAY_SIZE
    <3>1. CASE Fills
      BY <3>1, ArrayAssumption DEF TypeOK, Fills
    <3>2. CASE Empties
      BY <3>2, ArrayAssumption DEF TypeOK, Empties, Empty, Live, Slot
    <3>3. CASE Revalues
      BY <3>3 DEF TypeOK, Revalues, Live
    <3>4. CASE Keeps
      BY <3>4 DEF TypeOK, Keeps
    <3>5. QED
      BY <3>1, <3>2, <3>3, <3>4, TableStep
  <2> DEFINE OthersOK ==
        /\ allocs' \in Int
        /\ status' \in {"running", "crashed"}
        /\ ret' \in [fn : {"create", "set", "get", "delete", "modify", "count"},
                     key : Key \cup {NULL}, val : Int \cup Value \cup {NULL}]
  <2>2. OthersOK
    <3>1. ASSUME NEW k \in Key \cup {NULL}, NEW v \in Value \cup {NULL}, kvs_array_set(k, v)
          PROVE  OthersOK
      BY <3>1 DEF TypeOK, kvs_array_set, Fail, Return
    <3>2. ASSUME NEW k \in Key \cup {NULL}, kvs_array_get(k)
          PROVE  OthersOK
      BY <3>2 DEF TypeOK, kvs_array_get, Crash, Return
    <3>3. ASSUME NEW k \in Key \cup {NULL}, kvs_array_delete(k)
          PROVE  OthersOK
      BY <3>3 DEF TypeOK, kvs_array_delete, Fail, Crash, Miss, Vacate, Return
    <3>4. ASSUME NEW k \in Key \cup {NULL}, NEW v \in Value \cup {NULL}, kvs_array_modify(k, v)
          PROVE  OthersOK
      BY <3>4 DEF TypeOK, kvs_array_modify, Fail, Crash, Miss, Return
    <3>5. CASE kvs_array_count
      BY <3>5 DEF TypeOK, kvs_array_count, Return
    <3>6. CASE UNCHANGED vars
      BY <3>6 DEF TypeOK, vars
    <3>7. QED
      BY <3>1, <3>2, <3>3, <3>4, <3>5, <3>6 DEF Next
  <2>3. QED
    BY <2>1, <2>2 DEF TypeOK
<1>3. QED
  BY <1>1, <1>2, PTL DEF Spec

(* array_idx counts the occupied slots in every reachable state, so the    *)
(* count kvs_array_count reports and the test for a full table are exact.  *)
THEOREM SlotAccountingHolds == Spec => []SlotAccounting
<1>AccountingStep.
    (* A step preserves the count of occupied slots. *)
    ASSUME TypeOK, SlotAccounting, [Next]_vars
    PROVE  SlotAccounting'
  <2> USE <1>AccountingStep
  <2>0. Cardinality(Live) = array_idx
    BY DEF SlotAccounting
  <2>1. CASE Fills
    <3>1. PICK i \in Slot, k \in Key, v \in Value :
              /\ FirstFree(i)
              /\ array_table' = [array_table EXCEPT ![i] = [key |-> k, value |-> v]]
              /\ array_idx' = array_idx + 1
      BY <2>1, Zenon DEF Fills
    <3>2. i \notin Live
      BY <3>1, CompactWhenNoHole
    <3>3. Live' = Live \cup {i}
      BY <3>1, ArrayAssumption DEF Live, TypeOK
    <3>4. QED
      BY <2>0, <3>1, <3>2, <3>3, LiveFinite, FS_AddElement, Zenon DEF SlotAccounting
  <2>2. CASE Empties
    <3>1. PICK i \in Live :
              /\ array_table' = [array_table EXCEPT ![i] = Empty]
              /\ array_idx' = array_idx - 1
      BY <2>2, Zenon DEF Empties
    <3>2. Live' = Live \ {i}
      BY <3>1 DEF Live, TypeOK, Empty
    <3>3. QED
      BY <2>0, <3>1, <3>2, LiveFinite, FS_RemoveElement, Zenon DEF SlotAccounting
  <2>3. CASE Revalues
    <3>1. Live' = Live /\ array_idx' = array_idx
      BY <2>3 DEF Revalues, Live, TypeOK
    <3>2. QED
      BY <2>0, <3>1 DEF SlotAccounting
  <2>4. CASE Keeps
    BY <2>0, <2>4 DEF Keeps, Live, SlotAccounting
  <2>5. QED
    BY <2>1, <2>2, <2>3, <2>4, TableStep
<1>1. Init => SlotAccounting
  <2>1. Init => Live = {}
    BY DEF Init, Live, Empty
  <2>2. QED
    BY <2>1, FS_EmptySet DEF Init, SlotAccounting
<1>2. TypeOK /\ SlotAccounting /\ [Next]_vars => SlotAccounting'
  BY <1>AccountingStep
<1>3. QED
  BY <1>1, <1>2, TypeCorrect, PTL DEF Spec

(* No call of kvstore_array.c writes over a stored pair. *)
THEOREM NoLiveOverwrittenHolds == Spec => NoLiveOverwritten
<1> DEFINE Guarded ==
      /\ \A i \in Live : array_table'[i].key \in {array_table[i].key, NULL}
      /\ \A i, j \in Slot : array_table'[i] # array_table[i] /\ array_table'[j] # array_table[j]
                             => i = j
<1>1. TypeOK /\ SlotAccounting /\ [Next]_vars => [Guarded]_vars
  <2> SUFFICES ASSUME TypeOK, SlotAccounting, [Next]_vars
               PROVE  Guarded
    OBVIOUS
  <2>1. CASE Fills
    <3>1. PICK i \in Slot, k \in Key, v \in Value :
              /\ FirstFree(i)
              /\ array_table' = [array_table EXCEPT ![i] = [key |-> k, value |-> v]]
      BY <2>1, Zenon DEF Fills
    <3>2. i \notin Live
      BY <3>1, CompactWhenNoHole
    <3>3. QED
      BY <3>1, <3>2 DEF TypeOK, Live
  <2>2. CASE Empties
    BY <2>2 DEF Empties, Empty, TypeOK, Live
  <2>3. CASE Revalues
    BY <2>3 DEF Revalues, TypeOK, Live
  <2>4. CASE Keeps
    BY <2>4 DEF Keeps, TypeOK, Live
  <2>5. QED
    BY <2>1, <2>2, <2>3, <2>4, TableStep
<1>2. QED
  BY <1>1, TypeCorrect, SlotAccountingHolds, PTL DEF Spec, NoLiveOverwritten

(* The engine owns its table and two blocks per stored pair, nothing more: *)
(* no path of kvstore_array.c leaks a block or frees one twice.            *)
THEOREM HeapOwnedHolds == Spec => []HeapOwned
<1> USE ArrayAssumption
<1>1. Init => HeapOwned
  BY DEF Init, HeapOwned, Empty
<1>2. TypeOK /\ HeapOwned /\ [Next]_vars => HeapOwned'
  <2> SUFFICES ASSUME TypeOK, HeapOwned, [Next]_vars
               PROVE  HeapOwned'
    OBVIOUS
  <2> USE DEF TypeOK, HeapOwned
  <2>1. ASSUME NEW k \in Key \cup {NULL}, NEW v \in Value \cup {NULL}, kvs_array_set(k, v)
        PROVE  HeapOwned'
    BY <2>1 DEF kvs_array_set, Fail
  <2>2. ASSUME NEW k \in Key \cup {NULL}, kvs_array_get(k)
        PROVE  HeapOwned'
    BY <2>2 DEF kvs_array_get, Crash
  <2>3. ASSUME NEW k \in Key \cup {NULL}, kvs_array_delete(k)
        PROVE  HeapOwned'
    BY <2>3 DEF kvs_array_delete, Fail, Crash, Miss, Vacate, Empty
  <2>4. ASSUME NEW k \in Key \cup {NULL}, NEW v \in Value \cup {NULL}, kvs_array_modify(k, v)
        PROVE  HeapOwned'
    BY <2>4 DEF kvs_array_modify, Fail, Crash, Miss, Live
  <2>5. CASE kvs_array_count
    BY <2>5 DEF kvs_array_count
  <2>6. CASE UNCHANGED vars
    BY <2>6 DEF vars
  <2>7. QED
    BY <2>1, <2>2, <2>3, <2>4, <2>5, <2>6 DEF Next
<1>3. QED
  BY <1>1, <1>2, TypeCorrect, PTL DEF Spec

(* Results tell the truth about the whole table: a positive result of      *)
(* kvs_array_delete or kvs_array_modify means that the key is not stored,  *)
(* zero that it was or that the table was empty, and kvs_array_get returns *)
(* only what is stored under the key.                                      *)
THEOREM RepliesTruthfulHolds == Spec => RepliesTruthful
<1> DEFINE r == ret'
           Truthful ==
             /\ (r.fn \in {"delete", "modify"} /\ r.val > 0) => ~Stored(r.key)
             /\ (r.fn \in {"delete", "modify"} /\ r.val = 0) => Stored(r.key) \/ array_idx = 0
             /\ (r.fn = "get" /\ r.val # NULL) =>
                    \E i \in Slot : array_table[i] = [key |-> r.key, value |-> r.val]
             /\ (r.fn = "get" /\ r.val = NULL /\ r.key # NULL /\ Live = 0 .. array_idx - 1) =>
                    ~Stored(r.key)
             /\ (r.fn = "set" /\ array_idx = KVS_ARRAY_SIZE) => Live = Slot
<1>1. ASSUME TypeOK, SlotAccounting, HeapOwned, Next, status' = "running"
      PROVE  Truthful
  <2>1. ASSUME NEW k \in Key \cup {NULL}, NEW v \in Value \cup {NULL}, kvs_array_set(k, v)
        PROVE  Truthful
    <3>1. r.fn = "set"
      BY <2>1, <1>1 DEF kvs_array_set, Fail, Return
    <3>2. array_idx = KVS_ARRAY_SIZE => Live = Slot
      BY <1>1, LiveFinite, FS_Subset DEF SlotAccounting
    <3>3. QED
      BY <3>1, <3>2
  <2>2. ASSUME NEW k \in Key \cup {NULL}, kvs_array_get(k)
        PROVE  Truthful
    <3>1. r.fn = "get" /\ r.key = k
      BY <2>2, <1>1 DEF kvs_array_get, Crash, Return
    <3>2. CASE k # NULL /\ \E i \in Slot : StopsAt(k, i) /\ Return("get", k, array_table[i].value)
      <4>1. PICK i \in Slot : StopsAt(k, i) /\ r.val = array_table[i].value
        BY <3>2 DEF Return
      <4>2. array_table[i].key = NULL <=> array_table[i].value = NULL
        BY <1>1, <2>2 DEF HeapOwned, kvs_array_get
      <4>3. CASE array_table[i].key = k
        <5>1. array_table[i] = [key |-> k, value |-> r.val]
          BY <1>1, <4>1, <4>3 DEF TypeOK
        <5>2. QED
          BY <3>1, <3>2, <4>1, <4>2, <4>3, <5>1, Zenon
      <4>4. CASE array_table[i].key = NULL
        <5>1. r.val = NULL
          BY <4>1, <4>2, <4>4
        <5>2. i \notin Live /\ i \in 0 .. array_idx - 1
          BY <1>1, <4>1, <4>4, ArrayAssumption DEF Live, StopsAt, Slot, TypeOK
        <5>3. QED
          BY <3>1, <5>1, <5>2, Zenon
      <4>5. QED
        BY <4>1, <4>3, <4>4 DEF StopsAt
    <3>3. CASE k # NULL /\ RunsOut(k) /\ Return("get", k, NULL)
      <4>1. ~Stored(k)
        BY <1>1, <3>3, CompactWhenNoHole
      <4>2. QED
        BY <3>1, <3>3, <4>1 DEF Return
    <3>4. CASE k = NULL
      BY <2>2, <3>1, <3>4, <1>1 DEF kvs_array_get, Return, Crash
    <3>5. QED
      BY <2>2, <3>2, <3>3, <3>4 DEF kvs_array_get
  <2>3. ASSUME NEW k \in Key \cup {NULL}, NEW fn \in {"delete", "modify"},
               k # NULL, RunsOut(k), Miss(fn, k)
        PROVE  Truthful
    <3>1. r = [fn |-> fn, key |-> k, val |-> array_idx]
      BY <2>3 DEF Miss, Return
    <3>2. ~Stored(k)
      BY <1>1, <2>3, CompactWhenNoHole
    <3>3. QED
      BY <1>1, <3>1, <3>2 DEF TypeOK
  <2>4. ASSUME NEW k \in Key \cup {NULL}, NEW fn \in {"delete", "modify"}, Fail(fn, k)
        PROVE  Truthful
    BY <2>4 DEF Fail, Return
  <2>5. ASSUME NEW k \in Key \cup {NULL}, NEW fn \in {"delete", "modify"},
               NEW i \in Live, StopsAt(k, i), Return(fn, k, 0)
        PROVE  Truthful
    <3>1. Stored(k)
      BY <2>5 DEF StopsAt, Live, Stored
    <3>2. QED
      BY <2>5, <3>1 DEF Return
  <2>6. ASSUME NEW k \in Key \cup {NULL}, kvs_array_delete(k)
        PROVE  Truthful
    BY <1>1, <2>3, <2>4, <2>5, <2>6 DEF kvs_array_delete, Crash
  <2>7. ASSUME NEW k \in Key \cup {NULL}, NEW v \in Value \cup {NULL}, kvs_array_modify(k, v)
        PROVE  Truthful
    BY <1>1, <2>3, <2>4, <2>5, <2>7 DEF kvs_array_modify, Crash
  <2>8. CASE kvs_array_count
    BY <2>8 DEF kvs_array_count, Return
  <2>9. QED
    BY <1>1, <2>1, <2>2, <2>6, <2>7, <2>8 DEF Next
<1>2. TypeOK /\ SlotAccounting /\ HeapOwned /\ [Next]_vars =>
          [status' = "running" => Truthful]_vars
  BY <1>1
<1>3. QED
  BY <1>2, TypeCorrect, SlotAccountingHolds, HeapOwnedHolds, PTL DEF Spec, RepliesTruthful

-----------------------------------------------------------------------------

(***************************************************************************)
(* The refinement of PairStore.                                            *)
(***************************************************************************)

Pair(k, v) == [key |-> k, value |-> v]
SlotOf == [key : Key \cup {NULL}, value : Value \cup {NULL}]
Times(t, k, v) == Cardinality({i \in Slot : t[i] = Pair(k, v)})

(* The array engine implements the bag of pairs: whatever holes deletions  *)
(* leave, no call of kvstore_array.c loses, duplicates or invents a pair.  *)
THEOREM ImplementsPairStoreHolds == Spec => ImplementsPairStore
<1>PairsAfterWrite.
    (* What a write to slot i of a table t does to the number of times a pair  *)
    (* is stored.                                                              *)
    ASSUME NEW t \in [Slot -> SlotOf], NEW i \in Slot, NEW new \in SlotOf,
           NEW k \in Key, NEW v \in Value
    PROVE  LET u == [t EXCEPT ![i] = new]
           IN  /\ Times(t, k, v) \in Nat
               /\ t[i] = Pair(k, v) => Times(t, k, v) > 0
               /\ t[i] = Pair(k, v) /\ new # Pair(k, v) => Times(u, k, v) = Times(t, k, v) - 1
               /\ t[i] # Pair(k, v) /\ new = Pair(k, v) => Times(u, k, v) = Times(t, k, v) + 1
               /\ (t[i] = Pair(k, v) <=> new = Pair(k, v)) => Times(u, k, v) = Times(t, k, v)
  <2> USE <1>PairsAfterWrite
  <2> DEFINE u == [t EXCEPT ![i] = new]
             p == Pair(k, v)
             T == {j \in Slot : t[j] = p}
             U == {j \in Slot : u[j] = p}
  <2>1. Times(t, k, v) = Cardinality(T) /\ Times(u, k, v) = Cardinality(U)
    BY DEF Times
  <2>2. IsFiniteSet(T) /\ Cardinality(T) \in Nat
    <3>1. T \in SUBSET Slot
      OBVIOUS
    <3>2. QED
      BY <3>1, LiveFinite, FS_Subset, FS_CardinalityType
  <2>3. u[i] = new /\ \A j \in Slot \ {i} : u[j] = t[j]
    OBVIOUS
  <2> HIDE DEF u, p
  <2>4. CASE t[i] = p
    <3>1. i \in T
      BY <2>4
    <3>2. Cardinality(T) > 0 /\ Cardinality(T \ {i}) = Cardinality(T) - 1
      <4> HIDE DEF T
      <4>1. Cardinality(T) # 0
        BY <2>2, <3>1, FS_EmptySet
      <4>2. Cardinality(T \ {i}) = Cardinality(T) - 1
        BY <2>2, <3>1, FS_RemoveElement, Zenon
      <4>3. QED
        BY <2>2, <4>1, <4>2
    <3>3. new # p => U = T \ {i}
      BY <2>3
    <3>4. new = p => U = T
      BY <2>3, <2>4
    <3>5. QED
      BY <2>1, <2>2, <2>4, <3>2, <3>3, <3>4, Zenon DEF u, p
  <2>5. CASE t[i] # p
    <3>1. i \notin T
      BY <2>5
    <3>2. Cardinality(T \cup {i}) = Cardinality(T) + 1
      BY <2>2, <3>1, FS_AddElement, Zenon
    <3>3. new = p => U = T \cup {i}
      BY <2>3
    <3>4. new # p => U = T
      BY <2>3, <2>5
    <3>5. QED
      BY <2>1, <2>2, <2>5, <3>2, <3>3, <3>4, Zenon DEF u, p
  <2>6. QED
    BY <2>4, <2>5
<1>CountedIsStored.
    (* A pair is stored in some slot exactly when it is counted. *)
    ASSUME NEW k, NEW v
    PROVE  /\ PairCount(k, v) = Times(array_table, k, v)
           /\ ~Stored(k) => PairCount(k, v) = 0
  <2> USE <1>CountedIsStored
  <2>1. PairCount(k, v) = Times(array_table, k, v)
    BY DEF PairCount, Times, Pair
  <2>2. ASSUME ~Stored(k)
        PROVE  PairCount(k, v) = 0
    <3>1. {i \in Slot : array_table[i] = [key |-> k, value |-> v]} = {}
      BY <2>2 DEF Stored
    <3>2. QED
      BY <3>1, FS_EmptySet DEF PairCount
  <2>3. QED
    BY <2>1, <2>2
<1>PairStep.
    (* Every call of kvstore_array.c is a step of the bag of pairs, or changes *)
    (* nothing that is seen of it.                                             *)
    ASSUME TypeOK, SlotAccounting, HeapOwned, [Next]_vars
    PROVE  [Store!Next]_<<PairsOf, SizeOf, status = "crashed", ret>>
  <2> USE <1>PairStep
  <2>1. /\ array_table \in [Slot -> SlotOf] /\ array_idx \in 0 .. KVS_ARRAY_SIZE
        /\ status = "running" => status # "crashed"
    BY DEF TypeOK, SlotOf
  <2>2. status = "running" =>
          /\ SizeOf = array_idx
          /\ PairsOf \in [Key \X Value -> Nat]
          /\ \A k \in Key, v \in Value : PairsOf[<<k, v>>] = Times(array_table, k, v)
    <3>1. \A k \in Key, v \in Value : PairCount(k, v) = Times(array_table, k, v)
      BY <1>CountedIsStored
    <3>2. \A k \in Key, v \in Value : PairCount(k, v) \in Nat
      BY <2>1, <3>1, <1>PairsAfterWrite, ArrayAssumption DEF Slot, SlotOf
    <3>3. QED
      BY <3>1, <3>2 DEF PairsOf, SizeOf
  <2>3. ASSUME UNCHANGED <<array_table, array_idx, status>>
        PROVE  UNCHANGED <<PairsOf, SizeOf, status = "crashed">>
    BY <2>3 DEF PairsOf, SizeOf, PairCount
  <2>4. ASSUME status = "running", status' = "crashed", ret' = ret
        PROVE  Store!Next
    <3>1. PairsOf' = Store!NoPairs /\ SizeOf' = 0
      BY <2>4 DEF PairsOf, SizeOf, Store!NoPairs
    <3>2. QED
      BY <2>1, <2>4, <3>1 DEF Store!Next, Store!Halt
  <2>5. ASSUME status = "running", status' = "running", NEW i \in Slot, NEW new \in SlotOf,
               array_table' = [array_table EXCEPT ![i] = new]
        PROVE  /\ PairsOf' = [p \in Key \X Value |-> PairsOf'[p]]
               /\ \A k \in Key, v \in Value : PairsOf'[<<k, v>>] =
                   IF array_table[i] = Pair(k, v) /\ new # Pair(k, v)
                   THEN PairsOf[<<k, v>>] - 1
                   ELSE IF array_table[i] # Pair(k, v) /\ new = Pair(k, v)
                        THEN PairsOf[<<k, v>>] + 1 ELSE PairsOf[<<k, v>>]
    <3>1. PairsOf' = [p \in Key \X Value |-> Times(array_table', p[1], p[2])]
      BY <2>5 DEF PairsOf, PairCount, Times, Pair
    <3>2. ASSUME NEW k \in Key, NEW v \in Value
          PROVE  Times(array_table', k, v) =
                   IF array_table[i] = Pair(k, v) /\ new # Pair(k, v)
                   THEN PairsOf[<<k, v>>] - 1
                   ELSE IF array_table[i] # Pair(k, v) /\ new = Pair(k, v)
                        THEN PairsOf[<<k, v>>] + 1 ELSE PairsOf[<<k, v>>]
      <4> DEFINE t == array_table
                 u == [t EXCEPT ![i] = new]
                 n == Times(t, k, v)
                 m == Times(u, k, v)
      <4>1. /\ t[i] = Pair(k, v) /\ new # Pair(k, v) => m = n - 1
            /\ t[i] # Pair(k, v) /\ new = Pair(k, v) => m = n + 1
            /\ (t[i] = Pair(k, v) <=> new = Pair(k, v)) => m = n
        BY <2>1, <1>PairsAfterWrite, Zenon
      <4>2. m = Times(array_table', k, v)
        BY <2>5
      <4>3. n = PairsOf[<<k, v>>]
        BY <2>2, <2>5
      <4> HIDE DEF n, m
      <4>4. QED
        BY <4>1, <4>2, <4>3
    <3>3. QED
      BY <3>1, <3>2
  <2>6. ASSUME status = "running", NEW k \in Key, NEW i \in Slot, array_table[i].key = k
        PROVE  /\ array_table[i].value \in Value
               /\ array_table[i] = Pair(k, array_table[i].value)
               /\ PairsOf[<<k, array_table[i].value>>] > 0
    <3>1. array_table[i] \in SlotOf /\ array_table[i].value # NULL
      BY <2>1, <2>6, ArrayAssumption DEF HeapOwned
    <3>2. array_table[i].value \in Value /\ array_table[i] = Pair(k, array_table[i].value)
      BY <2>6, <3>1 DEF SlotOf, Pair
    <3>3. Times(array_table, k, array_table[i].value) > 0
      BY <2>1, <3>1, <3>2, <1>PairsAfterWrite
    <3>4. QED
      BY <2>2, <2>6, <3>2, <3>3
  <2>7. ASSUME status = "running", NEW k \in Key, ~Stored(k), NEW v \in Value
        PROVE  PairsOf[<<k, v>>] = 0
    BY <2>2, <2>7, <1>CountedIsStored
  <2>8. ASSUME status = "running", UNCHANGED <<array_table, array_idx, status>>,
               NEW k \in Key \cup {NULL}, NEW fn \in {"set", "delete", "modify"}, Return(fn, k, -1)
        PROVE  Store!Next
    BY <2>1, <2>3, <2>8 DEF Store!Next, Store!Refuse, Store!Returns, Return
  <2>9. ASSUME status = "running", UNCHANGED <<array_table, array_idx, status>>,
               NEW k \in Key, NEW fn \in {"delete", "modify"}, RunsOut(k), Return(fn, k, array_idx)
        PROVE  Store!Next
    <3>1. Store!Miss(fn, k)
      BY <2>2, <2>3, <2>7, <2>9, CompactWhenNoHole DEF Store!Miss, Store!Holds, Store!Returns, Return
    <3>2. QED
      BY <2>1, <2>9, <3>1 DEF Store!Next
  <2>10. ASSUME NEW k \in Key \cup {NULL}, NEW v \in Value \cup {NULL}, kvs_array_set(k, v)
         PROVE  Store!Next
    <3>1. status = "running"
      BY <2>10 DEF kvs_array_set
    <3>2. CASE Fail("set", k)
      BY <2>8, <3>1, <3>2 DEF Fail
    <3>3. ASSUME NEW i \in Slot, FirstFree(i), k # NULL, v # NULL, array_idx # KVS_ARRAY_SIZE,
                 array_table' = [array_table EXCEPT ![i] = [key |-> k, value |-> v]],
                 array_idx' = array_idx + 1, Return("set", k, 0), UNCHANGED status
          PROVE  Store!Next
      <4>1. k \in Key /\ v \in Value /\ Pair(k, v) \in SlotOf /\ array_table[i].key = NULL
        BY <3>3, CompactWhenNoHole DEF Pair, SlotOf, Live
      <4>2. /\ \A a \in Key, b \in Value : array_table[i] # Pair(a, b)
            /\ \A a \in Key, b \in Value : Pair(k, v) = Pair(a, b) <=> a = k /\ b = v
        BY <4>1, ArrayAssumption DEF Pair
      <4>3. array_table' = [array_table EXCEPT ![i] = Pair(k, v)]
        BY <3>3 DEF Pair
      <4>4. PairsOf' = [PairsOf EXCEPT ![<<k, v>>] = @ + 1]
        <5>1. /\ PairsOf' = [p \in Key \X Value |-> PairsOf'[p]]
              /\ \A a \in Key, b \in Value : PairsOf'[<<a, b>>] =
                   IF array_table[i] = Pair(a, b) /\ Pair(k, v) # Pair(a, b)
                   THEN PairsOf[<<a, b>>] - 1
                   ELSE IF array_table[i] # Pair(a, b) /\ Pair(k, v) = Pair(a, b)
                        THEN PairsOf[<<a, b>>] + 1 ELSE PairsOf[<<a, b>>]
          BY <2>5, <3>1, <3>3, <4>1, <4>3, Zenon
        <5>2. ASSUME NEW a \in Key, NEW b \in Value
              PROVE  PairsOf'[<<a, b>>] =
                IF a = k /\ b = v THEN PairsOf[<<a, b>>] + 1 ELSE PairsOf[<<a, b>>]
          BY <4>2, <5>1
        <5>3. QED
          BY <2>2, <3>1, <4>1, <5>1, <5>2
      <4>5. SizeOf' = SizeOf + 1 /\ SizeOf < KVS_ARRAY_SIZE
        BY <2>1, <2>2, <3>1, <3>3, ArrayAssumption DEF SizeOf
      <4>6. Store!Set(k, v)
        BY <3>3, <4>4, <4>5 DEF Store!Set, Store!Returns, Return
      <4>7. QED
        BY <2>1, <3>1, <4>1, <4>6 DEF Store!Next
    <3>4. QED
      BY <2>10, <3>2, <3>3 DEF kvs_array_set
  <2>11. ASSUME NEW k \in Key \cup {NULL}, kvs_array_get(k)
         PROVE  Store!Next
    <3>1. status = "running"
      BY <2>11 DEF kvs_array_get
    <3>2. CASE Crash
      BY <2>4, <3>1, <3>2 DEF Crash
    <3>3. ASSUME UNCHANGED <<array_table, array_idx, status>>, Return("get", k, NULL)
          PROVE  Store!Next
      BY <2>1, <2>3, <3>1, <3>3 DEF Store!Next, Store!Get, Store!Returns, Return
    <3>4. ASSUME UNCHANGED <<array_table, array_idx, status>>, k # NULL,
                 NEW i \in Slot, StopsAt(k, i), Return("get", k, array_table[i].value)
          PROVE  Store!Next
      <4>1. CASE array_table[i].key = k
        <5>1. array_table[i].value \in Value /\ PairsOf[<<k, array_table[i].value>>] > 0
          BY <2>6, <3>1, <3>4, <4>1
        <5>2. Store!Get(k)
          BY <2>3, <3>4, <5>1 DEF Store!Get, Store!Holds, Store!Returns, Return
        <5>3. QED
          BY <2>1, <3>1, <3>4, <5>2 DEF Store!Next
      <4>2. CASE array_table[i].key = NULL
        <5>1. array_table[i].value = NULL
          BY <3>1, <4>2 DEF HeapOwned
        <5>2. QED
          BY <3>3, <3>4, <5>1
      <4>3. QED
        BY <3>4, <4>1, <4>2 DEF StopsAt
    <3>5. QED
      BY <2>11, <3>2, <3>3, <3>4 DEF kvs_array_get
  <2>12. ASSUME NEW k \in Key \cup {NULL}, kvs_array_delete(k)
         PROVE  Store!Next
    <3>1. status = "running"
      BY <2>12 DEF kvs_array_delete
    <3>2. CASE Crash
      BY <2>4, <3>1, <3>2 DEF Crash
    <3>3. CASE Fail("delete", k)
      BY <2>8, <3>1, <3>3 DEF Fail
    <3>4. CASE k # NULL /\ RunsOut(k) /\ Miss("delete", k)
      BY <2>9, <3>1, <3>4 DEF Miss
    <3>5. ASSUME k # NULL, NEW i \in Slot, StopsAt(k, i), i \in Live, Vacate(i),
                 Return("delete", k, 0), UNCHANGED status
          PROVE  Store!Next
      <4> DEFINE w == array_table[i].value
      <4>1. k \in Key /\ array_table[i].key = k /\ Empty \in SlotOf
        BY <3>5 DEF StopsAt, Live, Empty, SlotOf
      <4>2. w \in Value /\ array_table[i] = Pair(k, w) /\ PairsOf[<<k, w>>] > 0
        BY <2>6, <3>1, <4>1
      <4> HIDE DEF w
      <4>3. /\ \A a \in Key, b \in Value : Empty # Pair(a, b)
            /\ \A a \in Key, b \in Value : Pair(k, w) = Pair(a, b) <=> a = k /\ b = w
        BY ArrayAssumption DEF Pair, Empty
      <4>4. PairsOf' = [PairsOf EXCEPT ![<<k, w>>] = @ - 1]
        <5>1. /\ PairsOf' = [p \in Key \X Value |-> PairsOf'[p]]
              /\ \A a \in Key, b \in Value : PairsOf'[<<a, b>>] =
                   IF array_table[i] = Pair(a, b) /\ Empty # Pair(a, b)
                   THEN PairsOf[<<a, b>>] - 1
                   ELSE IF array_table[i] # Pair(a, b) /\ Empty = Pair(a, b)
                        THEN PairsOf[<<a, b>>] + 1 ELSE PairsOf[<<a, b>>]
          BY <2>5, <3>1, <3>5, <4>1, Zenon DEF Vacate
        <5>2. ASSUME NEW a \in Key, NEW b \in Value
              PROVE  PairsOf'[<<a, b>>] =
                IF a = k /\ b = w THEN PairsOf[<<a, b>>] - 1 ELSE PairsOf[<<a, b>>]
          BY <4>2, <4>3, <5>1
        <5>3. QED
          BY <2>2, <3>1, <4>1, <4>2, <5>1, <5>2
      <4>5. SizeOf' = SizeOf - 1
        BY <2>2, <3>1, <3>5 DEF SizeOf, Vacate
      <4>6. Store!Delete(k)
        BY <3>5, <4>2, <4>4, <4>5, Zenon DEF Store!Delete, Store!Holds, Store!Returns, Return
      <4>7. QED
        BY <2>1, <3>1, <4>1, <4>6 DEF Store!Next
    <3>6. QED
      BY <2>12, <3>2, <3>3, <3>4, <3>5 DEF kvs_array_delete
  <2>13. ASSUME NEW k \in Key \cup {NULL}, NEW v \in Value \cup {NULL}, kvs_array_modify(k, v)
         PROVE  Store!Next
    <3>1. status = "running"
      BY <2>13 DEF kvs_array_modify
    <3>2. CASE status' = "crashed" /\ ret' = ret
      BY <2>4, <3>1, <3>2
    <3>3. CASE Fail("modify", k)
      BY <2>8, <3>1, <3>3 DEF Fail
    <3>4. CASE k # NULL /\ RunsOut(k) /\ Miss("modify", k)
      BY <2>9, <3>1, <3>4 DEF Miss
    <3>5. ASSUME k # NULL, v # NULL, NEW i \in Slot, StopsAt(k, i), i \in Live,
                 array_table' = [array_table EXCEPT ![i].value = v],
                 Return("modify", k, 0), UNCHANGED <<array_idx, allocs, status>>
          PROVE  Store!Next
      <4> DEFINE w == array_table[i].value
      <4>1. k \in Key /\ v \in Value /\ array_table[i].key = k /\ Pair(k, v) \in SlotOf
        BY <3>5 DEF StopsAt, Live, Pair, SlotOf
      <4>2. w \in Value /\ array_table[i] = Pair(k, w) /\ PairsOf[<<k, w>>] > 0
        BY <2>6, <3>1, <4>1
      <4>3. array_table' = [array_table EXCEPT ![i] = Pair(k, v)]
        <5>1. [array_table[i] EXCEPT !.value = v] = Pair(k, v)
          BY <4>2 DEF Pair
        <5>2. QED
          BY <3>5, <5>1, Zenon
      <4> HIDE DEF w
      <4>4. /\ \A a \in Key, b \in Value : Pair(k, v) = Pair(a, b) <=> a = k /\ b = v
            /\ \A a \in Key, b \in Value : Pair(k, w) = Pair(a, b) <=> a = k /\ b = w
        BY DEF Pair
      <4>5. PairsOf' = [[PairsOf EXCEPT ![<<k, w>>] = @ - 1] EXCEPT ![<<k, v>>] = @ + 1]
        <5>1. /\ PairsOf' = [p \in Key \X Value |-> PairsOf'[p]]
              /\ \A a \in Key, b \in Value : PairsOf'[<<a, b>>] =
                   IF array_table[i] = Pair(a, b) /\ Pair(k, v) # Pair(a, b)
                   THEN PairsOf[<<a, b>>] - 1
                   ELSE IF array_table[i] # Pair(a, b) /\ Pair(k, v) = Pair(a, b)
                        THEN PairsOf[<<a, b>>] + 1 ELSE PairsOf[<<a, b>>]
          BY <2>5, <3>1, <3>5, <4>1, <4>3
        <5>2. ASSUME NEW a \in Key, NEW b \in Value
              PROVE  PairsOf'[<<a, b>>] =
                IF a = k /\ b = w /\ b # v THEN PairsOf[<<a, b>>] - 1
                ELSE IF a = k /\ b = v /\ b # w THEN PairsOf[<<a, b>>] + 1 ELSE PairsOf[<<a, b>>]
          BY <4>2, <4>4, <5>1
        <5>3. PairsOf \in [Key \X Value -> Nat]
          BY <2>2, <3>1
        <5>4. CASE v = w
          <6>1. \A p \in Key \X Value : PairsOf'[p] = PairsOf[p]
            BY <5>2, <5>4
          <6>2. [[PairsOf EXCEPT ![<<k, w>>] = @ - 1] EXCEPT ![<<k, v>>] = @ + 1] = PairsOf
            <7> DEFINE m == PairsOf[<<k, v>>]
            <7>1. m \in Nat /\ (m - 1) + 1 = m
              BY <4>1, <5>3
            <7>2. [[PairsOf EXCEPT ![<<k, v>>] = m - 1] EXCEPT ![<<k, v>>] = (m - 1) + 1] = PairsOf
              BY <4>1, <5>3, <7>1, Zenon
            <7>3. QED
              BY <4>1, <5>3, <5>4, <7>2
          <6>3. QED
            BY <5>1, <5>3, <6>1, <6>2
        <5>5. CASE v # w
          BY <4>1, <4>2, <5>1, <5>2, <5>3, <5>5
        <5>6. QED
          BY <5>4, <5>5
      <4>6. SizeOf' = SizeOf
        BY <3>5 DEF SizeOf
      <4>7. Store!Modify(k, v)
        BY <3>5, <4>2, <4>5, <4>6, Zenon DEF Store!Modify, Store!Holds, Store!Returns, Return
      <4>8. QED
        BY <2>1, <3>1, <4>1, <4>7 DEF Store!Next
    <3>6. QED
      BY <2>13, <3>2, <3>3, <3>4, <3>5 DEF kvs_array_modify, Crash
  <2>14. CASE kvs_array_count
    <3>1. status = "running" /\ UNCHANGED <<array_table, array_idx, status>>
      BY <2>14 DEF kvs_array_count
    <3>2. QED
      BY <2>1, <2>2, <2>3, <2>14, <3>1
      DEF kvs_array_count, Store!Next, Store!Count, Store!Returns, Return
  <2>15. CASE UNCHANGED vars
    BY <2>3, <2>15 DEF vars
  <2>16. QED
    BY <2>10, <2>11, <2>12, <2>13, <2>14, <2>15 DEF Next
<1>1. Init => Store!Init
  <2> SUFFICES ASSUME Init
               PROVE  Store!Init
    OBVIOUS
  <2>1. \A k \in Key : ~Stored(k)
    BY ArrayAssumption DEF Init, Stored, Empty
  <2>2. \A k \in Key, v \in Value : PairCount(k, v) = 0
    BY <2>1, <1>CountedIsStored
  <2>3. PairsOf = Store!NoPairs /\ SizeOf = 0
    BY <2>2 DEF Init, PairsOf, SizeOf, Store!NoPairs
  <2>4. QED
    BY <2>3 DEF Init, Store!Init
<1>2. TypeOK /\ SlotAccounting /\ HeapOwned /\ [Next]_vars =>
          [Store!Next]_<<PairsOf, SizeOf, status = "crashed", ret>>
  BY <1>PairStep
<1>3. QED
  BY <1>1, <1>2, TypeCorrect, SlotAccountingHolds, HeapOwnedHolds, PTL
  DEF Spec, ImplementsPairStore, Store!Spec

=============================================================================
