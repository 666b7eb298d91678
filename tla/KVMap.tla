------------------------------- MODULE KVMap -------------------------------
(***************************************************************************)
(* What the hash engine and the red-black tree engine promise: a map from  *)
(* keys to values in which set inserts and never replaces.  The two differ *)
(* in what set returns for a key that is there already (DupRet), and in    *)
(* the counter: an engine that returns zero for such a key also counts it, *)
(* so that its count runs ahead of the map by surplus.                     *)
(*                                                                         *)
(* A value may be NULL: the key is stored but its value could not be       *)
(* allocated.  The process may die or shut down at any call, and the map   *)
(* goes with its memory.                                                   *)
(***************************************************************************)
EXTENDS Integers, FiniteSets

CONSTANTS Key, Value, NULL, DupRet

VARIABLES
    store,    \* the map: a function whose domain is the set of stored keys
    surplus,  \* how far the counter runs ahead of the number of stored keys
    halted,   \* the process has ended
    last      \* the call that returned last: function, key, result

NoKeys == {}
NoStore == [k \in NoKeys |-> NULL]
Stored == DOMAIN store
Returns(fn, k, val) == last' = [fn |-> fn, key |-> k, val |-> val]
Same == UNCHANGED <<store, surplus, halted>>

Init ==
    /\ store = NoStore
    /\ surplus = 0
    /\ halted = FALSE
    /\ last = [fn |-> "create", key |-> NULL, val |-> 0]

Insert(k, v) ==
    /\ Returns("set", k, 0)
    /\ k \notin Stored
    /\ store' = [x \in Stored \cup {k} |-> IF x = k THEN v ELSE store[x]]
    /\ UNCHANGED <<surplus, halted>>

InsertAgain(k) ==
    /\ Returns("set", k, DupRet)
    /\ k \in Stored
    /\ surplus' = IF DupRet = 0 THEN surplus + 1 ELSE surplus
    /\ UNCHANGED <<store, halted>>

Get(k) ==
    \E v \in Value \cup {NULL} :
        /\ Returns("get", k, v)
        /\ v = IF k \in Stored THEN store[k] ELSE NULL
        /\ Same

Delete(k) ==
    /\ Returns("delete", k, 0)
    /\ k \in Stored
    /\ store' = [x \in Stored \ {k} |-> store[x]]
    /\ UNCHANGED <<surplus, halted>>

Modify(k, v) ==
    /\ Returns("modify", k, IF v = NULL THEN -1 ELSE 0)
    /\ k \in Stored
    /\ store' = [store EXCEPT ![k] = v]
    /\ UNCHANGED <<surplus, halted>>

Miss(fn, k) == Returns(fn, k, -1) /\ k \notin Stored /\ Same

Refuse(fn, k, val) == Returns(fn, k, val) /\ Same

Count == Returns("count", NULL, Cardinality(Stored) + surplus) /\ Same

Halt ==
    /\ halted' = TRUE
    /\ store' = NoStore
    /\ surplus' = 0
    /\ UNCHANGED last

Next ==
    /\ ~halted
    /\ \/ Halt
       \/ \E k \in Key \cup {NULL} : Refuse("set", k, -1) \/ Refuse("modify", k, -1)
       \/ Refuse("delete", NULL, -2) \/ Refuse("get", NULL, NULL)
       \/ \E k \in Key \cup {NULL}, fn \in {"delete", "modify"} : Miss(fn, k)
       \/ \E k \in Key : InsertAgain(k) \/ Get(k) \/ Delete(k)
       \/ \E k \in Key, v \in Value : Insert(k, v)
       \/ \E k \in Key, v \in Value \cup {NULL} : Modify(k, v)
       \/ Count

Spec == Init /\ [][Next]_<<store, surplus, halted, last>>
=============================================================================
