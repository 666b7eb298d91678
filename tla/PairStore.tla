----------------------------- MODULE PairStore -----------------------------
(***************************************************************************)
(* What the array engine promises: a bounded bag of key/value pairs.  Set  *)
(* adds a pair even when its key is there already; delete and modify touch *)
(* one pair of the key, and may find none only if there is none; get       *)
(* returns a value stored under the key or nothing.  Nothing else changes  *)
(* the bag, so no pair is lost, duplicated or made up.  The process may    *)
(* die at any call, and its memory with it.                                *)
(***************************************************************************)
EXTENDS Integers

CONSTANTS Key, Value, NULL, Capacity

VARIABLES
    pairs,   \* how many times each pair is stored
    size,    \* how many pairs are stored
    halted,  \* the process has died
    last     \* the call that returned last: function, key, result

NoPairs == [p \in Key \X Value |-> 0]
Holds(k, v) == pairs[<<k, v>>] > 0
Returns(fn, k, val) == last' = [fn |-> fn, key |-> k, val |-> val]

Init ==
    /\ pairs = NoPairs
    /\ size = 0
    /\ halted = FALSE
    /\ last = [fn |-> "create", key |-> NULL, val |-> 0]

Set(k, v) ==
    /\ size < Capacity
    /\ pairs' = [pairs EXCEPT ![<<k, v>>] = @ + 1]
    /\ size' = size + 1
    /\ Returns("set", k, 0)
    /\ UNCHANGED halted

Refuse(fn, k) == Returns(fn, k, -1) /\ UNCHANGED <<pairs, size, halted>>

Get(k) ==
    /\ \/ \E v \in Value : Holds(k, v) /\ Returns("get", k, v)
       \/ Returns("get", k, NULL)
    /\ UNCHANGED <<pairs, size, halted>>

Delete(k) ==
    /\ \E v \in Value :
          Holds(k, v) /\ pairs' = [pairs EXCEPT ![<<k, v>>] = @ - 1]
    /\ size' = size - 1
    /\ Returns("delete", k, 0)
    /\ UNCHANGED halted

Modify(k, v) ==
    /\ \E w \in Value :
          /\ Holds(k, w)
          /\ pairs' = [[pairs EXCEPT ![<<k, w>>] = @ - 1] EXCEPT ![<<k, v>>] = @ + 1]
    /\ Returns("modify", k, 0)
    /\ UNCHANGED <<size, halted>>

Miss(fn, k) ==
    /\ \A v \in Value : ~Holds(k, v)
    /\ Returns(fn, k, size)
    /\ UNCHANGED <<pairs, size, halted>>

Count == Returns("count", NULL, size) /\ UNCHANGED <<pairs, size, halted>>

Halt ==
    /\ halted' = TRUE
    /\ pairs' = NoPairs
    /\ size' = 0
    /\ UNCHANGED last

Next ==
    /\ ~halted
    /\ \/ \E k \in Key, v \in Value : Set(k, v) \/ Modify(k, v)
       \/ \E k \in Key : Get(k) \/ Delete(k) \/ Miss("delete", k) \/ Miss("modify", k)
       \/ \E k \in Key \cup {NULL} : \E fn \in {"set", "delete", "modify"} : Refuse(fn, k)
       \/ Returns("get", NULL, NULL) /\ UNCHANGED <<pairs, size, halted>>
       \/ Count
       \/ Halt

Spec == Init /\ [][Next]_<<pairs, size, halted, last>>
=============================================================================
