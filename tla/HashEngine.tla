----------------------------- MODULE HashEngine -----------------------------
(***************************************************************************)
(* The hash engine of the key-value store (kv_engine/kvstore_hash.c): an   *)
(* array of buckets, each a chain of nodes, new nodes at the head.  A      *)
(* chain is the sequence of its nodes from the head on.                    *)
(*                                                                         *)
(* The bucket array comes from malloc and is not cleared by the code; it   *)
(* is so large (MAX_TABLE_SIZE pointers, 800 kB) that the allocator takes  *)
(* it from fresh zero pages, so every chain starts empty.                  *)
(*                                                                         *)
(* One call of the engine is one step: the server that calls it is single  *)
(* threaded and no call waits for anything.                                *)
(***************************************************************************)
EXTENDS Integers, FiniteSets, Sequences

CONSTANTS
    Key,             \* the keys clients use
    Value,           \* the values clients use
    NULL,            \* the null pointer
    MAX_TABLE_SIZE,  \* number of buckets
    CharSum          \* the sum of the characters of each key

ASSUME HashAssumption ==
    /\ MAX_TABLE_SIZE \in Nat \ {0}
    /\ NULL \notin Key \cup Value
    /\ CharSum \in [Key -> Nat]

VARIABLES
    nodes,   \* bucket -> chain
    count,   \* the number of nodes, as the code counts them
    allocs,  \* heap blocks the engine owns: bucket array, nodes and copies
    status,  \* "running", "exited" after dest_hashtable, or "crashed"
    ret      \* the call that returned last: function, key, result

vars == <<nodes, count, allocs, status, ret>>

Bucket == 0 .. MAX_TABLE_SIZE - 1
Node == [key : Key, value : Value \cup {NULL}]

hash(k) == CharSum[k] % MAX_TABLE_SIZE

Chain(k) == nodes[hash(k)]

Linked == UNION {{b} \X DOMAIN nodes[b] : b \in Bucket}

(* The node a walk along the chain of k stops at, and a walk that falls    *)
(* off its end.                                                            *)
FoundAt(k, i) ==
    /\ i \in DOMAIN Chain(k)
    /\ Chain(k)[i].key = k
    /\ \A j \in DOMAIN Chain(k) : j < i => Chain(k)[j].key # k

NotFound_OnlyHead(k) == \A i \in DOMAIN Chain(k) : i = 1 => Chain(k)[i].key # k

NotFound(k) == \A i \in DOMAIN Chain(k) : Chain(k)[i].key # k

Unlink_Head(s, i) == Tail(s)

Unlink(s, i) == [j \in 1 .. Len(s) - 1 |-> IF j < i THEN s[j] ELSE s[j + 1]]

Return(fn, k, val) == ret' = [fn |-> fn, key |-> k, val |-> val]
Answer(fn, k, val) == Return(fn, k, val) /\ UNCHANGED <<nodes, count, allocs, status>>
Crash == status' = "crashed" /\ UNCHANGED <<nodes, count, allocs, ret>>

Missing_Decrements(fn, k) ==
    /\ Return(fn, k, -1)
    /\ count' = count - 1
    /\ UNCHANGED <<nodes, allocs, status>>

Missing(fn, k) == Answer(fn, k, -1)

(***************************************************************************)
(* Linking a new node at the head, unlinking the node at position i: node, *)
(* key and value are three heap blocks.                                    *)
(***************************************************************************)
LinkHead(k, v) ==
    /\ nodes' = [nodes EXCEPT ![hash(k)] = <<[key |-> k, value |-> v]>> \o @]
    /\ count' = count + 1
    /\ allocs' = allocs + 3

Remove_KeepsCount(k, i) ==
    /\ nodes' = [nodes EXCEPT ![hash(k)] = Unlink(@, i)]
    /\ count' = count
    /\ allocs' = allocs - 3

Remove_LeaksNode(k, i) ==
    /\ nodes' = [nodes EXCEPT ![hash(k)] = Unlink(@, i)]
    /\ count' = count - 1
    /\ allocs' = allocs - 2

Remove(k, i) ==
    /\ nodes' = [nodes EXCEPT ![hash(k)] = Unlink(@, i)]
    /\ count' = count - 1
    /\ allocs' = allocs - 3

(***************************************************************************)
(* kvstore_hash_create.                                                    *)
(***************************************************************************)
Init ==
    /\ nodes = [b \in Bucket |-> <<>>]
    /\ count = 0
    /\ allocs = 1
    /\ status = "running"
    /\ ret = [fn |-> "create", key |-> NULL, val |-> 0]

(***************************************************************************)
(* kvs_hash_set.  A key that is there already gives 1 and keeps its value. *)
(* The node that could not be allocated is dereferenced all the same.      *)
(***************************************************************************)
kvs_hash_set(k, v) ==
    /\ status = "running"
    /\ \/ /\ NULL \in {k, v}
          /\ Answer("set", k, -1)
       \/ /\ NULL \notin {k, v} /\ \E i \in DOMAIN Chain(k) : FoundAt(k, i)
          /\ Answer("set", k, 1)
       \/ /\ NULL \notin {k, v} /\ NotFound(k)
          /\ LinkHead(k, v)
          /\ Return("set", k, 0)
          /\ UNCHANGED status
       \/ /\ NULL \notin {k, v} /\ NotFound(k)
          /\ Crash  \* _create_node returned NULL

kvs_hash_get(k) ==
    /\ status = "running"
    /\ \/ /\ k = NULL
          /\ Answer("get", k, NULL)
       \/ /\ k # NULL
          /\ \E i \in DOMAIN Chain(k) : FoundAt(k, i) /\ Answer("get", k, Chain(k)[i].value)
       \/ /\ k # NULL /\ NotFound(k)
          /\ Answer("get", k, NULL)

(***************************************************************************)
(* kvs_hash_delete.  An empty bucket, the head of the chain and a node     *)
(* behind the head are three paths of the code.                            *)
(***************************************************************************)
kvs_hash_delete(k) ==
    /\ status = "running"
    /\ \/ /\ k = NULL
          /\ Answer("delete", k, -2)
       \/ /\ k # NULL /\ NotFound(k)
          /\ Missing("delete", k)
       \/ /\ k # NULL
          /\ \E i \in DOMAIN Chain(k) : FoundAt(k, i) /\ Remove(k, i)
          /\ Return("delete", k, 0)
          /\ UNCHANGED status

(***************************************************************************)
(* kvs_hash_modify.  The old value is freed first; when the new one cannot *)
(* be allocated an assertion ends the process.                             *)
(***************************************************************************)
kvs_hash_modify(k, v) ==
    /\ status = "running"
    /\ \/ /\ NULL \in {k, v}
          /\ Answer("modify", k, -1)
       \/ /\ NULL \notin {k, v} /\ NotFound(k)
          /\ Missing("modify", k)
       \/ /\ NULL \notin {k, v}
          /\ \E i \in DOMAIN Chain(k) :
                /\ FoundAt(k, i)
                /\ \/ /\ nodes' = [nodes EXCEPT ![hash(k)][i].value = v]
                      /\ Return("modify", k, 0)
                      /\ UNCHANGED <<count, allocs, status>>
                   \/ /\ nodes' = [nodes EXCEPT ![hash(k)][i].value = NULL]
                      /\ allocs' = allocs - 1
                      /\ status' = "crashed"
                      /\ UNCHANGED <<count, ret>>

kvs_hash_count == status = "running" /\ Answer("count", NULL, count)

(***************************************************************************)
(* kvstore_hash_destory: every node and the bucket array are freed, the    *)
(* keys and values of the nodes are not.                                   *)
(***************************************************************************)
kvstore_hash_destory ==
    /\ status = "running"
    /\ nodes' = [b \in Bucket |-> <<>>]
    /\ allocs' = allocs - Cardinality(Linked) - 1
    /\ status' = "exited"
    /\ UNCHANGED <<count, ret>>

Next ==
    \/ \E k \in Key \cup {NULL}, v \in Value \cup {NULL} : kvs_hash_set(k, v)
    \/ \E k \in Key \cup {NULL} : kvs_hash_get(k)
    \/ \E k \in Key \cup {NULL} : kvs_hash_delete(k)
    \/ \E k \in Key \cup {NULL}, v \in Value \cup {NULL} : kvs_hash_modify(k, v)
    \/ kvs_hash_count
    \/ kvstore_hash_destory

Spec == Init /\ [][Next]_vars

-----------------------------------------------------------------------------

(* Types of the buckets, the counters and the last result. *)
TypeOK ==
    /\ nodes \in [Bucket -> Seq(Node)]
    /\ count \in Nat
    /\ allocs \in Int
    /\ status \in {"running", "exited", "crashed"}
    /\ ret \in [fn : {"create", "set", "get", "delete", "modify", "count"},
                 key : Key \cup {NULL}, val : Int \cup Value \cup {NULL}]

(* Every node hangs in the bucket of its key and no key has two nodes, so  *)
(* that one walk along one chain decides whether a key is stored: the      *)
(* search kvs_hash_set makes before it links a node at the head.           *)
ChainsWellFormed ==
    \A b \in Bucket : \A i \in DOMAIN nodes[b] :
        /\ hash(nodes[b][i].key) = b
        /\ \A j \in DOMAIN nodes[b] : nodes[b][i].key = nodes[b][j].key => i = j

(* The keys that have a node. *)
Present == {k \in Key : \E i \in DOMAIN Chain(k) : Chain(k)[i].key = k}

(* The counter kvs_hash_count reports is the number of stored keys.        *)
CountExact == status = "running" => count = Cardinality(Present)

(* While it runs the engine owns the bucket array and three blocks per     *)
(* stored key; kvs_hash_delete frees all three on both of its paths.  When *)
(* it has shut down, the key and the value of every node are left over,    *)
(* and nothing else.                                                       *)
HeapOwned ==
    /\ status = "running" => allocs = 1 + 3 * count
    /\ status = "exited" => allocs = 2 * count

(***************************************************************************)
(* The map the chains stand for.                                           *)
(***************************************************************************)
ValueOf(k) == Chain(k)[CHOOSE i \in DOMAIN Chain(k) : Chain(k)[i].key = k].value

StoreOf == [k \in {x \in Present : status = "running"} |-> ValueOf(k)]

Map == INSTANCE KVMap WITH
    DupRet <- 1,
    store <- StoreOf,
    surplus <- 0,
    halted <- (status # "running"),
    last <- ret

(* The hash engine implements the map: whatever keys collide and in        *)
(* whatever order nodes are linked and unlinked, each call of              *)
(* kvstore_hash.c does to its own key what the map does and nothing to the *)
(* others, and the count is the number of keys.                            *)
ImplementsKVMap == Map!Spec
=============================================================================
