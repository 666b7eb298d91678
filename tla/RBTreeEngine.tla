---------------------------- MODULE RBTreeEngine ----------------------------
(***************************************************************************)
(* The red-black tree engine of the key-value store                        *)
(* (kv_engine/kvstore_rbtree.c), pointer by pointer: nodes with a colour,  *)
(* two children and a parent, and the sentinel nil in place of every       *)
(* missing child.  The sentinel comes from malloc: its colour is set, its  *)
(* links hold whatever the memory held until rbtree_delete writes parent.  *)
(*                                                                         *)
(* The C functions that come in mirror images are one operator here, with  *)
(* the side d as a parameter.  Keys are numbers, in the order of strcmp.   *)
(*                                                                         *)
(* The engine never frees a node: kvs_rbtree_delete and                    *)
(* kvstore_rbtree_destory free the node they took out only when it is      *)
(* NULL, and the node of a set that finds its key is dropped.  Such a node *)
(* is out of everyone's reach; its name is given to a later node.          *)
(***************************************************************************)
EXTENDS Integers, FiniteSets

CONSTANTS
    Key,         \* the keys clients use
    Value,       \* the values clients use
    NULL,        \* the null pointer
    UNINIT,      \* a link that was never written
    MaxSurplus,  \* bound: how far the counter may run ahead of the tree
    Few          \* bound: the keys of a tree that is not Plain

ASSUME RBTreeAssumption ==
    /\ Key \subseteq Nat
    /\ NULL \notin Key \cup Value
    /\ MaxSurplus \in Nat
    /\ Few \subseteq Key

VARIABLES
    tree,    \* the root and the nodes
    count,   \* the counter of the engine
    status,  \* "running", "exited" or "crashed"
    ret      \* the call that returned last: function, key, result

vars == <<tree, count, status, ret>>

RED == "red"
BLACK == "black"
nil == 0
NodeId == 1 .. Cardinality(Key) + 1
Side == {"left", "right"}
Opposite(d) == IF d = "left" THEN "right" ELSE "left"

Unused == [color |-> BLACK, left |-> nil, right |-> nil, parent |-> nil,
           key |-> NULL, value |-> NULL]

(***************************************************************************)
(* Walking down.  rbtree_search and the loop of rbtree_insert: where the   *)
(* walk for k ends (nil when k is not there) and the node before that.     *)
(***************************************************************************)
Branch(T, k, n) == T.at[n][IF k < T.at[n].key THEN "left" ELSE "right"]

RECURSIVE Walk(_, _, _, _)
Walk(T, k, n, from) ==
    IF n = nil \/ T.at[n].key = k
    THEN [end |-> n, from |-> from]
    ELSE Walk(T, k, Branch(T, k, n), n)

rbtree_search(T, k) == Walk(T, k, T.root, nil).end

rbtree_mini_NoWalk(T, x) == x

RECURSIVE rbtree_mini(_, _)
rbtree_mini(T, x) == IF T.at[x].left = nil THEN x ELSE rbtree_mini(T, T.at[x].left)

(***************************************************************************)
(* The parent p of x, or the root pointer, takes y in the place of x.      *)
(***************************************************************************)
Replace(T, p, x, y) ==
    IF p = nil THEN [T EXCEPT !.root = y]
    ELSE [T EXCEPT !.at[p][IF T.at[p].left = x THEN "left" ELSE "right"] = y]

(***************************************************************************)
(* rbtree_left_rotate and rbtree_right_rotate: x goes down on side d.      *)
(***************************************************************************)
rotate_LosesParent(T, x, d) ==
    LET o == Opposite(d)
        y == T.at[x][o]
        b == T.at[y][d]
        p == T.at[x].parent
        T1 == [T EXCEPT !.at[x][o] = b, !.at[y].parent = p]
        T2 == Replace(T1, p, x, y)
    IN  [T2 EXCEPT !.at[y][d] = x, !.at[x].parent = y]

rotate(T, x, d) ==
    LET o == Opposite(d)
        y == T.at[x][o]
        b == T.at[y][d]
        p == T.at[x].parent
        T1 == [T EXCEPT !.at[x][o] = b, !.at[y].parent = p]
        T2 == IF b # nil THEN [T1 EXCEPT !.at[b].parent = x] ELSE T1
        T3 == Replace(T2, p, x, y)
    IN  [T3 EXCEPT !.at[y][d] = x, !.at[x].parent = y]

(***************************************************************************)
(* rbtree_insert_fixup: the red node z may have a red parent.              *)
(***************************************************************************)
RECURSIVE rbtree_insert_fixup(_, _)
rbtree_insert_fixup(T, z) ==
    LET p == T.at[z].parent
        g == T.at[p].parent
        d == IF p = T.at[g].left THEN "left" ELSE "right"
        uncle == T.at[g][Opposite(d)]
        inner == z = T.at[p][Opposite(d)]
        T1 == IF inner THEN rotate(T, p, d) ELSE T
        z1 == IF inner THEN p ELSE z
        p1 == T1.at[z1].parent
        g1 == T1.at[p1].parent
        T2 == [T1 EXCEPT !.at[p1].color = BLACK, !.at[g1].color = RED]
    IN  IF T.at[p].color # RED
        THEN [T EXCEPT !.at[T.root].color = BLACK]
        ELSE IF T.at[uncle].color = RED
        THEN rbtree_insert_fixup([T EXCEPT !.at[p].color = BLACK,
                                           !.at[uncle].color = BLACK,
                                           !.at[g].color = RED], g)
        ELSE rbtree_insert_fixup(rotate(T2, g1, Opposite(d)), z1)

(***************************************************************************)
(* rbtree_insert: the new node z hangs below the last node of the walk.    *)
(* When the key is there the tree is left as it is.                        *)
(***************************************************************************)
rbtree_insert(T, z, k, v) ==
    LET w == Walk(T, k, T.root, nil)
        y == w.from
        T1 == [T EXCEPT !.at[z] = [color |-> RED, left |-> nil, right |-> nil,
                                    parent |-> y, key |-> k, value |-> v]]
        T2 == IF y = nil THEN [T1 EXCEPT !.root = z]
              ELSE [T1 EXCEPT !.at[y][IF k < T.at[y].key THEN "left" ELSE "right"] = z]
    IN  IF w.end # nil THEN T ELSE rbtree_insert_fixup(T2, z)

(***************************************************************************)
(* rbtree_delete_fixup: the paths through x lack a black node.             *)
(***************************************************************************)
FarNephew_Skipped(T, w, d) == T

FarNephew(T, w, d) ==
    LET near == T.at[w][d]
        far == T.at[w][Opposite(d)]
    IN  IF T.at[far].color = BLACK
        THEN rotate([T EXCEPT !.at[near].color = BLACK, !.at[w].color = RED], w, Opposite(d))
        ELSE T

RECURSIVE rbtree_delete_fixup(_, _)
rbtree_delete_fixup(T, x) ==
    LET p == T.at[x].parent
        d == IF x = T.at[p].left THEN "left" ELSE "right"
        o == Opposite(d)
        w == T.at[p][o]
        \* a red sibling is rotated above the parent first
        T1 == IF T.at[w].color = RED
              THEN rotate([T EXCEPT !.at[w].color = BLACK, !.at[p].color = RED], p, d)
              ELSE T
        p1 == T1.at[x].parent
        w1 == T1.at[p1][o]
        T2 == FarNephew(T1, w1, d)
        p2 == T2.at[x].parent
        w2 == T2.at[p2][o]
        T3 == [T2 EXCEPT !.at[w2].color = T2.at[p2].color, !.at[p2].color = BLACK,
                         !.at[T2.at[w2][o]].color = BLACK]
        T4 == rotate(T3, p2, d)
    IN  IF x = T.root \/ T.at[x].color = RED
        THEN [T EXCEPT !.at[x].color = BLACK]
        ELSE IF \A s \in Side : T1.at[T1.at[w1][s]].color = BLACK
        THEN rbtree_delete_fixup([T1 EXCEPT !.at[w1].color = RED], p1)
        ELSE rbtree_delete_fixup(T4, T4.root)

(***************************************************************************)
(* rbtree_delete: the node y that leaves the tree is z or, when z has two  *)
(* children, its successor, which trades key and value with z.             *)
(***************************************************************************)
SwapPairs_KeepsValue(T, y, z) ==
    [T EXCEPT !.at[z].key = T.at[y].key, !.at[y].key = T.at[z].key]

SwapPairs(T, y, z) ==
    [T EXCEPT !.at[z].key = T.at[y].key, !.at[z].value = T.at[y].value,
              !.at[y].key = T.at[z].key, !.at[y].value = T.at[z].value]

rbtree_delete(T, z) ==
    LET y == IF nil \in {T.at[z].left, T.at[z].right} THEN z
             ELSE rbtree_mini(T, T.at[z].right)
        x == IF T.at[y].left # nil THEN T.at[y].left ELSE T.at[y].right
        p == T.at[y].parent
        T1 == Replace([T EXCEPT !.at[x].parent = p], p, y, x)
        T2 == IF y # z THEN SwapPairs(T1, y, z) ELSE T1
        T3 == IF T.at[y].color = BLACK THEN rbtree_delete_fixup(T2, x) ELSE T2
    IN  [T3 EXCEPT !.at[y] = Unused]

(* The nodes that hang below the root. *)
RECURSIVE Below(_, _)
Below(T, n) == IF n = nil THEN {} ELSE {n} \cup Below(T, T.at[n].left) \cup Below(T, T.at[n].right)
Linked == Below(tree, tree.root)

FreshNode == CHOOSE n \in NodeId : n \notin Linked

(***************************************************************************)
(* Bound: no set found its key and no value was lost, or the keys are few. *)
(***************************************************************************)
Plain == count = Cardinality(Linked) /\ \A n \in Linked : tree.at[n].value # NULL
Bounded ==
    /\ count - Cardinality(Linked) <= MaxSurplus
    /\ Plain \/ \A n \in Linked : tree.at[n].key \in Few
-----------------------------------------------------------------------------

Return(fn, k, val) == ret' = [fn |-> fn, key |-> k, val |-> val]
Answer(fn, k, val) == Return(fn, k, val) /\ UNCHANGED <<tree, count, status>>
Crash == status' = "crashed" /\ UNCHANGED <<tree, count, ret>>

Missing_Decrements(fn, k) ==
    Return(fn, k, -1) /\ count' = count - 1 /\ UNCHANGED <<tree, status>>

Missing(fn, k) == Answer(fn, k, -1)

(* strcmp on a null key, reached by every search in a tree that has a node. *)
NullCompared(k) == k = NULL /\ tree.root # nil
Found(k) == IF k = NULL THEN nil ELSE rbtree_search(tree, k)

(***************************************************************************)
(* kvstore_rbtree_create.                                                  *)
(***************************************************************************)
Init ==
    /\ tree = [root |-> nil,
               at |-> [n \in NodeId \cup {nil} |->
                         IF n = nil THEN [Unused EXCEPT !.left = UNINIT, !.right = UNINIT,
                                                        !.parent = UNINIT]
                         ELSE Unused]]
    /\ count = 0
    /\ status = "running"
    /\ ret = [fn |-> "create", key |-> NULL, val |-> 0]

(***************************************************************************)
(* kvs_rbtree_set.  The counter is incremented and zero returned whether   *)
(* or not the key was there.                                               *)
(***************************************************************************)
kvs_rbtree_set(k, v) ==
    /\ status = "running"
    /\ \/ NULL \in {k, v} /\ Crash                            \* strlen(NULL)
       \/ Answer("set", k, -1)                                \* no memory
       \/ /\ NULL \notin {k, v}
          /\ tree' = rbtree_insert(tree, FreshNode, k, v)
          /\ count' = count + 1 /\ Bounded'
          /\ Return("set", k, 0)
          /\ UNCHANGED status

kvs_rbtree_get(k) ==
    /\ status = "running"
    /\ \/ NullCompared(k) /\ Crash
       \/ /\ ~NullCompared(k)
          /\ Answer("get", k, IF Found(k) = nil THEN NULL ELSE tree.at[Found(k)].value)

kvs_rbtree_delete(k) ==
    /\ status = "running"
    /\ \/ NullCompared(k) /\ Crash
       \/ ~NullCompared(k) /\ Found(k) = nil /\ Missing("delete", k)
       \/ /\ Found(k) # nil
          /\ tree' = rbtree_delete(tree, Found(k))
          /\ count' = count - 1
          /\ Return("delete", k, 0)
          /\ UNCHANGED status

(***************************************************************************)
(* kvs_rbtree_modify.  The old value is freed first, so that a failed      *)
(* allocation leaves the key with a null value.                            *)
(***************************************************************************)
kvs_rbtree_modify(k, v) ==
    /\ status = "running"
    /\ \/ NullCompared(k) /\ Crash
       \/ ~NullCompared(k) /\ Found(k) = nil /\ Missing("modify", k)
       \/ Found(k) # nil /\ v = NULL /\ Crash                 \* strlen(NULL)
       \/ /\ Found(k) # nil /\ v # NULL
          /\ tree' = [tree EXCEPT !.at[Found(k)].value = v]
          /\ Return("modify", k, 0)
          /\ UNCHANGED <<count, status>>
       \/ /\ Found(k) # nil /\ v # NULL                       \* no memory
          /\ tree' = [tree EXCEPT !.at[Found(k)].value = NULL]
          /\ UNCHANGED count /\ Bounded'
          /\ Return("modify", k, -1)
          /\ UNCHANGED status

kvs_rbtree_count == status = "running" /\ Answer("count", NULL, count)

(***************************************************************************)
(* kvstore_rbtree_destory takes the smallest node out again and again.     *)
(* When the last one is out it looks for a smallest node once more, now    *)
(* below nil, and follows the link of nil that was never written.          *)
(***************************************************************************)
RECURSIVE Emptied(_)
Emptied(T) == IF T.root = nil THEN T ELSE Emptied(rbtree_delete(T, rbtree_mini(T, T.root)))

kvstore_rbtree_destory ==
    /\ status = "running"
    /\ tree' = Emptied(tree)
    /\ status' = IF tree.root = nil THEN "exited" ELSE "crashed"
    /\ UNCHANGED <<count, ret>>

Next ==
    \/ \E k \in Key \cup {NULL}, v \in Value \cup {NULL} : kvs_rbtree_set(k, v)
    \/ \E k \in Key \cup {NULL} : kvs_rbtree_get(k)
    \/ \E k \in Key \cup {NULL} : kvs_rbtree_delete(k)
    \/ \E k \in Key \cup {NULL}, v \in Value \cup {NULL} : kvs_rbtree_modify(k, v)
    \/ kvs_rbtree_count
    \/ kvstore_rbtree_destory

Spec == Init /\ [][Next]_vars
-----------------------------------------------------------------------------

(* Types of the tree, the counter and the last result. *)
TypeOK ==
    /\ tree.root \in NodeId \cup {nil}
    /\ \A n \in NodeId : tree.at[n] \in
          [color : {RED, BLACK}, left : NodeId \cup {nil}, right : NodeId \cup {nil},
           parent : NodeId \cup {nil}, key : Key \cup {NULL}, value : Value \cup {NULL}]
    /\ count \in Nat
    /\ status \in {"running", "exited", "crashed"}
    /\ ret \in [fn : {"create", "set", "get", "delete", "modify", "count"},
                 key : Key \cup {NULL}, val : Int \cup Value \cup {NULL}]

(* Links up and down agree: every child points back at its parent and no   *)
(* node hangs in two places, whatever sequence of rotations and splices    *)
(* led here.  The fixups climb by these links.                             *)
LinksAgree ==
    /\ tree.root # nil => tree.at[tree.root].parent = nil
    /\ \A n \in Linked, d \in Side :
         LET c == tree.at[n][d] IN c # nil => tree.at[c].parent = n
    /\ \A n \in Linked : Below(tree, tree.at[n].left) \cap Below(tree, tree.at[n].right) = {}

(* Every key is where rbtree_search looks for it: below a node, smaller    *)
(* keys are on the left and greater ones on the right.                     *)
SearchOrder ==
    \A n \in Linked :
        /\ \A m \in Below(tree, tree.at[n].left) : tree.at[m].key < tree.at[n].key
        /\ \A m \in Below(tree, tree.at[n].right) : tree.at[m].key > tree.at[n].key

RECURSIVE BlackHeights(_)
BlackHeights(n) ==
    IF n = nil THEN {0}
    ELSE {h + (IF tree.at[n].color = BLACK THEN 1 ELSE 0) :
             h \in BlackHeights(tree.at[n].left) \cup BlackHeights(tree.at[n].right)}

(* The red-black rules rbtree_insert_fixup and rbtree_delete_fixup are     *)
(* there to restore: root and sentinel black, no red node with a red       *)
(* child, as many black nodes on every path down.                          *)
Balanced ==
    /\ tree.at[nil].color = BLACK /\ tree.at[tree.root].color = BLACK
    /\ \A n \in Linked, d \in Side :
         tree.at[n].color = RED => tree.at[tree.at[n][d]].color = BLACK
    /\ Cardinality(BlackHeights(tree.root)) = 1

(***************************************************************************)
(* The map the tree stands for: the keys of its nodes, each with the value *)
(* that a search finds.  A key no search finds would have the NULL of nil. *)
(***************************************************************************)
Present == IF status = "running" THEN {tree.at[n].key : n \in Linked} ELSE {}

Map == INSTANCE KVMap WITH
    DupRet <- 0,
    store <- [k \in Present |-> tree.at[rbtree_search(tree, k)].value],
    surplus <- IF status = "running" THEN count - Cardinality(Present) ELSE 0,
    halted <- (status # "running"),
    last <- ret

(* The tree engine implements the map: rebalancing after a set or a delete *)
(* never hides, drops or mixes up the other keys of kvstore_rbtree.c, a    *)
(* set of a stored key keeps the old value, and the counter runs ahead of  *)
(* the tree by exactly the number of such sets.                            *)
ImplementsKVMap == Map!Spec

=============================================================================
