-------------------------- MODULE HashEngineProofs --------------------------
(***************************************************************************)
(* Proofs about the hash engine, for every set of keys, every sum of       *)
(* characters (that is, every pattern of collisions) and every number of   *)
(* buckets.                                                                *)
(***************************************************************************)
EXTENDS HashEngine, FiniteSetTheorems, TLAPS

(* The bucket of a key is one of the buckets. *)
LEMMA HashInRange == \A k \in Key : hash(k) \in Bucket
  BY HashAssumption DEF hash, Bucket

(***************************************************************************)
(* One chain: the keys of its nodes, that they are distinct, and the value *)
(* a walk finds.  ChainEdits says what linking, unlinking and changing the *)
(* value of a node do to them.                                             *)
(***************************************************************************)
Keys(c) == {c[i].key : i \in DOMAIN c}
Distinct(c) == \A i, j \in DOMAIN c : c[i].key = c[j].key => i = j
Val(c, k) == c[CHOOSE i \in DOMAIN c : c[i].key = k].value

(* With distinct keys the value found is the value of the key's node. *)
LEMMA ValAt ==
    ASSUME NEW c, Distinct(c), NEW i \in DOMAIN c
    PROVE  Val(c, c[i].key) = c[i].value
<1>1. \E j \in DOMAIN c : c[j].key = c[i].key
  OBVIOUS
<1>2. PICK j \in DOMAIN c : /\ j = CHOOSE n \in DOMAIN c : c[n].key = c[i].key
                            /\ c[j].key = c[i].key
  BY <1>1
<1>3. j = i
  BY <1>2 DEF Distinct
<1>4. QED
  BY <1>2, <1>3, Zenon DEF Val

(* What linking, unlinking and changing a value do to a chain whose keys   *)
(* are distinct: they stay distinct, and only the key at hand is affected. *)
LEMMA ChainEdits ==
    ASSUME NEW s \in Seq(Node), Distinct(s)
    PROVE  /\ \A k \in Key, v \in Value \cup {NULL} : k \notin Keys(s) =>
                  LET t == <<[key |-> k, value |-> v]>> \o s IN
                  /\ t \in Seq(Node) /\ Distinct(t) /\ Keys(t) = Keys(s) \cup {k}
                  /\ Val(t, k) = v
                  /\ \A x \in Keys(s) : Val(t, x) = Val(s, x)
           /\ \A p \in DOMAIN s :
                  LET t == Unlink(s, p) IN
                  /\ t \in Seq(Node) /\ Distinct(t) /\ Keys(t) = Keys(s) \ {s[p].key}
                  /\ \A x \in Keys(t) : Val(t, x) = Val(s, x)
           /\ \A p \in DOMAIN s, n \in Node : n.key = s[p].key =>
                  LET t == [s EXCEPT ![p] = n] IN
                  /\ t \in Seq(Node) /\ Distinct(t) /\ Keys(t) = Keys(s)
                  /\ Val(t, s[p].key) = n.value
                  /\ \A x \in Keys(s) \ {s[p].key} : Val(t, x) = Val(s, x)
<1>1. ASSUME NEW k \in Key, NEW v \in Value \cup {NULL}, k \notin Keys(s)
      PROVE  LET t == <<[key |-> k, value |-> v]>> \o s IN
             /\ t \in Seq(Node) /\ Distinct(t) /\ Keys(t) = Keys(s) \cup {k}
             /\ Val(t, k) = v
             /\ \A x \in Keys(s) : Val(t, x) = Val(s, x)
  <2> USE <1>1
  <2> DEFINE n == [key |-> k, value |-> v]
             t == <<n>> \o s
  <2>1. n \in Node
    BY DEF Node
  <2>2. /\ t \in Seq(Node) /\ Len(t) = Len(s) + 1 /\ t[1] = n
        /\ \A i \in 1 .. Len(s) : t[i + 1] = s[i]
    BY <2>1
  <2> HIDE DEF t
  <2>3. \A i \in DOMAIN t : i = 1 \/ (i - 1 \in DOMAIN s /\ t[i] = s[i - 1])
    BY <2>2
  <2>4. \A i \in DOMAIN s : i + 1 \in DOMAIN t /\ t[i + 1] = s[i]
    BY <2>2
  <2>5. 1 \in DOMAIN t /\ t[1].key = k /\ t[1].value = v
    BY <2>2
  <2>6. \A i \in DOMAIN s : s[i].key # k
    BY DEF Keys
  <2>7. Distinct(t)
    <3> SUFFICES ASSUME NEW i \in DOMAIN t, NEW j \in DOMAIN t, t[i].key = t[j].key
                 PROVE  i = j
      BY DEF Distinct
    <3>1. CASE i = 1 \/ j = 1
      BY <3>1, <2>3, <2>5, <2>6
    <3>2. CASE i # 1 /\ j # 1
      <4>1. i - 1 \in DOMAIN s /\ j - 1 \in DOMAIN s /\ s[i - 1].key = s[j - 1].key
        BY <3>2, <2>3
      <4>2. i - 1 = j - 1
        BY <4>1 DEF Distinct
      <4>3. QED
        BY <4>2, <2>2
    <3>3. QED
      BY <3>1, <3>2
  <2>8. Keys(t) = Keys(s) \cup {k}
    <3>1. Keys(t) \subseteq Keys(s) \cup {k}
      BY <2>3, <2>5 DEF Keys
    <3>2. Keys(s) \cup {k} \subseteq Keys(t)
      BY <2>4, <2>5 DEF Keys
    <3>3. QED
      BY <3>1, <3>2
  <2>9. Val(t, k) = v
    BY <2>5, <2>7, ValAt
  <2>10. ASSUME NEW x \in Keys(s)
         PROVE  Val(t, x) = Val(s, x)
    <3>1. PICK i \in DOMAIN s : s[i].key = x
      BY DEF Keys
    <3>2. Val(s, x) = s[i].value
      BY <3>1, ValAt
    <3>3. i + 1 \in DOMAIN t /\ t[i + 1] = s[i]
      BY <2>4
    <3>4. Val(t, t[i + 1].key) = t[i + 1].value
      BY <3>3, <2>7, ValAt
    <3>5. QED
      BY <3>1, <3>2, <3>3, <3>4
  <2>11. QED
    BY <2>2, <2>7, <2>8, <2>9, <2>10 DEF t
<1>2. ASSUME NEW p \in DOMAIN s
      PROVE  LET t == Unlink(s, p) IN
             /\ t \in Seq(Node) /\ Distinct(t) /\ Keys(t) = Keys(s) \ {s[p].key}
             /\ \A x \in Keys(t) : Val(t, x) = Val(s, x)
  <2> DEFINE t == Unlink(s, p)
             From(j) == IF j < p THEN j ELSE j + 1
  <2>0. p \in 1 .. Len(s)
    OBVIOUS
  <2>1. /\ t \in Seq(Node) /\ DOMAIN t = 1 .. Len(s) - 1
        /\ \A j \in 1 .. Len(s) - 1 : t[j] = IF j < p THEN s[j] ELSE s[j + 1]
    BY <2>0 DEF Unlink
  <2> HIDE DEF t
  <2>2. DOMAIN s = 1 .. Len(s) /\ Len(s) \in Nat /\ p \in 1 .. Len(s)
    OBVIOUS
  <2>3. \A j \in DOMAIN t : From(j) \in DOMAIN s \ {p} /\ t[j] = s[From(j)]
    BY <2>1, <2>2
  <2>4. \A i \in DOMAIN s \ {p} : \E j \in DOMAIN t : From(j) = i
    <3> SUFFICES ASSUME NEW i \in DOMAIN s \ {p}
                 PROVE  \E j \in DOMAIN t : From(j) = i
      OBVIOUS
    <3>1. CASE i < p
      BY <3>1, <2>1, <2>2
    <3>2. CASE i > p
      <4>1. i - 1 \in DOMAIN t /\ From(i - 1) = i
        BY <3>2, <2>1, <2>2
      <4>2. QED
        BY <4>1
    <3>3. QED
      BY <3>1, <3>2, <2>2
  <2>5. \A i, j \in DOMAIN t : From(i) = From(j) => i = j
    BY <2>1, <2>2
  <2> HIDE DEF From
  <2>6. Distinct(t)
    BY <2>3, <2>5 DEF Distinct
  <2>7. Keys(t) = Keys(s) \ {s[p].key}
    <3>1. Keys(t) \subseteq Keys(s) \ {s[p].key}
      BY <2>3 DEF Keys, Distinct
    <3>2. Keys(s) \ {s[p].key} \subseteq Keys(t)
      BY <2>3, <2>4 DEF Keys
    <3>3. QED
      BY <3>1, <3>2
  <2>8. ASSUME NEW x \in Keys(t)
        PROVE  Val(t, x) = Val(s, x)
    <3>1. PICK j \in DOMAIN t : t[j].key = x
      BY DEF Keys
    <3>2. Val(t, x) = t[j].value
      BY <3>1, <2>6, ValAt
    <3>3. From(j) \in DOMAIN s /\ t[j] = s[From(j)]
      BY <2>3
    <3>4. Val(s, s[From(j)].key) = s[From(j)].value
      BY <3>3, ValAt
    <3>5. QED
      BY <3>1, <3>2, <3>3, <3>4
  <2>9. QED
    BY <2>1, <2>6, <2>7, <2>8 DEF t
<1>3. ASSUME NEW p \in DOMAIN s, NEW n \in Node, n.key = s[p].key
      PROVE  LET t == [s EXCEPT ![p] = n] IN
             /\ t \in Seq(Node) /\ Distinct(t) /\ Keys(t) = Keys(s)
             /\ Val(t, s[p].key) = n.value
             /\ \A x \in Keys(s) \ {s[p].key} : Val(t, x) = Val(s, x)
  <2> USE <1>3
  <2> DEFINE t == [s EXCEPT ![p] = n]
  <2>1. /\ t \in Seq(Node) /\ DOMAIN t = DOMAIN s
        /\ \A j \in DOMAIN s : t[j].key = s[j].key
        /\ t[p].value = n.value
        /\ \A j \in DOMAIN s : j # p => t[j].value = s[j].value
    OBVIOUS
  <2> HIDE DEF t
  <2>2. Distinct(t)
    BY <2>1 DEF Distinct
  <2>3. Keys(t) = Keys(s)
    BY <2>1 DEF Keys
  <2>4. Val(t, s[p].key) = n.value
    BY <2>1, <2>2, ValAt
  <2>5. ASSUME NEW x \in Keys(s) \ {s[p].key}
        PROVE  Val(t, x) = Val(s, x)
    <3>1. PICK j \in DOMAIN s : s[j].key = x
      BY DEF Keys
    <3>2. Val(s, x) = s[j].value
      BY <3>1, ValAt
    <3>3. Val(t, t[j].key) = t[j].value
      BY <2>1, <2>2, ValAt
    <3>4. QED
      BY <2>1, <3>1, <3>2, <3>3
  <2>6. QED
    BY <2>1, <2>2, <2>3, <2>4, <2>5, Zenon DEF t
<1>4. QED
  BY <1>1, <1>2, <1>3

(***************************************************************************)
(* The table: the invariant and the stored keys in terms of chains.        *)
(***************************************************************************)
(* ChainsWellFormed, chain by chain; a key is stored when its chain has a  *)
(* node for it.                                                            *)
LEMMA TableChains ==
    ASSUME nodes \in [Bucket -> Seq(Node)]
    PROVE  /\ ChainsWellFormed <=> \A b \in Bucket : /\ Distinct(nodes[b])
                                                    /\ \A x \in Keys(nodes[b]) : hash(x) = b
           /\ Present = {k \in Key : k \in Keys(Chain(k))}
<1>1. ChainsWellFormed <=> \A b \in Bucket : /\ Distinct(nodes[b])
                                            /\ \A x \in Keys(nodes[b]) : hash(x) = b
  BY DEF ChainsWellFormed, Distinct, Keys
<1>2. Present = {k \in Key : k \in Keys(Chain(k))}
  BY DEF Present, Keys
<1>3. QED
  BY <1>1, <1>2

(* Replacing the chain of one key by a chain that keeps every other key    *)
(* and its value changes nothing for the other keys, whether or not they   *)
(* share the bucket.                                                       *)
LEMMA BucketChange ==
    ASSUME nodes \in [Bucket -> Seq(Node)], ChainsWellFormed,
           NEW k \in Key, NEW t \in Seq(Node), Distinct(t),
           Keys(t) \subseteq Keys(Chain(k)) \cup {k},
           Keys(Chain(k)) \ {k} \subseteq Keys(t),
           \A x \in Keys(t) \ {k} : Val(t, x) = Val(Chain(k), x),
           nodes' = [nodes EXCEPT ![hash(k)] = t]
    PROVE  /\ nodes' \in [Bucket -> Seq(Node)]
           /\ ChainsWellFormed'
           /\ Present' = IF k \in Keys(t) THEN Present \cup {k} ELSE Present \ {k}
           /\ \A x \in Present \ {k} : ValueOf(x)' = ValueOf(x)
           /\ ValueOf(k)' = Val(t, k)
<1>1. hash(k) \in Bucket
  BY HashInRange
<1>2. nodes' \in [Bucket -> Seq(Node)]
  BY <1>1
<1>3. \A b \in Bucket : /\ Distinct(nodes[b])
                        /\ \A x \in Keys(nodes[b]) : hash(x) = b
  BY TableChains
<1>4. \A b \in Bucket : nodes'[b] = IF b = hash(k) THEN t ELSE nodes[b]
  BY <1>1
<1>5. \A x \in Keys(t) : hash(x) = hash(k)
  BY <1>1, <1>3 DEF Chain
<1>6. ChainsWellFormed'
  <2>1. \A b \in Bucket : /\ Distinct(nodes'[b])
                          /\ \A x \in Keys(nodes'[b]) : hash(x) = b
    BY <1>3, <1>4, <1>5
  <2>2. QED
    BY <1>2, <2>1 DEF ChainsWellFormed, Distinct, Keys
<1>7. \A x \in Key : Chain(x)' = IF hash(x) = hash(k) THEN t ELSE Chain(x)
  BY <1>4, HashInRange DEF Chain
<1>8. \A x \in Key \ {k} : x \in Keys(Chain(x)') <=> x \in Keys(Chain(x))
  <2> SUFFICES ASSUME NEW x \in Key \ {k}
               PROVE  x \in Keys(Chain(x)') <=> x \in Keys(Chain(x))
    OBVIOUS
  <2>1. CASE hash(x) = hash(k)
    BY <2>1, <1>7 DEF Chain
  <2>2. CASE hash(x) # hash(k)
    BY <2>2, <1>7
  <2>3. QED
    BY <2>1, <2>2
<1>9. Chain(k)' = t
  BY <1>7
<1>10. Present' = {x \in Key : x \in Keys(Chain(x)')}
  BY DEF Present, Keys
<1>11. Present' = IF k \in Keys(t) THEN Present \cup {k} ELSE Present \ {k}
  BY <1>8, <1>9, <1>10, TableChains
<1>12. ASSUME NEW x \in Present \ {k}
       PROVE  ValueOf(x)' = ValueOf(x)
  <2>1. x \in Key /\ x \in Keys(Chain(x))
    BY TableChains
  <2>2. ValueOf(x)' = Val(Chain(x)', x) /\ ValueOf(x) = Val(Chain(x), x)
    BY DEF ValueOf, Val
  <2>3. CASE hash(x) = hash(k)
    BY <2>1, <2>2, <2>3, <1>7, <1>8 DEF Chain
  <2>4. CASE hash(x) # hash(k)
    BY <2>1, <2>2, <2>4, <1>7
  <2>5. QED
    BY <2>3, <2>4
<1>13. ValueOf(k)' = Val(t, k)
  BY <1>9 DEF ValueOf, Val
<1>14. QED
  BY <1>2, <1>6, <1>11, <1>12, <1>13

(***************************************************************************)
(* The inductive invariant: types, well-formed chains and, while the       *)
(* engine runs, a counter equal to the number of stored keys, which are    *)
(* finitely many.                                                          *)
(***************************************************************************)
CountInv == status = "running" => IsFiniteSet(Present) /\ count = Cardinality(Present)

IInv == TypeOK /\ ChainsWellFormed /\ CountInv /\ HeapOwned

(* Linking a node for a key that has none adds that key and its value,     *)
(* unlinking the node of a key takes that key out, a new value for a key   *)
(* leaves the keys as they are; and each keeps all the other keys and      *)
(* their values.                                                           *)
LEMMA EditEffects ==
    ASSUME TypeOK, ChainsWellFormed, NEW k \in Key
    PROVE  /\ \A v \in Value : NotFound(k) /\ LinkHead(k, v) =>
                 /\ nodes' \in [Bucket -> Seq(Node)] /\ ChainsWellFormed'
                 /\ k \notin Present
                 /\ Present' = Present \cup {k}
                 /\ \A x \in Present : ValueOf(x)' = ValueOf(x)
                 /\ ValueOf(k)' = v
           /\ \A i : FoundAt(k, i) /\ Remove(k, i) =>
                 /\ nodes' \in [Bucket -> Seq(Node)] /\ ChainsWellFormed'
                 /\ k \in Present
                 /\ Present' = Present \ {k}
                 /\ \A x \in Present \ {k} : ValueOf(x)' = ValueOf(x)
           /\ \A w \in Value \cup {NULL} : \A i :
                 FoundAt(k, i) /\ nodes' = [nodes EXCEPT ![hash(k)][i].value = w] =>
                 /\ nodes' \in [Bucket -> Seq(Node)] /\ ChainsWellFormed'
                 /\ k \in Present
                 /\ Present' = Present
                 /\ \A x \in Present \ {k} : ValueOf(x)' = ValueOf(x)
                 /\ ValueOf(k)' = w
<1>1. ASSUME NEW v \in Value, NotFound(k), LinkHead(k, v)
      PROVE  /\ nodes' \in [Bucket -> Seq(Node)] /\ ChainsWellFormed'
             /\ k \notin Present
             /\ Present' = Present \cup {k}
             /\ \A x \in Present : ValueOf(x)' = ValueOf(x)
             /\ ValueOf(k)' = v
  <2> USE <1>1
  <2> DEFINE s == Chain(k)
             t == <<[key |-> k, value |-> v]>> \o s
  <2>1. nodes \in [Bucket -> Seq(Node)] /\ hash(k) \in Bucket
    BY HashInRange DEF TypeOK
  <2>2. s \in Seq(Node) /\ Distinct(s)
    BY <2>1, TableChains DEF Chain
  <2>3. k \notin Keys(s)
    BY DEF NotFound, Keys
  <2>4. nodes' = [nodes EXCEPT ![hash(k)] = t]
    BY <2>1 DEF LinkHead, Chain
  <2>5. /\ t \in Seq(Node) /\ Distinct(t) /\ Keys(t) = Keys(s) \cup {k} /\ Val(t, k) = v
        /\ \A x \in Keys(s) : Val(t, x) = Val(s, x)
    BY <2>2, <2>3, ChainEdits
  <2>6. k \notin Present
    BY <2>1, <2>3, TableChains
  <2> HIDE DEF t
  <2>7. /\ nodes' \in [Bucket -> Seq(Node)] /\ ChainsWellFormed'
        /\ Present' = IF k \in Keys(t) THEN Present \cup {k} ELSE Present \ {k}
        /\ \A x \in Present \ {k} : ValueOf(x)' = ValueOf(x)
        /\ ValueOf(k)' = Val(t, k)
    BY <2>1, <2>4, <2>5, BucketChange, Zenon
  <2>8. QED
    BY <2>5, <2>6, <2>7
<1>2. ASSUME NEW i, FoundAt(k, i), Remove(k, i)
      PROVE  /\ nodes' \in [Bucket -> Seq(Node)] /\ ChainsWellFormed'
             /\ k \in Present
             /\ Present' = Present \ {k}
             /\ \A x \in Present \ {k} : ValueOf(x)' = ValueOf(x)
  <2> USE <1>2
  <2> DEFINE s == Chain(k)
             t == Unlink(s, i)
  <2>1. nodes \in [Bucket -> Seq(Node)] /\ hash(k) \in Bucket
    BY HashInRange DEF TypeOK
  <2>2. s \in Seq(Node) /\ Distinct(s)
    BY <2>1, TableChains DEF Chain
  <2>3. i \in DOMAIN s /\ s[i].key = k
    BY DEF FoundAt
  <2>4. nodes' = [nodes EXCEPT ![hash(k)] = t]
    BY <2>1 DEF Remove, Chain
  <2>5. /\ t \in Seq(Node) /\ Distinct(t) /\ Keys(t) = Keys(s) \ {k}
        /\ \A x \in Keys(t) : Val(t, x) = Val(s, x)
    BY <2>2, <2>3, ChainEdits
  <2>6. k \in Present
    BY <2>1, <2>3, TableChains DEF Keys
  <2> HIDE DEF t
  <2>7. /\ nodes' \in [Bucket -> Seq(Node)] /\ ChainsWellFormed'
        /\ Present' = IF k \in Keys(t) THEN Present \cup {k} ELSE Present \ {k}
        /\ \A x \in Present \ {k} : ValueOf(x)' = ValueOf(x)
    BY <2>1, <2>4, <2>5, BucketChange, Zenon
  <2>8. QED
    BY <2>5, <2>6, <2>7
<1>3. ASSUME NEW w \in Value \cup {NULL}, NEW i, FoundAt(k, i),
             nodes' = [nodes EXCEPT ![hash(k)][i].value = w]
      PROVE  /\ nodes' \in [Bucket -> Seq(Node)] /\ ChainsWellFormed'
             /\ k \in Present
             /\ Present' = Present
             /\ \A x \in Present \ {k} : ValueOf(x)' = ValueOf(x)
             /\ ValueOf(k)' = w
  <2> USE <1>3
  <2> DEFINE s == Chain(k)
             n == [s[i] EXCEPT !.value = w]
             t == [s EXCEPT ![i] = n]
  <2>1. nodes \in [Bucket -> Seq(Node)] /\ hash(k) \in Bucket
    BY HashInRange DEF TypeOK
  <2>2. s \in Seq(Node) /\ Distinct(s)
    BY <2>1, TableChains DEF Chain
  <2>3. i \in DOMAIN s /\ s[i].key = k
    BY DEF FoundAt
  <2>4. nodes' = [nodes EXCEPT ![hash(k)] = t]
    BY <2>1, Zenon DEF Chain
  <2>5. k \in Present /\ k \in Keys(s)
    BY <2>1, <2>3, TableChains DEF Keys
  <2> HIDE DEF s
  <2>n. n \in Node /\ n.key = k /\ n.value = w
    <3>1. s[i] \in Node
      BY <2>2, <2>3
    <3>2. QED
      BY <2>3, <3>1 DEF Node
  <2> HIDE DEF n
  <2>6. /\ t \in Seq(Node) /\ Distinct(t) /\ Keys(t) = Keys(s) /\ Val(t, k) = w
        /\ \A x \in Keys(s) \ {k} : Val(t, x) = Val(s, x)
    <3>1. n \in Node /\ n.key = s[i].key
      BY <2>3, <2>n
    <3>2. /\ t \in Seq(Node) /\ Distinct(t) /\ Keys(t) = Keys(s) /\ Val(t, s[i].key) = n.value
          /\ \A x \in Keys(s) \ {s[i].key} : Val(t, x) = Val(s, x)
      <4>1. \A q \in DOMAIN s, m \in Node : m.key = s[q].key =>
                LET u == [s EXCEPT ![q] = m] IN
                /\ u \in Seq(Node) /\ Distinct(u) /\ Keys(u) = Keys(s)
                /\ Val(u, s[q].key) = m.value
                /\ \A x \in Keys(s) \ {s[q].key} : Val(u, x) = Val(s, x)
        BY <2>2, ChainEdits, Zenon
      <4>2. QED
        BY <2>3, <3>1, <4>1, Zenon
    <3> HIDE DEF t
    <3>3. QED
      BY <2>3, <2>n, <3>2
  <2> HIDE DEF t
  <2>7. /\ nodes' \in [Bucket -> Seq(Node)] /\ ChainsWellFormed'
        /\ Present' = IF k \in Keys(t) THEN Present \cup {k} ELSE Present \ {k}
        /\ \A x \in Present \ {k} : ValueOf(x)' = ValueOf(x)
        /\ ValueOf(k)' = Val(t, k)
    BY <2>1, <2>4, <2>6, BucketChange, Zenon DEF s
  <2>8. QED
    BY <2>5, <2>6, <2>7
<1>4. QED
  BY <1>1, <1>2, <1>3

(***************************************************************************)
(* The five things a step can do to the engine.                            *)
(***************************************************************************)
Links ==
    \E k \in Key, v \in Value :
        /\ status = "running" /\ NotFound(k) /\ LinkHead(k, v)
        /\ Return("set", k, 0) /\ status' = status
Unlinks ==
    \E k \in Key : \E i \in DOMAIN Chain(k) :
        /\ status = "running" /\ FoundAt(k, i) /\ Remove(k, i)
        /\ Return("delete", k, 0) /\ status' = status
Revalues ==
    \E k \in Key, v \in Value : \E i \in DOMAIN Chain(k) :
        /\ status = "running" /\ FoundAt(k, i)
        /\ nodes' = [nodes EXCEPT ![hash(k)][i].value = v]
        /\ Return("modify", k, 0) /\ UNCHANGED <<count, allocs, status>>
Answered ==
    \/ \E k \in Key \cup {NULL} : Return("set", k, -1) \/ Return("modify", k, -1)
    \/ \E k \in Key : \/ NotFound(k) /\ (Return("get", k, NULL) \/ Return("delete", k, -1))
                      \/ \E i \in DOMAIN Chain(k) :
                            /\ FoundAt(k, i)
                            /\ Return("set", k, 1) \/ Return("get", k, Chain(k)[i].value)
    \/ Return("delete", NULL, -2) \/ Return("get", NULL, NULL)
    \/ Return("count", NULL, count)
Keeps ==
    /\ UNCHANGED <<nodes, count, allocs, status>>
    /\ ret' = ret \/ (status = "running" /\ Answered)
    /\ ret' \in [fn : {"create", "set", "get", "delete", "modify", "count"},
                 key : Key \cup {NULL}, val : Int \cup Value \cup {NULL}]
Ends ==
    /\ status = "running" /\ UNCHANGED <<count, ret>>
    /\ \/ /\ nodes' = nodes /\ allocs' = allocs /\ status' = "crashed"
       \/ /\ \E k \in Key : \E i \in DOMAIN Chain(k) :
                FoundAt(k, i) /\ nodes' = [nodes EXCEPT ![hash(k)][i].value = NULL]
          /\ allocs' = allocs - 1 /\ status' = "crashed"
       \/ kvstore_hash_destory

(* Every step of the engine is one of the five. *)
LEMMA EngineStep ==
    ASSUME TypeOK, [Next]_vars
    PROVE  Links \/ Unlinks \/ Revalues \/ Keeps \/ Ends
<1> DEFINE Shape == Links \/ Unlinks \/ Revalues \/ Keeps \/ Ends
<1> USE HashAssumption
<1>1. ASSUME NEW k \in Key \cup {NULL}, NEW v \in Value \cup {NULL}, kvs_hash_set(k, v)
      PROVE  Shape
  BY <1>1 DEF kvs_hash_set, Answer, Return, Crash, Links, Keeps, Answered, Ends
<1>2. ASSUME NEW k \in Key \cup {NULL}, kvs_hash_get(k)
      PROVE  Keeps
  <2>1. ASSUME k # NULL, NEW i \in DOMAIN Chain(k)
        PROVE  Chain(k)[i].value \in Value \cup {NULL}
    <3>1. Chain(k) \in Seq(Node)
      BY <2>1, HashInRange DEF TypeOK, Chain
    <3>2. Chain(k)[i] \in Node
      BY <2>1, <3>1
    <3>3. QED
      BY <3>2 DEF Node
  <2>2. QED
    BY <1>2, <2>1 DEF kvs_hash_get, Answer, Return, Keeps, Answered
<1>3. ASSUME NEW k \in Key \cup {NULL}, kvs_hash_delete(k)
      PROVE  Shape
  BY <1>3 DEF kvs_hash_delete, Missing, Answer, Return, Unlinks, Keeps, Answered
<1>4. ASSUME NEW k \in Key \cup {NULL}, NEW v \in Value \cup {NULL}, kvs_hash_modify(k, v)
      PROVE  Shape
  <2>1. CASE NULL \in {k, v}
    BY <1>4, <2>1 DEF kvs_hash_modify, Answer, Return, Keeps, Answered
  <2>2. CASE NULL \notin {k, v} /\ NotFound(k) /\ Missing("modify", k)
    BY <1>4, <2>2 DEF kvs_hash_modify, Missing, Answer, Return, Keeps, Answered
  <2>3. ASSUME NULL \notin {k, v}, NEW i \in DOMAIN Chain(k), FoundAt(k, i),
               nodes' = [nodes EXCEPT ![hash(k)][i].value = v],
               Return("modify", k, 0), UNCHANGED <<count, allocs, status>>
        PROVE  Shape
    BY <1>4, <2>3, Zenon DEF kvs_hash_modify, Revalues
  <2>4. ASSUME NULL \notin {k, v}, NEW i \in DOMAIN Chain(k), FoundAt(k, i),
               nodes' = [nodes EXCEPT ![hash(k)][i].value = NULL],
               allocs' = allocs - 1, status' = "crashed", UNCHANGED <<count, ret>>
        PROVE  Shape
    BY <1>4, <2>4, Zenon DEF kvs_hash_modify, Ends
  <2>5. QED
    BY <1>4, <2>1, <2>2, <2>3, <2>4 DEF kvs_hash_modify
<1>5. kvs_hash_count => Keeps
  BY DEF kvs_hash_count, Answer, Return, Keeps, Answered, TypeOK
<1>6. kvstore_hash_destory => Ends
  BY DEF kvstore_hash_destory, Ends
<1>7. UNCHANGED vars => Keeps
  BY DEF vars, Keeps, TypeOK
<1>8. QED
  BY <1>1, <1>2, <1>3, <1>4, <1>5, <1>6, <1>7 DEF Next

(* The invariant holds in every state of the engine. *)
THEOREM InvariantHolds == Spec => []IInv
<1>InvariantStep.
    (* The invariant is inductive. *)
    ASSUME IInv, [Next]_vars
    PROVE  IInv'
  <2> USE <1>InvariantStep
  <2>NodesArePresent.
      (* There are as many nodes as stored keys, so that freeing every node of   *)
      (* every chain frees one node per key.                                     *)
      ASSUME TypeOK, ChainsWellFormed, IsFiniteSet(Present)
      PROVE  Cardinality(Linked) = Cardinality(Present)
    <3> USE <2>NodesArePresent
    <3> DEFINE place(k) == CHOOSE p \in Linked : nodes[p[1]][p[2]].key = k
               f == [k \in Present |-> place(k)]
    <3>1. \A p \in Linked : /\ p = <<p[1], p[2]>>
                             /\ p[1] \in Bucket /\ p[2] \in DOMAIN nodes[p[1]]
                             /\ nodes[p[1]][p[2]].key \in Key
                             /\ hash(nodes[p[1]][p[2]].key) = p[1]
      <4> SUFFICES ASSUME NEW p \in Linked
                   PROVE  /\ p = <<p[1], p[2]>>
                          /\ p[1] \in Bucket /\ p[2] \in DOMAIN nodes[p[1]]
                          /\ nodes[p[1]][p[2]].key \in Key
                          /\ hash(nodes[p[1]][p[2]].key) = p[1]
        OBVIOUS
      <4>1. PICK b \in Bucket : p \in {b} \X DOMAIN nodes[b]
        BY DEF Linked
      <4>2. p = <<p[1], p[2]>> /\ p[1] = b /\ p[2] \in DOMAIN nodes[b]
        BY <4>1
      <4>3. nodes[b] \in Seq(Node)
        BY DEF TypeOK
      <4>4. nodes[b][p[2]] \in Node
        BY <4>2, <4>3
      <4>5. QED
        BY <4>2, <4>4 DEF ChainsWellFormed, Node
    <3>2. \A k \in Present : \E p \in Linked : nodes[p[1]][p[2]].key = k
      <4> SUFFICES ASSUME NEW k \in Present
                   PROVE  \E p \in Linked : nodes[p[1]][p[2]].key = k
        OBVIOUS
      <4>1. k \in Key /\ hash(k) \in Bucket
        BY HashInRange DEF Present
      <4>2. PICK i \in DOMAIN Chain(k) : Chain(k)[i].key = k
        BY DEF Present
      <4>3. <<hash(k), i>> \in Linked
        BY <4>1, <4>2 DEF Linked, Chain
      <4>4. QED
        BY <4>2, <4>3 DEF Chain
    <3>3. \A k \in Present : place(k) \in Linked /\ nodes[place(k)[1]][place(k)[2]].key = k
      BY <3>2, Zenon
    <3> HIDE DEF place
    <3>4. f \in [Present -> Linked]
      BY <3>3
    <3>5. \A k, x \in Present : f[k] = f[x] => k = x
      BY <3>3
    <3>6. \A p \in Linked : \E k \in Present : f[k] = p
      <4> SUFFICES ASSUME NEW p \in Linked
                   PROVE  \E k \in Present : f[k] = p
        OBVIOUS
      <4> DEFINE k == nodes[p[1]][p[2]].key
                 q == place(k)
      <4>1. k \in Present
        BY <3>1 DEF Present, Chain
      <4>2. q \in Linked /\ nodes[q[1]][q[2]].key = k
        BY <3>3, <4>1, Zenon
      <4> HIDE DEF q
      <4>3. q[1] = p[1]
        BY <3>1, <4>2
      <4>4. q[2] = p[2]
        BY <3>1, <4>2, <4>3 DEF ChainsWellFormed
      <4>5. q = p
        BY <3>1, <4>2, <4>3, <4>4
      <4>6. QED
        BY <4>1, <4>5 DEF q
    <3> HIDE DEF f
    <3>7. f \in Bijection(Present, Linked)
      BY <3>4, <3>5, <3>6 DEF Bijection, Injection, Surjection, IsInjective
    <3>8. QED
      BY <3>7, FS_Bijection DEF ExistsBijection
  <2>ClearEffect.
      (* What shutting down leaves: empty chains. *)
      ASSUME nodes' = [b \in Bucket |-> <<>>]
      PROVE  nodes' \in [Bucket -> Seq(Node)] /\ ChainsWellFormed'
    BY <2>ClearEffect DEF ChainsWellFormed
  <2> USE DEF IInv
  <2>1. CASE Links
    <3>1. PICK k \in Key, v \in Value :
              /\ status = "running" /\ NotFound(k) /\ LinkHead(k, v)
              /\ Return("set", k, 0) /\ status' = status
      BY <2>1 DEF Links
    <3>2. /\ nodes' \in [Bucket -> Seq(Node)] /\ ChainsWellFormed'
          /\ k \notin Present /\ Present' = Present \cup {k}
      BY <3>1, EditEffects
    <3>3. IsFiniteSet(Present') /\ Cardinality(Present') = count + 1
      BY <3>1, <3>2, FS_AddElement DEF CountInv
    <3>4. TypeOK' /\ HeapOwned'
      BY <3>1, <3>2 DEF TypeOK, HeapOwned, LinkHead, Return
    <3>5. QED
      BY <3>1, <3>2, <3>3, <3>4 DEF CountInv, LinkHead
  <2>2. CASE Unlinks
    <3>1. PICK k \in Key : \E i \in DOMAIN Chain(k) :
              /\ status = "running" /\ FoundAt(k, i) /\ Remove(k, i)
              /\ Return("delete", k, 0) /\ status' = status
      BY <2>2 DEF Unlinks
    <3>2. PICK i \in DOMAIN Chain(k) :
              /\ status = "running" /\ FoundAt(k, i) /\ Remove(k, i)
              /\ Return("delete", k, 0) /\ status' = status
      BY <3>1
    <3>3. /\ nodes' \in [Bucket -> Seq(Node)] /\ ChainsWellFormed'
          /\ k \in Present /\ Present' = Present \ {k}
      BY <3>2, EditEffects
    <3>4. /\ IsFiniteSet(Present') /\ Cardinality(Present') = count - 1
          /\ Cardinality(Present') \in Nat
      BY <3>2, <3>3, FS_RemoveElement, FS_CardinalityType DEF CountInv
    <3>5. TypeOK' /\ HeapOwned'
      BY <3>2, <3>3, <3>4 DEF TypeOK, HeapOwned, Remove, Return
    <3>6. QED
      BY <3>2, <3>3, <3>4, <3>5 DEF CountInv, Remove
  <2>3. CASE Revalues
    <3>1. PICK k \in Key, v \in Value : \E i \in DOMAIN Chain(k) :
              /\ status = "running" /\ FoundAt(k, i)
              /\ nodes' = [nodes EXCEPT ![hash(k)][i].value = v]
              /\ Return("modify", k, 0) /\ UNCHANGED <<count, allocs, status>>
      BY <2>3, Zenon DEF Revalues
    <3>2. /\ nodes' \in [Bucket -> Seq(Node)] /\ ChainsWellFormed' /\ Present' = Present
      BY <3>1, EditEffects, Zenon
    <3>3. TypeOK' /\ HeapOwned'
      BY <3>1, <3>2 DEF TypeOK, HeapOwned, Return
    <3>4. QED
      BY <3>1, <3>2, <3>3 DEF CountInv
  <2>4. CASE Keeps
    <3>1. TypeOK' /\ HeapOwned'
      BY <2>4 DEF Keeps, TypeOK, HeapOwned
    <3>2. ChainsWellFormed' /\ Present' = Present
      BY <2>4 DEF Keeps, ChainsWellFormed, Present, Chain
    <3>3. QED
      BY <2>4, <3>1, <3>2 DEF Keeps, CountInv
  <2>5. CASE Ends
    <3>1. nodes' \in [Bucket -> Seq(Node)] /\ ChainsWellFormed'
      <4>1. CASE nodes' = nodes
        BY <4>1 DEF TypeOK, ChainsWellFormed
      <4>2. CASE \E k \in Key : \E i \in DOMAIN Chain(k) :
                   FoundAt(k, i) /\ nodes' = [nodes EXCEPT ![hash(k)][i].value = NULL]
        BY <4>2, EditEffects, Zenon
      <4>3. CASE kvstore_hash_destory
        BY <4>3, <2>ClearEffect DEF kvstore_hash_destory
      <4>4. QED
        BY <2>5, <4>1, <4>2, <4>3 DEF Ends
    <3>2. kvstore_hash_destory => allocs' = 2 * count /\ allocs' \in Int
      <4> SUFFICES ASSUME kvstore_hash_destory
                   PROVE  allocs' = 2 * count /\ allocs' \in Int
        OBVIOUS
      <4>1. Cardinality(Linked) = count
        BY <2>NodesArePresent DEF kvstore_hash_destory, CountInv
      <4>2. QED
        BY <4>1 DEF kvstore_hash_destory, HeapOwned, TypeOK
    <3>3. TypeOK' /\ HeapOwned' /\ status' # "running"
      BY <2>5, <3>1, <3>2 DEF Ends, TypeOK, HeapOwned, kvstore_hash_destory
    <3>4. QED
      BY <3>1, <3>3 DEF CountInv
  <2>6. QED
    BY <2>1, <2>2, <2>3, <2>4, <2>5, EngineStep
<1>1. Init => IInv
  <2> SUFFICES ASSUME Init
               PROVE  IInv
    OBVIOUS
  <2>1. nodes \in [Bucket -> Seq(Node)] /\ ChainsWellFormed
    BY DEF Init, ChainsWellFormed
  <2>2. Present = {}
    BY HashInRange DEF Init, Present, Chain
  <2>3. TypeOK /\ HeapOwned
    BY <2>1 DEF Init, TypeOK, HeapOwned
  <2>4. QED
    BY <2>1, <2>2, <2>3, FS_EmptySet DEF Init, IInv, CountInv
<1>2. IInv /\ [Next]_vars => IInv'
  BY <1>InvariantStep
<1>3. QED
  BY <1>1, <1>2, PTL DEF Spec

(* The chains, the counters and the results of kvstore_hash.c keep their   *)
(* types.                                                                  *)
THEOREM TypeCorrect == Spec => []TypeOK
<1>1. IInv => TypeOK
  BY DEF IInv
<1>2. QED
  BY <1>1, InvariantHolds, PTL

(* Every node of kvstore_hash.c hangs in the bucket of its key, and no key *)
(* has two nodes.                                                          *)
THEOREM ChainsWellFormedHold == Spec => []ChainsWellFormed
<1>1. IInv => ChainsWellFormed
  BY DEF IInv
<1>2. QED
  BY <1>1, InvariantHolds, PTL

(* The counter kvs_hash_count reports is the number of stored keys.        *)
THEOREM CountExactHolds == Spec => []CountExact
<1>1. IInv => CountExact
  BY DEF IInv, CountInv, CountExact
<1>2. QED
  BY <1>1, InvariantHolds, PTL

(* While it runs the engine owns three blocks per key and its bucket       *)
(* array; shutting it down leaves the keys and values and nothing else.    *)
THEOREM HeapOwnedHolds == Spec => []HeapOwned
<1>1. IInv => HeapOwned
  BY DEF IInv
<1>2. QED
  BY <1>1, InvariantHolds, PTL

-----------------------------------------------------------------------------

(***************************************************************************)
(* The refinement of KVMap.                                                *)
(***************************************************************************)

(* The hash engine implements the map KVMap: keys that collide do not see  *)
(* each other, in whatever order kvstore_hash.c links and unlinks nodes.   *)
THEOREM ImplementsKVMapHolds == Spec => ImplementsKVMap
<1>MapStep.
    (* Every step of the engine is a step of the map, or a stutter. *)
    ASSUME IInv, [Next]_vars
    PROVE  [Map!Next]_<<StoreOf, 0, status # "running", ret>>
  <2> USE <1>MapStep
  <2>WalkDecides.
      (* A walk that stops at a node finds a stored key and its value; a walk    *)
      (* that falls off the chain shows that the key is not stored.              *)
      ASSUME TypeOK, ChainsWellFormed, NEW k \in Key
      PROVE  /\ \A i : FoundAt(k, i) => k \in Present /\ ValueOf(k) = Chain(k)[i].value
             /\ NotFound(k) => k \notin Present
    <3> USE <2>WalkDecides
    <3>1. Chain(k) \in Seq(Node) /\ Distinct(Chain(k))
      BY HashInRange, TableChains DEF TypeOK, Chain
    <3>2. ASSUME NEW i, FoundAt(k, i)
          PROVE  k \in Present /\ ValueOf(k) = Chain(k)[i].value
      <4>1. i \in DOMAIN Chain(k) /\ Chain(k)[i].key = k
        BY <3>2 DEF FoundAt
      <4>2. k \in Present
        BY <4>1 DEF Present
      <4>3. Val(Chain(k), Chain(k)[i].key) = Chain(k)[i].value
        BY <3>1, <4>1, ValAt
      <4>4. QED
        BY <4>1, <4>2, <4>3 DEF Val, ValueOf
    <3>3. NotFound(k) => k \notin Present
      BY DEF NotFound, Present
    <3>4. QED
      BY <3>2, <3>3
  <2>StoreKept.
      (* A step that leaves the chains alone leaves the map alone. *)
      ASSUME UNCHANGED <<nodes, status>>
      PROVE  StoreOf' = StoreOf
    BY <2>StoreKept DEF StoreOf, Present, ValueOf, Chain
  <2>StoreGone.
      (* The map is empty once the engine has stopped. *)
      ASSUME status' # "running"
      PROVE  StoreOf' = Map!NoStore
    <3> USE <2>StoreGone
    <3>1. {x \in Present : status = "running"}' = {}
      OBVIOUS
    <3>2. QED
      BY <3>1 DEF StoreOf, Map!NoStore, Map!NoKeys
  <2> USE HashAssumption
  <2>t. TypeOK /\ ChainsWellFormed
    BY DEF IInv
  <2>s. status = "running" => /\ DOMAIN StoreOf = Present
                              /\ \A k \in Present : StoreOf[k] = ValueOf(k)
    BY DEF StoreOf
  <2>s2. status' = "running" => StoreOf' = [x \in Present' |-> ValueOf(x)']
    BY DEF StoreOf
  <2>h. status = "running" => (status # "running") = FALSE
    OBVIOUS
  <2>1. CASE Links
    <3>1. PICK k \in Key, v \in Value :
              /\ status = "running" /\ NotFound(k) /\ LinkHead(k, v)
              /\ Return("set", k, 0) /\ status' = status
      BY <2>1 DEF Links
    <3>2. /\ k \notin Present /\ Present' = Present \cup {k}
          /\ \A x \in Present : ValueOf(x)' = ValueOf(x)
          /\ ValueOf(k)' = v
      BY <2>t, <3>1, EditEffects
    <3>3. StoreOf' = [x \in Present \cup {k} |-> IF x = k THEN v ELSE StoreOf[x]]
      BY <2>s, <2>s2, <3>1, <3>2
    <3>4. Map!Insert(k, v)
      BY <2>s, <3>1, <3>2, <3>3 DEF Map!Insert, Map!Stored, Map!Returns, Return
    <3>5. QED
      BY <3>1, <3>4 DEF Map!Next
  <2>2. CASE Unlinks
    <3>1. PICK k \in Key : \E i \in DOMAIN Chain(k) :
              /\ status = "running" /\ FoundAt(k, i) /\ Remove(k, i)
              /\ Return("delete", k, 0) /\ status' = status
      BY <2>2 DEF Unlinks
    <3>2. /\ k \in Present /\ Present' = Present \ {k}
          /\ \A x \in Present \ {k} : ValueOf(x)' = ValueOf(x)
      BY <2>t, <3>1, EditEffects
    <3>3. StoreOf' = [x \in Present \ {k} |-> StoreOf[x]]
      BY <2>s, <2>s2, <3>1, <3>2
    <3>4. Map!Delete(k)
      BY <2>s, <3>1, <3>2, <3>3 DEF Map!Delete, Map!Stored, Map!Returns, Return
    <3>5. QED
      BY <3>1, <3>4 DEF Map!Next
  <2>3. CASE Revalues
    <3>1. PICK k \in Key, v \in Value : \E i \in DOMAIN Chain(k) :
              /\ status = "running" /\ FoundAt(k, i)
              /\ nodes' = [nodes EXCEPT ![hash(k)][i].value = v]
              /\ Return("modify", k, 0) /\ UNCHANGED <<count, allocs, status>>
      BY <2>3, Zenon DEF Revalues
    <3>2. /\ k \in Present /\ Present' = Present
          /\ \A x \in Present \ {k} : ValueOf(x)' = ValueOf(x)
          /\ ValueOf(k)' = v
      BY <2>t, <3>1, EditEffects, Zenon
    <3>3. StoreOf' = [StoreOf EXCEPT ![k] = v]
      BY <2>s, <2>s2, <3>1, <3>2, Zenon DEF StoreOf
    <3>4. Map!Modify(k, v)
      BY <2>s, <3>1, <3>2, <3>3 DEF Map!Modify, Map!Stored, Map!Returns, Return
    <3>5. QED
      BY <3>1, <3>4 DEF Map!Next
  <2>4. CASE Ends
    <3>1. status = "running" /\ status' # "running" /\ ret' = ret
      BY <2>4 DEF Ends, kvstore_hash_destory
    <3>2. Map!Halt
      BY <3>1, <2>StoreGone DEF Map!Halt
    <3>3. QED
      BY <3>1, <3>2 DEF Map!Next
  <2>5. CASE Keeps
    <3>1. StoreOf' = StoreOf /\ status' = status
      BY <2>5, <2>StoreKept DEF Keeps
    <3>2. CASE ret' = ret
      BY <3>1, <3>2
    <3>3. CASE status = "running" /\ Answered
      <4> USE DEF Return, Map!Returns, Map!Same, Map!Stored
      <4>1. ASSUME NEW k \in Key \cup {NULL}, Return("set", k, -1) \/ Return("modify", k, -1)
            PROVE  Map!Next
        BY <3>1, <3>3, <4>1 DEF Map!Next, Map!Refuse
      <4>2. ASSUME NEW k \in Key, NotFound(k), Return("get", k, NULL) \/ Return("delete", k, -1)
            PROVE  Map!Next
        <5>1. k \notin DOMAIN StoreOf
          BY <2>s, <2>t, <3>3, <4>2, <2>WalkDecides
        <5>2. Map!Get(k) \/ Map!Miss("delete", k)
          BY <3>1, <4>2, <5>1 DEF Map!Get, Map!Miss
        <5>3. QED
          BY <3>3, <5>2 DEF Map!Next
      <4>3. ASSUME NEW k \in Key, NEW i \in DOMAIN Chain(k), FoundAt(k, i),
                   Return("set", k, 1) \/ Return("get", k, Chain(k)[i].value)
            PROVE  Map!Next
        <5>1. k \in DOMAIN StoreOf /\ StoreOf[k] = Chain(k)[i].value
          BY <2>s, <2>t, <3>3, <4>3, <2>WalkDecides
        <5>2. Chain(k)[i].value \in Value \cup {NULL}
          <6>1. Chain(k) \in Seq(Node)
            BY <2>t, HashInRange DEF TypeOK, Chain
          <6>2. Chain(k)[i] \in Node
            BY <4>3, <6>1
          <6>3. QED
            BY <6>2 DEF Node
        <5>3. Map!InsertAgain(k) \/ Map!Get(k)
          BY <3>1, <4>3, <5>1, <5>2 DEF Map!Get, Map!InsertAgain
        <5>4. QED
          BY <3>3, <5>3 DEF Map!Next
      <4>4. ASSUME Return("delete", NULL, -2) \/ Return("get", NULL, NULL)
            PROVE  Map!Next
        BY <3>1, <3>3, <4>4 DEF Map!Next, Map!Refuse
      <4>5. ASSUME Return("count", NULL, count)
            PROVE  Map!Next
        <5>1. count = Cardinality(DOMAIN StoreOf) + 0
          BY <2>s, <2>t, <3>3 DEF IInv, CountInv, TypeOK
        <5>2. QED
          BY <3>1, <3>3, <4>5, <5>1 DEF Map!Next, Map!Count, Map!Cardinality, Cardinality
      <4>6. QED
        BY <3>3, <4>1, <4>2, <4>3, <4>4, <4>5 DEF Answered
    <3>4. QED
      BY <2>5, <3>2, <3>3 DEF Keeps
  <2>6. QED
    BY <2>t, <2>1, <2>2, <2>3, <2>4, <2>5, EngineStep
<1>1. Init => Map!Init
  <2> SUFFICES ASSUME Init
               PROVE  Map!Init
    OBVIOUS
  <2>1. Present = {}
    BY HashInRange DEF Init, Present, Chain
  <2>2. {x \in Present : status = "running"} = {}
    BY <2>1
  <2>3. StoreOf = Map!NoStore
    BY <2>2 DEF StoreOf, Map!NoStore, Map!NoKeys
  <2>4. QED
    BY <2>3 DEF Init, Map!Init
<1>2. IInv /\ [Next]_vars => [Map!Next]_<<StoreOf, 0, status # "running", ret>>
  BY <1>MapStep
<1>3. QED
  BY <1>1, <1>2, InvariantHolds, PTL DEF Spec, ImplementsKVMap, Map!Spec

=============================================================================
