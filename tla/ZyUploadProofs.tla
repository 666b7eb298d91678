--------------------------- MODULE ZyUploadProofs ---------------------------
(***************************************************************************)
(* Proofs about the upload page, for every number of files, of files in a  *)
(* selection and of requests under way.                                    *)
(*                                                                         *)
(* What ZYFILE does to its lists are loops, so the proofs begin with       *)
(* induction: Induction and Recursion follow from the well-foundedness of  *)
(* < on the naturals, OmitSteps and OmitLaws say what the loop Omit        *)
(* computes for every sequence.  The inductive invariant is UploadInv; its *)
(* four parts are kept one after the other in the proof of UploadAlways.   *)
(***************************************************************************)
EXTENDS ZyUpload, FiniteSetTheorems, SequenceTheorems, WellFoundedInduction, TLAPS

(* Induction over the naturals, for a set of numbers. *)
LEMMA Induction ==
    ASSUME NEW S, 0 \in S, \A n \in Nat : n \in S => n + 1 \in S
    PROVE  Nat \subseteq S
<1> DEFINE Less == {ss \in Nat \X Nat : ss[1] < ss[2]}
           T == Nat \ S
<1>1. Less = OpToRel(<, Nat)
  BY Zenon DEF OpToRel
<1>2. IsWellFoundedOn(Less, Nat)
  BY <1>1, NatLessThanWellFounded, Zenon
<1>3. SUFFICES ASSUME T # {}
               PROVE  FALSE
  OBVIOUS
<1>4. PICK x \in T : \A y \in T : ~ (<<y, x>> \in Less)
  <2> HIDE DEF Less
  <2> QED BY <1>2, <1>3, WFMin, Zenon
<1>5. x \in Nat \ {0} /\ x - 1 \in Nat /\ x = (x - 1) + 1
  OBVIOUS
<1>6. x - 1 \in T
  BY <1>5
<1>7. <<x - 1, x>> \in Nat \X Nat /\ <<x - 1, x>>[1] < <<x - 1, x>>[2]
  BY <1>5
<1>8. <<x - 1, x>> \in Less
  BY <1>7
<1>9. QED
  BY <1>4, <1>6, <1>8

(* f is a loop of n rounds from a on; the i-th makes step of what was before. *)
Follows(f, n, a, step) == f[0] = a /\ \A i \in 1..n : f[i] = step[<<i, f[i - 1]>>]

(* A loop that stays in a set has a function that follows it; the recursive *)
(* functions Omit and Sum are made of are defined by such a function.       *)
LEMMA Recursion ==
    ASSUME NEW n \in Nat, NEW S, NEW a \in S, NEW step \in [(1..n) \X S -> S]
    PROVE  \E f \in [0..n -> S] : Follows(f, n, a, step)
<1> USE DEF Follows
<1> DEFINE Good(f, m) == /\ f \in [0..m -> S] /\ f[0] = a
                         /\ \A i \in 1..m : f[i] = step[<<i, f[i - 1]>>]
           T == {m \in Nat : m > n \/ \E f \in [0..m -> S] : Good(f, m)}
<1>1. 0 \in T
  <2>1. Good([i \in 0..0 |-> a], 0)
    OBVIOUS
  <2>2. QED
    BY <2>1, Zenon
<1>2. ASSUME NEW m \in Nat, m \in T
      PROVE  m + 1 \in T
  <2>1. CASE m + 1 > n
    BY <2>1
  <2>2. CASE m + 1 <= n
    <3>1. PICK f \in [0..m -> S] : Good(f, m)
      BY <1>2, <2>2
    <3> DEFINE g == [i \in 0..(m + 1) |-> IF i <= m THEN f[i] ELSE step[<<m + 1, f[m]>>]]
    <3>2. step[<<m + 1, f[m]>>] \in S
      BY <2>2
    <3>3. g \in [0..(m + 1) -> S]
      BY <3>2
    <3>4. /\ \A i \in 0..m : g[i] = f[i]
          /\ g[m + 1] = step[<<m + 1, f[m]>>]
      OBVIOUS
    <3> HIDE DEF g
    <3>5. \A i \in 1..m : g[i] = step[<<i, g[i - 1]>>]
      <4>1. ASSUME NEW i \in 1..m
            PROVE  g[i] = step[<<i, g[i - 1]>>]
        <5>1. i \in 0..m /\ i - 1 \in 0..m
          OBVIOUS
        <5>2. f[i] = step[<<i, f[i - 1]>>]
          BY <3>1
        <5>3. QED
          BY <5>1, <5>2, <3>4
      <4>2. QED
        BY <4>1
    <3>6. g[m + 1] = step[<<m + 1, g[(m + 1) - 1]>>]
      BY <3>4
    <3>7. \A i \in 1..(m + 1) : g[i] = step[<<i, g[i - 1]>>]
      <4>1. ASSUME NEW i \in 1..(m + 1)
            PROVE  g[i] = step[<<i, g[i - 1]>>]
        <5>1. i \in 1..m \/ i = m + 1
          OBVIOUS
        <5>2. QED
          BY <3>5, <3>6, <5>1
      <4>2. QED
        BY <4>1
    <3>8. Good(g, m + 1)
      BY <3>1, <3>3, <3>4, <3>7
    <3> HIDE DEF Good
    <3>9. QED
      BY <3>3, <3>8
  <2>3. QED
    BY <2>1, <2>2
<1>3. n \in T
  <2> HIDE DEF T
  <2> QED BY <1>1, <1>2, Induction
<1>4. QED
  BY <1>3

(* The loop of Omit, push by push. *)
Pushes(p, s, E, S) ==
    /\ p \in [0..Len(s) -> Seq(S)]
    /\ Omit(s, E) = p[Len(s)] /\ p[0] = <<>>
    /\ \A i \in 1..Len(s) : p[i] = IF s[i] \in E THEN p[i - 1] ELSE Append(p[i - 1], s[i])

(* Omit item by item: the last item is pushed, unless it is to be left out. *)
OneByOne(S, E) ==
    /\ Omit(<<>>, E) = <<>>
    /\ \A t \in Seq(S) : Omit(t, E) \in Seq(S)
    /\ \A t \in Seq(S), x \in S :
          Omit(Append(t, x), E) = IF x \in E THEN Omit(t, E) ELSE Append(Omit(t, E), x)

(* Omit is what its loop computes: items are looked at one by one, in order. *)
LEMMA OmitSteps ==
    ASSUME NEW S, NEW E
    PROVE  OneByOne(S, E)
<1>1. ASSUME NEW s \in Seq(S)
      PROVE  \E p : Pushes(p, s, E, S)
  <2> DEFINE n == Len(s)
             step == [u \in (1..n) \X Seq(S) |->
                         IF s[u[1]] \in E THEN u[2] ELSE Append(u[2], s[u[1]])]
             body(f) == [i \in 0..n |-> IF i = 0 THEN <<>>
                            ELSE IF s[i] \in E THEN f[i - 1] ELSE Append(f[i - 1], s[i])]
  <2>1. n \in Nat /\ <<>> \in Seq(S) /\ step \in [(1..n) \X Seq(S) -> Seq(S)]
    OBVIOUS
  <2>2. \A i \in 1..n, t \in Seq(S) : step[<<i, t>>] = IF s[i] \in E THEN t ELSE Append(t, s[i])
    OBVIOUS
  <2> HIDE DEF step
  <2>3. PICK f \in [0..n -> Seq(S)] : f[0] = <<>> /\ \A i \in 1..n : f[i] = step[<<i, f[i - 1]>>]
    <3>1. \E f \in [0..n -> Seq(S)] : Follows(f, n, <<>>, step)
      BY <2>1, Recursion, Zenon
    <3>2. QED
      BY <3>1 DEF Follows
  <2>4. ASSUME NEW i \in 1..n
        PROVE  f[i] = IF s[i] \in E THEN f[i - 1] ELSE Append(f[i - 1], s[i])
    <3>1. f[i - 1] \in Seq(S)
      OBVIOUS
    <3>2. f[i] = step[<<i, f[i - 1]>>]
      BY <2>3
    <3>3. QED
      BY <2>2, <3>1, <3>2
  <2>5. f = body(f)
    <3>1. ASSUME NEW i \in 0..n
          PROVE  f[i] = body(f)[i]
      <4>1. CASE i = 0
        BY <4>1, <2>3
      <4>2. CASE i # 0
        <5>1. i \in 1..n
          BY <4>2
        <5>2. f[i] = IF s[i] \in E THEN f[i - 1] ELSE Append(f[i - 1], s[i])
          BY <2>4, <5>1, Zenon
        <5>3. QED
          BY <4>2, <5>2
      <4>3. QED
        BY <4>1, <4>2
    <3>2. f \in [0..n -> Seq(S)] /\ DOMAIN body(f) = 0..n
      OBVIOUS
    <3>3. body(f) = [i \in 0..n |-> body(f)[i]]
      BY Zenon
    <3> HIDE DEF body, n
    <3>4. QED
      BY <3>1, <3>2, <3>3
  <2> DEFINE q == CHOOSE g : g = body(g)
  <2>6. q = body(q)
    BY <2>5, Zenon
  <2>7. Omit(s, E) = q[n]
    BY DEF Omit
  <2> HIDE DEF q
  <2>8. \A i \in 0..n : q[i] = IF i = 0 THEN <<>>
                               ELSE IF s[i] \in E THEN q[i - 1] ELSE Append(q[i - 1], s[i])
    BY <2>6, Zenon
  <2>9. q \in [0..n -> Seq(S)]
    <3> DEFINE T == {m \in Nat : m <= n => q[m] \in Seq(S)}
    <3>1. 0 \in T
      <4>1. q[0] = <<>> /\ <<>> \in Seq(S)
        BY <2>8, <2>1
      <4>2. QED
        BY <4>1, Zenon
    <3>2. ASSUME NEW m \in Nat, m \in T
          PROVE  m + 1 \in T
      <4>1. CASE m + 1 <= n
        <5>1. q[m] \in Seq(S) /\ m + 1 \in 0..n /\ m + 1 # 0 /\ (m + 1) - 1 = m /\ s[m + 1] \in S
          BY <3>2, <4>1
        <5>2. q[m + 1] = IF s[m + 1] \in E THEN q[m] ELSE Append(q[m], s[m + 1])
          BY <2>8, <5>1
        <5>3. q[m + 1] \in Seq(S)
          BY <5>1, <5>2
        <5>4. QED
          BY <5>3
      <4>2. QED
        BY <4>1
    <3>3. Nat \subseteq T
      <4> HIDE DEF T
      <4> QED BY <3>1, <3>2, Induction
    <3>4. \A i \in 0..n : q[i] \in Seq(S)
      BY <3>3
    <3>5. q = [i \in 0..n |-> q[i]]
      BY <2>6
    <3>6. QED
      BY <3>4, <3>5
  <2>10. \A i \in 1..n : q[i] = IF s[i] \in E THEN q[i - 1] ELSE Append(q[i - 1], s[i])
    BY <2>8
  <2>11. q[0] = <<>>
    BY <2>8
  <2>12. Pushes(q, s, E, S)
    BY <2>7, <2>9, <2>10, <2>11 DEF Pushes
  <2>13. QED
    BY <2>12
<1>2. Omit(<<>>, E) = <<>>
  <2> DEFINE e == <<>>
  <2>1. e \in Seq(S) /\ Len(e) = 0
    OBVIOUS
  <2> HIDE DEF e
  <2>2. PICK p : Pushes(p, e, E, S)
    BY <1>1, <2>1, Zenon
  <2>3. Omit(e, E) = <<>>
    BY <2>1, <2>2 DEF Pushes
  <2>4. QED
    BY <2>3 DEF e
<1>3. ASSUME NEW t \in Seq(S)
      PROVE  Omit(t, E) \in Seq(S)
  <2>1. PICK p : Pushes(p, t, E, S)
    BY <1>1
  <2>2. QED
    BY <2>1 DEF Pushes
<1>4. ASSUME NEW t \in Seq(S), NEW x \in S
      PROVE  Omit(Append(t, x), E) = IF x \in E THEN Omit(t, E) ELSE Append(Omit(t, E), x)
  <2> DEFINE n == Len(t)
             u == Append(t, x)
  <2>1. u \in Seq(S) /\ Len(u) = n + 1 /\ u[n + 1] = x /\ n \in Nat
        /\ \A i \in 1..n : u[i] = t[i]
    OBVIOUS
  <2> HIDE DEF u
  <2>2. PICK p : Pushes(p, t, E, S)
    BY <1>1
  <2>3. PICK q : Pushes(q, u, E, S)
    BY <1>1, <2>1
  <2> USE DEF Pushes
  <2> DEFINE T == {m \in Nat : m <= n => q[m] = p[m]}
  <2>4. 0 \in T
    BY <2>2, <2>3
  <2>5. ASSUME NEW m \in Nat, m \in T
        PROVE  m + 1 \in T
    <3>1. CASE m + 1 <= n
      <4>1. m + 1 \in 1..n /\ m + 1 \in 1..(n + 1) /\ (m + 1) - 1 = m /\ q[m] = p[m]
        BY <2>5, <3>1, <2>1
      <4>2. q[m + 1] = IF u[m + 1] \in E THEN q[m] ELSE Append(q[m], u[m + 1])
        BY <2>1, <2>3, <4>1
      <4>3. p[m + 1] = IF t[m + 1] \in E THEN p[m] ELSE Append(p[m], t[m + 1])
        BY <2>2, <4>1
      <4>4. q[m + 1] = p[m + 1]
        BY <2>1, <4>1, <4>2, <4>3
      <4>5. QED
        BY <4>4
    <3>2. QED
      BY <3>1
  <2>6. n \in T
    <3> HIDE DEF T, n
    <3> QED BY <2>1, <2>4, <2>5, Induction
  <2>7. q[n] = p[n]
    BY <2>1, <2>6
  <2>8. q[n + 1] = IF x \in E THEN q[n] ELSE Append(q[n], x)
    <3>1. n + 1 \in 1..(n + 1) /\ (n + 1) - 1 = n
      BY <2>1
    <3>2. QED
      BY <2>1, <2>3, <3>1
  <2>9. Omit(u, E) = q[n + 1] /\ Omit(t, E) = p[n]
    BY <2>1, <2>2, <2>3
  <2>10. QED
    BY <2>7, <2>8, <2>9 DEF u
<1>5. QED
  BY <1>2, <1>3, <1>4 DEF OneByOne

(* What Omit leaves and how much of it, that it may be done in two rounds, *)
(* and that what is appended stays when nothing of it is to be left out.   *)
Leaves(S, s, E) ==
    /\ Range(Omit(s, E)) = Range(s) \ E
    /\ Len(Omit(s, E)) = Cardinality({i \in 1..Len(s) : s[i] \notin E})
    /\ \A D : Omit(Omit(s, E), D) = Omit(s, E \cup D)
    /\ \A t \in Seq(S) : Range(t) \cap E = {} => Omit(s \o t, E) = Omit(s, E) \o t

(* The laws of Omit, by induction over the sequence: the set of sequences  *)
(* that obey them has the empty one and is closed under Append.            *)
LEMMA OmitLaws ==
    ASSUME NEW S, NEW E, NEW s \in Seq(S)
    PROVE  Leaves(S, s, E)
<1>0. \A D : OneByOne(S, D)
  BY OmitSteps
<1>1. ASSUME NEW A, <<>> \in A,
             \A t \in Seq(S), x \in S : t \in A => Append(t, x) \in A
      PROVE  Seq(S) \subseteq A
  <2> USE <1>1
  <2> DEFINE N == {n \in Nat : \A t \in Seq(S) : Len(t) = n => t \in A}
  <2>1. 0 \in N
    BY EmptySeq
  <2>2. ASSUME NEW n \in Nat, n \in N
        PROVE  n + 1 \in N
    <3>1. ASSUME NEW t \in Seq(S), Len(t) = n + 1
          PROVE  t \in A
      <4> DEFINE f == SubSeq(t, 1, n)
      <4>1. /\ f \in Seq(S) /\ Len(f) = n
            /\ \A i \in 1..n : f[i] = t[i]
            /\ t[n + 1] \in S
        BY <3>1
      <4> HIDE DEF f
      <4>2. /\ Append(f, t[n + 1]) \in Seq(S) /\ Len(Append(f, t[n + 1])) = n + 1
            /\ \A i \in 1..(n + 1) : Append(f, t[n + 1])[i] = t[i]
        BY <4>1
      <4>3. t = Append(f, t[n + 1])
        BY <3>1, <4>2, SeqEqual
      <4>4. f \in A
        BY <2>2, <4>1
      <4>5. QED
        BY <4>1, <4>3, <4>4, Zenon
    <3>2. QED
      BY <3>1
  <2>3. Nat \subseteq N
    <3> HIDE DEF N
    <3> QED BY <2>1, <2>2, Induction
  <2>4. QED
    BY <2>3
<1>2. /\ Range(Omit(s, E)) = Range(s) \ E
      /\ Len(Omit(s, E)) = Cardinality({i \in 1..Len(s) : s[i] \notin E})
      /\ \A D : Omit(Omit(s, E), D) = Omit(s, E \cup D)
  <2> DEFINE Left(t) == {i \in 1..Len(t) : t[i] \notin E}
             P(t) == /\ Range(Omit(t, E)) = Range(t) \ E
                     /\ Len(Omit(t, E)) = Cardinality(Left(t))
                     /\ \A D : Omit(Omit(t, E), D) = Omit(t, E \cup D)
             A == {t \in Seq(S) : P(t)}
  <2>1. <<>> \in A
    <3>1. <<>> \in Seq(S) /\ Len(<<>>) = 0 /\ 1..0 = {}
      OBVIOUS
    <3>2. Omit(<<>>, E) = <<>> /\ \A D : Omit(<<>>, D) = <<>>
      BY <1>0 DEF OneByOne
    <3>3. Left(<<>>) = {} /\ Range(<<>>) = {}
      BY <3>1 DEF Range
    <3>4. QED
      BY <3>1, <3>2, <3>3, FS_EmptySet
  <2>2. ASSUME NEW t \in Seq(S), NEW x \in S, t \in A
        PROVE  Append(t, x) \in A
    <3> DEFINE u == Append(t, x)
    <3>1. /\ u \in Seq(S) /\ Len(u) = Len(t) + 1 /\ u[Len(t) + 1] = x
          /\ Len(t) \in Nat /\ \A i \in 1..Len(t) : u[i] = t[i]
      OBVIOUS
    <3>2. /\ Omit(t, E) \in Seq(S)
          /\ Omit(u, E) = IF x \in E THEN Omit(t, E) ELSE Append(Omit(t, E), x)
      BY <1>0, Zenon DEF OneByOne
    <3>3. ASSUME NEW w \in Seq(S)
          PROVE  Range(Append(w, x)) = Range(w) \cup {x}
      <4>1. /\ Len(Append(w, x)) = Len(w) + 1 /\ Append(w, x)[Len(w) + 1] = x
            /\ Len(w) \in Nat /\ \A i \in 1..Len(w) : Append(w, x)[i] = w[i]
        OBVIOUS
      <4>2. 1..(Len(w) + 1) = (1..Len(w)) \cup {Len(w) + 1}
        BY <4>1
      <4>3. DOMAIN w = 1..Len(w) /\ DOMAIN Append(w, x) = 1..(Len(w) + 1)
        OBVIOUS
      <4>4. QED
        BY <4>1, <4>2, <4>3 DEF Range
    <3>4. Range(Omit(u, E)) = Range(u) \ E
      BY <2>2, <3>2, <3>3
    <3>5. Len(Omit(u, E)) = Cardinality(Left(u))
      <4>1. IsFiniteSet(Left(t)) /\ Cardinality(Left(t)) \in Nat /\ Len(t) + 1 \notin Left(t)
        <5>1. IsFiniteSet(1..Len(t)) /\ Left(t) \subseteq 1..Len(t)
          BY <3>1, FS_Interval
        <5>2. QED
          BY <3>1, <5>1, FS_Subset, FS_CardinalityType
      <4>2. Left(u) = IF x \in E THEN Left(t) ELSE Left(t) \cup {Len(t) + 1}
        <5>1. 1..(Len(t) + 1) = (1..Len(t)) \cup {Len(t) + 1}
          BY <3>1
        <5> HIDE DEF u
        <5>2. QED
          BY <3>1, <5>1
      <4>3. Cardinality(Left(t) \cup {Len(t) + 1}) = Cardinality(Left(t)) + 1
        BY <4>1, FS_AddElement, Zenon
      <4>4. Len(Omit(u, E)) = IF x \in E THEN Len(Omit(t, E)) ELSE Len(Omit(t, E)) + 1
        BY <3>2
      <4>5. Len(Omit(t, E)) = Cardinality(Left(t))
        BY <2>2
      <4> HIDE DEF Left, u
      <4>6. QED
        BY <4>2, <4>3, <4>4, <4>5
    <3>6. ASSUME NEW D
          PROVE  Omit(Omit(u, E), D) = Omit(u, E \cup D)
      <4>1. Omit(u, E \cup D) =
                IF x \in E \cup D THEN Omit(t, E \cup D) ELSE Append(Omit(t, E \cup D), x)
        BY <1>0, SMTT(30) DEF OneByOne
      <4>2. Omit(Append(Omit(t, E), x), D) =
                IF x \in D THEN Omit(Omit(t, E), D) ELSE Append(Omit(Omit(t, E), D), x)
        <5>1. OneByOne(S, D)
          BY <1>0
        <5>2. QED
          BY <3>2, <5>1 DEF OneByOne
      <4>3. Omit(Omit(t, E), D) = Omit(t, E \cup D)
        BY <2>2
      <4> HIDE DEF u
      <4>4. QED
        BY <3>2, <4>1, <4>2, <4>3, Zenon
    <3>7. QED
      BY <3>1, <3>4, <3>5, <3>6, Zenon
  <2>3. s \in A
    <3> HIDE DEF A
    <3> QED BY <2>1, <2>2, <1>1
  <2>4. QED
    BY <2>3
<1>3. ASSUME NEW t \in Seq(S), Range(t) \cap E = {}
      PROVE  Omit(s \o t, E) = Omit(s, E) \o t
  <2> USE <1>3
  <2> DEFINE A == {u \in Seq(S) : Range(u) \cap E = {} => Omit(s \o u, E) = Omit(s, E) \o u}
  <2>0. Omit(s, E) \in Seq(S)
    BY <1>0, Zenon DEF OneByOne
  <2>1. <<>> \in A
    <3>1. <<>> \in Seq(S) /\ s \o <<>> = s /\ Omit(s, E) \o <<>> = Omit(s, E)
      BY <2>0
    <3>2. QED
      BY <3>1, Zenon
  <2>2. ASSUME NEW u \in Seq(S), NEW x \in S, u \in A
        PROVE  Append(u, x) \in A
    <3>0. Append(u, x) \in Seq(S)
      OBVIOUS
    <3> SUFFICES ASSUME Range(Append(u, x)) \cap E = {}
                 PROVE  Omit(s \o Append(u, x), E) = Omit(s, E) \o Append(u, x)
      BY <3>0, Zenon
    <3>1. x \notin E /\ Range(u) \cap E = {}
      <4>1. /\ Len(Append(u, x)) = Len(u) + 1 /\ Append(u, x)[Len(u) + 1] = x
            /\ Len(u) \in Nat /\ \A i \in 1..Len(u) : Append(u, x)[i] = u[i]
        OBVIOUS
      <4>2. DOMAIN u = 1..Len(u) /\ DOMAIN Append(u, x) = 1..(Len(u) + 1)
        OBVIOUS
      <4>3. QED
        BY <4>1, <4>2 DEF Range
    <3>2. Omit(s \o u, E) = Omit(s, E) \o u
      BY <2>2, <3>1
    <3>3. s \o u \in Seq(S) /\ s \o Append(u, x) = Append(s \o u, x)
      OBVIOUS
    <3>4. Omit(s, E) \o Append(u, x) = Append(Omit(s, E) \o u, x)
      BY <2>0
    <3> DEFINE w == s \o u
    <3>5. Omit(Append(w, x), E) = Append(Omit(w, E), x)
      <4>1. w \in Seq(S)
        OBVIOUS
      <4> HIDE DEF w
      <4>2. QED
        BY <3>1, <4>1, <1>0, Zenon DEF OneByOne
    <3>6. QED
      BY <3>2, <3>3, <3>4, <3>5
  <2>3. t \in A
    <3> HIDE DEF A
    <3> QED BY <2>1, <2>2, <1>1
  <2>4. QED
    BY <2>3
<1>4. QED
  BY <1>2, <1>3 DEF Leaves

(* The identity of a file and its index are its place among those taken over. *)
Numbered(p) == p \in Seq(File) /\ \A k \in 1..Len(p) : p[k].id = k /\ p[k].index = k - 1

(* What is left of the files p without those with an identity in D. *)
Without(p, D) == Omit(p, {f \in Range(p) : f.id \in D})

(* What is left to upload is what was neither removed nor answered for. *)
ListsInv ==
    /\ Numbered(perUploadFile) /\ fileNum = Len(perUploadFile) /\ fileNum <= MaxFiles
    /\ loaded \cup removed \subseteq 1..fileNum
    /\ uploadFile = Without(perUploadFile, loaded \cup removed)

(* The status line, with the bound that keeps it a count of files. *)
StatusInv == status \in 0..fileNum /\ finishDel \in BOOLEAN /\ StatusCounts

(* The requests under way, within their bound. *)
RequestsInv ==
    /\ xhr \in [Id -> 0..MaxXhr]
    /\ failed \in BOOLEAN /\ complete \in BOOLEAN

(* Whatever a reader or an element of the preview area points to is a file *)
(* that was taken over.                                                    *)
Index == 0..(fileNum - 1)
Taken == {perUploadFile[k] : k \in 1..fileNum}

Reader(T, I) == [sel : Seq(T), i : Nat \ {0}, html : Seq(I)]
Shown(I) == [index : I, shown : BOOLEAN]

ReadersInv ==
    /\ overlap \in BOOLEAN
    /\ file \in Taken \cup {NULL}
    /\ reading \subseteq Reader(Taken, Index)
    /\ \A r \in reading : r.i <= Len(r.sel)
    /\ preview \in Seq(Shown(Index))

(* With no overlap there is one reader at most; it has the files that the  *)
(* preview area lacks, and the variable file names the one it reads.       *)
InTurn(r) ==
    LET n == Len(preview) IN
    /\ n + Len(r.sel) = fileNum
    /\ \A j \in 1..Len(r.sel) : r.sel[j] = perUploadFile[n + j]
    /\ Len(r.html) = r.i - 1
    /\ \A j \in 1..Len(r.html) : r.html[j] = n + j - 1
    /\ file = r.sel[r.i]

OrderInv ==
    ~overlap =>
        /\ Len(preview) <= fileNum
        /\ \A k \in 1..Len(preview) : preview[k].index = k - 1
        /\ reading = {} => Len(preview) = fileNum
        /\ \A r \in reading : reading = {r} /\ InTurn(r)

UploadInv == ListsInv /\ StatusInv /\ RequestsInv /\ ReadersInv /\ OrderInv

(* How many files are left and which; taking one more file out is taking   *)
(* its identity out; and files that are added are left.                    *)
Remains(p, D) ==
    /\ Without(p, D) \in Seq(File)
    /\ Range(Without(p, D)) = {p[k] : k \in (1..Len(p)) \ D}
    /\ Len(Without(p, D)) = Cardinality((1..Len(p)) \ D)
    /\ \A k \in 1..Len(p) : Omit(Without(p, D), {p[k]}) = Without(p, D \cup {k})
    /\ \A q \in Seq(File) :
          (/\ D \subseteq 1..Len(p)
           /\ \A k \in 1..Len(q) : /\ q[k].id = Len(p) + k
                                   /\ q[k].index = Len(p) + k - 1)
          => /\ Numbered(p \o q)
             /\ Without(p \o q, D) = Without(p, D) \o q

(* What funDeleteFile and a selection do to files that are numbered. *)
LEMMA WithoutLaws ==
    ASSUME NEW p, Numbered(p), NEW D
    PROVE  Remains(p, D)
<1>1. /\ Without(p, D) \in Seq(File)
      /\ Range(Without(p, D)) = {p[k] : k \in (1..Len(p)) \ D}
      /\ Len(Without(p, D)) = Cardinality((1..Len(p)) \ D)
  <2> DEFINE E == {f \in Range(p) : f.id \in D}
             n == Len(p)
  <2>1. /\ p \in Seq(File) /\ n \in Nat /\ DOMAIN p = 1..n
        /\ \A k \in 1..n : p[k].id = k
    BY DEF Numbered
  <2>2. \A k \in 1..n : p[k] \in E <=> k \in D
    BY <2>1 DEF Range
  <2>3. Without(p, D) = Omit(p, E)
    BY DEF Without
  <2> HIDE DEF E
  <2>4. Omit(p, E) \in Seq(File) /\ Leaves(File, p, E)
    BY <2>1, OmitSteps, OmitLaws, Zenon DEF OneByOne
  <2>5. {i \in 1..n : p[i] \notin E} = (1..n) \ D
    BY <2>2
  <2>6. Range(p) \ E = {p[k] : k \in (1..n) \ D}
    BY <2>1, <2>2 DEF Range
  <2>7. QED
    BY <2>3, <2>4, <2>5, <2>6, Zenon DEF Leaves
<1>2. ASSUME NEW k \in 1..Len(p)
      PROVE  Omit(Without(p, D), {p[k]}) = Without(p, D \cup {k})
  <2> DEFINE E == {f \in Range(p) : f.id \in D}
  <2>1. /\ p \in Seq(File) /\ DOMAIN p = 1..Len(p)
        /\ \A j \in 1..Len(p) : p[j].id = j
    BY DEF Numbered
  <2>2. E \cup {p[k]} = {f \in Range(p) : f.id \in D \cup {k}}
    BY <2>1 DEF Range
  <2>3. Without(p, D) = Omit(p, E) /\ Without(p, D \cup {k}) = Omit(p, E \cup {p[k]})
    BY <2>2, Zenon DEF Without
  <2> HIDE DEF E
  <2>4. Leaves(File, p, E)
    BY <2>1, OmitLaws
  <2>5. QED
    BY <2>3, <2>4 DEF Leaves
<1>3. ASSUME NEW q \in Seq(File), D \subseteq 1..Len(p),
             \A k \in 1..Len(q) : /\ q[k].id = Len(p) + k
                                  /\ q[k].index = Len(p) + k - 1
      PROVE  /\ Numbered(p \o q)
             /\ Without(p \o q, D) = Without(p, D) \o q
  <2> USE <1>3
  <2> DEFINE E == {f \in Range(p) : f.id \in D}
             r == p \o q
             n == Len(p)
             m == Len(q)
  <2>1. /\ p \in Seq(File) /\ n \in Nat /\ m \in Nat
        /\ DOMAIN p = 1..n /\ DOMAIN q = 1..m
        /\ \A j \in 1..n : p[j].id = j /\ p[j].index = j - 1
    BY DEF Numbered
  <2>2. /\ r \in Seq(File) /\ Len(r) = n + m /\ DOMAIN r = 1..(n + m)
        /\ \A j \in 1..n : r[j] = p[j]
        /\ \A j \in (n + 1)..(n + m) : r[j] = q[j - n]
        /\ \A j \in 1..m : r[n + j] = q[j]
    BY <2>1
  <2> HIDE DEF r
  <2>3. \A j \in 1..(n + m) : r[j].id = j /\ r[j].index = j - 1
    <3>1. ASSUME NEW j \in 1..(n + m)
          PROVE  r[j].id = j /\ r[j].index = j - 1
      <4>1. CASE j \in 1..n
        BY <2>1, <2>2, <4>1
      <4>2. CASE j \notin 1..n
        <5>1. j - n \in 1..m /\ j \in (n + 1)..(n + m) /\ n + (j - n) = j
          BY <2>1, <4>2
        <5>2. r[j] = q[j - n]
          BY <2>2, <5>1
        <5>3. QED
          BY <5>1, <5>2
      <4>3. QED
        BY <4>1, <4>2
    <3>2. QED
      BY <3>1
  <2>4. Numbered(r)
    BY <2>2, <2>3 DEF Numbered
  <2>5. E = {f \in Range(r) : f.id \in D}
    <3>1. ASSUME NEW j \in 1..(n + m), r[j].id \in D
          PROVE  j \in 1..n
      BY <2>3, <3>1
    <3>2. \A j \in 1..n : j \in 1..(n + m)
      BY <2>1
    <3>3. QED
      BY <2>1, <2>2, <3>1, <3>2 DEF Range
  <2>6. Range(q) \cap E = {}
    <3>1. ASSUME NEW j \in 1..m PROVE q[j].id \notin D
      BY <2>1
    <3>2. QED
      BY <2>1, <3>1 DEF Range
  <2>7. Without(r, D) = Omit(r, E) /\ Without(p, D) = Omit(p, E)
    BY <2>5, Zenon DEF Without
  <2> HIDE DEF E
  <2>8. Omit(p \o q, E) = Omit(p, E) \o q
    <3>1. Leaves(File, p, E)
      BY <2>1, OmitLaws
    <3>2. QED
      BY <2>6, <3>1 DEF Leaves
  <2>9. QED
    BY <2>4, <2>7, <2>8 DEF r
<1>4. QED
  BY <1>1, <1>2, <1>3, Zenon DEF Remains

(* The files a selection adds: new identities, indices from fileNum on. *)
LEMMA Selects ==
    ASSUME ListsInv, NEW n \in Nat, NEW picks \in [1..n -> Pick],
           Len(perUploadFile) + Len(Dealt(picks)) <= MaxFiles
    PROVE  /\ Dealt(picks) \in Seq(File)
           /\ \A k \in 1..Len(Dealt(picks)) : /\ Dealt(picks)[k].id = fileNum + k
                                               /\ Dealt(picks)[k].index = fileNum + k - 1
<1>1. picks \in Seq(Pick)
  OBVIOUS
<1>2. funFilterEligibleFile(picks) \in Seq(Pick)
  BY <1>1, OmitSteps, Zenon DEF OneByOne, funFilterEligibleFile
<1>3. Fresh(picks) \in Seq(Pick)
  BY <1>2, OmitSteps, Zenon DEF OneByOne, Fresh
<1> DEFINE m == Len(Fresh(picks))
<1>4. m \in Nat /\ fileNum \in Nat /\ fileNum = Len(perUploadFile) /\ MaxFiles \in Nat
  BY <1>3, BoundsAssumption DEF ListsInv, Numbered
<1>5. ASSUME NEW k \in 1..m
      PROVE  Fresh(picks)[k].name \in Name
  <2>1. Fresh(picks)[k] \in Pick
    BY <1>3
  <2>2. QED
    BY <2>1 DEF Pick
<1>6. Len(Dealt(picks)) = m
  BY <1>4 DEF Dealt
<1>7. \A k \in 1..m : Dealt(picks)[k] =
          [id |-> fileNum + k, name |-> Fresh(picks)[k].name, index |-> fileNum + k - 1]
  BY <1>4 DEF Dealt
<1>8. ASSUME NEW k \in 1..m
      PROVE  /\ Dealt(picks)[k] \in File
             /\ Dealt(picks)[k].id = fileNum + k /\ Dealt(picks)[k].index = fileNum + k - 1
  <2>1. fileNum + k \in 1..MaxFiles /\ fileNum + k - 1 \in 0..(MaxFiles - 1)
    BY <1>4, <1>6
  <2>2. Fresh(picks)[k].name \in Name
    BY <1>5
  <2>3. Dealt(picks)[k] =
          [id |-> fileNum + k, name |-> Fresh(picks)[k].name, index |-> fileNum + k - 1]
    BY <1>7
  <2>4. QED
    BY <2>1, <2>2, <2>3 DEF File, Id
<1>9. Dealt(picks) \in Seq(File)
  <2>1. Dealt(picks) = [k \in 1..m |-> Dealt(picks)[k]]
    BY DEF Dealt
  <2>2. QED
    BY <1>4, <1>8, <2>1
<1>10. QED
  BY <1>6, <1>8, <1>9

(* The preview area keeps its elements in place and in order: fading one   *)
(* out leaves their number and their indices, and composed previews are    *)
(* appended.                                                               *)
LEMMA PreviewLaws ==
    ASSUME NEW I, preview \in Seq(Shown(I))
    PROVE  /\ \A x : /\ Hide(x) \in Seq(Shown(I))
                     /\ Len(Hide(x)) = Len(preview)
                     /\ \A k \in 1..Len(preview) : Hide(x)[k].index = preview[k].index
           /\ \A html \in Seq(I) :
                 LET p == preview \o Elements(html) IN
                 /\ p \in Seq(Shown(I))
                 /\ Len(p) = Len(preview) + Len(html)
                 /\ \A k \in 1..Len(preview) : p[k] = preview[k]
                 /\ \A k \in 1..Len(html) : p[Len(preview) + k].index = html[k]
<1>1. ASSUME NEW x
      PROVE  /\ Hide(x) \in Seq(Shown(I))
             /\ Len(Hide(x)) = Len(preview)
             /\ \A k \in 1..Len(preview) : Hide(x)[k].index = preview[k].index
  <2> DEFINE n == Len(preview)
             T == Shown(I)
             out(k) == preview[k].index = x /\ \A j \in 1..(k - 1) : preview[j].index # x
             h == [k \in 1..n |-> [preview[k] EXCEPT !.shown = preview[k].shown /\ ~out(k)]]
  <2>0. /\ n \in Nat /\ DOMAIN preview = 1..n
        /\ \A k \in 1..n : preview[k] \in T
    <3> HIDE DEF T
    <3>1. preview \in Seq(T)
      BY DEF T
    <3>2. QED
      BY <3>1
  <2>1. Hide(x) = h
    BY <2>0, Zenon DEF Hide
  <2>2. ASSUME NEW k \in 1..n
        PROVE  h[k] \in T /\ h[k].index = preview[k].index
    <3>1. preview[k] \in T
      BY <2>0
    <3>2. (preview[k].shown /\ ~out(k)) \in BOOLEAN
      BY Zenon
    <3> HIDE DEF out
    <3>3. h[k] = [preview[k] EXCEPT !.shown = preview[k].shown /\ ~out(k)]
      BY Zenon
    <3>4. QED
      BY <3>1, <3>2, <3>3, Zenon DEF Shown
  <2>3. h = [k \in 1..n |-> h[k]]
    BY Zenon
  <2> HIDE DEF h, T
  <2>4. h \in Seq(T) /\ Len(h) = n
    BY <2>0, <2>2, <2>3
  <2>5. QED
    BY <2>1, <2>2, <2>4 DEF T
<1>2. ASSUME NEW html \in Seq(I)
      PROVE  /\ preview \o Elements(html) \in Seq(Shown(I))
             /\ Len(preview \o Elements(html)) = Len(preview) + Len(html)
             /\ \A k \in 1..Len(preview) : (preview \o Elements(html))[k] = preview[k]
             /\ \A k \in 1..Len(html) :
                   (preview \o Elements(html))[Len(preview) + k].index = html[k]
  <2> DEFINE p == preview
  <2> DEFINE e == Elements(html)
             S == Shown(I)
  <2>1. e = [k \in 1..Len(html) |-> Element(html[k])] /\ Len(html) \in Nat
    BY DEF Elements
  <2>2. ASSUME NEW k \in 1..Len(html)
        PROVE  e[k] \in S /\ e[k].index = html[k]
    <3>1. e[k] = [index |-> html[k], shown |-> TRUE] /\ html[k] \in I
      BY <2>1 DEF Element
    <3> HIDE DEF e
    <3>2. QED
      BY <3>1 DEF Shown
  <2> HIDE DEF e, S
  <2>3. e \in Seq(S) /\ Len(e) = Len(html)
    <3>1. e = [k \in 1..Len(html) |-> e[k]]
      BY <2>1
    <3>2. QED
      BY <2>1, <2>2, <3>1
  <2>4. p \in Seq(S)
    BY DEF S
  <2>5. /\ p \o e \in Seq(S) /\ Len(p \o e) = Len(p) + Len(html)
        /\ \A k \in 1..Len(p) : (p \o e)[k] = p[k]
        /\ \A k \in 1..Len(e) : (p \o e)[Len(p) + k] = e[k]
    BY <2>3, <2>4
  <2>6. QED
    BY <2>2, <2>3, <2>5 DEF e, S
<1>3. QED
  BY <1>1, <1>2

(* Files are added to the ones taken over and none is taken back. *)
Grows ==
    /\ fileNum' \in Nat /\ fileNum <= fileNum'
    /\ \A k \in 1..fileNum : perUploadFile'[k] = perUploadFile[k]

(* The inductive invariant of the upload page holds in every state. *)
THEOREM UploadAlways == Spec => []UploadInv
<1>Lists.
    (* The lists and the status line. *)
    ASSUME UploadInv, Next \/ UNCHANGED vars
    PROVE  ListsInv' /\ StatusInv' /\ Grows
  <2> USE <1>Lists
  <2> DEFINE D == loaded \cup removed
  <2>1. /\ Numbered(perUploadFile) /\ fileNum = Len(perUploadFile) /\ fileNum \in Nat
        /\ fileNum <= MaxFiles /\ MaxFiles \in Nat
        /\ D \subseteq 1..fileNum /\ uploadFile = Without(perUploadFile, D)
        /\ perUploadFile \in Seq(File) /\ DOMAIN perUploadFile = 1..fileNum
    BY BoundsAssumption DEF UploadInv, ListsInv, Numbered
  <2>2. ASSUME NEW p, Numbered(p), NEW E
        PROVE  /\ Len(Without(p, E)) \in 0..Len(p)
               /\ Len(Without(p, E)) = Cardinality((1..Len(p)) \ E)
               /\ IsFiniteSet((1..Len(p)) \ E)
    <3>1. Len(p) \in Nat
      BY <2>2 DEF Numbered
    <3>2. IsFiniteSet(1..Len(p)) /\ Cardinality(1..Len(p)) = Len(p)
      <4> DEFINE m == Len(p)
      <4> HIDE DEF m
      <4>1. m \in Nat
        BY <3>1 DEF m
      <4>2. IsFiniteSet(1..m) /\ Cardinality(1..m) = IF 1 > m THEN 0 ELSE m - 1 + 1
        BY <4>1, FS_Interval
      <4>3. Cardinality(1..m) = m
        BY <4>1, <4>2
      <4>4. QED
        BY <4>2, <4>3 DEF m
    <3>3. IsFiniteSet((1..Len(p)) \ E) /\ Cardinality((1..Len(p)) \ E) <= Cardinality(1..Len(p))
      BY <3>2, FS_Subset
    <3>4. Cardinality((1..Len(p)) \ E) \in Nat
      BY <3>3, FS_CardinalityType
    <3>5. Len(Without(p, E)) = Cardinality((1..Len(p)) \ E)
      BY <2>2, WithoutLaws DEF Remains
    <3>6. QED
      BY <3>1, <3>2, <3>3, <3>4, <3>5
  <2>3. IsFiniteSet(loaded) /\ Cardinality(loaded) \in Nat
    <3>1. loaded \subseteq 1..fileNum
      BY <2>1
    <3>2. IsFiniteSet(1..fileNum)
      BY <2>1, FS_Interval
    <3>3. QED
      BY <3>1, <3>2, FS_Subset, FS_CardinalityType, Zenon
  <2>4. /\ status \in 0..fileNum /\ finishDel \in BOOLEAN /\ StatusCounts
        /\ Len(uploadFile) \in 0..fileNum
    BY <2>1, <2>2, Zenon DEF UploadInv, StatusInv
  (* An index names its file, and deleting the file leaves the others. *)
  <2>5. ASSUME NEW k \in 1..fileNum, UNCHANGED <<perUploadFile, fileNum>>,
               uploadFile' = funDeleteFile(k - 1), loaded' \cup removed' = D \cup {k}
        PROVE  /\ ListsInv' /\ Len(uploadFile') \in 0..fileNum
               /\ Len(uploadFile') <= Len(uploadFile)
               /\ Len(uploadFile) - Len(uploadFile') = IF k \in D THEN 0 ELSE 1
    <3>1. uploadFile' = Without(perUploadFile, D \cup {k})
      <4>1. (k - 1) + 1 = k
        BY <2>1
      <4>2. uploadFile' = Omit(Without(perUploadFile, D), {perUploadFile[k]})
        BY <2>1, <2>5, <4>1 DEF funDeleteFile
      <4> HIDE DEF D
      <4>3. Remains(perUploadFile, D)
        BY <2>1, WithoutLaws
      <4>4. QED
        BY <2>1, <4>2, <4>3 DEF Remains
    <3>2. ListsInv'
      BY <2>1, <2>5, <3>1, Zenon DEF ListsInv
    <3>3. /\ Len(uploadFile) = Cardinality((1..fileNum) \ D)
          /\ Len(uploadFile') = Cardinality((1..fileNum) \ (D \cup {k}))
          /\ Len(uploadFile') \in 0..fileNum
          /\ IsFiniteSet((1..fileNum) \ D)
      BY <2>1, <2>2, <3>1, Zenon
    <3>4. (1..fileNum) \ (D \cup {k}) = ((1..fileNum) \ D) \ {k}
      OBVIOUS
    <3>5. Cardinality(((1..fileNum) \ D) \ {k}) =
              IF k \in (1..fileNum) \ D THEN Cardinality((1..fileNum) \ D) - 1
                                        ELSE Cardinality((1..fileNum) \ D)
      BY <3>3, FS_RemoveElement, Zenon
    <3>6. k \in (1..fileNum) \ D <=> k \notin D
      OBVIOUS
    <3> HIDE DEF D
    <3>7. Len(uploadFile') = IF k \in D THEN Len(uploadFile) ELSE Len(uploadFile) - 1
      BY <3>3, <3>4, <3>5, <3>6, Zenon
    <3>8. QED
      BY <2>4, <3>2, <3>3, <3>7
  <2>6. ASSUME UNCHANGED <<perUploadFile, fileNum, uploadFile, loaded, removed, status, finishDel>>
        PROVE  ListsInv' /\ StatusInv' /\ Grows
    BY <2>1, <2>6 DEF UploadInv, ListsInv, StatusInv, StatusCounts, Grows
  <2>7. ASSUME NEW n \in 1..MaxBatch, NEW picks \in [1..n -> Pick], funGetFiles(picks)
        PROVE  ListsInv' /\ StatusInv' /\ Grows
    <3> DEFINE sel == Dealt(picks)
    <3>1. /\ Len(perUploadFile) + Len(sel) <= MaxFiles
          /\ perUploadFile' = perUploadFile \o sel
          /\ fileNum' = fileNum + Len(sel)
          /\ uploadFile' = uploadFile \o sel
          /\ status' = Len(uploadFile')
          /\ UNCHANGED <<finishDel, loaded, removed>>
      BY <2>7 DEF funGetFiles
    <3>2. /\ sel \in Seq(File)
          /\ \A k \in 1..Len(sel) : sel[k].id = fileNum + k /\ sel[k].index = fileNum + k - 1
      <4>1. n \in Nat
        BY BoundsAssumption
      <4>2. QED
        BY <3>1, <4>1, Selects DEF UploadInv
    <3> HIDE DEF sel
    <3>3. /\ Numbered(perUploadFile \o sel)
          /\ Without(perUploadFile \o sel, D) = Without(perUploadFile, D) \o sel
      <4> HIDE DEF D
      <4>1. Remains(perUploadFile, D)
        BY <2>1, WithoutLaws
      <4>2. QED
        BY <2>1, <3>2, <4>1, Zenon DEF Remains
    <3>4. /\ Len(perUploadFile \o sel) = fileNum + Len(sel) /\ Len(sel) \in Nat
          /\ \A k \in 1..fileNum : (perUploadFile \o sel)[k] = perUploadFile[k]
      BY <2>1, <3>2
    <3>5. ListsInv' /\ Grows
      <4>1. 1..fileNum \subseteq 1..fileNum' /\ fileNum' \in Nat /\ fileNum <= fileNum'
            /\ fileNum' <= MaxFiles /\ fileNum' = Len(perUploadFile')
        BY <2>1, <3>1, <3>4
      <4>2. (loaded \cup removed)' = D /\ D \subseteq 1..fileNum'
        BY <2>1, <3>1, <4>1
      <4>3. uploadFile' = Without(perUploadFile', (loaded \cup removed)')
        BY <2>1, <3>1, <3>3, <4>2, Zenon
      <4>4. QED
        BY <3>1, <3>3, <3>4, <4>1, <4>2, <4>3 DEF ListsInv, Grows
    <3>6. Len(uploadFile') \in 0..fileNum'
      BY <2>1, <2>2, <3>1, <3>3, <3>4, Zenon
    <3>7. StatusInv'
      BY <2>1, <2>3, <2>4, <3>1, <3>4, <3>6 DEF StatusInv, StatusCounts
    <3>8. QED
      BY <3>5, <3>7
  <2>8. ASSUME NEW k \in DOMAIN preview, file_del(k)
        PROVE  ListsInv' /\ StatusInv' /\ Grows
    <3> DEFINE i == preview[k].index + 1
    <3>1. i \in 1..fileNum /\ i - 1 = preview[k].index
      <4>1. preview \in Seq(Shown(Index))
        BY DEF UploadInv, ReadersInv
      <4>2. preview[k] \in Shown(Index)
        BY <4>1
      <4>3. preview[k].index \in Index
        BY <4>2 DEF Shown
      <4>4. QED
        BY <2>1, <4>3 DEF Index
    <3>2. /\ UNCHANGED <<perUploadFile, fileNum, finishDel, loaded>>
          /\ uploadFile' = funDeleteFile(i - 1)
          /\ status' = Len(uploadFile')
          /\ removed' = removed \cup {perUploadFile[i].id}
      BY <2>8, <3>1 DEF file_del
    <3>3. perUploadFile[i].id = i
      BY <2>1, <3>1 DEF Numbered
    <3> HIDE DEF i
    <3>4. ListsInv' /\ Len(uploadFile') \in 0..fileNum
      BY <2>5, <3>1, <3>2, <3>3
    <3>5. QED
      BY <2>1, <2>3, <2>4, <3>2, <3>4 DEF StatusInv, StatusCounts, Grows
  <2>9. ASSUME NEW f \in Range(perUploadFile), xhr_load(f)
        PROVE  ListsInv' /\ StatusInv' /\ Grows
    <3>1. PICK k \in 1..fileNum : f = perUploadFile[k]
      BY <2>1 DEF Range
    <3>2. f.id = k /\ f.index = k - 1
      BY <2>1, <3>1 DEF Numbered
    <3>3. /\ UNCHANGED <<perUploadFile, fileNum, finishDel, removed>>
          /\ uploadFile' = funDeleteFile(k - 1)
          /\ status' = IF finishDel THEN Len(uploadFile') ELSE status
          /\ loaded' = loaded \cup {k}
      BY <2>9, <3>2 DEF xhr_load, onSuccess
    <3>4. /\ ListsInv' /\ Len(uploadFile') \in 0..fileNum
          /\ Len(uploadFile') <= Len(uploadFile)
          /\ Len(uploadFile) - Len(uploadFile') = IF k \in D THEN 0 ELSE 1
      BY <2>5, <3>3
    <3>5. Cardinality(loaded') =
              IF k \in loaded THEN Cardinality(loaded) ELSE Cardinality(loaded) + 1
      BY <2>3, <3>3, FS_AddElement, Zenon
    <3>6. k \notin D => k \notin loaded
      OBVIOUS
    <3> HIDE DEF D
    <3>7. status' \in 0..fileNum /\ StatusCounts'
      <4>1. Cardinality(loaded') \in Nat
        BY <2>3, <3>5
      <4>2. CASE finishDel
        BY <3>3, <3>4, <4>1, <4>2 DEF StatusCounts
      <4>3. CASE ~finishDel
        <5>1. /\ status' = status /\ ~finishDel'
              /\ status >= Len(uploadFile) /\ status - Len(uploadFile) <= Cardinality(loaded)
          BY <2>4, <3>3, <4>3 DEF StatusCounts
        <5>2. status' >= Len(uploadFile')
          BY <2>4, <3>4, <5>1
        <5>3. status' - Len(uploadFile') <= Cardinality(loaded')
          BY <2>3, <2>4, <3>4, <3>5, <3>6, <5>1
        <5>4. QED
          BY <2>4, <5>1, <5>2, <5>3 DEF StatusCounts
      <4>4. QED
        BY <4>2, <4>3
    <3>8. QED
      BY <2>1, <2>4, <3>3, <3>4, <3>7 DEF StatusInv, Grows
  <2>10. QED
    <3>1. ASSUME NEW r \in reading, reader_onload(r) \/ reader_onload_Throws(r)
          PROVE  ListsInv' /\ StatusInv' /\ Grows
      BY <2>6, <3>1 DEF reader_onload, reader_onload_Throws, lists, answers
    <3>2. CASE funUploadFiles \/ upload_btn_Nothing \/ UNCHANGED vars
      BY <2>6, <3>2 DEF funUploadFiles, upload_btn_Nothing, lists, vars
    <3>3. ASSUME NEW f \in Range(perUploadFile), xhr_error(f)
          PROVE  ListsInv' /\ StatusInv' /\ Grows
      BY <2>6, <3>3 DEF xhr_error, lists
    <3>4. QED
      BY <2>7, <2>8, <2>9, <3>1, <3>2, <3>3 DEF Next
<1>Requests.
    (* The requests under way. *)
    ASSUME UploadInv, Next \/ UNCHANGED vars
    PROVE  RequestsInv'
  <2> USE <1>Requests
  <2>SumBounds.
      (* No file has more requests under way than all files together. *)
      ASSUME NEW f \in [Id -> Nat], NEW k \in Id
      PROVE  Sum(f) \in Nat /\ f[k] <= Sum(f)
    <3> USE <2>SumBounds
    <3> DEFINE n == MaxFiles
               step == [u \in (1..n) \X Nat |-> u[2] + f[u[1]]]
               body(g) == [i \in 0..n |-> IF i = 0 THEN 0 ELSE g[i - 1] + f[i]]
    <3>0. n \in Nat /\ \A i \in 1..n : f[i] \in Nat
      BY BoundsAssumption DEF Id
    <3>1. step \in [(1..n) \X Nat -> Nat]
      BY <3>0
    <3>2. \A i \in 1..n, t \in Nat : step[<<i, t>>] = t + f[i]
      OBVIOUS
    <3> HIDE DEF step
    <3>3. PICK g \in [0..n -> Nat] : Follows(g, n, 0, step)
      BY <3>0, <3>1, Recursion, Zenon
    <3>4. \A i \in 1..n : g[i] = g[i - 1] + f[i]
      <4>1. ASSUME NEW i \in 1..n PROVE g[i] = g[i - 1] + f[i]
        <5>1. g[i - 1] \in Nat /\ g[i] = step[<<i, g[i - 1]>>]
          BY <3>0, <3>3 DEF Follows
        <5>2. QED
          BY <3>2, <5>1
      <4>2. QED
        BY <4>1
    <3>5. g = body(g)
      BY <3>3, <3>4 DEF Follows
    <3> DEFINE q == CHOOSE h : h = body(h)
    <3>6. q = body(q)
      BY <3>5, Zenon
    <3>7. Sum(f) = q[n]
      BY DEF Sum
    <3> HIDE DEF q
    <3>8. q[0] = 0 /\ \A i \in 1..n : q[i] = q[i - 1] + f[i]
      BY <3>0, <3>6
    <3> DEFINE T == {m \in Nat : m <= n => q[m] \in Nat /\ \A i \in 1..m : f[i] <= q[m]}
    <3>9. 0 \in T
      BY <3>8
    <3>10. ASSUME NEW m \in Nat, m \in T
           PROVE  m + 1 \in T
      <4>1. CASE m + 1 <= n
        <5>1. m + 1 \in 1..n /\ (m + 1) - 1 = m /\ m <= n
          BY <3>0, <4>1
        <5>2. q[m] \in Nat /\ \A i \in 1..m : f[i] <= q[m]
          BY <3>10, <5>1
        <5>3. q[m + 1] = q[m] + f[m + 1] /\ f[m + 1] \in Nat
          BY <3>0, <3>8, <5>1
        <5>4. \A i \in 1..(m + 1) : f[i] <= q[m + 1]
          <6>1. ASSUME NEW i \in 1..(m + 1)
                PROVE  f[i] <= q[m + 1]
            <7>1. i \in 1..m \/ i = m + 1
              OBVIOUS
            <7>2. f[i] \in Nat
              BY <3>0, <5>1
            <7>3. QED
              BY <5>2, <5>3, <7>1, <7>2
          <6>2. QED
            BY <6>1
        <5>5. QED
          BY <5>2, <5>3, <5>4
      <4>2. QED
        BY <4>1
    <3>11. n \in T
      <4> HIDE DEF T, n
      <4> QED BY <3>0, <3>9, <3>10, Induction, Zenon
    <3>12. QED
      BY <3>0, <3>7, <3>11 DEF Id
  <2>1. xhr \in [Id -> 0..MaxXhr] /\ failed \in BOOLEAN /\ complete \in BOOLEAN /\ MaxXhr \in Nat
    BY BoundsAssumption DEF UploadInv, RequestsInv
  <2>2. ASSUME NEW f \in Range(perUploadFile)
        PROVE  f.id \in Id
    <3>1. Range(perUploadFile) \subseteq File
      BY DEF UploadInv, ListsInv, Numbered, Range
    <3>2. QED
      BY <3>1 DEF File
  <2>3. CASE funUploadFiles
    <3>1. xhr \in [Id -> Nat]
      BY <2>1
    <3>2. Len(uploadFile) \in Nat \ {0}
      <4>1. uploadFile \in Seq(File)
        BY WithoutLaws, Zenon DEF UploadInv, ListsInv, Remains
      <4>2. QED
        BY <2>3, <4>1, EmptySeq DEF funUploadFiles
    <3>3. ASSUME NEW i \in Id
          PROVE  xhr[i] + 1 \in 0..MaxXhr
      <4>1. Sum(xhr) \in Nat /\ xhr[i] <= Sum(xhr)
        BY <3>1, <2>SumBounds
      <4>2. Sum(xhr) + Len(uploadFile) <= MaxXhr
        BY <2>3 DEF funUploadFiles
      <4>3. QED
        BY <2>1, <3>1, <3>2, <4>1, <4>2
    <3>4. xhr' \in [Id -> 0..MaxXhr]
      BY <2>1, <2>3, <3>3 DEF funUploadFiles
    <3>5. QED
      BY <2>1, <2>3, <3>4 DEF funUploadFiles, RequestsInv
  <2>4. ASSUME NEW f \in Range(perUploadFile), xhr_load(f) \/ xhr_error(f)
        PROVE  RequestsInv'
    <3>1. xhr[f.id] \in 1..MaxXhr /\ xhr' = [xhr EXCEPT ![f.id] = xhr[f.id] - 1]
      BY <2>1, <2>2, <2>4 DEF xhr_load, xhr_error
    <3>2. xhr[f.id] - 1 \in 0..MaxXhr
      BY <2>1, <3>1
    <3>3. xhr' \in [Id -> 0..MaxXhr]
      BY <2>1, <2>2, <3>1, <3>2
    <3>4. failed' \in BOOLEAN /\ complete' \in BOOLEAN
      BY <2>1, <2>4, Zenon DEF xhr_load, xhr_error, onComplete
    <3>5. QED
      BY <3>3, <3>4 DEF RequestsInv
  <2>5. ASSUME UNCHANGED <<xhr, failed, complete>>
        PROVE  RequestsInv'
    BY <2>1, <2>5 DEF RequestsInv
  <2>6. QED
    <3>1. ASSUME NEW n \in 1..MaxBatch, NEW picks \in [1..n -> Pick], funGetFiles(picks)
          PROVE  RequestsInv'
      BY <2>1, <3>1, Zenon DEF funGetFiles, RequestsInv
    <3>2. ASSUME NEW r \in reading, reader_onload(r) \/ reader_onload_Throws(r)
          PROVE  RequestsInv'
      BY <2>5, <3>2 DEF reader_onload, reader_onload_Throws, answers
    <3>3. ASSUME NEW k \in DOMAIN preview, file_del(k)
          PROVE  RequestsInv'
      BY <2>5, <3>3 DEF file_del
    <3>4. CASE upload_btn_Nothing \/ UNCHANGED vars
      BY <2>5, <3>4 DEF upload_btn_Nothing, vars
    <3>5. QED
      BY <2>3, <2>4, <3>1, <3>2, <3>3, <3>4 DEF Next
<1>Readers.
    (* What readers and previews point to. *)
    ASSUME UploadInv, Next \/ UNCHANGED vars, ListsInv', Grows
    PROVE  ReadersInv'
  <2> USE <1>Readers
  <2> DEFINE T == Taken'
             I == Index'
  <2>1. /\ overlap \in BOOLEAN /\ file \in Taken \cup {NULL}
        /\ reading \subseteq Reader(Taken, Index)
        /\ \A r \in reading : r.i <= Len(r.sel)
        /\ preview \in Seq(Shown(Index))
    BY DEF UploadInv, ReadersInv, Reader, Shown
  <2>2. fileNum \in Nat /\ fileNum' \in Nat /\ fileNum <= fileNum'
    BY DEF UploadInv, ListsInv, Numbered, Grows
  <2>3. Taken \subseteq T /\ Index \subseteq I
    <3>1. ASSUME NEW x \in Index
          PROVE  x \in I
      <4>1. x \in Nat /\ x < fileNum
        BY <2>2 DEF Index
      <4>2. \A a, b \in Nat : a < b => a \in 0..(b - 1)
        OBVIOUS
      <4>4. x < fileNum'
        BY <2>2, <4>1
      <4>5. x \in 0..(fileNum' - 1)
        BY <2>2, <4>1, <4>2, <4>4, Zenon
      <4>3. QED
        BY <4>5 DEF Index
    <3>2. ASSUME NEW k \in 1..fileNum
          PROVE  perUploadFile[k] \in T
      <4>1. k \in 1..fileNum' /\ perUploadFile[k] = perUploadFile'[k]
        BY <2>2 DEF Grows
      <4>2. QED
        BY <4>1 DEF Taken
    <3> HIDE DEF T, I
    <3>3. QED
      BY <3>1, <3>2 DEF Taken
  <2>4. \A f \in Taken : f.index \in Index
    BY <2>2 DEF UploadInv, ListsInv, Numbered, Taken, Index
  (* What was a reader or an element before the step is one after it. *)
  <2>5. reading \subseteq Reader(T, I) /\ file \in T \cup {NULL} /\ preview \in Seq(Shown(I))
    <3> HIDE DEF T, I
    <3>1. Seq(Taken) \subseteq Seq(T) /\ Seq(Index) \subseteq Seq(I)
      BY <2>3
    <3>2. Reader(Taken, Index) \subseteq Reader(T, I)
      BY <3>1 DEF Reader
    <3>3. Shown(Index) \subseteq Shown(I)
      BY <2>3 DEF Shown
    <3>4. Seq(Shown(Index)) \subseteq Seq(Shown(I))
      BY <3>3
    <3>5. QED
      BY <2>1, <2>3, <3>2, <3>4
  <2>6. ReadersInv' <=> /\ overlap' \in BOOLEAN
                        /\ file' \in T \cup {NULL}
                        /\ reading' \subseteq Reader(T, I)
                        /\ \A r \in reading' : r.i <= Len(r.sel)
                        /\ preview' \in Seq(Shown(I))
    BY DEF ReadersInv, Reader, Shown
  <2>7. ASSUME NEW others \in SUBSET reading, NEW sel \in Seq(T), NEW i \in Nat \ {0},
               NEW html \in Seq(I), funDealtPreviewHtml(others, sel, i, html)
        PROVE  /\ file' \in T \cup {NULL}
               /\ reading' \subseteq Reader(T, I)
               /\ \A r \in reading' : r.i <= Len(r.sel)
               /\ preview' \in Seq(Shown(I))
    <3> HIDE DEF T, I
    <3>1. CASE i \in DOMAIN sel
      <4> DEFINE r == [sel |-> sel, i |-> i, html |-> html]
      <4>1. file' = sel[i] /\ reading' = others \cup {r} /\ preview' = preview
        BY <2>7, <3>1 DEF funDealtPreviewHtml
      <4>2. i \in 1..Len(sel) /\ sel[i] \in T /\ r \in Reader(T, I)
        BY <3>1 DEF Reader
      <4>3. r.i <= Len(r.sel)
        BY <4>2
      <4> HIDE DEF r
      <4>4. QED
        BY <2>1, <2>5, <4>1, <4>2, <4>3
    <3>2. CASE i \notin DOMAIN sel
      <4>1. file' = NULL /\ reading' = others /\ preview' = preview \o Elements(html)
        BY <2>7, <3>2 DEF funDealtPreviewHtml
      <4>2. preview \o Elements(html) \in Seq(Shown(I))
        BY <2>5, PreviewLaws
      <4>3. QED
        BY <2>1, <2>5, <4>1, <4>2
    <3>3. QED
      BY <3>1, <3>2
  <2>8. ASSUME NEW n \in 1..MaxBatch, NEW picks \in [1..n -> Pick], funGetFiles(picks)
        PROVE  ReadersInv'
    <3> DEFINE sel == Dealt(picks)
    <3>1. /\ Len(perUploadFile) + Len(sel) <= MaxFiles
          /\ perUploadFile' = perUploadFile \o sel
          /\ fileNum' = fileNum + Len(sel)
          /\ funDealtPreviewHtml(reading, sel, 1, <<>>)
          /\ overlap' = (overlap \/ reading # {})
      BY <2>8 DEF funGetFiles
    <3>2. n \in Nat
      BY BoundsAssumption
    <3>3. sel \in Seq(File)
      BY <3>1, <3>2, Selects DEF UploadInv
    <3> HIDE DEF sel
    <3>4. sel \in Seq(T)
      <4>1. perUploadFile \in Seq(File) /\ fileNum = Len(perUploadFile)
        BY DEF UploadInv, ListsInv, Numbered
      <4>2. ASSUME NEW k \in 1..Len(sel)
            PROVE  sel[k] \in T
        <5>1. fileNum + k \in 1..fileNum'
          BY <2>2, <3>1, <3>3
        <5>2. sel[k] = perUploadFile'[fileNum + k]
          BY <3>1, <3>3, <4>1
        <5>3. QED
          BY <5>1, <5>2 DEF Taken
      <4> HIDE DEF T
      <4>3. QED
        BY <3>3, <4>2
    <3>5. overlap' \in BOOLEAN
      BY <3>1, Zenon
    <3>6. <<>> \in Seq(I) /\ 1 \in Nat \ {0} /\ reading \in SUBSET reading
      OBVIOUS
    <3> HIDE DEF T, I
    <3>7. QED
      BY <2>6, <2>7, <3>1, <3>4, <3>5, <3>6, Zenon
  <2>9. ASSUME NEW r \in reading, reader_onload(r)
        PROVE  ReadersInv'
    <3> DEFINE html == Append(r.html, file.index)
               i == r.i + 1
               others == reading \ {r}
    <3>1. /\ file # NULL /\ funDealtPreviewHtml(others, r.sel, i, html)
          /\ overlap' = overlap
      BY <2>9 DEF reader_onload
    <3>2. file.index \in I
      BY <2>1, <2>3, <2>4, <3>1
    <3>3. r \in Reader(T, I)
      BY <2>5
    <3> HIDE DEF T, I
    <3>4. r.sel \in Seq(T) /\ r.i \in Nat \ {0} /\ r.html \in Seq(I)
      BY <3>3 DEF Reader
    <3>5. i \in Nat \ {0} /\ html \in Seq(I) /\ others \in SUBSET reading
      BY <3>2, <3>4
    <3> HIDE DEF html, i, others
    <3>6. QED
      BY <2>1, <2>6, <2>7, <3>1, <3>4, <3>5, Zenon
  <2>10. ASSUME UNCHANGED <<file, overlap>>, reading' \subseteq reading,
                preview' = preview \/ \E x : preview' = Hide(x)
         PROVE  ReadersInv'
    <3>1. preview' \in Seq(Shown(I))
      <4>1. \A x : Hide(x) \in Seq(Shown(I))
        BY <2>5, PreviewLaws DEF Shown
      <4>2. QED
        BY <2>5, <2>10, <4>1
    <3> HIDE DEF T, I
    <3>2. QED
      BY <2>1, <2>5, <2>6, <2>10, <3>1
  <2>11. QED
    <3>1. ASSUME NEW r \in reading, reader_onload_Throws(r)
          PROVE  ReadersInv'
      BY <2>10, <3>1 DEF reader_onload_Throws
    <3>2. ASSUME NEW k \in DOMAIN preview, file_del(k)
          PROVE  ReadersInv'
      BY <2>10, <3>2 DEF file_del
    <3>3. CASE funUploadFiles \/ upload_btn_Nothing \/ UNCHANGED vars
      BY <2>10, <3>3 DEF funUploadFiles, upload_btn_Nothing, vars
    <3>4. ASSUME NEW f \in Range(perUploadFile), xhr_load(f) \/ xhr_error(f)
          PROVE  ReadersInv'
      BY <2>10, <3>4 DEF xhr_load, xhr_error, onSuccess
    <3>5. QED
      BY <2>8, <2>9, <3>1, <3>2, <3>3, <3>4 DEF Next
<1>Order.
    (* The previews while selections do not overlap. *)
    ASSUME UploadInv, Next \/ UNCHANGED vars, ListsInv', ReadersInv', Grows
    PROVE  OrderInv'
  <2> USE <1>Order
  <2> DEFINE n == Len(preview)
             S == Shown(Index)
  <2>0. /\ preview \in Seq(S) /\ n \in Nat /\ fileNum \in Nat /\ fileNum = Len(perUploadFile)
        /\ perUploadFile \in Seq(File)
        /\ \A k \in 1..fileNum : perUploadFile[k].index = k - 1
    <3>1. preview \in Seq(S)
      BY DEF UploadInv, ReadersInv, Shown
    <3> HIDE DEF S
    <3>2. QED
      BY <3>1 DEF UploadInv, ListsInv, Numbered
  <2>1. SUFFICES ASSUME ~overlap'
                 PROVE  /\ Len(preview') <= fileNum'
                        /\ \A k \in 1..Len(preview') : preview'[k].index = k - 1
                        /\ reading' = {} => Len(preview') = fileNum'
                        /\ \A r \in reading' : reading' = {r} /\ InTurn(r)'
    BY DEF OrderInv
  <2>2. ASSUME ~overlap
        PROVE  /\ n <= fileNum
               /\ \A k \in 1..n : preview[k].index = k - 1
               /\ reading = {} => n = fileNum
               /\ \A r \in reading : reading = {r} /\ InTurn(r)
    BY <2>2 DEF UploadInv, OrderInv
  (* A step that leaves the number of elements and their indices alone. *)
  <2>3. ASSUME UNCHANGED <<perUploadFile, fileNum, file, reading, overlap>>,
               Len(preview') = n, \A k \in 1..n : preview'[k].index = preview[k].index
        PROVE  OrderInv'
    <3>1. ASSUME NEW r, InTurn(r)
          PROVE  InTurn(r)'
      BY <2>3, <3>1 DEF InTurn
    <3>2. QED
      BY <2>1, <2>2, <2>3, <3>1 DEF OrderInv
  <2>4. ASSUME UNCHANGED <<perUploadFile, fileNum, file, reading, overlap>>,
               preview' = preview \/ \E x : preview' = Hide(x)
        PROVE  OrderInv'
    <3>1. Len(preview') = n /\ \A k \in 1..n : preview'[k].index = preview[k].index
      <4>1. CASE preview' = preview
        BY <4>1
      <4>2. ASSUME NEW x, preview' = Hide(x)
            PROVE  Len(preview') = n /\ \A k \in 1..n : preview'[k].index = preview[k].index
        BY <2>0, <4>2, PreviewLaws, Zenon DEF Shown
      <4>3. QED
        BY <2>4, <4>1, <4>2
    <3>2. QED
      BY <2>3, <2>4, <3>1
  <2>5. ASSUME NEW m \in 1..MaxBatch, NEW picks \in [1..m -> Pick], funGetFiles(picks)
        PROVE  OrderInv'
    <3> DEFINE sel == Dealt(picks)
               r == [sel |-> sel, i |-> 1, html |-> <<>>]
    <3>1. /\ Len(perUploadFile) + Len(sel) <= MaxFiles
          /\ perUploadFile' = perUploadFile \o sel
          /\ fileNum' = fileNum + Len(sel)
          /\ funDealtPreviewHtml(reading, sel, 1, <<>>)
          /\ overlap' = (overlap \/ reading # {})
      BY <2>5 DEF funGetFiles
    <3>2. sel \in Seq(File)
      <4>1. m \in Nat
        BY BoundsAssumption
      <4>2. QED
        BY <3>1, <4>1, Selects DEF UploadInv
    <3>3. ~overlap /\ reading = {} /\ n = fileNum
      BY <2>1, <2>2, <3>1, Zenon
    <3> HIDE DEF sel
    <3>4. CASE 1 \in DOMAIN sel
      <4>1. file' = sel[1] /\ reading' = {r} /\ preview' = preview
        BY <3>1, <3>3, <3>4 DEF funDealtPreviewHtml
      <4>2. ASSUME NEW q \in reading'
            PROVE  reading' = {q} /\ InTurn(q)'
        <5>1. q = r
          BY <4>1
        <5>2. q.sel = sel /\ q.i = 1 /\ q.html = <<>> /\ Len(q.html) = 0
          BY <5>1
        <5> HIDE DEF r
        <5>3. /\ Len(preview') = fileNum /\ file' = q.sel[q.i]
              /\ fileNum + Len(q.sel) = fileNum'
          BY <3>1, <3>3, <4>1, <5>2
        <5>4. \A j \in 1..Len(q.sel) : q.sel[j] = perUploadFile'[fileNum + j]
          BY <2>0, <3>1, <3>2, <5>2
        <5>5. QED
          BY <4>1, <5>1, <5>2, <5>3, <5>4 DEF InTurn
      <4>3. n <= fileNum' /\ Len(sel) \in Nat
        BY <2>0, <3>1, <3>2, <3>3
      <4> HIDE DEF r
      <4>4. QED
        BY <2>2, <3>3, <4>1, <4>2, <4>3 DEF OrderInv
    <3>5. CASE 1 \notin DOMAIN sel
      <4>1. reading' = {} /\ preview' = preview \o Elements(<<>>)
        BY <3>1, <3>3, <3>5 DEF funDealtPreviewHtml
      <4>2. Len(sel) = 0
        BY <3>2, <3>5
      <4>3. Len(preview') = n /\ \A k \in 1..n : preview'[k] = preview[k]
        <5>1. <<>> \in Seq(Index) /\ Len(<<>>) = 0
          OBVIOUS
        <5>2. /\ Len(preview \o Elements(<<>>)) = n + 0
              /\ \A k \in 1..n : (preview \o Elements(<<>>))[k] = preview[k]
          BY <2>0, <5>1, PreviewLaws, Zenon
        <5>3. QED
          BY <2>0, <4>1, <5>2
      <4>4. fileNum' = fileNum
        BY <2>0, <3>1, <4>2
      <4>5. QED
        BY <2>0, <2>2, <3>3, <4>1, <4>3, <4>4 DEF OrderInv
    <3>6. QED
      BY <3>4, <3>5
  <2>6. ASSUME NEW r \in reading, reader_onload(r)
        PROVE  OrderInv'
    <3> DEFINE html == Append(r.html, file.index)
               i == r.i + 1
               q == [sel |-> r.sel, i |-> i, html |-> html]
    <3>1. /\ funDealtPreviewHtml(reading \ {r}, r.sel, i, html)
          /\ UNCHANGED <<perUploadFile, fileNum, overlap>>
      BY <2>6 DEF reader_onload, lists
    <3>2. reading = {r} /\ InTurn(r)
      BY <2>1, <2>2, <3>1
    <3>3. /\ r.sel \in Seq(Taken) /\ r.i \in Nat \ {0} /\ r.html \in Seq(Index) /\ r.i <= Len(r.sel)
      BY DEF UploadInv, ReadersInv, Reader
    <3>4. /\ n + Len(r.sel) = fileNum
          /\ \A j \in 1..Len(r.sel) : r.sel[j] = perUploadFile[n + j]
          /\ Len(r.html) = r.i - 1
          /\ \A j \in 1..Len(r.html) : r.html[j] = n + j - 1
          /\ file = r.sel[r.i]
      BY <3>2 DEF InTurn
    <3>5. file.index = n + r.i - 1 /\ file.index \in Index
      <4>1. r.i \in 1..Len(r.sel) /\ n + r.i \in 1..fileNum
        BY <2>0, <3>3, <3>4, SMTT(30)
      <4>2. file = perUploadFile[n + r.i]
        BY <3>4, <4>1
      <4>3. file.index = (n + r.i) - 1
        BY <2>0, <4>1, <4>2
      <4>4. (n + r.i) - 1 = n + r.i - 1 /\ (n + r.i) - 1 \in Index
        BY <2>0, <3>3, <4>1 DEF Index
      <4>5. QED
        BY <4>3, <4>4
    <3>6. /\ html \in Seq(Index) /\ Len(html) = r.i
          /\ \A j \in 1..Len(html) : html[j] = n + j - 1
      <4> DEFINE x == file.index
      <4> HIDE DEF x
      <4>1. x \in Index /\ x = n + r.i - 1
        BY <3>5 DEF x
      <4> HIDE DEF n
      <4>2. /\ Append(r.html, x) \in Seq(Index) /\ Len(Append(r.html, x)) = r.i
            /\ \A j \in 1..(r.i - 1) : Append(r.html, x)[j] = r.html[j]
            /\ Append(r.html, x)[r.i] = x
        BY <3>3, <3>4, <4>1
      <4>3. ASSUME NEW j \in 1..r.i
            PROVE  Append(r.html, x)[j] = n + j - 1
        <5>1. CASE j = r.i
          BY <4>1, <4>2, <5>1
        <5>2. CASE j # r.i
          <6>1. j \in 1..(r.i - 1)
            BY <3>3, <5>2
          <6>2. QED
            BY <3>4, <4>2, <6>1
        <5>3. QED
          BY <5>1, <5>2, Zenon
      <4>4. QED
        BY <4>2, <4>3 DEF x
    <3> HIDE DEF html
    <3>7. CASE i \in DOMAIN r.sel
      <4>1. file' = r.sel[i] /\ reading' = {q} /\ preview' = preview
        BY <3>1, <3>2, <3>7 DEF funDealtPreviewHtml
      <4>2. q.sel = r.sel /\ q.i = i /\ q.html = html
        OBVIOUS
      <4>3. i - 1 = r.i
        BY <3>3
      <4> HIDE DEF q, i
      <4>4. ASSUME NEW p \in reading'
            PROVE  reading' = {p} /\ InTurn(p)'
        <5>1. p = q /\ p.sel = r.sel /\ p.i = i /\ p.html = html
          BY <4>1, <4>2
        <5>2. /\ n = Len(preview') /\ Len(p.html) = p.i - 1 /\ file' = p.sel[p.i]
              /\ \A j \in 1..Len(p.html) : p.html[j] = n + j - 1
          BY <3>6, <4>1, <4>3, <5>1
        <5>3. /\ n + Len(p.sel) = fileNum'
              /\ \A j \in 1..Len(p.sel) : p.sel[j] = perUploadFile'[n + j]
          BY <3>1, <3>4, <5>1
        <5> HIDE DEF n
        <5>4. InTurn(p)'
          BY <5>2, <5>3 DEF InTurn
        <5>5. QED
          BY <4>1, <5>1, <5>4
      <4>5. QED
        BY <2>1, <2>2, <3>1, <4>1, <4>4 DEF OrderInv
    <3>8. CASE i \notin DOMAIN r.sel
      <4>1. reading' = {} /\ preview' = preview \o Elements(html)
        BY <3>1, <3>2, <3>8 DEF funDealtPreviewHtml
      <4>2. r.i = Len(r.sel)
        <5>1. DOMAIN r.sel = 1..Len(r.sel)
          BY <3>3
        <5>2. QED
          BY <3>3, <3>8, <5>1
      <4>3. /\ Len(preview') = n + r.i
            /\ \A k \in 1..n : preview'[k] = preview[k]
            /\ \A k \in 1..r.i : preview'[n + k].index = html[k]
        <5>1. /\ Len(preview \o Elements(html)) = n + Len(html)
              /\ \A k \in 1..n : (preview \o Elements(html))[k] = preview[k]
              /\ \A k \in 1..Len(html) : (preview \o Elements(html))[n + k].index = html[k]
          BY <2>0, <3>6, PreviewLaws, Zenon
        <5>2. QED
          BY <3>6, <4>1, <5>1
      <4>4. Len(preview') = fileNum'
        BY <3>1, <3>4, <4>2, <4>3
      <4>5. ASSUME NEW k \in 1..Len(preview')
            PROVE  preview'[k].index = k - 1
        <5>1. CASE k \in 1..n
          BY <2>1, <2>2, <3>1, <4>3, <5>1
        <5>2. CASE k \notin 1..n
          <6>1. k - n \in 1..r.i /\ n + (k - n) = k
            BY <2>0, <3>3, <4>3, <5>2
          <6>2. preview'[n + (k - n)].index = html[k - n]
            BY <4>3, <6>1
          <6>3. html[k - n] = n + (k - n) - 1
            BY <3>6, <6>1
          <6>4. QED
            BY <6>1, <6>2, <6>3
        <5>3. QED
          BY <5>1, <5>2
      <4>6. fileNum' \in Nat
        BY <2>0, <3>1
      <4>7. QED
        BY <4>1, <4>4, <4>5, <4>6 DEF OrderInv
    <3>9. QED
      BY <3>7, <3>8
  (* Without overlap the variable names a file whenever a reader ends. *)
  <2>7. ASSUME NEW r \in reading, reader_onload_Throws(r)
        PROVE  FALSE
    <3>1. file = NULL /\ overlap' = overlap
      BY <2>7 DEF reader_onload_Throws
    <3>2. file = r.sel[r.i]
      BY <2>1, <2>2, <3>1 DEF InTurn
    <3>3. r.sel \in Seq(Taken) /\ r.i \in Nat \ {0} /\ r.i <= Len(r.sel)
      BY DEF UploadInv, ReadersInv, Reader
    <3>4. r.sel[r.i] \in Taken
      BY <3>3
    <3>5. Taken \subseteq File
      BY <2>0 DEF Taken
    <3>6. QED
      BY <3>1, <3>2, <3>4, <3>5, NullAssumption
  <2>8. OrderInv'
    <3>1. ASSUME NEW k \in DOMAIN preview, file_del(k)
          PROVE  OrderInv'
      BY <2>4, <3>1 DEF file_del
    <3>2. CASE funUploadFiles \/ upload_btn_Nothing \/ UNCHANGED vars
      BY <2>4, <3>2 DEF funUploadFiles, upload_btn_Nothing, vars, lists
    <3>3. ASSUME NEW f \in Range(perUploadFile), xhr_load(f) \/ xhr_error(f)
          PROVE  OrderInv'
      BY <2>4, <3>3 DEF xhr_load, xhr_error, onSuccess, lists
    <3>4. QED
      BY <2>5, <2>6, <2>7, <3>1, <3>2, <3>3 DEF Next
  <2>9. QED
    BY <2>1, <2>8 DEF OrderInv
<1>1. Init => UploadInv
  <2> SUFFICES ASSUME Init PROVE UploadInv
    OBVIOUS
  <2>1. /\ uploadFile = <<>> /\ perUploadFile = <<>> /\ fileNum = 0 /\ finishDel \in BOOLEAN
        /\ file = NULL /\ reading = {} /\ preview = <<>> /\ status = 0
        /\ xhr = [i \in Id |-> 0] /\ loaded = {} /\ removed = {} /\ failed = FALSE
        /\ complete = FALSE /\ overlap = FALSE
    BY DEF Init
  <2>2. MaxFiles \in Nat /\ 0 \in 0..MaxXhr /\ Len(<<>>) = 0
    BY BoundsAssumption
  <2>3. ListsInv
    <3>1. Without(perUploadFile, loaded \cup removed) = <<>>
      BY <2>1, OmitSteps DEF OneByOne, Without
    <3>2. QED
      BY <2>1, <2>2, <3>1 DEF ListsInv, Numbered
  <2>4. StatusInv
    BY <2>1, <2>2, FS_EmptySet DEF StatusInv, StatusCounts
  <2>5. RequestsInv
    BY <2>1, <2>2, Zenon DEF RequestsInv
  <2>6. ReadersInv
    <3>1. preview \in Seq(Shown(Index))
      BY <2>1
    <3>2. QED
      BY <2>1, <3>1, Zenon DEF ReadersInv
  <2>7. OrderInv
    BY <2>1, <2>2 DEF OrderInv
  <2>8. QED
    BY <2>3, <2>4, <2>5, <2>6, <2>7 DEF UploadInv
<1>2. UploadInv /\ [Next]_vars => UploadInv'
  <2> SUFFICES ASSUME UploadInv, Next \/ UNCHANGED vars PROVE UploadInv'
    OBVIOUS
  <2>1. ListsInv' /\ StatusInv' /\ Grows
    BY <1>Lists
  <2>2. RequestsInv'
    BY <1>Requests
  <2>3. ReadersInv'
    BY <2>1, <1>Readers
  <2>4. OrderInv'
    BY <2>1, <2>3, <1>Order
  <2>5. QED
    BY <2>1, <2>2, <2>3, <2>4 DEF UploadInv
<1>3. QED
  BY <1>1, <1>2, PTL DEF Spec

(* The variables of the page keep their types; in particular an index of a  *)
(* preview and of a file stays within the files that were taken over.       *)
THEOREM TypeCorrect == Spec => []TypeOK
<1>1. UploadInv => TypeOK
  <2> SUFFICES ASSUME UploadInv PROVE TypeOK
    OBVIOUS
  <2>1. /\ perUploadFile \in Seq(File) /\ fileNum = Len(perUploadFile) /\ fileNum <= MaxFiles
        /\ fileNum \in Nat /\ MaxFiles \in Nat
        /\ loaded \cup removed \subseteq 1..fileNum
        /\ uploadFile \in Seq(File)
    <3>1. Numbered(perUploadFile) /\ uploadFile = Without(perUploadFile, loaded \cup removed)
      BY DEF UploadInv, ListsInv
    <3>2. uploadFile \in Seq(File)
      BY <3>1, WithoutLaws, Zenon DEF Remains
    <3>3. QED
      BY <3>2, BoundsAssumption DEF UploadInv, ListsInv, Numbered
  <2>2. ASSUME NEW S, NEW s \in Seq(S)
        PROVE  Range(s) \subseteq S
    BY DEF Range
  <2>3. Range(uploadFile) \cup Range(perUploadFile) \subseteq File
    BY <2>1, <2>2
  <2>4. Taken \subseteq File /\ Index \subseteq 0..(MaxFiles - 1)
    <3>1. \A a, b, c \in Nat : a \in 0..(b - 1) /\ b <= c => a \in 0..(c - 1)
      OBVIOUS
    <3>2. ASSUME NEW x \in Index
          PROVE  x \in 0..(MaxFiles - 1)
      <4>1. x \in Nat /\ x \in 0..(fileNum - 1)
        BY <2>1 DEF Index
      <4>2. QED
        BY <2>1, <3>1, <4>1
    <3>3. Taken \subseteq File
      BY <2>1 DEF Taken
    <3>4. QED
      BY <3>2, <3>3
  <2>5. file \in File \cup {NULL}
    BY <2>4 DEF UploadInv, ReadersInv
  <2>6. ASSUME NEW r \in reading
        PROVE  /\ Range(r.sel) \subseteq File
               /\ r.i \in DOMAIN r.sel
               /\ Range(r.html) \subseteq 0..(MaxFiles - 1)
    <3>1. r.sel \in Seq(Taken) /\ r.i \in Nat \ {0} /\ r.html \in Seq(Index) /\ r.i <= Len(r.sel)
      BY DEF UploadInv, ReadersInv, Reader
    <3>2. Range(r.sel) \subseteq Taken /\ Range(r.html) \subseteq Index
      BY <2>2, <3>1
    <3>3. r.i \in DOMAIN r.sel
      BY <3>1
    <3>4. QED
      BY <2>4, <3>2, <3>3, Zenon
  <2>7. \A e \in Range(preview) : e \in [index : 0..(MaxFiles - 1), shown : BOOLEAN]
    <3>1. Range(preview) \subseteq Shown(Index)
      BY <2>2 DEF UploadInv, ReadersInv
    <3>2. QED
      BY <2>4, <3>1, Zenon DEF Shown
  <2>8. /\ status \in 0..fileNum /\ finishDel \in BOOLEAN
        /\ complete \in BOOLEAN /\ overlap \in BOOLEAN
        /\ xhr \in [Id -> 0..MaxXhr] /\ failed \in BOOLEAN
    BY DEF UploadInv, StatusInv, ReadersInv, RequestsInv
  <2>9. {loaded, removed} \subseteq SUBSET Id /\ status \in 0..MaxFiles /\ fileNum \in 0..MaxFiles
    BY <2>1, <2>8 DEF Id
  <2>10. QED
    BY <2>3, <2>5, <2>6, <2>7, <2>8, <2>9 DEF TypeOK
<1>2. QED
  BY <1>1, UploadAlways, PTL

(* uploadFile is what funDealtFiles took over without what funDeleteFile    *)
(* took out, in order, and every index finds its own file, however          *)
(* selections, removals and answers mix.                                    *)
THEOREM FilesAccountedHolds == Spec => []FilesAccounted
<1>1. UploadInv => FilesAccounted
  BY DEF UploadInv, ListsInv, Numbered, Without, FilesAccounted
<1>2. QED
  BY <1>1, UploadAlways, PTL

(* The number funSetStatusInfo shows is exact with finishDel and otherwise  *)
(* too high by at most the number of files that were uploaded.              *)
THEOREM StatusCountsHolds == Spec => []StatusCounts
<1>1. UploadInv => StatusCounts
  BY DEF UploadInv, StatusInv
<1>2. QED
  BY <1>1, UploadAlways, PTL

(* As long as no selection is made while readers are at work, the shared    *)
(* variable file names the file each reader reads, and funDealtPreviewHtml  *)
(* composes the previews of all the files, in their order.                  *)
THEOREM PreviewInOrderHolds == Spec => []PreviewInOrder
<1>1. UploadInv => PreviewInOrder
  <2> SUFFICES ASSUME UploadInv, ~overlap
               PROVE  /\ reading = {} => Len(preview) = Len(perUploadFile)
                      /\ \A k \in DOMAIN preview : preview[k].index = perUploadFile[k].index
    BY DEF PreviewInOrder
  <2>1. /\ fileNum = Len(perUploadFile) /\ fileNum \in Nat
        /\ \A k \in 1..fileNum : perUploadFile[k].index = k - 1
        /\ Len(preview) <= fileNum
        /\ \A k \in 1..Len(preview) : preview[k].index = k - 1
        /\ reading = {} => Len(preview) = fileNum
    BY DEF UploadInv, ListsInv, Numbered, OrderInv
  <2>2. DOMAIN preview = 1..Len(preview) /\ Len(preview) \in Nat
    BY DEF UploadInv, ReadersInv
  <2>3. ASSUME NEW k \in DOMAIN preview
        PROVE  preview[k].index = perUploadFile[k].index
    <3>1. Len(preview) <= fileNum /\ fileNum \in Nat
      BY <2>1
    <3>2. k \in 1..Len(preview)
      BY <2>2, Zenon
    <3>3. k \in 1..fileNum
      BY <2>2, <3>1, <3>2
    <3>4. QED
      BY <2>1, <3>2, <3>3
  <2>4. QED
    BY <2>1, <2>3
<1>2. QED
  BY <1>1, UploadAlways, PTL

(* funUploadFiles never makes a request for a file whose request was        *)
(* answered or that the user removed.                                       *)
THEOREM NeverResentHolds == Spec => NeverResent
<1> DEFINE P == \A i \in Id : xhr'[i] > xhr[i] => i \notin loaded \cup removed
<1>1. UploadInv /\ [Next]_vars => [P]_vars
  <2> SUFFICES ASSUME UploadInv, Next PROVE P
    OBVIOUS
  <2> SUFFICES ASSUME NEW i \in Id, xhr'[i] > xhr[i]
               PROVE  i \notin loaded \cup removed
    OBVIOUS
  <2>1. xhr \in [Id -> 0..MaxXhr] /\ MaxXhr \in Nat
    BY BoundsAssumption DEF UploadInv, RequestsInv
  <2>2. xhr[i] \in Nat /\ xhr' # xhr
    BY <2>1
  <2>3. CASE funUploadFiles
    <3>1. i \in Ids(uploadFile)
      BY <2>1, <2>2, <2>3 DEF funUploadFiles
    <3>2. PICK f \in Range(uploadFile) : f.id = i
      BY <3>1 DEF Ids
    <3>3. Range(uploadFile) = {perUploadFile[k] : k \in (1..fileNum) \ (loaded \cup removed)}
      BY WithoutLaws, Zenon DEF UploadInv, ListsInv, Remains
    <3>4. \A k \in 1..fileNum : perUploadFile[k].id = k
      BY DEF UploadInv, ListsInv, Numbered
    <3>5. QED
      BY <3>2, <3>3, <3>4
  <2>4. ASSUME NEW f \in Range(perUploadFile), xhr_load(f) \/ xhr_error(f)
        PROVE  FALSE
    <3>1. xhr[f.id] > 0 /\ xhr' = [xhr EXCEPT ![f.id] = xhr[f.id] - 1]
      BY <2>4 DEF xhr_load, xhr_error
    <3>2. CASE i = f.id
      BY <2>1, <2>2, <3>1, <3>2
    <3>3. CASE i # f.id
      BY <2>1, <2>2, <3>1, <3>3
    <3>4. QED
      BY <3>2, <3>3
  <2>5. QED
    BY <2>2, <2>3, <2>4, Zenon DEF Next, funGetFiles, reader_onload, reader_onload_Throws, answers,
                            file_del, upload_btn_Nothing, vars
<1>2. QED
  BY <1>1, UploadAlways, PTL DEF Spec, NeverResent

=============================================================================
