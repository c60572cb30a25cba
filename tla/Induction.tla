------------------------------ MODULE Induction ------------------------------
(***************************************************************************)
(* Induction over the natural numbers as a statement about sets, which     *)
(* needs no operator as a parameter.  It follows from the pigeonhole       *)
(* principle: were n outside a set that holds 0 and is closed under        *)
(* successor, the successor would map the part of the set up to n into     *)
(* that part without 0, one element fewer, and not twice to the same.      *)
(* With it, what FlattenSeq makes of a sequence of sequences.              *)
(***************************************************************************)
EXTENDS Integers, FiniteSets, SequencesExt, FiniteSetTheorems, SequenceTheorems, TLAPS

\* A set that holds 0 and the successor of each of its elements is Nat: what the
\* proofs about values defined by recursion (the exponential of retry_delay_v1)
\* use.
LEMMA SetInduction ==
  ASSUME NEW S \in SUBSET Nat, 0 \in S, \A n \in S : n + 1 \in S
  PROVE  S = Nat
  <1>1. SUFFICES ASSUME NEW n \in Nat, n \notin S
                 PROVE  FALSE
    OBVIOUS
  <1> DEFINE A == (0..n) \cap S
             B == A \ {0}
             f == [x \in A |-> x + 1]
  <1>2. IsFiniteSet(0..n) 
    BY FS_Interval
  <1>3. A \subseteq 0..n /\ 0 \in A /\ A \subseteq S
    OBVIOUS
  <1>4. ASSUME NEW x \in A PROVE x + 1 \in B
    <2>1. x \in Nat /\ x <= n /\ x \in S
      OBVIOUS
    <2>2. x # n
      BY <1>1, <2>1
    <2>3. x + 1 \in S /\ x + 1 \in 0..n /\ x + 1 # 0
      BY <2>1, <2>2
    <2>4. QED BY <2>3
  <1>5. f \in [A -> B]
    BY <1>4
  <1>6. \A x, y \in A : f[x] = f[y] => x = y
    OBVIOUS
  <1> HIDE DEF A, f
  <1>7. IsFiniteSet(A)
    BY <1>2, <1>3, FS_Subset
  <1>8. IsFiniteSet(B) /\ Cardinality(B) = Cardinality(A) - 1 /\ Cardinality(A) \in Nat
    BY <1>3, <1>7, FS_RemoveElement, FS_CardinalityType
  <1> HIDE DEF B
  <1>9. Cardinality(B) < Cardinality(A)
    BY <1>8
  <1>10. \E x, y \in A : x # y /\ f[x] = f[y]
    BY <1>5, <1>7, <1>8, <1>9, FS_PigeonHole
  <1>11. QED BY <1>6, <1>10

\* A set of numbers that is not empty has a least one.
LEMMA Smallest ==
  ASSUME NEW D \in SUBSET Nat, NEW d \in D
  PROVE  \E k \in D : \A j \in D : k <= j
  <1> SUFFICES ASSUME \A k \in D : \E j \in D : j < k
               PROVE  FALSE
    OBVIOUS
  <1> DEFINE S == {n \in Nat : \A j \in 0..n : j \notin D}
  <1>1. 0 \in S
    OBVIOUS
  <1>2. ASSUME NEW n \in S PROVE n + 1 \in S
    <2>1. n \in Nat /\ \A j \in 0..n : j \notin D
      OBVIOUS
    <2>2. n + 1 \notin D
      BY <2>1
    <2>3. \A j \in 0..(n + 1) : j \in 0..n \/ j = n + 1
      BY <2>1
    <2>4. QED BY <2>1, <2>2, <2>3
  <1>3. S \in SUBSET Nat
    OBVIOUS
  <1> HIDE DEF S
  <1>4. d \in S
    BY <1>1, <1>2, <1>3, SetInduction
  <1>5. QED BY <1>4 DEF S

\* In a finite set with a strict total order every place below its size is that
\* of some element, and places follow the order: how the rows of a manifest are
\* numbered, and why leaves that are left have a first one.
LEMMA Ranks ==
  ASSUME NEW S, IsFiniteSet(S), NEW R,
         \A a \in S : <<a, a>> \notin R,
         \A a, b, c \in S : <<a, b>> \in R /\ <<b, c>> \in R => <<a, c>> \in R,
         \A a, b \in S : a = b \/ <<a, b>> \in R \/ <<b, a>> \in R
  PROVE  /\ \A r \in S : Cardinality({s \in S : <<s, r>> \in R}) \in 0..(Cardinality(S) - 1)
         /\ \A k \in 0..(Cardinality(S) - 1) :
              \E r \in S : Cardinality({s \in S : <<s, r>> \in R}) = k
         /\ \A a, b \in S :
              <<a, b>> \in R =>
                Cardinality({s \in S : <<s, a>> \in R}) < Cardinality({s \in S : <<s, b>> \in R})
  <1> DEFINE Below(r) == {s \in S : <<s, r>> \in R}
             rank == [r \in S |-> Cardinality(Below(r))]
             n == Cardinality(S)
  <1>1. n \in Nat
    BY FS_CardinalityType
  <1>2. ASSUME NEW r \in S
        PROVE  IsFiniteSet(Below(r)) /\ Cardinality(Below(r)) \in 0..(n - 1)
    <2>1. Below(r) \subseteq S /\ Below(r) # S
      OBVIOUS
    <2>2. IsFiniteSet(Below(r)) /\ Cardinality(Below(r)) <= n /\ Cardinality(Below(r)) # n
      BY <2>1, FS_Subset
    <2>3. Cardinality(Below(r)) \in Nat
      BY <2>2, FS_CardinalityType
    <2>4. QED BY <1>1, <2>2, <2>3
  <1>3. ASSUME NEW a \in S, NEW b \in S, <<a, b>> \in R
        PROVE  Cardinality(Below(a)) < Cardinality(Below(b))
    <2>1. Below(a) \subseteq Below(b) /\ a \in Below(b) /\ a \notin Below(a)
      BY <1>3
    <2>2. IsFiniteSet(Below(b)) /\ Below(a) # Below(b)
      BY <1>2, <2>1
    <2>3. Cardinality(Below(a)) <= Cardinality(Below(b)) /\ Cardinality(Below(a)) # Cardinality(Below(b))
      BY <2>1, <2>2, FS_Subset
    <2>4. Cardinality(Below(a)) \in 0..(n - 1) /\ Cardinality(Below(b)) \in 0..(n - 1)
      BY <1>2
    <2>5. QED BY <1>1, <2>3, <2>4
  <1>4. rank \in [S -> 0..(n - 1)]
    BY <1>2
  <1>5. \A a, b \in S : rank[a] = rank[b] => a = b
    <2> SUFFICES ASSUME NEW a \in S, NEW b \in S, rank[a] = rank[b], a # b
                 PROVE  FALSE
      OBVIOUS
    <2>1. rank[a] \in Int /\ rank[b] \in Int
      BY <1>4
    <2>2. rank[a] < rank[b] \/ rank[b] < rank[a]
      BY <1>3
    <2>3. QED BY <2>1, <2>2
  <1>6. rank \in Injection(S, 0..(n - 1))
    BY <1>4, <1>5 DEF Injection, IsInjective
  <1>7. IsFiniteSet(0..(n - 1)) /\ Cardinality(0..(n - 1)) = n
    <2>1. 0 \in Int /\ n - 1 \in Int
      BY <1>1
    <2>2. QED BY <1>1, <2>1, FS_Interval
  <1>8. rank \in Surjection(S, 0..(n - 1))
    BY <1>6, <1>7, FS_Injection
  <1>9. \A k \in 0..(n - 1) : \E r \in S : rank[r] = k
    BY <1>8 DEF Surjection
  <1>10. QED BY <1>2, <1>3, <1>9

-----------------------------------------------------------------------------
(***************************************************************************)
(* Concatenations.                                                         *)
(***************************************************************************)
\* A flattened sequence is the last of any sequence of concatenations.
Concatenates(s, f, n) ==
  n \in Nat /\ n = Len(s) /\ n > 0 /\ f[1] = s[1] /\ \A i \in 2..n : f[i] = f[i - 1] \o s[i]

LEMMA FlattenedIs ==
  ASSUME NEW s, NEW f, NEW n, Concatenates(s, f, n)
  PROVE  FlattenSeq(s) = f[n]
  <1> USE DEF Concatenates
  <1> DEFINE Follows(e) == e = [i \in 1..n |-> IF i = 1 THEN s[i] ELSE e[i - 1] \o s[i]]
             g == CHOOSE e : Follows(e)
             h == [i \in 1..n |-> f[i]]
  <1>1. FlattenSeq(s) = g[n]
    BY DEF FlattenSeq
  <1>2. Follows(h)
    <2>1. \A i \in 1..n : h[i] = f[i]
      OBVIOUS
    <2>2. ASSUME NEW i \in 1..n
          PROVE  f[i] = IF i = 1 THEN s[i] ELSE h[i - 1] \o s[i]
      <3>1. CASE i = 1
        BY <3>1
      <3>2. CASE i # 1
        <4>1. i \in 2..n /\ i - 1 \in 1..n
          BY <3>2
        <4>2. h[i - 1] = f[i - 1]
          BY <2>1, <4>1
        <4> HIDE DEF h
        <4>3. QED BY <3>2, <4>1, <4>2
      <3>3. QED BY <3>1, <3>2
    <2>3. h = [i \in 1..n |-> IF i = 1 THEN s[i] ELSE h[i - 1] \o s[i]]
      BY <2>2
    <2>4. QED BY <2>3
  <1> HIDE DEF h
  <1>3. Follows(g)
    BY <1>2
  <1> HIDE DEF g
  <1>4. g[1] = s[1] /\ \A i \in 2..n : g[i] = g[i - 1] \o s[i]
    <2>1. \A i \in 1..n : g[i] = IF i = 1 THEN s[i] ELSE g[i - 1] \o s[i]
      BY <1>3
    <2> HIDE DEF Follows
    <2>2. 1 \in 1..n /\ \A i \in 2..n : i \in 1..n /\ i # 1
      OBVIOUS
    <2>3. QED BY <2>1, <2>2
  <1> HIDE DEF Follows
  <1>5. \A i \in 2..n : f[i - 1] = g[i - 1] => f[i] = g[i]
    BY <1>4
  <1>6. f[n] = g[n]
    <2> DEFINE S == {i \in Nat : i \in 1..n => f[i] = g[i]}
    <2>1. 0 \in S
      OBVIOUS
    <2>2. ASSUME NEW i \in S PROVE i + 1 \in S
      <3>1. i \in Nat /\ (i \in 1..n => f[i] = g[i])
        OBVIOUS
      <3>2. ASSUME i + 1 \in 1..n PROVE f[i + 1] = g[i + 1]
        <4>1. CASE i = 0
          BY <1>4, <4>1
        <4>2. CASE i # 0
          <5>1. i \in 1..n /\ i + 1 \in 2..n /\ (i + 1) - 1 = i
            BY <3>1, <3>2, <4>2
          <5>2. QED BY <1>5, <3>1, <5>1
        <4>3. QED BY <4>1, <4>2
      <3>3. QED BY <3>1, <3>2
    <2> HIDE DEF S
    <2>3. S \in SUBSET Nat
      BY DEF S
    <2>4. S = Nat
      BY <2>1, <2>2, <2>3, SetInduction
    <2>5. n \in S /\ n \in 1..n
      BY <2>4
    <2>6. QED BY <2>5 DEF S
  <1>7. QED BY <1>1, <1>6

\* A sequence of encodings has its concatenations.
LEMMA HasConcatenations ==
  ASSUME NEW A, NEW s \in Seq(Seq(A)), NEW m \in Nat, m = Len(s), m > 0
  PROVE  \E f \in [1..m -> Seq(A)] : Concatenates(s, f, m)
  <1> DEFINE Upto(f, n) == f[1] = s[1] /\ \A i \in 2..n : f[i] = f[i - 1] \o s[i]
             Reached(n) == \E f \in [1..n -> Seq(A)] : Upto(f, n)
             S == {n \in Nat : n + 1 <= m => Reached(n + 1)}
  <1>1. \A i \in 1..m : s[i] \in Seq(A)
    OBVIOUS
  <1>2. 0 \in S
    <2>1. [i \in 1..1 |-> s[1]] \in [1..(0 + 1) -> Seq(A)] /\ Upto([i \in 1..1 |-> s[1]], 0 + 1)
      BY <1>1
    <2>2. QED BY <2>1
  <1>3. ASSUME NEW n \in S PROVE n + 1 \in S
    <2>1. SUFFICES ASSUME n + 2 <= m
                   PROVE  Reached(n + 2)
      <3>1. n + 1 \in Nat /\ (n + 1) + 1 = n + 2
        OBVIOUS
      <3> HIDE DEF Reached
      <3>2. QED BY <3>1
    <2>2. PICK g \in [1..(n + 1) -> Seq(A)] : Upto(g, n + 1)
      <3>1. n \in Nat /\ n + 1 <= m
        BY <2>1
      <3> HIDE DEF Reached
      <3>2. Reached(n + 1)
        BY <3>1
      <3>3. QED BY <3>2 DEF Reached
    <2>3. n \in Nat
      OBVIOUS
    <2> DEFINE f == [i \in 1..(n + 2) |-> IF i <= n + 1 THEN g[i] ELSE g[n + 1] \o s[n + 2]]
    <2>4. g[n + 1] \o s[n + 2] \in Seq(A)
      <3>1. g[n + 1] \in Seq(A) /\ s[n + 2] \in Seq(A)
        BY <1>1, <2>1, <2>3
      <3>2. QED BY <3>1, ConcatProperties
    <2>5. f \in [1..(n + 2) -> Seq(A)]
      BY <2>4
    <2>6. /\ \A i \in 1..(n + 1) : f[i] = g[i]
          /\ f[n + 2] = g[n + 1] \o s[n + 2]
      <3>1. n + 2 \in 1..(n + 2) /\ ~(n + 2 <= n + 1) /\ \A i \in 1..(n + 1) : i \in 1..(n + 2) /\ i <= n + 1
        BY <2>3
      <3>2. QED BY <3>1
    <2> HIDE DEF f
    <2>7. ASSUME NEW i \in 2..(n + 2) PROVE f[i] = f[i - 1] \o s[i]
      <3>1. CASE i <= n + 1
        <4>1. i \in 2..(n + 1)
          BY <2>3, <3>1
        <4>2. g[i] = g[i - 1] \o s[i]
          BY <2>2, <4>1
        <4>3. i \in 1..(n + 1) /\ i - 1 \in 1..(n + 1)
          BY <2>3, <4>1
        <4>4. f[i] = g[i] /\ f[i - 1] = g[i - 1]
          BY <2>6, <4>3
        <4>5. QED BY <4>2, <4>4
      <3>2. CASE i = n + 2
        <4>1. i - 1 = n + 1 /\ n + 1 \in 1..(n + 1)
          BY <2>3, <3>2
        <4>2. QED BY <2>6, <3>2, <4>1
      <3>3. i <= n + 1 \/ i = n + 2
        BY <2>3
      <3>4. QED BY <3>1, <3>2, <3>3
    <2>8. Upto(f, n + 2)
      <3>1. f[1] = g[1]
        BY <2>6, <2>3
      <3>2. QED BY <2>2, <2>7, <3>1
    <2>9. QED BY <2>5, <2>8
  <1>4. S \in SUBSET Nat
    OBVIOUS
  <1> HIDE DEF S
  <1>5. S = Nat
    BY <1>2, <1>3, <1>4, SetInduction
  <1>6. m - 1 \in S /\ (m - 1) + 1 = m
    BY <1>5
  <1>7. PICK f \in [1..m -> Seq(A)] : Upto(f, m)
    <2> HIDE DEF Reached
    <2>1. Reached((m - 1) + 1)
      BY <1>6 DEF S
    <2>2. Reached(m)
      BY <1>6, <2>1
    <2>3. QED BY <2>2 DEF Reached
  <1>8. QED BY <1>7 DEF Concatenates
=============================================================================
