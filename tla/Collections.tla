------------------------------ MODULE Collections ------------------------------
(***************************************************************************)
(* Lemmas about natural numbers, sequences and finite sets that the proofs *)
(* share.  The induction theorems of the library take an operator as a     *)
(* parameter; the ones here are about sets instead.                        *)
(***************************************************************************)
EXTENDS SequencesExt, SequenceTheorems, FiniteSetTheorems, WellFoundedInduction, TLAPS

\* A set of natural numbers has a least element: the intervals 1 .. n of its
\* members n are finite sets, and inclusion of finite sets is well founded.
LEMMA LeastNat ==
    ASSUME NEW T, T \subseteq Nat, T # {}
    PROVE  \E m \in T : \A k \in T : m <= k
  <1> DEFINE R == StrictSubsetOrdering(Nat)
             D == {1 .. n : n \in T}
  <1>1. D \subseteq FiniteSubsetsOf(Nat) /\ D # {}
    <2>1. \A n \in T : 1 .. n \in SUBSET Nat /\ IsFiniteSet(1 .. n)
      BY FS_Interval
    <2> QED  BY <2>1 DEF FiniteSubsetsOf
  <1>2. IsWellFoundedOn(R, FiniteSubsetsOf(Nat))
    BY FS_StrictSubsetOrderingWellFounded
  <1>3. \E x \in D : \A y \in D : <<y, x>> \notin R
    <2> HIDE DEF D, R
    <2> QED  BY <1>1, <1>2, WFMin
  <1>4. PICK m \in T : \A k \in T : <<1 .. k, 1 .. m>> \notin R
    BY <1>3
  <1>5. ASSUME NEW k \in T, k < m PROVE FALSE
    <2>1. 1 .. k \subseteq 1 .. m /\ m \in 1 .. m /\ m \notin 1 .. k
      BY <1>5
    <2>2. 1 .. k # 1 .. m /\ 1 .. k \in SUBSET Nat /\ 1 .. m \in SUBSET Nat
      BY <2>1
    <2>3. <<1 .. k, 1 .. m>> \in R
      BY <2>1, <2>2 DEF StrictSubsetOrdering
    <2> QED  BY <1>4, <2>3
  <1> QED  BY <1>5

\* Induction, for the set of the numbers that have a property.
LEMMA NatSetInduction ==
    ASSUME NEW S, 0 \in S, \A n \in Nat : n \in S => n + 1 \in S
    PROVE  Nat \subseteq S
  <1> DEFINE T == Nat \ S
  <1> SUFFICES ASSUME T # {} PROVE FALSE
    OBVIOUS
  <1>1. PICK m \in T : \A k \in T : m <= k
    <2>1. T \subseteq Nat
      OBVIOUS
    <2> HIDE DEF T
    <2> QED  BY <2>1, LeastNat
  <1>2. m # 0 /\ m \in Nat
    BY <1>1
  <1>3. m - 1 \in Nat /\ m - 1 \notin T
    BY <1>1, <1>2
  <1>4. (m - 1) + 1 \in S
    BY <1>3
  <1> QED  BY <1>1, <1>2, <1>4

\* The elements of a finite set in some order.
LEMMA SetToSeqOf ==
    ASSUME NEW T, NEW S, S \subseteq T, IsFiniteSet(S)
    PROVE  SetToSeq(S) \in Seq(T)
  <1>1. Cardinality(S) \in Nat /\ ExistsBijection(1 .. Cardinality(S), S)
    BY FS_CardinalityType
  <1>2. \E f \in [1 .. Cardinality(S) -> S] : IsInjective(f)
    BY <1>1 DEF ExistsBijection, Bijection, Injection, IsInjective
  <1>3. SetToSeq(S) \in [1 .. Cardinality(S) -> S]
    BY <1>2 DEF SetToSeq
  <1> QED  BY <1>1, <1>3

\* Sequences put one after the other.
LEMMA FlattenSeqOf ==
    ASSUME NEW S, NEW ss \in Seq(Seq(S))
    PROVE  FlattenSeq(ss) \in Seq(S)
  <1>1. CASE Len(ss) = 0
    BY <1>1 DEF FlattenSeq
  <1>2. CASE Len(ss) # 0
    <2> DEFINE N == Len(ss)
               Next1(f, i) == IF i = 1 THEN ss[i] ELSE f[i - 1] \o ss[i]
               Step(f) == [i \in 1 .. N |-> Next1(f, i)]
               Begun(n) == \E f \in [1 .. n -> Seq(S)] : \A i \in 1 .. n : f[i] = Next1(f, i)
               Partly == {n \in Nat : n > 0 /\ n <= N => Begun(n)}
    <2>1. N \in Nat /\ N > 0 /\ \A i \in 1 .. N : ss[i] \in Seq(S)
      BY <1>2
    <2> HIDE DEF N
    <2>2. \A f, n : (n \in Nat /\ n > 0) => Next1(f, n + 1) = f[n] \o ss[n + 1]
      <3> SUFFICES ASSUME NEW f, NEW n \in Nat, n > 0 PROVE Next1(f, n + 1) = f[n] \o ss[n + 1]
        OBVIOUS
      <3>1. (n + 1) - 1 = n /\ n + 1 # 1
        OBVIOUS
      <3> QED  BY <3>1
    <2>3. \A f : Next1(f, 1) = ss[1]
      OBVIOUS
    <2>4. \A f, g, i : (i # 1 => f[i - 1] = g[i - 1]) => Next1(f, i) = Next1(g, i)
      OBVIOUS
    <2>5. ASSUME NEW f, NEW n \in Nat, n + 1 <= N, n > 0 => f[n] \in Seq(S)
          PROVE  Next1(f, n + 1) \in Seq(S)
      <3>1. ss[n + 1] \in Seq(S)
        BY <2>1, <2>5
      <3>2. CASE n = 0
        <4>1. n + 1 = 1
          BY <3>2
        <4> QED  BY <2>3, <3>1, <4>1
      <3>3. CASE n > 0
        <4>1. f[n] \o ss[n + 1] \in Seq(S)
          BY <2>5, <3>1, <3>3
        <4> QED  BY <2>2, <3>3, <4>1
      <3> QED  BY <3>2, <3>3
    <2> HIDE DEF Next1
    <2>6. ASSUME NEW n \in Nat, n + 1 <= N, n > 0 => Begun(n) PROVE Begun(n + 1)
      <3>1. PICK f \in [1 .. n -> Seq(S)] : \A i \in 1 .. n : f[i] = Next1(f, i)
        <4>1. CASE n > 0
          BY <2>6, <4>1
        <4>2. CASE n = 0
          <5>1. [i \in 1 .. n |-> <<>>] \in [1 .. n -> Seq(S)] /\ 1 .. n = {}
            BY <4>2
          <5> QED  BY <5>1
        <4> QED  BY <4>1, <4>2
      <3> DEFINE g == [i \in 1 .. n + 1 |-> IF i = n + 1 THEN Next1(f, n + 1) ELSE f[i]]
      <3>2. n > 0 => f[n] \in Seq(S)
        OBVIOUS
      <3>3. Next1(f, n + 1) \in Seq(S)
        BY <2>5, <2>6, <3>2
      <3>4. g \in [1 .. n + 1 -> Seq(S)]
        BY <3>3
      <3>5. \A i \in 1 .. n : i \in 1 .. n + 1 /\ i # n + 1
        OBVIOUS
      <3>6. (\A i \in 1 .. n : g[i] = f[i]) /\ g[n + 1] = Next1(f, n + 1)
        BY <3>5
      <3> HIDE DEF g
      <3>7. ASSUME NEW i \in 1 .. n + 1 PROVE g[i] = Next1(g, i)
        <4>1. i # 1 => i - 1 \in 1 .. n
          OBVIOUS
        <4>2. Next1(f, i) = Next1(g, i)
          BY <2>4, <3>6, <4>1
        <4>3. CASE i = n + 1
          BY <3>6, <4>2, <4>3
        <4>4. CASE i \in 1 .. n
          BY <3>1, <3>6, <4>2, <4>4
        <4> QED  BY <4>3, <4>4
      <3> QED  BY <3>4, <3>7
    <2>7. Begun(N)
      <3> HIDE DEF Begun
      <3>1. 0 \in Partly /\ \A n \in Nat : n \in Partly => n + 1 \in Partly
        BY <2>1, <2>6
      <3>2. Nat \subseteq Partly
        <4> HIDE DEF Partly
        <4> QED  BY <3>1, NatSetInduction
      <3> QED  BY <2>1, <3>2
    <2>8. PICK f \in [1 .. N -> Seq(S)] : \A i \in 1 .. N : f[i] = Next1(f, i)
      BY <2>7
    <2>9. f = Step(f)
      BY <2>8
    <2> DEFINE flatten == CHOOSE g : g = Step(g)
    <2>10. flatten = Step(flatten)
      BY <2>9
    <2>11. FlattenSeq(ss) = flatten[N]
      BY <1>2 DEF FlattenSeq, N, Next1
    <2> HIDE DEF flatten
    <2> DEFINE Good == {n \in Nat : n > 0 /\ n <= N => flatten[n] \in Seq(S)}
    <2>12. \A i \in 1 .. N : flatten[i] = Next1(flatten, i)
      BY <2>10
    <2>13. ASSUME NEW n \in Nat, n \in Good PROVE n + 1 \in Good
      <3>1. ASSUME n + 1 <= N PROVE flatten[n + 1] \in Seq(S)
        <4>1. n > 0 => flatten[n] \in Seq(S)
          BY <2>1, <2>13, <3>1
        <4>2. Next1(flatten, n + 1) \in Seq(S)
          BY <2>5, <3>1, <4>1
        <4> QED  BY <2>1, <2>12, <3>1, <4>2
      <3> QED  BY <3>1
    <2>14. 0 \in Good
      OBVIOUS
    <2>15. Nat \subseteq Good
      <3> HIDE DEF Good
      <3> QED  BY <2>13, <2>14, NatSetInduction
    <2>16. flatten[N] \in Seq(S)
      BY <2>1, <2>15
    <2> QED  BY <2>11, <2>16
  <1> QED  BY <1>1, <1>2

\* A function that is defined step by step from its value at 0 exists.
Steps(N, T) == [1 .. N -> [T -> T]]

Iterates(f, N, T, a, E) ==
    f \in [0 .. N -> T] /\ f[0] = a /\ \A i \in 1 .. N : f[i] = E[i][f[i - 1]]

LEMMA Iterated ==
    ASSUME NEW N \in Nat, NEW T, NEW a \in T, NEW E \in Steps(N, T)
    PROVE  \E f : Iterates(f, N, T, a, E)
  <1> DEFINE Begun(n) == \E f \in [0 .. n -> T] :
                            f[0] = a /\ \A i \in 1 .. n : f[i] = E[i][f[i - 1]]
             S == {n \in Nat : n <= N => Begun(n)}
  <1>1. Begun(0)
    <2> DEFINE f == [i \in 0 .. 0 |-> a]
    <2>1. f \in [0 .. 0 -> T] /\ f[0] = a /\ 1 .. 0 = {}
      OBVIOUS
    <2> HIDE DEF f
    <2> QED  BY <2>1
  <1>2. ASSUME NEW n \in Nat, Begun(n), n + 1 <= N PROVE Begun(n + 1)
    <2>1. PICK f \in [0 .. n -> T] : f[0] = a /\ \A i \in 1 .. n : f[i] = E[i][f[i - 1]]
      BY <1>2
    <2> DEFINE g == [i \in 0 .. n + 1 |-> IF i = n + 1 THEN E[n + 1][f[n]] ELSE f[i]]
    <2>2. n + 1 \in 1 .. N /\ n \in 0 .. n
      BY <1>2
    <2>3. E[n + 1][f[n]] \in T
      BY <2>2 DEF Steps
    <2>4. g \in [0 .. n + 1 -> T]
      BY <2>3
    <2>5. g[n + 1] = E[n + 1][f[n]] /\ \A i \in 0 .. n : g[i] = f[i]
      OBVIOUS
    <2> HIDE DEF g
    <2>6. g[0] = a
      BY <2>1, <2>5
    <2>7. ASSUME NEW i \in 1 .. n + 1 PROVE g[i] = E[i][g[i - 1]]
      <3>1. CASE i = n + 1
        <4>1. i - 1 = n
          BY <3>1
        <4> QED  BY <2>2, <2>5, <3>1, <4>1
      <3>2. CASE i \in 1 .. n
        <4>1. i - 1 \in 0 .. n /\ i \in 0 .. n
          BY <3>2
        <4> QED  BY <2>1, <2>5, <3>2, <4>1
      <3> QED  BY <3>1, <3>2
    <2> QED  BY <2>4, <2>6, <2>7
  <1>3. 0 \in S /\ \A n \in Nat : n \in S => n + 1 \in S
    <2> HIDE DEF Begun
    <2> QED  BY <1>1, <1>2
  <1>4. Nat \subseteq S
    <2> HIDE DEF S
    <2> QED  BY <1>3, NatSetInduction
  <1>5. Begun(N)
    <2> HIDE DEF Begun
    <2> QED  BY <1>4
  <1> QED  BY <1>5 DEF Iterates

\* Where two sequences repeat each of some values equally often, they repeat the
\* values together equally often.
Places(s, R) == {i \in 1 .. Len(s) : s[i] \in R}

LEMMA PlacesFinite ==
    ASSUME NEW s, Len(s) \in Nat, NEW R
    PROVE  IsFiniteSet(Places(s, R)) /\ Cardinality(Places(s, R)) \in Nat
           /\ Cardinality(Places(s, R)) <= Len(s)
  <1> DEFINE n == Len(s)
  <1>1. IsFiniteSet(1 .. Len(s)) /\ Cardinality(1 .. Len(s)) = Len(s)
    <2>1. n \in Nat
      OBVIOUS
    <2> HIDE DEF n
    <2>2. IsFiniteSet(1 .. n) /\ Cardinality(1 .. n) = n
      BY <2>1, FS_Interval
    <2> QED  BY <2>2 DEF n
  <1>2. Places(s, R) \subseteq 1 .. Len(s)
    BY DEF Places
  <1> QED  BY <1>1, <1>2, FS_Subset, FS_CardinalityType

LEMMA PlacesOfMore ==
    ASSUME NEW s, Len(s) \in Nat, NEW R, NEW r, r \notin R
    PROVE  Cardinality(Places(s, R \cup {r})) = Cardinality(Places(s, R)) + Cardinality(Places(s, {r}))
  <1>1. Places(s, R \cup {r}) = Places(s, R) \cup Places(s, {r})
    BY DEF Places
  <1>2. Places(s, R) \cap Places(s, {r}) = {}
    BY DEF Places
  <1>3. Cardinality({}) = 0
    BY FS_EmptySet
  <1>4. Cardinality(Places(s, R) \cup Places(s, {r}))
          = Cardinality(Places(s, R)) + Cardinality(Places(s, {r}))
              - Cardinality(Places(s, R) \cap Places(s, {r}))
    BY PlacesFinite, FS_Union
  <1> DEFINE b == Cardinality(Places(s, R))
             c == Cardinality(Places(s, {r}))
  <1>5. b \in Nat /\ c \in Nat
    BY PlacesFinite
  <1>6. Cardinality(Places(s, R \cup {r})) = b + c - 0
    BY <1>1, <1>2, <1>3, <1>4
  <1> HIDE DEF b, c
  <1>7. Cardinality(Places(s, R \cup {r})) = b + c
    BY <1>5, <1>6
  <1> QED  BY <1>7 DEF b, c

SameCounts(s, t, R) == \A r \in R : Cardinality(Places(s, {r})) = Cardinality(Places(t, {r}))

LEMMA PlacesTogether ==
    ASSUME NEW s, NEW t, Len(s) \in Nat, Len(t) \in Nat, NEW R, IsFiniteSet(R), SameCounts(s, t, R)
    PROVE  Cardinality(Places(s, R)) = Cardinality(Places(t, R))
  <1> DEFINE Same(Q) == Cardinality(Places(s, Q)) = Cardinality(Places(t, Q))
             S == {n \in Nat : \A Q \in SUBSET R : Cardinality(Q) = n => Same(Q)}
  <1>1. 0 \in S
    <2> SUFFICES ASSUME NEW Q \in SUBSET R, Cardinality(Q) = 0 PROVE Same(Q)
      OBVIOUS
    <2>1. Q = {}
      BY FS_Subset, FS_EmptySet
    <2>2. Places(s, Q) = {} /\ Places(t, Q) = {}
      BY <2>1 DEF Places
    <2> QED  BY <2>2
  <1>2. ASSUME NEW n \in Nat, n \in S PROVE n + 1 \in S
    <2> SUFFICES ASSUME NEW Q \in SUBSET R, Cardinality(Q) = n + 1 PROVE Same(Q)
      OBVIOUS
    <2>1. IsFiniteSet(Q) /\ Q # {}
      <3>1. IsFiniteSet(Q)
        BY FS_Subset
      <3>2. Cardinality(Q) # 0
        OBVIOUS
      <3> QED  BY <3>1, <3>2, FS_EmptySet
    <2>2. PICK r \in Q : TRUE
      BY <2>1
    <2> DEFINE P == Q \ {r}
    <2>3. P \in SUBSET R /\ Cardinality(P) = n
      <3>1. Cardinality(P) = Cardinality(Q) - 1
        BY <2>1, <2>2, FS_RemoveElement
      <3>2. Cardinality(P) = (n + 1) - 1
        BY <3>1
      <3> QED  BY <3>2
    <2>4. Same(P)
      BY <1>2, <2>3
    <2>5. Q = P \cup {r} /\ r \notin P /\ r \in R
      BY <2>2
    <2> HIDE DEF P
    <2>6. Cardinality(Places(s, P \cup {r})) = Cardinality(Places(s, P)) + Cardinality(Places(s, {r}))
      BY <2>5, PlacesOfMore
    <2>7. Cardinality(Places(t, P \cup {r})) = Cardinality(Places(t, P)) + Cardinality(Places(t, {r}))
      BY <2>5, PlacesOfMore
    <2>8. Cardinality(Places(s, {r})) = Cardinality(Places(t, {r}))
      BY <2>5 DEF SameCounts
    <2> QED  BY <2>4, <2>5, <2>6, <2>7, <2>8
  <1>3. Nat \subseteq S
    <2> HIDE DEF S
    <2> QED  BY <1>1, <1>2, NatSetInduction
  <1>4. Cardinality(R) \in Nat
    BY FS_CardinalityType
  <1> QED  BY <1>3, <1>4

LEMMA IntervalSize ==
    ASSUME NEW n \in Nat
    PROVE  IsFiniteSet(1 .. n) /\ Cardinality(1 .. n) = n
  BY FS_Interval

\* The elements of a sequence.
LEMMA ElementsFinite ==
    ASSUME NEW q, Len(q) \in Nat
    PROVE  IsFiniteSet({q[i] : i \in 1 .. Len(q)})
  <1> DEFINE n == Len(q)
             R == {q[i] : i \in 1 .. n}
             f == [i \in 1 .. n |-> q[i]]
  <1>1. n \in Nat
    OBVIOUS
  <1>2. f \in Surjection(1 .. n, R)
    BY DEF Surjection
  <1> HIDE DEF n, f
  <1>3. IsFiniteSet(1 .. n)
    BY <1>1, IntervalSize
  <1> HIDE DEF R
  <1>4. IsFiniteSet(R)
    BY <1>2, <1>3, FS_Surjection
  <1> QED  BY <1>4 DEF R, n

\* Of the places that hold an element of R there is a last one.
LEMMA LastPlace ==
    ASSUME NEW n \in Nat, NEW T, T \subseteq 1 .. n, T # {}
    PROVE  \E i \in T : \A j \in i + 1 .. n : j \notin T
  <1> DEFINE U == {n - i : i \in T}
  <1>1. U \subseteq Nat /\ U # {}
    <2>1. \A i \in T : n - i \in Nat
      OBVIOUS
    <2> QED  BY <2>1
  <1>2. PICK m \in U : \A k \in U : m <= k
    <2> HIDE DEF U
    <2> QED  BY <1>1, LeastNat
  <1>3. PICK i \in T : m = n - i
    BY <1>2
  <1>4. ASSUME NEW j \in i + 1 .. n, j \in T PROVE FALSE
    <2>1. m <= n - j
      BY <1>2, <1>4
    <2> QED  BY <1>3, <2>1
  <1> QED  BY <1>3, <1>4

\* A sequence over the set of its elements.
LEMMA OwnElements ==
    ASSUME NEW S, NEW q \in Seq(S)
    PROVE  q \in Seq({q[i] : i \in 1 .. Len(q)})
  <1> DEFINE T == {q[i] : i \in 1 .. Len(q)}
  <1>1. Len(q) \in Nat /\ q \in [1 .. Len(q) -> S]
    OBVIOUS
  <1>2. q \in [1 .. Len(q) -> T]
    BY <1>1
  <1> HIDE DEF T
  <1>3. q \in Seq(T)
    BY <1>1, <1>2
  <1> QED  BY <1>3 DEF T

\* A sequence without the element at one of its places.
LEMMA WithoutPlace ==
    ASSUME NEW S, NEW q \in Seq(S), NEW i \in 1 .. Len(q), NEW r,
           r = SubSeq(q, 1, i - 1) \o SubSeq(q, i + 1, Len(q))
    PROVE  /\ r \in Seq(S) /\ Len(r) = Len(q) - 1
           /\ \A j \in 1 .. Len(q) - 1 : r[j] = IF j < i THEN q[j] ELSE q[j + 1]
  <1> DEFINE n == Len(q)
             a == SubSeq(q, 1, i - 1)
             b == SubSeq(q, i + 1, n)
  <1>1. n \in Nat /\ i \in 1 .. n /\ \A j \in 1 .. n : q[j] \in S
    OBVIOUS
  <1> HIDE DEF n
  <1>2. a \in Seq(S) /\ Len(a) = i - 1 /\ \A j \in 1 .. i - 1 : a[j] = q[j]
    <2>1. 1 \in Int /\ i - 1 \in Int /\ \A j \in 1 .. i - 1 : q[j] \in S
      BY <1>1
    <2> QED  BY <1>1, <2>1, SubSeqProperties
  <1>3. b \in Seq(S) /\ Len(b) = n - i /\ \A j \in 1 .. n - i : b[j] = q[i + j]
    <2>1. i + 1 \in Int /\ n \in Int /\ \A j \in i + 1 .. n : q[j] \in S
      BY <1>1
    <2> QED  BY <1>1, <2>1, SubSeqProperties
  <1>4. r = a \o b
    BY DEF n
  <1> HIDE DEF a, b
  <1>5. a \in Seq(S) /\ b \in Seq(S) /\ Len(a) = i - 1 /\ Len(a) + Len(b) = n - 1
    BY <1>1, <1>2, <1>3
  <1>6. /\ r \in Seq(S) /\ Len(r) = Len(a) + Len(b)
        /\ \A j \in 1 .. Len(a) + Len(b) : r[j] = IF j <= Len(a) THEN a[j] ELSE b[j - Len(a)]
    BY <1>4, <1>5, ConcatProperties
  <1>7. \A j \in 1 .. n - 1 : r[j] = IF j < i THEN q[j] ELSE q[j + 1]
    <2> SUFFICES ASSUME NEW j \in 1 .. n - 1
                 PROVE  r[j] = IF j < i THEN q[j] ELSE q[j + 1]
      OBVIOUS
    <2>1. r[j] = IF j <= i - 1 THEN a[j] ELSE b[j - (i - 1)]
      BY <1>5, <1>6
    <2>2. CASE j < i
      <3>1. j \in 1 .. i - 1 /\ j <= i - 1
        BY <1>1, <2>2
      <3> QED  BY <1>2, <2>1, <2>2, <3>1
    <2>3. CASE ~(j < i)
      <3>1. j - (i - 1) \in 1 .. n - i /\ ~(j <= i - 1) /\ i + (j - (i - 1)) = j + 1
        BY <1>1, <2>3
      <3> QED  BY <1>3, <2>1, <2>3, <3>1
    <2> QED  BY <2>2, <2>3
  <1> QED  BY <1>5, <1>6, <1>7 DEF n
================================================================================
