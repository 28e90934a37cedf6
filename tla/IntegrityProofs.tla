---------------------------- MODULE IntegrityProofs ----------------------------
(***************************************************************************)
(* Proofs about Integrity.  Whatever was altered, and however the rows and *)
(* commits hash: verify is satisfied only by a history that is what was    *)
(* recorded, and is satisfied by every such history.                       *)
(***************************************************************************)
EXTENDS Integrity, Collections

-------------------------------------------------------------------------------
(* What a table hash fixes: for each identity, the row hashes in order. *)

KeyPlaces(rows, k, n) == {i \in 1 .. n : rows[i].pk = k}
HashPlaces(rows, k, x, n) == {i \in 1 .. n : rows[i].pk = k /\ rows[i].hash = x}

LEMMA PlacesNone ==
    ASSUME NEW rows, NEW k, NEW x
    PROVE  Cardinality(KeyPlaces(rows, k, 0)) = 0 /\ Cardinality(HashPlaces(rows, k, x, 0)) = 0
  <1>1. KeyPlaces(rows, k, 0) = {} /\ HashPlaces(rows, k, x, 0) = {}
    BY DEF KeyPlaces, HashPlaces
  <1> QED  BY <1>1, FS_EmptySet

LEMMA KeyPlacesFinite ==
    ASSUME NEW rows, NEW k, NEW n \in Nat
    PROVE  IsFiniteSet(KeyPlaces(rows, k, n)) /\ Cardinality(KeyPlaces(rows, k, n)) \in Nat
  <1>1. IsFiniteSet(1 .. n)
    BY FS_Interval
  <1>2. KeyPlaces(rows, k, n) \subseteq 1 .. n
    BY DEF KeyPlaces
  <1> QED  BY <1>1, <1>2, FS_Subset, FS_CardinalityType

LEMMA HashPlacesFinite ==
    ASSUME NEW rows, NEW k, NEW x, NEW n \in Nat
    PROVE  IsFiniteSet(HashPlaces(rows, k, x, n)) /\ Cardinality(HashPlaces(rows, k, x, n)) \in Nat
  <1>1. IsFiniteSet(1 .. n)
    BY FS_Interval
  <1>2. HashPlaces(rows, k, x, n) \subseteq 1 .. n
    BY DEF HashPlaces
  <1> QED  BY <1>1, <1>2, FS_Subset, FS_CardinalityType

\* One more row among the first n.
LEMMA KeyPlacesGrow ==
    ASSUME NEW rows, NEW k, NEW n \in Nat, rows[n + 1].pk = k
    PROVE  Cardinality(KeyPlaces(rows, k, n + 1)) = Cardinality(KeyPlaces(rows, k, n)) + 1
  <1> DEFINE K == KeyPlaces(rows, k, n)
  <1>1. n + 1 \notin K
    BY DEF KeyPlaces
  <1>2. KeyPlaces(rows, k, n + 1) = K \cup {n + 1}
    BY DEF KeyPlaces
  <1>3. IsFiniteSet(K)
    BY KeyPlacesFinite
  <1> QED  BY <1>1, <1>2, <1>3, FS_AddElement

LEMMA HashPlacesGrow ==
    ASSUME NEW rows, NEW k, NEW x, NEW n \in Nat, rows[n + 1].pk = k, rows[n + 1].hash = x
    PROVE  Cardinality(HashPlaces(rows, k, x, n + 1)) = Cardinality(HashPlaces(rows, k, x, n)) + 1
  <1> DEFINE K == HashPlaces(rows, k, x, n)
  <1>1. n + 1 \notin K
    BY DEF HashPlaces
  <1>2. HashPlaces(rows, k, x, n + 1) = K \cup {n + 1}
    BY DEF HashPlaces
  <1>3. IsFiniteSet(K)
    BY HashPlacesFinite
  <1> QED  BY <1>1, <1>2, <1>3, FS_AddElement

LEMMA PlacesOfAppend ==
    ASSUME NEW S, NEW q \in Seq(S), NEW x \in S
    PROVE  Cardinality(Places(Append(q, x), {x})) = Cardinality(Places(q, {x})) + 1
  <1> DEFINE n == Len(q)
             P == Places(q, {x})
  <1>1. n \in Nat /\ Len(Append(q, x)) = n + 1 /\ Append(q, x)[n + 1] = x
        /\ \A i \in 1 .. n : Append(q, x)[i] = q[i]
    BY AppendProperties
  <1>2. n + 1 \notin P
    BY <1>1 DEF Places
  <1>3. Places(Append(q, x), {x}) = P \cup {n + 1}
    BY <1>1 DEF Places
  <1>4. IsFiniteSet(P) /\ Cardinality(P) \in Nat
    BY PlacesFinite
  <1> HIDE DEF P, n
  <1>5. Cardinality(P \cup {n + 1}) = Cardinality(P) + 1
    BY <1>2, <1>4, FS_AddElement
  <1> QED  BY <1>3, <1>5 DEF P

\* ByKey keeps, for each identity, every hash as often as its rows have it.
LEMMA HashesByKey ==
    ASSUME NEW S, NEW rows \in Seq(S), NEW k \in {rows[i].pk : i \in 1 .. Len(rows)}
    PROVE  /\ ByKey(rows)[k] \in Seq({rows[i].hash : i \in 1 .. Len(rows)})
           /\ Len(ByKey(rows)[k]) = Cardinality(KeyPlaces(rows, k, Len(rows)))
           /\ \A x : Cardinality(Places(ByKey(rows)[k], {x})) =
                       Cardinality(HashPlaces(rows, k, x, Len(rows)))
           /\ \A j \in 1 .. Len(ByKey(rows)[k]) :
                \E i \in 1 .. Len(rows) : rows[i].pk = k /\ ByKey(rows)[k][j] = rows[i].hash
  <1> DEFINE N == Len(rows)
             H == {rows[i].hash : i \in 1 .. N}
             T == Seq(H)
             E == [i \in 1 .. N |-> [q \in T |->
                     IF rows[i].pk = k THEN Append(q, rows[i].hash) ELSE q]]
             Step(h) == [i \in 0 .. N |->
                           IF i = 0 THEN <<>>
                           ELSE IF rows[i].pk = k THEN Append(h[i - 1], rows[i].hash)
                           ELSE h[i - 1]]
             hashes == CHOOSE h : h = Step(h)
  <1>1. N \in Nat /\ \A i \in 1 .. N : rows[i].hash \in H
    OBVIOUS
  <1>2. ByKey(rows)[k] = hashes[N]
    BY DEF ByKey
  <1> HIDE DEF N, H
  <1>3. \E f \in [0 .. N -> T] : f = Step(f)
    <2>1. \A q \in T : \A i \in 1 .. N : Append(q, rows[i].hash) \in T
      BY <1>1, AppendProperties
    <2>2. E \in [1 .. N -> [T -> T]] /\ <<>> \in T
      BY <2>1
    <2> HIDE DEF E
    <2>3. PICK f : f \in [0 .. N -> T] /\ f[0] = <<>> /\ \A i \in 1 .. N : f[i] = E[i][f[i - 1]]
      <3>1. E \in Steps(N, T)
        BY <2>2 DEF Steps
      <3> HIDE DEF T
      <3>2. PICK f : Iterates(f, N, T, <<>>, E)
        BY <1>1, <2>2, <3>1, Iterated
      <3> QED  BY <3>2 DEF Iterates
    <2>4. \A i \in 1 .. N : f[i] = IF rows[i].pk = k THEN Append(f[i - 1], rows[i].hash) ELSE f[i - 1]
      <3> SUFFICES ASSUME NEW i \in 1 .. N
                   PROVE  f[i] = IF rows[i].pk = k THEN Append(f[i - 1], rows[i].hash) ELSE f[i - 1]
        OBVIOUS
      <3>1. i - 1 \in 0 .. N
        BY <1>1
      <3> HIDE DEF T
      <3>2. f[i - 1] \in T
        BY <2>3, <3>1
      <3>4. E[i][f[i - 1]] = IF rows[i].pk = k THEN Append(f[i - 1], rows[i].hash) ELSE f[i - 1]
        BY <3>2 DEF E
      <3> QED  BY <2>3, <3>4
    <2> HIDE DEF T
    <2>5. \A i \in 0 .. N : f[i] = Step(f)[i]
      <3>1. \A i \in 0 .. N : i = 0 \/ i \in 1 .. N
        BY <1>1
      <3> QED  BY <2>3, <2>4, <3>1
    <2>6. f = [i \in 0 .. N |-> f[i]]
      BY <2>3
    <2> QED  BY <2>3, <2>5, <2>6
  <1>4. hashes = Step(hashes)
    BY <1>3
  <1> HIDE DEF hashes
  <1>5. /\ hashes[0] = <<>>
        /\ \A i \in 1 .. N : hashes[i] =
             IF rows[i].pk = k THEN Append(hashes[i - 1], rows[i].hash) ELSE hashes[i - 1]
    <2>1. 0 \in 0 .. N /\ \A i \in 1 .. N : i \in 0 .. N /\ i # 0
      BY <1>1
    <2> QED  BY <1>4, <2>1
  <1> HIDE DEF T, E
  <1> DEFINE Good(n, h) ==
                /\ h \in T /\ Len(h) = Cardinality(KeyPlaces(rows, k, n))
                /\ \A x : Cardinality(Places(h, {x})) = Cardinality(HashPlaces(rows, k, x, n))
                /\ \A j \in 1 .. Len(h) :
                     \E i \in 1 .. N : rows[i].pk = k /\ h[j] = rows[i].hash
             G == {n \in Nat : n <= N => Good(n, hashes[n])}
  <1>6. Good(0, <<>>)
    <2>1. <<>> \in T /\ Len(<<>>) = 0 /\ 1 .. 0 = {}
      BY DEF T
    <2>2. \A x : Places(<<>>, {x}) = {}
      BY <2>1 DEF Places
    <2> QED  BY <2>1, <2>2, PlacesNone, FS_EmptySet
  <1>7. ASSUME NEW n \in Nat, n + 1 <= N, NEW h, Good(n, h)
        PROVE  Good(n + 1, IF rows[n + 1].pk = k THEN Append(h, rows[n + 1].hash) ELSE h)
    <2>1. n + 1 \in 1 .. N
      BY <1>1, <1>7
    <2> DEFINE y == rows[n + 1].hash
    <2>2. y \in H /\ h \in Seq(H)
      BY <1>1, <1>7, <2>1 DEF T
    <2>3. CASE rows[n + 1].pk = k
      <3>1. /\ Append(h, y) \in T /\ Len(Append(h, y)) = Len(h) + 1
            /\ Append(h, y)[Len(h) + 1] = y /\ \A j \in 1 .. Len(h) : Append(h, y)[j] = h[j]
        BY <2>2, AppendProperties DEF T
      <3>2. Len(Append(h, y)) = Cardinality(KeyPlaces(rows, k, n + 1))
        <4>1. Cardinality(KeyPlaces(rows, k, n + 1)) = Cardinality(KeyPlaces(rows, k, n)) + 1
          BY <2>3, KeyPlacesGrow
        <4> QED  BY <1>7, <3>1, <4>1
      <3>3. ASSUME NEW x
            PROVE  Cardinality(Places(Append(h, y), {x})) =
                     Cardinality(HashPlaces(rows, k, x, n + 1))
        <4>1. Cardinality(Places(h, {x})) = Cardinality(HashPlaces(rows, k, x, n))
          BY <1>7
        <4> HIDE DEF y
        <4>2. CASE y = x
          <5>1. Cardinality(HashPlaces(rows, k, x, n + 1)) = Cardinality(HashPlaces(rows, k, x, n)) + 1
            BY <2>3, <4>2, HashPlacesGrow DEF y
          <5>2. Cardinality(Places(Append(h, y), {x})) = Cardinality(Places(h, {x})) + 1
            BY <2>2, <4>2, PlacesOfAppend
          <5> QED  BY <4>1, <5>1, <5>2
        <4>3. CASE y # x
          <5>1. HashPlaces(rows, k, x, n + 1) = HashPlaces(rows, k, x, n)
            BY <4>3 DEF HashPlaces, y
          <5>2. Places(Append(h, y), {x}) = Places(h, {x})
            <6>1. Len(h) \in Nat
              BY <2>2
            <6> QED  BY <3>1, <4>3, <6>1 DEF Places
          <5> QED  BY <4>1, <5>1, <5>2
        <4> QED  BY <4>2, <4>3
      <3>4. ASSUME NEW j \in 1 .. Len(Append(h, y))
            PROVE  \E i \in 1 .. N : rows[i].pk = k /\ Append(h, y)[j] = rows[i].hash
        <4>1. Len(h) \in Nat
          BY <2>2
        <4>2. CASE j = Len(h) + 1
          BY <2>1, <2>3, <3>1, <4>2
        <4>3. CASE j \in 1 .. Len(h)
          BY <1>7, <3>1, <4>3
        <4> QED  BY <3>1, <4>1, <4>2, <4>3
      <3> QED  BY <2>3, <3>1, <3>2, <3>3, <3>4
    <2>4. CASE rows[n + 1].pk # k
      <3>1. \A x : Cardinality(HashPlaces(rows, k, x, n + 1)) = Cardinality(HashPlaces(rows, k, x, n))
        <4> SUFFICES ASSUME NEW x PROVE Cardinality(HashPlaces(rows, k, x, n + 1)) = Cardinality(HashPlaces(rows, k, x, n))
          OBVIOUS
        <4>1. HashPlaces(rows, k, x, n + 1) = HashPlaces(rows, k, x, n)
          BY <2>4 DEF HashPlaces
        <4> QED  BY <4>1
      <3>2. KeyPlaces(rows, k, n + 1) = KeyPlaces(rows, k, n)
        BY <2>4 DEF KeyPlaces
      <3> QED  BY <1>7, <2>4, <3>1, <3>2
    <2> QED  BY <2>3, <2>4
  <1> HIDE DEF Good
  <1>8. 0 \in G
    BY <1>5, <1>6
  <1>9. ASSUME NEW n \in Nat, n \in G PROVE n + 1 \in G
    <2>1. ASSUME n + 1 <= N PROVE Good(n + 1, hashes[n + 1])
      <3>1. Good(n, hashes[n]) /\ n + 1 \in 1 .. N /\ (n + 1) - 1 = n
        BY <1>1, <1>9, <2>1
      <3>2. Good(n + 1, IF rows[n + 1].pk = k THEN Append(hashes[n], rows[n + 1].hash) ELSE hashes[n])
        BY <1>7, <2>1, <3>1
      <3> QED  BY <1>5, <3>1, <3>2
    <2> QED  BY <2>1
  <1>10. Nat \subseteq G
    <2> HIDE DEF G
    <2> QED  BY <1>8, <1>9, NatSetInduction
  <1>11. Good(N, hashes[N])
    BY <1>1, <1>10
  <1> QED  BY <1>2, <1>11 DEF Good, T, H, N
-------------------------------------------------------------------------------
(* Tables, their hash, and the rows they hold. *)

IsRows(rows) ==
    /\ rows \in Seq({rows[i] : i \in 1 .. Len(rows)})
    /\ \A i \in 1 .. Len(rows) :
         rows[i] = [pk |-> rows[i].pk, hash |-> rows[i].hash, data |-> rows[i].data]

IsTable(t) == t = [schema |-> t.schema, rows |-> t.rows] /\ IsRows(t.rows)

\* Rows of one identity are equal.
OneRowPerPk(rows) ==
    \A i, j \in 1 .. Len(rows) : rows[i].pk = rows[j].pk => rows[i] = rows[j]

\* Two rows of tables without row faults are equal when identity and hash are.
LEMMA RowsDecided ==
    ASSUME NEW t, IsTable(t), RowFaults(t.rows) = {}, NEW u, IsTable(u), RowFaults(u.rows) = {},
           NEW i \in 1 .. Len(t.rows), NEW j \in 1 .. Len(u.rows),
           t.rows[i].pk = u.rows[j].pk, t.rows[i].hash = u.rows[j].hash
    PROVE  t.rows[i] = u.rows[j]
  <1>1. RowHash(t.rows[i].data) = t.rows[i].hash /\ RowHash(u.rows[j].data) = u.rows[j].hash
    BY DEF RowFaults
  <1>2. t.rows[i].data = u.rows[j].data
    BY <1>1 DEF RowHash
  <1>3. t.rows[i] = [pk |-> t.rows[i].pk, hash |-> t.rows[i].hash, data |-> t.rows[i].data]
        /\ u.rows[j] = [pk |-> u.rows[j].pk, hash |-> u.rows[j].hash, data |-> u.rows[j].data]
    BY DEF IsTable, IsRows
  <1> QED  BY <1>2, <1>3

LEMMA CopiesArePlaces ==
    ASSUME NEW t, IsTable(t), RowFaults(t.rows) = {}, NEW i \in 1 .. Len(t.rows),
           NEW u, IsTable(u), RowFaults(u.rows) = {}
    PROVE  /\ Copies(t.rows[i], u.rows) =
                Cardinality(HashPlaces(u.rows, t.rows[i].pk, t.rows[i].hash, Len(u.rows)))
           /\ Copies(t.rows[i], u.rows) = Cardinality(Places(u.rows, {t.rows[i]}))
  <1>1. HashPlaces(u.rows, t.rows[i].pk, t.rows[i].hash, Len(u.rows)) = Places(u.rows, {t.rows[i]})
    <2>1. \A j \in 1 .. Len(u.rows) :
            (u.rows[j].pk = t.rows[i].pk /\ u.rows[j].hash = t.rows[i].hash) <=> u.rows[j] = t.rows[i]
      BY RowsDecided
    <2> QED  BY <2>1 DEF HashPlaces, Places
  <1>2. {j \in 1 .. Len(u.rows) : u.rows[j] = t.rows[i]} = Places(u.rows, {t.rows[i]})
    BY DEF Places
  <1> QED  BY <1>1, <1>2 DEF Copies

\* Equal table hashes, and no row fault: every row occurs equally often.
LEMMA HashDecides ==
    ASSUME NEW t, IsTable(t), RowFaults(t.rows) = {}, NEW u, IsTable(u), RowFaults(u.rows) = {},
           TableHash(t) = TableHash(u)
    PROVE  SameTable(t, u)
  <1>1. t.schema = u.schema /\ ByKey(t.rows) = ByKey(u.rows)
    BY DEF TableHash, SchemaHash
  <1>2. DOMAIN ByKey(t.rows) = {t.rows[i].pk : i \in 1 .. Len(t.rows)}
        /\ DOMAIN ByKey(u.rows) = {u.rows[i].pk : i \in 1 .. Len(u.rows)}
    BY DEF ByKey
  <1> DEFINE KT == {t.rows[i].pk : i \in 1 .. Len(t.rows)}
             KU == {u.rows[i].pk : i \in 1 .. Len(u.rows)}
             RT == {t.rows[i] : i \in 1 .. Len(t.rows)}
             RU == {u.rows[i] : i \in 1 .. Len(u.rows)}
  <1>3. KT = KU
    BY <1>1, <1>2
  <1>4. t.rows \in Seq(RT) /\ u.rows \in Seq(RU) /\ Len(t.rows) \in Nat /\ Len(u.rows) \in Nat
    BY DEF IsTable, IsRows
  <1>5. ASSUME NEW k \in KT, NEW x
        PROVE  Cardinality(HashPlaces(t.rows, k, x, Len(t.rows)))
                 = Cardinality(HashPlaces(u.rows, k, x, Len(u.rows)))
    <2>1. Cardinality(Places(ByKey(t.rows)[k], {x})) = Cardinality(HashPlaces(t.rows, k, x, Len(t.rows)))
      <3> HIDE DEF RT
      <3> QED  BY <1>4, HashesByKey
    <2>2. Cardinality(Places(ByKey(u.rows)[k], {x})) = Cardinality(HashPlaces(u.rows, k, x, Len(u.rows)))
      <3>1. k \in KU
        BY <1>3
      <3> HIDE DEF RU
      <3> QED  BY <1>4, <3>1, HashesByKey
    <2> QED  BY <1>1, <2>1, <2>2
  <1>6. ASSUME NEW i \in 1 .. Len(t.rows)
        PROVE  /\ Copies(t.rows[i], t.rows) = Copies(t.rows[i], u.rows)
               /\ Cardinality(Places(t.rows, {t.rows[i]})) = Cardinality(Places(u.rows, {t.rows[i]}))
    <2>1. t.rows[i].pk \in KT
      OBVIOUS
    <2> DEFINE k == t.rows[i].pk
               x == t.rows[i].hash
    <2>2. Copies(t.rows[i], t.rows) = Cardinality(HashPlaces(t.rows, k, x, Len(t.rows)))
          /\ Copies(t.rows[i], t.rows) = Cardinality(Places(t.rows, {t.rows[i]}))
      BY CopiesArePlaces
    <2>3. Copies(t.rows[i], u.rows) = Cardinality(HashPlaces(u.rows, k, x, Len(u.rows)))
          /\ Copies(t.rows[i], u.rows) = Cardinality(Places(u.rows, {t.rows[i]}))
      BY CopiesArePlaces
    <2>4. Cardinality(HashPlaces(t.rows, k, x, Len(t.rows)))
            = Cardinality(HashPlaces(u.rows, k, x, Len(u.rows)))
      BY <1>5, <2>1
    <2> QED  BY <2>2, <2>3, <2>4
  <1>7. ASSUME NEW i \in 1 .. Len(u.rows)
        PROVE  Cardinality(Places(t.rows, {u.rows[i]})) = Cardinality(Places(u.rows, {u.rows[i]}))
    <2>1. u.rows[i].pk \in KT
      BY <1>3
    <2> DEFINE k == u.rows[i].pk
               x == u.rows[i].hash
    <2>2. Copies(u.rows[i], t.rows) = Cardinality(HashPlaces(t.rows, k, x, Len(t.rows)))
          /\ Copies(u.rows[i], t.rows) = Cardinality(Places(t.rows, {u.rows[i]}))
      BY CopiesArePlaces
    <2>3. Copies(u.rows[i], u.rows) = Cardinality(HashPlaces(u.rows, k, x, Len(u.rows)))
          /\ Copies(u.rows[i], u.rows) = Cardinality(Places(u.rows, {u.rows[i]}))
      BY CopiesArePlaces
    <2>4. Cardinality(HashPlaces(t.rows, k, x, Len(t.rows)))
            = Cardinality(HashPlaces(u.rows, k, x, Len(u.rows)))
      BY <1>5, <2>1
    <2> QED  BY <2>2, <2>3, <2>4
  <1>8. Cardinality(Places(t.rows, RT \cup RU)) = Cardinality(Places(u.rows, RT \cup RU))
    <2>1. IsFiniteSet(RT) /\ IsFiniteSet(RU)
      BY <1>4, ElementsFinite
    <2>2. IsFiniteSet(RT \cup RU)
      BY <2>1, FS_Union
    <2>3. \A r \in RT \cup RU : Cardinality(Places(t.rows, {r})) = Cardinality(Places(u.rows, {r}))
      BY <1>6, <1>7
    <2> DEFINE R == RT \cup RU
               q == t.rows
               v == u.rows
    <2>4. Len(q) \in Nat /\ Len(v) \in Nat /\ IsFiniteSet(R) /\ SameCounts(q, v, R)
      BY <1>4, <2>2, <2>3 DEF SameCounts
    <2> HIDE DEF R, q, v
    <2>5. Cardinality(Places(q, R)) = Cardinality(Places(v, R))
      BY <2>4, PlacesTogether
    <2> QED  BY <2>5 DEF R, q, v
  <1>9. Len(t.rows) = Len(u.rows)
    <2>1. Places(t.rows, RT \cup RU) = 1 .. Len(t.rows) /\ Places(u.rows, RT \cup RU) = 1 .. Len(u.rows)
      BY DEF Places
    <2>2. Cardinality(1 .. Len(t.rows)) = Len(t.rows) /\ Cardinality(1 .. Len(u.rows)) = Len(u.rows)
      BY <1>4, IntervalSize
    <2> QED  BY <1>8, <2>1, <2>2
  <1> QED  BY <1>1, <1>6, <1>9 DEF SameTable

LEMMA CopiesPlaces ==
    ASSUME NEW r, NEW rows
    PROVE  Copies(r, rows) = Cardinality(Places(rows, {r}))
  <1>1. {i \in 1 .. Len(rows) : rows[i] = r} = Places(rows, {r})
    BY DEF Places
  <1> QED  BY <1>1 DEF Copies

\* The same rows equally often: the same rows.
Within(t, u) == \A i \in 1 .. Len(t.rows) : \E j \in 1 .. Len(u.rows) : u.rows[j] = t.rows[i]

AsOften(t, u) ==
    \A i \in 1 .. Len(t.rows) :
        Cardinality(Places(t.rows, {t.rows[i]})) = Cardinality(Places(u.rows, {t.rows[i]}))

LEMMA SameRows ==
    ASSUME NEW t, IsTable(t), NEW u, IsTable(u), SameTable(t, u)
    PROVE  Within(t, u) /\ Within(u, t) /\ AsOften(t, u)
  <1> DEFINE q == t.rows
             v == u.rows
             RT == {q[i] : i \in 1 .. Len(q)}
             RU == {v[i] : i \in 1 .. Len(v)}
  <1>1. Len(q) \in Nat /\ Len(v) \in Nat /\ Len(q) = Len(v)
    BY DEF IsTable, IsRows, SameTable
  <1>2. \A i \in 1 .. Len(q) : Copies(q[i], q) = Copies(q[i], v)
    BY DEF SameTable
  <1> HIDE DEF q, v
  <1>3. \A i \in 1 .. Len(q) : Cardinality(Places(q, {q[i]})) = Cardinality(Places(v, {q[i]}))
    BY <1>2, CopiesPlaces
  <1>4. ASSUME NEW i \in 1 .. Len(q) PROVE q[i] \in RU
    <2>1. i \in Places(q, {q[i]})
      BY DEF Places
    <2>2. IsFiniteSet(Places(q, {q[i]})) /\ IsFiniteSet(Places(v, {q[i]}))
      BY <1>1, PlacesFinite
    <2>3. Cardinality(Places(q, {q[i]})) # 0
      BY <2>1, <2>2, FS_EmptySet
    <2>4. Cardinality(Places(v, {q[i]})) # 0
      BY <1>3, <2>3
    <2> HIDE DEF RU
    <2>6. Places(v, {q[i]}) # {}
      BY <2>4, FS_EmptySet
    <2>5. PICK j : j \in Places(v, {q[i]})
      BY <2>6
    <2> QED  BY <2>5 DEF Places, RU
  <1>5. Cardinality(Places(q, RT)) = Cardinality(Places(v, RT))
    <2>1. IsFiniteSet(RT)
      BY <1>1, ElementsFinite
    <2>2. SameCounts(q, v, RT)
      BY <1>3 DEF SameCounts
    <2> HIDE DEF RT
    <2> QED  BY <1>1, <2>1, <2>2, PlacesTogether
  <1>6. Places(v, RT) = 1 .. Len(v)
    <2>1. Places(q, RT) = 1 .. Len(q) /\ Places(v, RT) \subseteq 1 .. Len(v)
      BY DEF Places
    <2>2. IsFiniteSet(1 .. Len(v)) /\ Cardinality(Places(v, RT)) = Cardinality(1 .. Len(v))
      BY <1>1, <1>5, <2>1, IntervalSize
    <2> HIDE DEF RT
    <2> QED  BY <2>1, <2>2, FS_Subset
  <1>7. ASSUME NEW i \in 1 .. Len(v) PROVE v[i] \in RT
    BY <1>6 DEF Places
  <1> QED  BY <1>3, <1>4, <1>7 DEF q, v, Within, AsOften

\* One identity, one row: the hashes kept for it are that row's hash, repeated.
LEMMA OneHashByKey ==
    ASSUME NEW t, IsTable(t), OneRowPerPk(t.rows), NEW i \in 1 .. Len(t.rows)
    PROVE  /\ ByKey(t.rows)[t.rows[i].pk] \in Seq({t.rows[j].hash : j \in 1 .. Len(t.rows)})
           /\ Len(ByKey(t.rows)[t.rows[i].pk]) = Cardinality(Places(t.rows, {t.rows[i]}))
           /\ \A j \in 1 .. Len(ByKey(t.rows)[t.rows[i].pk]) :
                ByKey(t.rows)[t.rows[i].pk][j] = t.rows[i].hash
  <1> DEFINE q == t.rows
             RT == {q[j] : j \in 1 .. Len(q)}
             k == q[i].pk
             b == ByKey(q)[k]
  <1>1. q \in Seq(RT) /\ k \in {q[j].pk : j \in 1 .. Len(q)}
    BY DEF IsTable, IsRows
  <1>2. \A j \in 1 .. Len(q) : q[j].pk = k => q[j] = q[i]
    BY DEF OneRowPerPk
  <1>3. KeyPlaces(q, k, Len(q)) = Places(q, {q[i]})
    BY <1>2 DEF KeyPlaces, Places
  <1>4. /\ b \in Seq({q[j].hash : j \in 1 .. Len(q)})
        /\ Len(b) = Cardinality(KeyPlaces(q, k, Len(q)))
        /\ \A j \in 1 .. Len(b) : \E m \in 1 .. Len(q) : q[m].pk = k /\ b[j] = q[m].hash
    <2> HIDE DEF q, RT, k
    <2>1. b \in Seq({q[j].hash : j \in 1 .. Len(q)})
      BY <1>1, HashesByKey
    <2>2. Len(b) = Cardinality(KeyPlaces(q, k, Len(q)))
      BY <1>1, HashesByKey
    <2>3. \A j \in 1 .. Len(b) : \E m \in 1 .. Len(q) : q[m].pk = k /\ b[j] = q[m].hash
      BY <1>1, HashesByKey
    <2> QED  BY <2>1, <2>2, <2>3
  <1>5. \A j \in 1 .. Len(b) : b[j] = q[i].hash
    <2> HIDE DEF b, q, k
    <2> QED  BY <1>2, <1>4
  <1> QED  BY <1>3, <1>4, <1>5

\* The same rows equally often, one row per identity: the same hash, and no row fault
\* in the one if none in the other.
LEMMA SameHash ==
    ASSUME NEW t, IsTable(t), NEW u, IsTable(u), RowFaults(u.rows) = {}, OneRowPerPk(u.rows),
           SameTable(t, u)
    PROVE  RowFaults(t.rows) = {} /\ TableHash(t) = TableHash(u) /\ Len(t.rows) = Len(u.rows)
  <1>1. Within(t, u) /\ Within(u, t) /\ AsOften(t, u)
    BY SameRows
  <1>2. \A i \in 1 .. Len(t.rows) : \E j \in 1 .. Len(u.rows) : t.rows[i] = u.rows[j]
    BY <1>1 DEF Within
  <1>3. \A j \in 1 .. Len(u.rows) : \E i \in 1 .. Len(t.rows) : t.rows[i] = u.rows[j]
    BY <1>1 DEF Within
  <1>4. RowFaults(t.rows) = {}
    BY <1>2 DEF RowFaults
  <1>5. OneRowPerPk(t.rows)
    <2>1. \A i, j \in 1 .. Len(u.rows) : u.rows[i].pk = u.rows[j].pk => u.rows[i] = u.rows[j]
      BY DEF OneRowPerPk
    <2>2. ASSUME NEW i \in 1 .. Len(t.rows), NEW j \in 1 .. Len(t.rows), t.rows[i].pk = t.rows[j].pk
          PROVE  t.rows[i] = t.rows[j]
      <3>1. PICK m \in 1 .. Len(u.rows) : t.rows[i] = u.rows[m]
        BY <1>2
      <3>2. PICK n \in 1 .. Len(u.rows) : t.rows[j] = u.rows[n]
        BY <1>2
      <3> QED  BY <2>1, <2>2, <3>1, <3>2
    <2> QED  BY <2>2 DEF OneRowPerPk
  <1>6. {t.rows[i].pk : i \in 1 .. Len(t.rows)} = {u.rows[i].pk : i \in 1 .. Len(u.rows)}
    <2>1. \A i \in 1 .. Len(t.rows) : \E j \in 1 .. Len(u.rows) : t.rows[i].pk = u.rows[j].pk
      BY <1>2
    <2>2. \A j \in 1 .. Len(u.rows) : \E i \in 1 .. Len(t.rows) : t.rows[i].pk = u.rows[j].pk
      BY <1>3
    <2> DEFINE KT == {t.rows[i].pk : i \in 1 .. Len(t.rows)}
               KU == {u.rows[i].pk : i \in 1 .. Len(u.rows)}
    <2>3. \A k \in KT : k \in KU
      BY <2>1
    <2>4. \A k \in KU : k \in KT
      BY <2>2
    <2> QED  BY <2>3, <2>4
  <1>7. ASSUME NEW k \in {t.rows[i].pk : i \in 1 .. Len(t.rows)}
        PROVE  ByKey(t.rows)[k] = ByKey(u.rows)[k]
    <2>1. PICK i \in 1 .. Len(t.rows) : t.rows[i].pk = k
      OBVIOUS
    <2>2. PICK j \in 1 .. Len(u.rows) : t.rows[i] = u.rows[j]
      BY <1>2
    <2> DEFINE a == ByKey(t.rows)[k]
               b == ByKey(u.rows)[k]
               r == t.rows[i]
               HT == {t.rows[m].hash : m \in 1 .. Len(t.rows)}
               HU == {u.rows[m].hash : m \in 1 .. Len(u.rows)}
    <2>3. a \in Seq(HT) /\ Len(a) = Cardinality(Places(t.rows, {r}))
          /\ \A m \in 1 .. Len(a) : a[m] = r.hash
      BY <1>5, <2>1, OneHashByKey
    <2>4. b \in Seq(HU) /\ Len(b) = Cardinality(Places(u.rows, {r}))
          /\ \A m \in 1 .. Len(b) : b[m] = r.hash
      <3>1. /\ ByKey(u.rows)[u.rows[j].pk] \in Seq(HU)
            /\ Len(ByKey(u.rows)[u.rows[j].pk]) = Cardinality(Places(u.rows, {u.rows[j]}))
            /\ \A m \in 1 .. Len(ByKey(u.rows)[u.rows[j].pk]) :
                 ByKey(u.rows)[u.rows[j].pk][m] = u.rows[j].hash
        BY OneHashByKey
      <3> QED  BY <2>1, <2>2, <3>1
    <2>5. Cardinality(Places(t.rows, {r})) = Cardinality(Places(u.rows, {r}))
      BY <1>1 DEF AsOften
    <2>6. Len(a) = Len(b)
      BY <2>3, <2>4, <2>5
    <2> HIDE DEF a, b, r, HT, HU
    <2>7. a = [m \in 1 .. Len(a) |-> a[m]] /\ b = [m \in 1 .. Len(b) |-> b[m]]
      BY <2>3, <2>4
    <2>8. a = b
      BY <2>3, <2>4, <2>6, <2>7
    <2> QED  BY <2>8 DEF a, b
  <1>8. ByKey(t.rows) = ByKey(u.rows)
    <2>1. ByKey(t.rows) = [k \in {t.rows[i].pk : i \in 1 .. Len(t.rows)} |-> ByKey(t.rows)[k]]
      BY DEF ByKey
    <2>2. ByKey(u.rows) = [k \in {u.rows[i].pk : i \in 1 .. Len(u.rows)} |-> ByKey(u.rows)[k]]
      BY DEF ByKey
    <2> QED  BY <1>6, <1>7, <2>1, <2>2
  <1> QED  BY <1>4, <1>8 DEF TableHash, SameTable
-------------------------------------------------------------------------------
(* The invariants. *)

IsCommit(c) == c = [tree |-> c.tree, parent |-> c.parent, meta |-> c.meta]

\* The shapes of the objects, which no alteration breaks.
ShapesOK ==
    /\ \A n \in DOMAIN tables : IsTable(tables[n])
    /\ \A n \in DOMAIN commits : IsCommit(commits[n])
    /\ DOMAIN commits \subseteq DOMAIN recorded.commits
    /\ head \in DOMAIN recorded.commits \cup {None}

\* The store commit() left behind: every object is named by its hash and leads to
\* objects that are there, and verify finds no fault in its tables.
RecordedOK ==
    /\ \A n \in DOMAIN recorded.tables :
         /\ IsTable(recorded.tables[n]) /\ TableHash(recorded.tables[n]) = n
         /\ OneRowPerPk(recorded.tables[n].rows)
    /\ \A n \in DOMAIN recorded.trees :
         /\ TreeHash(recorded.trees[n]) = n
         /\ \A e \in recorded.trees[n] :
              /\ e.table_hash \in DOMAIN recorded.tables
              /\ TableFaults(e, recorded.tables[e.table_hash]) = {}
    /\ \A n \in DOMAIN recorded.commits :
         /\ IsCommit(recorded.commits[n]) /\ CommitHashOf(recorded.commits[n]) = n
         /\ recorded.commits[n].tree \in DOMAIN recorded.trees
         /\ recorded.commits[n].parent \in DOMAIN recorded.commits \cup {None}

\* The chain as verify reads it, and as it takes it down.
ChainOK ==
    /\ chain \in Seq({<<n, commits[n]>> : n \in DOMAIN commits})
    /\ phase = "store" => chain = <<>> /\ next = None /\ left = {} /\ report = {}
                            /\ outcome = "none"
    /\ phase \in {"chain", "commit", "tables"} => outcome = "none"
    /\ phase = "chain" => /\ report = {} /\ head # None
                          /\ next = IF chain = <<>> THEN head ELSE chain[Len(chain)][2].parent
                          /\ chain # <<>> => chain[1][1] = head
    /\ phase \in {"commit", "tables"} /\ chain # <<>> => chain[Len(chain)][2].parent = None
    /\ phase = "commit" => left = {}
    /\ outcome # "none" <=> phase = "done"

Base == IntegrityTypeOK /\ ShapesOK /\ RecordedOK /\ ChainOK

\* What verify has found in order.
Sealed(n) ==
    /\ CommitHashOf(commits[n]) = n
    /\ commits[n].tree \in DOMAIN trees /\ TreeHash(trees[commits[n].tree]) = commits[n].tree

EntryOK(e) == e.table_hash \in DOMAIN tables /\ TableFaults(e, tables[e.table_hash]) = {}

\* The commits in D have been checked, but for the entries in rest of m's tree.
Checked(D, m, rest) ==
    /\ head \in D
    /\ \A n \in D : /\ Sealed(n) /\ commits[n].parent \in D \cup {next}
                    /\ \A e \in trees[commits[n].tree] : EntryOK(e) \/ (n = m /\ e \in rest)

WalkOK ==
    /\ phase = "commit" /\ report = {} =>
         \/ chain # <<>> /\ chain[1][1] = head /\ next = None
         \/ /\ IF chain = <<>> THEN next = None ELSE next = chain[1][1]
            /\ \E D \in SUBSET DOMAIN commits : Checked(D, None, {})
    /\ phase = "tables" /\ report = {} =>
         /\ IF chain = <<>> THEN next = None ELSE next = chain[1][1]
         /\ \E D \in SUBSET DOMAIN commits : \E m \in D : Checked(D, m, left)
    /\ Verified => \/ head = None
                   \/ next = None /\ \E D \in SUBSET DOMAIN commits : Checked(D, None, {})

\* While the history is what was recorded, verify only meets recorded objects.
Ancestors == Up(recorded.commits, head)

Trusted ==
    /\ report = {} /\ outcome # "error"
    /\ \A i \in 1 .. Len(chain) : chain[i][1] \in RecordedHistory
    /\ phase = "chain" => Len(chain) \in 0 .. MaxChain /\ next = Ancestors[Len(chain)]
    /\ phase \in {"commit", "tables"} /\ next # None => chain # <<>> /\ chain[1][1] = next
    /\ \A e \in left : \E n \in RecordedHistory :
                            e \in recorded.trees[recorded.commits[n].tree]

TrustOK == (phase # "store" /\ HistoryAsRecorded) => Trusted
-------------------------------------------------------------------------------
(* What commit() left behind. *)

LEMMA Captured ==
    ASSUME NEW t, IsCaptured(t)
    PROVE  IsTable(t) /\ RowFaults(t.rows) = {} /\ OneRowPerPk(t.rows)
  <1>1. \A i \in 1 .. Len(t.rows) :
          t.rows[i] = [pk |-> RowPk(t.schema, t.rows[i].data), hash |-> RowHash(t.rows[i].data),
                       data |-> t.rows[i].data]
    BY DEF IsCaptured, MakeRecord
  <1>6. ASSUME NEW i \in 1 .. Len(t.rows)
        PROVE  /\ t.rows[i] = [pk |-> t.rows[i].pk, hash |-> t.rows[i].hash, data |-> t.rows[i].data]
               /\ RowHash(t.rows[i].data) = t.rows[i].hash
    <2> DEFINE r == t.rows[i]
               a == RowPk(t.schema, r.data)
               b == RowHash(r.data)
               d == r.data
    <2>1. r = [pk |-> a, hash |-> b, data |-> d]
      BY <1>1
    <2>2. b = RowHash(d)
      OBVIOUS
    <2> HIDE DEF r, a, b, d
    <2>3. r.pk = a /\ r.hash = b /\ r.data = d
      BY <2>1
    <2>4. r = [pk |-> r.pk, hash |-> r.hash, data |-> r.data] /\ RowHash(r.data) = r.hash
      BY <2>1, <2>2, <2>3
    <2> QED  BY <2>4 DEF r
  <1>2. RowFaults(t.rows) = {}
    BY <1>6 DEF RowFaults
  <1>3. OneRowPerPk(t.rows)
    BY DEF IsCaptured, OneRowPerPk
  <1>4. t.rows \in Seq({t.rows[i] : i \in 1 .. Len(t.rows)})
    <2> DEFINE q == t.rows
               M == {MakeRecord(t.schema, t.rows[i].data) : i \in 1 .. Len(t.rows)}
    <2>1. q \in Seq(M)
      BY DEF IsCaptured
    <2> HIDE DEF q, M
    <2>2. q \in Seq({q[i] : i \in 1 .. Len(q)})
      BY <2>1
    <2> QED  BY <2>2 DEF q
  <1>5. t = [schema |-> t.schema, rows |-> t.rows]
    BY DEF IsCaptured
  <1> QED  BY <1>2, <1>3, <1>4, <1>5, <1>6 DEF IsTable, IsRows

\* A tree entry fits every table of its hash.
LEMMA EntryFits ==
    ASSUME NEW t, IsTable(t), RowFaults(t.rows) = {}, NEW u, IsTable(u), RowFaults(u.rows) = {},
           TableHash(t) = TableHash(u)
    PROVE  TableFaults(TreeEntry(t), u) = {}
  <1>1. SameTable(t, u)
    BY HashDecides
  <1> QED  BY <1>1 DEF SameTable, TableFaults, SchemaFaults, TreeEntry

LEMMA CommitsFollow ==
    ASSUME NEW h, Len(h) \in Nat
    PROVE  \A i \in 1 .. Len(h) :
             CommitsOf(h)[i] = [tree   |-> TreeHash(TreeOfTables(h[i].tables)),
                                parent |-> IF i = 1 THEN None ELSE CommitHashOf(CommitsOf(h)[i - 1]),
                                meta   |-> h[i].meta]
  <1> DEFINE N == Len(h)
             New(f, i) == IF i = 0 THEN None
                          ELSE [tree   |-> TreeHash(TreeOfTables(h[i].tables)),
                                parent |-> IF i = 1 THEN None ELSE CommitHashOf(f[i - 1]),
                                meta   |-> h[i].meta]
             Step(f) == [i \in 0 .. N |-> New(f, i)]
             Begun(n) == \E f : f = [i \in 0 .. n |-> New(f, i)]
             S == {n \in Nat : Begun(n)}
             c == CHOOSE f : f = Step(f)
  <1>1. \A f, g, i : f[i - 1] = g[i - 1] => New(f, i) = New(g, i)
    OBVIOUS
  <1>2. \A f, g : New(f, 0) = New(g, 0)
    OBVIOUS
  <1>3. CommitsOf(h) = [i \in 1 .. N |-> c[i]]
    BY DEF CommitsOf
  <1>4. \A f : \A i \in 1 .. N :
          New(f, i) = [tree   |-> TreeHash(TreeOfTables(h[i].tables)),
                       parent |-> IF i = 1 THEN None ELSE CommitHashOf(f[i - 1]),
                       meta   |-> h[i].meta]
    BY DEF New
  <1>5. N \in Nat
    OBVIOUS
  <1> HIDE DEF New, N
  <1>6. Begun(0)
    <2> DEFINE f == [i \in 0 .. 0 |-> New(<<>>, 0)]
    <2>1. \A i \in 0 .. 0 : i = 0
      OBVIOUS
    <2>2. f = [i \in 0 .. 0 |-> New(f, i)]
      BY <1>2, <2>1
    <2> QED  BY <2>2
  <1>7. ASSUME NEW n \in Nat, Begun(n) PROVE Begun(n + 1)
    <2>1. PICK f : f = [i \in 0 .. n |-> New(f, i)]
      BY <1>7
    <2> DEFINE g == [i \in 0 .. n + 1 |-> IF i = n + 1 THEN New(f, n + 1) ELSE f[i]]
    <2>2. \A i \in 0 .. n : i \in 0 .. n + 1 /\ i # n + 1
      OBVIOUS
    <2>3. g[n + 1] = New(f, n + 1) /\ \A i \in 0 .. n : g[i] = f[i] /\ f[i] = New(f, i)
      <3>1. n + 1 \in 0 .. n + 1
        OBVIOUS
      <3>2. \A i \in 0 .. n : f[i] = New(f, i)
        BY <2>1
      <3> QED  BY <2>2, <3>1, <3>2
    <2>4. g = [i \in 0 .. n + 1 |-> g[i]]
      OBVIOUS
    <2> HIDE DEF g
    <2>5. ASSUME NEW i \in 0 .. n + 1 PROVE g[i] = New(g, i)
      <3>1. CASE i = 0
        BY <1>2, <2>3, <3>1
      <3>2. CASE i \in 1 .. n
        <4>1. i - 1 \in 0 .. n /\ i \in 0 .. n
          BY <3>2
        <4>2. f[i - 1] = g[i - 1] /\ g[i] = New(f, i)
          BY <2>3, <4>1
        <4> QED  BY <1>1, <4>2
      <3>3. CASE i = n + 1
        <4>1. (n + 1) - 1 = n /\ n \in 0 .. n
          OBVIOUS
        <4>2. f[(n + 1) - 1] = g[(n + 1) - 1]
          BY <2>3, <4>1
        <4>3. New(f, n + 1) = New(g, n + 1)
          BY <1>1, <4>2
        <4> QED  BY <2>3, <3>3, <4>3
      <3> QED  BY <3>1, <3>2, <3>3
    <2>6. g = [i \in 0 .. n + 1 |-> New(g, i)]
      BY <2>4, <2>5
    <2> QED  BY <2>6
  <1>8. Nat \subseteq S
    <2> HIDE DEF Begun
    <2>1. 0 \in S /\ \A n \in Nat : n \in S => n + 1 \in S
      BY <1>6, <1>7
    <2> HIDE DEF S
    <2> QED  BY <2>1, NatSetInduction
  <1>9. c = Step(c)
    <2>1. Begun(N)
      <3> HIDE DEF Begun
      <3> QED  BY <1>5, <1>8
    <2> QED  BY <2>1
  <1> HIDE DEF c
  <1>10. \A i \in 1 .. N : c[i] = New(c, i)
    <2>1. \A i \in 1 .. N : i \in 0 .. N
      BY <1>5
    <2> QED  BY <1>9, <2>1
  <1>11. ASSUME NEW i \in 1 .. N
         PROVE  CommitsOf(h)[i] = [tree   |-> TreeHash(TreeOfTables(h[i].tables)),
                                   parent |-> IF i = 1 THEN None ELSE CommitHashOf(CommitsOf(h)[i - 1]),
                                   meta   |-> h[i].meta]
    <2>1. i # 1 => i - 1 \in 1 .. N
      BY <1>5
    <2>2. CommitsOf(h)[i] = New(c, i)
      BY <1>3, <1>10
    <2>3. i # 1 => CommitsOf(h)[i - 1] = c[i - 1]
      BY <1>3, <2>1
    <2> QED  BY <1>4, <2>2, <2>3
  <1> QED  BY <1>11 DEF N

\* Every object of the recorded store is in its place, and fits.
LEMMA StoreIsInOrder ==
    ASSUME NEW h \in Histories, recorded = StoreOf(h)
    PROVE  RecordedOK /\ recorded.head \in DOMAIN recorded.commits \cup {None}
  <1> DEFINE N == Len(h)
             C == CommitsOf(h)
             ts == UNION {h[i].tables : i \in 1 .. N}
             rs == {TreeOfTables(h[i].tables) : i \in 1 .. N}
             cs == {C[i] : i \in 1 .. N}
  <1>1. N \in Nat /\ \A i \in 1 .. N : \A t \in h[i].tables : IsCaptured(t)
    <2>1. h \in Seq({h[i] : i \in 1 .. Len(h)})
      BY IntegrityAssumptions
    <2>2. \A i \in 1 .. Len(h) : \A t \in h[i].tables : IsCaptured(t)
      BY IntegrityAssumptions
    <2> QED  BY <2>1, <2>2
  <1>2. \A i \in 1 .. N :
          C[i] = [tree   |-> TreeHash(TreeOfTables(h[i].tables)),
                  parent |-> IF i = 1 THEN None ELSE CommitHashOf(C[i - 1]),
                  meta   |-> h[i].meta]
    BY <1>1, CommitsFollow
  <1>3. /\ recorded.tables = [n \in {TableHash(o) : o \in ts} |-> CHOOSE o \in ts : TableHash(o) = n]
        /\ recorded.trees = [n \in {TreeHash(o) : o \in rs} |-> CHOOSE o \in rs : TreeHash(o) = n]
        /\ recorded.commits =
             [n \in {CommitHashOf(o) : o \in cs} |-> CHOOSE o \in cs : CommitHashOf(o) = n]
    BY DEF StoreOf, Directory
  <1>4. recorded.head = IF h = <<>> THEN None ELSE CommitHashOf(C[N])
    BY DEF StoreOf
  <1> HIDE DEF C, N
  <1>5. \A t \in ts : IsTable(t) /\ RowFaults(t.rows) = {} /\ OneRowPerPk(t.rows)
    BY <1>1, Captured
  <1> HIDE DEF ts, rs, cs
  <1>6. \A t \in ts : TableHash(t) \in DOMAIN recorded.tables
    BY <1>3
  <1>7. \A n \in DOMAIN recorded.tables : recorded.tables[n] \in ts /\ TableHash(recorded.tables[n]) = n
    BY <1>3
  <1>8. \A i \in 1 .. N : TreeHash(TreeOfTables(h[i].tables)) \in DOMAIN recorded.trees
    BY <1>3 DEF rs
  <1>9. \A n \in DOMAIN recorded.trees : recorded.trees[n] \in rs /\ TreeHash(recorded.trees[n]) = n
    BY <1>3
  <1>10. \A i \in 1 .. N : CommitHashOf(C[i]) \in DOMAIN recorded.commits
    BY <1>3 DEF cs
  <1>11. \A n \in DOMAIN recorded.commits :
           recorded.commits[n] \in cs /\ CommitHashOf(recorded.commits[n]) = n
    BY <1>3
  <1>12. ASSUME NEW n \in DOMAIN recorded.trees, NEW e \in recorded.trees[n]
         PROVE  /\ e.table_hash \in DOMAIN recorded.tables
                /\ TableFaults(e, recorded.tables[e.table_hash]) = {}
    <2>1. PICK i \in 1 .. N : recorded.trees[n] = TreeOfTables(h[i].tables)
      BY <1>9 DEF rs
    <2>2. PICK t \in h[i].tables : e = TreeEntry(t)
      BY <2>1 DEF TreeOfTables
    <2>3. t \in ts
      BY DEF ts
    <2>4. e.table_hash = TableHash(t)
      BY <2>2 DEF TreeEntry
    <2>5. e.table_hash \in DOMAIN recorded.tables
      BY <1>6, <2>3, <2>4
    <2> DEFINE u == recorded.tables[e.table_hash]
    <2>6. u \in ts /\ TableHash(u) = TableHash(t)
      BY <1>7, <2>4, <2>5
    <2>7. TableFaults(TreeEntry(t), u) = {}
      <3> HIDE DEF u
      <3> QED  BY <1>5, <2>3, <2>6, EntryFits
    <2> QED  BY <2>2, <2>5, <2>7
  <1>13. ASSUME NEW n \in DOMAIN recorded.commits
         PROVE  /\ IsCommit(recorded.commits[n])
                /\ recorded.commits[n].tree \in DOMAIN recorded.trees
                /\ recorded.commits[n].parent \in DOMAIN recorded.commits \cup {None}
    <2>1. PICK i \in 1 .. N : recorded.commits[n] = C[i]
      BY <1>11 DEF cs
    <2> DEFINE a == TreeHash(TreeOfTables(h[i].tables))
               b == IF i = 1 THEN None ELSE CommitHashOf(C[i - 1])
    <2>2. C[i] = [tree |-> a, parent |-> b, meta |-> h[i].meta]
      BY <1>2
    <2>3. a \in DOMAIN recorded.trees
      BY <1>8
    <2>4. b \in DOMAIN recorded.commits \cup {None}
      <3>1. i # 1 => i - 1 \in 1 .. N
        BY <1>1 DEF N
      <3> QED  BY <1>10, <3>1
    <2> HIDE DEF a, b
    <2> QED  BY <2>1, <2>2, <2>3, <2>4 DEF IsCommit
  <1>14. recorded.head \in DOMAIN recorded.commits \cup {None}
    <2>1. h # <<>> => N \in 1 .. N
      <3>1. h \in Seq({h[i] : i \in 1 .. Len(h)})
        BY IntegrityAssumptions
      <3>2. h # <<>> => Len(h) > 0
        BY <3>1
      <3> QED  BY <1>1, <3>2 DEF N
    <2> QED  BY <1>4, <1>10, <2>1
  <1> QED  BY <1>5, <1>7, <1>9, <1>11, <1>12, <1>13, <1>14 DEF RecordedOK
-------------------------------------------------------------------------------
(* The base of the argument: shapes, the recorded store, the chain. *)

LEMMA BaseInit == Init => Base
  <1> SUFFICES ASSUME Init PROVE Base
    OBVIOUS
  <1>1. PICK h \in Histories : recorded = StoreOf(h)
    BY DEF Init
  <1>2. RecordedOK /\ recorded.head \in DOMAIN recorded.commits \cup {None}
    BY <1>1, StoreIsInOrder
  <1>3. /\ tables = recorded.tables /\ trees = recorded.trees /\ commits = recorded.commits
        /\ head = recorded.head /\ altered = 0 /\ phase = "store" /\ chain = <<>> /\ next = None
        /\ left = {} /\ report = {} /\ outcome = "none"
    BY DEF Init
  <1>4. IntegrityTypeOK
    <2>1. altered \in 0 .. MaxAlterations
      BY <1>3, IntegrityAssumptions
    <2>2. Len(chain) = 0 /\ 1 .. 0 = {} /\ 2 .. 0 = {}
      BY <1>3
    <2> QED  BY <1>3, <2>1, <2>2 DEF IntegrityTypeOK
  <1>5. ShapesOK
    BY <1>2, <1>3 DEF ShapesOK, RecordedOK
  <1>6. ChainOK
    <2>1. chain \in Seq({<<n, commits[n]>> : n \in DOMAIN commits})
      BY <1>3
    <2> QED  BY <1>3, <2>1 DEF ChainOK
  <1> QED  BY <1>2, <1>4, <1>5, <1>6 DEF Base

\* What an alteration puts in place of a table is a table.
LEMMA RowsInPlace ==
    ASSUME NEW rows, IsRows(rows), NEW i \in 1 .. Len(rows), NEW r,
           r = [pk |-> r.pk, hash |-> r.hash, data |-> r.data]
    PROVE  IsRows([rows EXCEPT ![i] = r])
  <1> DEFINE R == {rows[j] : j \in 1 .. Len(rows)}
             q == [rows EXCEPT ![i] = r]
  <1>1. rows \in Seq(R)
    BY DEF IsRows
  <1> HIDE DEF R
  <1>2. q \in Seq(R \cup {r}) /\ Len(q) = Len(rows) /\ q[i] = r
        /\ \A j \in 1 .. Len(rows) : j # i => q[j] = rows[j]
    BY <1>1
  <1> HIDE DEF q
  <1>3. q \in Seq({q[j] : j \in 1 .. Len(q)})
    BY <1>2
  <1>4. ASSUME NEW j \in 1 .. Len(q)
        PROVE  q[j] = [pk |-> q[j].pk, hash |-> q[j].hash, data |-> q[j].data]
    BY <1>2 DEF IsRows
  <1>5. IsRows(q)
    BY <1>3, <1>4 DEF IsRows
  <1> QED  BY <1>5 DEF q

LEMMA RowsAdded ==
    ASSUME NEW rows, IsRows(rows), NEW i \in 1 .. Len(rows)
    PROVE  IsRows(Append(rows, rows[i])) /\ IsRows(Swap(rows)) /\ IsRows(<<>>)
  <1> DEFINE R == {rows[j] : j \in 1 .. Len(rows)}
             q == Append(rows, rows[i])
             p == Swap(rows)
             n == Len(rows)
  <1>1. rows \in Seq(R) /\ rows[i] \in R /\ n \in Nat /\ \A j \in 1 .. n : rows[j] \in R
    BY DEF IsRows
  <1>2. \A r \in R : r = [pk |-> r.pk, hash |-> r.hash, data |-> r.data]
    BY DEF IsRows
  <1> HIDE DEF R
  <1>3. q \in Seq(R)
    BY <1>1
  <1>4. p \in Seq(R)
    <2>1. \A j \in 1 .. n : n + 1 - j \in 1 .. n
      BY <1>1
    <2>2. p \in [1 .. n -> R]
      BY <1>1, <2>1 DEF Swap
    <2> QED  BY <1>1, <2>2
  <1>5. <<>> \in Seq(R)
    OBVIOUS
  <1>6. ASSUME NEW s \in Seq(R) PROVE IsRows(s)
    <2>1. s \in Seq({s[j] : j \in 1 .. Len(s)}) /\ \A j \in 1 .. Len(s) : s[j] \in R
      OBVIOUS
    <2> QED  BY <1>2, <2>1 DEF IsRows
  <1> QED  BY <1>3, <1>4, <1>5, <1>6

LEMMA OtherTableIsTable ==
    ASSUME ShapesOK, NEW t, IsTable(t), NEW u \in OtherTables(t)
    PROVE  IsTable(u)
  <1> DEFINE rows == t.rows
  <1>1. t = [schema |-> t.schema, rows |-> rows] /\ IsRows(rows) /\ DOMAIN rows = 1 .. Len(rows)
    BY DEF IsTable, IsRows
  <1>2. ASSUME NEW s, NEW q, IsRows(q) PROVE IsTable([schema |-> s, rows |-> q])
    BY <1>2 DEF IsTable
  <1>3. ASSUME NEW i \in DOMAIN rows, NEW d, u = [t EXCEPT !.rows[i].data = d] PROVE IsTable(u)
    <2> DEFINE r == [rows[i] EXCEPT !.data = d]
    <2>1. rows[i] = [pk |-> rows[i].pk, hash |-> rows[i].hash, data |-> rows[i].data]
      BY <1>1 DEF IsRows
    <2>2. r = [pk |-> r.pk, hash |-> r.hash, data |-> r.data]
      BY <2>1
    <2>3. u = [schema |-> t.schema, rows |-> [rows EXCEPT ![i] = r]]
      BY <1>1, <1>3
    <2> HIDE DEF r, rows
    <2> QED  BY <1>1, <1>2, <2>2, <2>3, RowsInPlace
  <1>4. ASSUME NEW i \in DOMAIN rows, NEW d, u = [t EXCEPT !.rows[i] = MakeRecord(t.schema, d)]
        PROVE  IsTable(u)
    <2> DEFINE r == MakeRecord(t.schema, d)
    <2>2. r = [pk |-> r.pk, hash |-> r.hash, data |-> r.data]
      BY DEF MakeRecord
    <2>3. u = [schema |-> t.schema, rows |-> [rows EXCEPT ![i] = r]]
      BY <1>1, <1>4
    <2> HIDE DEF r, rows
    <2> QED  BY <1>1, <1>2, <2>2, <2>3, RowsInPlace
  <1>5. ASSUME NEW i \in DOMAIN rows, NEW d, u = [t EXCEPT !.rows[i].pk = RowPk(t.schema, d)]
        PROVE  IsTable(u)
    <2> DEFINE r == [rows[i] EXCEPT !.pk = RowPk(t.schema, d)]
    <2>1. rows[i] = [pk |-> rows[i].pk, hash |-> rows[i].hash, data |-> rows[i].data]
      BY <1>1 DEF IsRows
    <2>2. r = [pk |-> r.pk, hash |-> r.hash, data |-> r.data]
      BY <2>1
    <2>3. u = [schema |-> t.schema, rows |-> [rows EXCEPT ![i] = r]]
      BY <1>1, <1>5
    <2> HIDE DEF r, rows
    <2> QED  BY <1>1, <1>2, <2>2, <2>3, RowsInPlace
  <1>6. ASSUME NEW i \in DOMAIN rows, u = [t EXCEPT !.rows = Append(@, @[i])] PROVE IsTable(u)
    <2>1. u = [schema |-> t.schema, rows |-> Append(rows, rows[i])]
      BY <1>1, <1>6
    <2> HIDE DEF rows
    <2> QED  BY <1>1, <1>2, <2>1, RowsAdded
  <1>7. ASSUME u \in {[t EXCEPT !.rows = Swap(@)], [t EXCEPT !.rows = <<>>]} PROVE IsTable(u)
    <2>1. u = [schema |-> t.schema, rows |-> Swap(rows)] \/ u = [schema |-> t.schema, rows |-> <<>>]
      BY <1>1, <1>7
    <2>2. IsRows(<<>>)
      BY DEF IsRows
    <2>3. IsRows(Swap(rows))
      <3>1. CASE rows = <<>>
        <4>1. Swap(rows) = <<>>
          BY <3>1 DEF Swap
        <4> QED  BY <2>2, <4>1
      <3>2. CASE rows # <<>>
        <4>1. 1 \in 1 .. Len(rows)
          BY <1>1, <3>2 DEF IsRows
        <4> HIDE DEF rows
        <4> QED  BY <1>1, <4>1, RowsAdded
      <3> QED  BY <3>1, <3>2
    <2> QED  BY <1>2, <2>1, <2>2, <2>3
  <1>8. ASSUME NEW s, u = [t EXCEPT !.schema = s] PROVE IsTable(u)
    BY <1>1, <1>8 DEF IsTable
  <1>9. ASSUME NEW n \in DOMAIN tables, u = tables[n] PROVE IsTable(u)
    BY <1>9 DEF ShapesOK
  <1>10. \/ u \in {[t EXCEPT !.rows[i].data = d] : i \in DOMAIN t.rows, d \in Datas}
         \/ u \in {[t EXCEPT !.rows[i] = MakeRecord(t.schema, d)] : i \in DOMAIN t.rows, d \in Datas}
         \/ u \in {[t EXCEPT !.rows[i].pk = RowPk(t.schema, d)] : i \in DOMAIN t.rows, d \in Datas}
         \/ u \in {[t EXCEPT !.rows = Append(@, @[i])] : i \in DOMAIN t.rows}
         \/ u \in {[t EXCEPT !.rows = Swap(@)], [t EXCEPT !.rows = <<>>]}
         \/ u \in {[t EXCEPT !.schema = s] : s \in Schemas}
         \/ u \in {tables[n] : n \in DOMAIN tables}
    BY DEF OtherTables
  <1>11. u \in {[t EXCEPT !.rows[i].data = d] : i \in DOMAIN t.rows, d \in Datas} => IsTable(u)
    BY <1>3
  <1>12. u \in {[t EXCEPT !.rows[i] = MakeRecord(t.schema, d)] : i \in DOMAIN t.rows, d \in Datas}
           => IsTable(u)
    BY <1>4
  <1>13. u \in {[t EXCEPT !.rows[i].pk = RowPk(t.schema, d)] : i \in DOMAIN t.rows, d \in Datas}
           => IsTable(u)
    BY <1>5
  <1>14. u \in {[t EXCEPT !.rows = Append(@, @[i])] : i \in DOMAIN t.rows} => IsTable(u)
    BY <1>6
  <1>15. u \in {[t EXCEPT !.schema = s] : s \in Schemas} => IsTable(u)
    BY <1>8
  <1>16. u \in {tables[n] : n \in DOMAIN tables} => IsTable(u)
    BY <1>9
  <1> QED  BY <1>7, <1>10, <1>11, <1>12, <1>13, <1>14, <1>15, <1>16

LEMMA OtherCommitIsCommit ==
    ASSUME ShapesOK, NEW c, IsCommit(c), NEW d \in OtherCommits(c)
    PROVE  IsCommit(d)
  <1>1. c = [tree |-> c.tree, parent |-> c.parent, meta |-> c.meta]
    BY DEF IsCommit
  <1>2. ASSUME NEW n, d = [c EXCEPT !.tree = n] PROVE IsCommit(d)
    BY <1>1, <1>2 DEF IsCommit
  <1>3. ASSUME NEW n, d = [c EXCEPT !.parent = n] PROVE IsCommit(d)
    BY <1>1, <1>3 DEF IsCommit
  <1>4. ASSUME NEW m, d = [c EXCEPT !.meta = m] PROVE IsCommit(d)
    BY <1>1, <1>4 DEF IsCommit
  <1>5. ASSUME NEW n \in DOMAIN commits, d = commits[n] PROVE IsCommit(d)
    BY <1>5 DEF ShapesOK
  <1> QED  BY <1>2, <1>3, <1>4, <1>5 DEF OtherCommits

LEMMA ShapesStep == ShapesOK /\ [Next]_vars => ShapesOK'
  <1> SUFFICES ASSUME ShapesOK, [Next]_vars PROVE ShapesOK'
    OBVIOUS
  <1>1. CASE Alter
    <2>1. UNCHANGED <<head, recorded>>
      BY <1>1 DEF Alter
    <2>2. ASSUME NEW n \in DOMAIN tables,
                 \/ tables' = Without(tables, n)
                 \/ \E t \in OtherTables(tables[n]) : tables' = [tables EXCEPT ![n] = t]
          PROVE  \A m \in DOMAIN tables' : IsTable(tables'[m])
      <3>1. CASE tables' = Without(tables, n)
        BY <3>1 DEF Without, ShapesOK
      <3>2. ASSUME NEW t \in OtherTables(tables[n]), tables' = [tables EXCEPT ![n] = t]
            PROVE  \A m \in DOMAIN tables' : IsTable(tables'[m])
        <4>1. IsTable(t)
          BY OtherTableIsTable DEF ShapesOK
        <4> QED  BY <3>2, <4>1 DEF ShapesOK
      <3> QED  BY <2>2, <3>1, <3>2
    <2>3. ASSUME NEW n \in DOMAIN commits,
                 \/ commits' = Without(commits, n)
                 \/ \E c \in OtherCommits(commits[n]) : commits' = [commits EXCEPT ![n] = c]
          PROVE  /\ \A m \in DOMAIN commits' : IsCommit(commits'[m])
                 /\ DOMAIN commits' \subseteq DOMAIN commits
      <3>1. CASE commits' = Without(commits, n)
        BY <3>1 DEF Without, ShapesOK
      <3>2. ASSUME NEW c \in OtherCommits(commits[n]), commits' = [commits EXCEPT ![n] = c]
            PROVE  /\ \A m \in DOMAIN commits' : IsCommit(commits'[m])
                   /\ DOMAIN commits' \subseteq DOMAIN commits
        <4>1. IsCommit(c)
          BY OtherCommitIsCommit DEF ShapesOK
        <4> QED  BY <3>2, <4>1 DEF ShapesOK
      <3> QED  BY <2>3, <3>1, <3>2
    <2>4. CASE UNCHANGED commits
      <3>1. \A m \in DOMAIN tables' : IsTable(tables'[m])
        BY <1>1, <2>2 DEF Alter, ShapesOK
      <3> QED  BY <2>1, <2>4, <3>1 DEF ShapesOK
    <2>5. CASE UNCHANGED <<tables, trees>>
      <3>1. (\A m \in DOMAIN commits' : IsCommit(commits'[m])) /\ DOMAIN commits' \subseteq DOMAIN commits
        BY <1>1, <2>3 DEF Alter, ShapesOK
      <3> QED  BY <2>1, <2>5, <3>1 DEF ShapesOK
    <2>6. UNCHANGED commits \/ UNCHANGED <<tables, trees>>
      BY <1>1 DEF Alter
    <2> QED  BY <2>4, <2>5, <2>6
  <1>2. CASE AlterHead
    BY <1>2 DEF AlterHead, ShapesOK
  <1>3. CASE UNCHANGED <<objects, recorded>>
    BY <1>3 DEF ShapesOK, objects
  <1>4. Verify \/ UNCHANGED vars => UNCHANGED <<objects, recorded>>
    BY DEF Verify, vars, VerifyEmpty, VerifyBegin, ReadCommit, ReadCommitFails, ChainRead,
           CheckCommit, ReadTreeFails, CheckTable, ReadTableFails, NextCommit, VerifyEnd
  <1> QED  BY <1>1, <1>2, <1>3, <1>4 DEF Next

\* The chain grows at its end and is taken down from its start.
Pairs == {<<n, commits[n]>> : n \in DOMAIN commits}

LEMMA TailOfChain ==
    ASSUME NEW P, NEW q \in Seq(P), q # <<>>
    PROVE  /\ Tail(q) \in Seq(P) /\ Len(q) \in Nat \ {0} /\ Len(Tail(q)) = Len(q) - 1
           /\ \A i \in 1 .. Len(Tail(q)) : i + 1 \in 1 .. Len(q) /\ Tail(q)[i] = q[i + 1]
           /\ Tail(q) = <<>> <=> Len(q) = 1
           /\ Tail(q) # <<>> => Tail(q)[Len(Tail(q))] = q[Len(q)] /\ Tail(q)[1] = q[2]
                                /\ 2 \in 2 .. Len(q)
  <1>1. Len(q) \in Nat \ {0} /\ Tail(q) \in Seq(P) /\ Len(Tail(q)) = Len(q) - 1
    BY HeadTailProperties, EmptySeq
  <1>2. \A i \in 1 .. Len(q) - 1 : Tail(q)[i] = q[i + 1]
    BY HeadTailProperties
  <1> DEFINE n == Len(q)
             t == Tail(q)
  <1>3. Tail(q) = <<>> <=> Len(q) - 1 = 0
    BY <1>1, EmptySeq
  <1> HIDE DEF n, t
  <1>4. n \in Nat \ {0} /\ (t = <<>> <=> n - 1 = 0) /\ Len(t) = n - 1
    BY <1>1, <1>3 DEF n, t
  <1>5. \A i \in 1 .. n - 1 : i + 1 \in 1 .. n
    BY <1>4
  <1>6. t = <<>> <=> n = 1
    BY <1>4
  <1>7. t # <<>> => n - 1 \in 1 .. n - 1 /\ (n - 1) + 1 = n /\ 1 \in 1 .. n - 1 /\ 1 + 1 = 2 /\ 2 \in 2 .. n
    BY <1>4
  <1>8. \A i \in 1 .. n - 1 : t[i] = q[i + 1]
    BY <1>2 DEF n, t
  <1>9. t # <<>> => t[n - 1] = q[n] /\ t[1] = q[2]
    BY <1>7, <1>8
  <1> QED  BY <1>1, <1>4, <1>5, <1>6, <1>7, <1>8, <1>9 DEF n, t

LEMMA ChainUntouched == phase = "store" /\ ChainOK /\ (Alter \/ AlterHead) => (IntegrityTypeOK => IntegrityTypeOK') /\ ChainOK'
  <1> SUFFICES ASSUME phase = "store", ChainOK, Alter \/ AlterHead
               PROVE  (IntegrityTypeOK => IntegrityTypeOK') /\ ChainOK'
    OBVIOUS
  <1>1. /\ chain = <<>> /\ next = None /\ left = {} /\ report = {} /\ outcome = "none"
        /\ altered < MaxAlterations /\ altered' = altered + 1
        /\ UNCHANGED <<recorded, phase, chain, next, left, report, outcome>>
    BY DEF ChainOK, Alter, AlterHead
  <1>2. 1 .. Len(chain) = {} /\ 2 .. Len(chain) = {}
    BY <1>1
  <1>3. IntegrityTypeOK => IntegrityTypeOK'
    BY <1>1, <1>2, IntegrityAssumptions DEF IntegrityTypeOK
  <1>4. chain' \in Seq({<<n, commits'[n]>> : n \in DOMAIN commits'})
    BY <1>1
  <1> QED  BY <1>1, <1>3, <1>4 DEF ChainOK

LEMMA ChainAppend == IntegrityTypeOK /\ ChainOK /\ ReadCommit => IntegrityTypeOK' /\ ChainOK'
  <1> SUFFICES ASSUME IntegrityTypeOK, ChainOK, ReadCommit PROVE IntegrityTypeOK' /\ ChainOK'
    OBVIOUS
  <1> DEFINE p == <<next, commits[next]>>
             n == Len(chain)
             c == Append(chain, p)
  <1>1. chain' = c /\ next' = commits[next].parent /\ phase = "chain" /\ next # None
        /\ next \in DOMAIN commits /\ UNCHANGED <<objects, recorded, altered, phase, left, report, outcome>>
    BY DEF ReadCommit, FollowedBy
  <1>2. chain \in Seq(Pairs) /\ p \in Pairs
    BY <1>1 DEF ChainOK, Pairs
  <1>3. n \in Nat /\ c \in Seq(Pairs) /\ Len(c) = n + 1 /\ c[n + 1] = p /\ \A i \in 1 .. n : c[i] = chain[i]
    BY <1>2, AppendProperties
  <1>4. p[1] = next /\ p[2] = commits[next]
    OBVIOUS
  <1>5. n = 0 <=> chain = <<>>
    BY <1>2, EmptySeq
  <1>6. commits' = commits /\ head' = head
    BY <1>1 DEF objects
  <1>7. \A i \in 1 .. n + 1 : i = n + 1 \/ i \in 1 .. n
    BY <1>3
  <1>8. \A i \in 2 .. n + 1 : (i - 1 \in 1 .. n) /\ (i = n + 1 \/ i \in 2 .. n) /\ i \in 1 .. n + 1
    BY <1>3
  <1>9. n > 0 => n \in 1 .. n /\ n - 1 + 1 = n /\ 1 \in 1 .. n
    BY <1>3
  <1>10. phase = "chain" => /\ report = {} /\ head # None
                            /\ next = IF chain = <<>> THEN head ELSE chain[Len(chain)][2].parent
                            /\ chain # <<>> => chain[1][1] = head
    BY DEF ChainOK
  <1>11. \A i \in 1 .. n : commits[chain[i][1]] = chain[i][2]
    BY DEF IntegrityTypeOK
  <1>12. \A i \in 2 .. n : chain[i][1] = chain[i - 1][2].parent
    BY DEF IntegrityTypeOK
  <1> HIDE DEF p, c, n
  <1>13. \A i \in 1 .. n + 1 : commits[c[i][1]] = c[i][2]
    BY <1>3, <1>4, <1>7, <1>11
  <1>14. ASSUME NEW i \in 2 .. n + 1 PROVE c[i][1] = c[i - 1][2].parent
    <2>1. CASE i = n + 1
      <3>1. n > 0 /\ n \in 1 .. n /\ i - 1 = n /\ chain # <<>>
        BY <1>3, <1>5, <1>9, <2>1
      <3>2. c[n + 1][1] = chain[n][2].parent
        BY <1>1, <1>3, <1>4, <1>10, <3>1 DEF n
      <3> QED  BY <1>3, <2>1, <3>1, <3>2
    <2>2. CASE i \in 2 .. n
      BY <1>3, <1>8, <1>12, <2>2
    <2> QED  BY <1>8, <2>1, <2>2
  <1>15. c # <<>> /\ c[1][1] = head
    <2>1. c # <<>>
      <3>1. n + 1 # 0
        BY <1>3
      <3> QED  BY <1>3, <3>1, EmptySeq
    <2>2. CASE n = 0
      BY <1>1, <1>3, <1>4, <1>5, <1>10, <2>2
    <2>3. CASE n # 0
      <3>1. n > 0
        BY <1>3, <2>3
      <3> QED  BY <1>1, <1>3, <1>5, <1>9, <1>10, <2>3, <3>1
    <2> QED  BY <2>1, <2>2, <2>3
  <1>16. IntegrityTypeOK'
    BY <1>1, <1>3, <1>6, <1>13, <1>14 DEF IntegrityTypeOK
  <1>17. next' = c[Len(c)][2].parent
    BY <1>1, <1>3, <1>4
  <1>18. c \in Seq({<<m, commits'[m]>> : m \in DOMAIN commits'})
    BY <1>3, <1>6 DEF Pairs
  <1>19. ChainOK'
    BY <1>1, <1>6, <1>10, <1>15, <1>17, <1>18 DEF ChainOK
  <1> QED  BY <1>16, <1>19

LEMMA FaultsAreKinds ==
    /\ \A p : CommitFaults(p) \subseteq FaultKinds /\ LinkFaults(p) \subseteq FaultKinds
    /\ \A n : TreeFaults(n) \subseteq FaultKinds
    /\ \A e, t : TableFaults(e, t) \subseteq FaultKinds
  BY DEF CommitFaults, LinkFaults, TreeFaults, TableFaults, SchemaFaults, RowFaults, FaultKinds

LEMMA ChainTaken == IntegrityTypeOK /\ ChainOK /\ CheckCommit => IntegrityTypeOK' /\ ChainOK'
  <1> SUFFICES ASSUME IntegrityTypeOK, ChainOK, CheckCommit PROVE IntegrityTypeOK' /\ ChainOK'
    OBVIOUS
  <1> DEFINE n == Len(chain)
             c == Tail(chain)
  <1>1. /\ phase = "commit" /\ phase' = "tables" /\ chain # <<>> /\ chain' = c
        /\ report' = report \cup CommitFaults(chain[1]) \cup LinkFaults(chain[1])
                           \cup TreeFaults(chain[1][2].tree)
        /\ UNCHANGED <<objects, recorded, altered, outcome>>
    BY DEF CheckCommit
  <1>2. chain \in Seq(Pairs)
    BY DEF ChainOK, Pairs
  <1>3. /\ c \in Seq(Pairs) /\ n \in Nat \ {0} /\ Len(c) = n - 1
        /\ \A i \in 1 .. Len(c) : i + 1 \in 1 .. n /\ c[i] = chain[i + 1]
        /\ c # <<>> => c[Len(c)] = chain[n]
    BY <1>1, <1>2, TailOfChain
  <1>4. report' \subseteq FaultKinds
    BY <1>1, FaultsAreKinds DEF IntegrityTypeOK
  <1>5. commits' = commits
    BY <1>1 DEF objects
  <1>6. (\A i \in 1 .. n : commits[chain[i][1]] = chain[i][2])
        /\ (\A i \in 2 .. n : chain[i][1] = chain[i - 1][2].parent)
    BY DEF IntegrityTypeOK
  <1>7. chain[n][2].parent = None /\ outcome = "none"
    BY <1>1 DEF ChainOK
  <1> HIDE DEF n, c
  <1>8. \A i \in 1 .. Len(c) : commits[c[i][1]] = c[i][2]
    BY <1>3, <1>6
  <1>9. ASSUME NEW i \in 2 .. Len(c) PROVE c[i][1] = c[i - 1][2].parent
    <2>1. i \in 1 .. Len(c) /\ i - 1 \in 1 .. Len(c) /\ (i - 1) + 1 = i /\ (i + 1) - 1 = i
          /\ i + 1 \in 2 .. n
      BY <1>3
    <2>2. c[i] = chain[i + 1] /\ c[i - 1] = chain[i]
      BY <1>3, <2>1
    <2>3. chain[i + 1][1] = chain[(i + 1) - 1][2].parent
      BY <1>6, <2>1
    <2> QED  BY <2>1, <2>2, <2>3
  <1>10. IntegrityTypeOK'
    BY <1>1, <1>4, <1>5, <1>8, <1>9 DEF IntegrityTypeOK
  <1>11. c \in Seq({<<m, commits'[m]>> : m \in DOMAIN commits'})
    BY <1>3, <1>5 DEF Pairs
  <1>12. ChainOK'
    BY <1>1, <1>3, <1>7, <1>11 DEF ChainOK
  <1> QED  BY <1>10, <1>12

LEMMA ChainKept ==
    ASSUME IntegrityTypeOK, ChainOK, UNCHANGED <<objects, recorded, altered, chain>>,
           phase' \in {"store", "chain", "commit", "tables", "done"},
           outcome' \in {"none", "report", "error"}, outcome' # "none" <=> phase' = "done",
           report' \subseteq FaultKinds, left' # {} => phase' \in {"tables", "done"},
           phase' = "commit" => left' = {},
           phase' = "store" => chain = <<>> /\ next' = None /\ left' = {} /\ report' = {},
           phase' = "chain" => report' = {} /\ head # None /\ chain = <<>> /\ next' = head,
           phase' \in {"commit", "tables"} /\ chain # <<>> => chain[Len(chain)][2].parent = None
    PROVE  IntegrityTypeOK' /\ ChainOK'
  <1>1. commits' = commits /\ head' = head
    BY DEF objects
  <1>2. IntegrityTypeOK'
    BY <1>1 DEF IntegrityTypeOK
  <1>3. chain \in Seq({<<m, commits'[m]>> : m \in DOMAIN commits'})
    BY <1>1 DEF ChainOK
  <1> QED  BY <1>1, <1>2, <1>3 DEF ChainOK

LEMMA ChainStep == Base /\ [Next]_vars => IntegrityTypeOK' /\ ChainOK'
  <1> SUFFICES ASSUME Base, [Next]_vars PROVE IntegrityTypeOK' /\ ChainOK'
    OBVIOUS
  <1> USE DEF Base
  <1>1. CASE Alter \/ AlterHead
    BY <1>1, ChainUntouched DEF Alter, AlterHead
  <1>2. CASE ReadCommit
    BY <1>2, ChainAppend
  <1>3. CASE CheckCommit
    BY <1>3, ChainTaken
  <1>4. CASE VerifyEmpty
    BY <1>4, ChainKept DEF VerifyEmpty, Finish, ChainOK, IntegrityTypeOK
  <1>5. CASE VerifyBegin
    BY <1>5, ChainKept DEF VerifyBegin, ChainOK, IntegrityTypeOK
  <1>6. CASE ReadCommitFails
    BY <1>6, ChainKept DEF ReadCommitFails, Finish, ChainOK, IntegrityTypeOK
  <1>7. CASE ChainRead
    BY <1>7, ChainKept DEF ChainRead, ChainOK, IntegrityTypeOK
  <1>8. CASE ReadTreeFails
    BY <1>8, ChainKept DEF ReadTreeFails, Finish, ChainOK, IntegrityTypeOK
  <1>9. CASE CheckTable
    BY <1>9, ChainKept, FaultsAreKinds DEF CheckTable, ChainOK, IntegrityTypeOK
  <1>10. CASE ReadTableFails
    BY <1>10, ChainKept DEF ReadTableFails, Finish, ChainOK, IntegrityTypeOK
  <1>11. CASE NextCommit
    BY <1>11, ChainKept DEF NextCommit, ChainOK, IntegrityTypeOK
  <1>12. CASE VerifyEnd
    BY <1>12, ChainKept DEF VerifyEnd, Finish, ChainOK, IntegrityTypeOK
  <1>13. CASE UNCHANGED vars
    BY <1>13 DEF vars, objects, ChainOK, IntegrityTypeOK
  <1> QED  BY <1>1, <1>2, <1>3, <1>4, <1>5, <1>6, <1>7, <1>8, <1>9, <1>10, <1>11, <1>12, <1>13
           DEF Next, Verify

LEMMA BaseStep == Base /\ [Next]_vars => Base'
  <1> SUFFICES ASSUME Base, [Next]_vars PROVE Base'
    OBVIOUS
  <1>1. recorded' = recorded
    BY DEF Next, Verify, vars, Alter, AlterHead, VerifyEmpty, VerifyBegin, ReadCommit, ReadCommitFails,
           ChainRead, CheckCommit, ReadTreeFails, CheckTable, ReadTableFails, NextCommit, VerifyEnd
  <1>2. RecordedOK'
    BY <1>1 DEF Base, RecordedOK
  <1>3. ShapesOK'
    BY ShapesStep DEF Base
  <1> QED  BY <1>2, <1>3, ChainStep DEF Base

\* The chain is made of commits as they were read, each the parent of the one before.
THEOREM IntegrityTypes == Spec => []IntegrityTypeOK
  <1>1. Spec => []Base
    BY BaseInit, BaseStep, PTL DEF Spec
  <1>2. Base => IntegrityTypeOK
    BY DEF Base
  <1> QED  BY <1>1, <1>2, PTL
-------------------------------------------------------------------------------
(* verify is satisfied only by what was recorded. *)

\* Every recorded commit leads to one that hashes to its name; None names nothing.
LEMMA NoneIsNoCommit == RecordedOK => None \notin DOMAIN recorded.commits
  BY DEF RecordedOK, None, CommitHashOf

LEMMA WalkKept ==
    ASSUME WalkOK, UNCHANGED objects,
           phase' \in {"commit", "tables"} /\ report' = {} =>
             phase' = phase /\ report = {} /\ UNCHANGED <<chain, next, left>>,
           outcome' # "report" \/ head = None
    PROVE  WalkOK'
  <1>1. tables' = tables /\ trees' = trees /\ commits' = commits /\ head' = head
    BY DEF objects
  <1>2. ASSUME phase' = "commit", report' = {}
        PROVE  \/ chain' # <<>> /\ chain'[1][1] = head' /\ next' = None
               \/ /\ IF chain' = <<>> THEN next' = None ELSE next' = chain'[1][1]
                  /\ \E D \in SUBSET DOMAIN commits' : Checked(D, None, {})'
    <2>1. phase = "commit" /\ report = {} /\ UNCHANGED <<chain, next, left>>
      BY <1>2
    <2>2. ASSUME NEW D \in SUBSET DOMAIN commits, Checked(D, None, {}) PROVE Checked(D, None, {})'
      BY <1>1, <2>1, <2>2 DEF Checked, Sealed, EntryOK, None
    <2> QED  BY <1>1, <2>1, <2>2 DEF WalkOK
  <1>3. ASSUME phase' = "tables", report' = {}
        PROVE  /\ IF chain' = <<>> THEN next' = None ELSE next' = chain'[1][1]
               /\ \E D \in SUBSET DOMAIN commits' : \E m \in D : Checked(D, m, left)'
    <2>1. phase = "tables" /\ report = {} /\ UNCHANGED <<chain, next, left>>
      BY <1>3
    <2>2. ASSUME NEW D \in SUBSET DOMAIN commits, NEW m \in D, Checked(D, m, left)
          PROVE  Checked(D, m, left)'
      BY <1>1, <2>1, <2>2 DEF Checked, Sealed, EntryOK
    <2> QED  BY <1>1, <2>1, <2>2 DEF WalkOK
  <1>4. Verified' => head' = None
    BY <1>1 DEF Verified
  <1> QED  BY <1>2, <1>3, <1>4 DEF WalkOK

LEMMA WalkChecks == Base /\ WalkOK /\ CheckCommit => WalkOK'
  <1> SUFFICES ASSUME Base, WalkOK, CheckCommit PROVE WalkOK'
    OBVIOUS
  <1> DEFINE c == Tail(chain)
  <1>0. PICK n : n = chain[1][1]
    OBVIOUS
  <1>1. /\ phase = "commit" /\ phase' = "tables" /\ chain # <<>> /\ chain' = c
        /\ chain[1][2].tree \in DOMAIN trees
        /\ report' = report \cup CommitFaults(chain[1]) \cup LinkFaults(chain[1])
                           \cup TreeFaults(chain[1][2].tree)
        /\ left' = trees[chain[1][2].tree] /\ next' = chain[1][2].parent
        /\ tables' = tables /\ trees' = trees /\ commits' = commits /\ head' = head
        /\ outcome' = outcome
    BY DEF CheckCommit, objects
  <1>2. ~Verified'
    BY <1>1 DEF Base, ChainOK, Verified
  <1>3. chain \in Seq(Pairs)
    BY DEF Base, ChainOK, Pairs
  <1>4. Len(chain) \in Nat \ {0} /\ 1 \in 1 .. Len(chain)
        /\ (c = <<>> <=> Len(chain) = 1) /\ (c # <<>> => c[1] = chain[2] /\ 2 \in 2 .. Len(chain))
    <2>1. Len(chain) \in Nat \ {0}
      BY <1>1, <1>3, TailOfChain
    <2>2. (c = <<>> <=> Len(chain) = 1) /\ (c # <<>> => c[1] = chain[2] /\ 2 \in 2 .. Len(chain))
      BY <1>1, <1>3, TailOfChain
    <2> QED  BY <2>1, <2>2
  <1>5. chain[1] \in Pairs
    BY <1>3, <1>4
  <1>6. n \in DOMAIN commits /\ chain[1][2] = commits[n]
    BY <1>0, <1>5 DEF Pairs
  <1>7. IF c = <<>> THEN next' = None ELSE next' = c[1][1]
    <2>1. CASE c = <<>>
      BY <1>1, <1>4, <2>1 DEF Base, ChainOK
    <2>2. CASE c # <<>>
      <3>1. chain[2][1] = chain[2 - 1][2].parent
        BY <1>4, <2>2 DEF Base, IntegrityTypeOK
      <3> QED  BY <1>1, <1>4, <2>2, <3>1
    <2> QED  BY <2>1, <2>2
  <1>8. ASSUME report' = {}
        PROVE  \E D \in SUBSET DOMAIN commits' : \E m \in D : Checked(D, m, left)'
    <2>1. report = {} /\ CommitFaults(chain[1]) = {} /\ TreeFaults(chain[1][2].tree) = {}
      BY <1>1, <1>8
    <2>2. Sealed(n)
      BY <1>0, <1>1, <1>6, <2>1 DEF CommitFaults, TreeFaults, Sealed
    <2>3. \/ head = n
          \/ next = n /\ \E D \in SUBSET DOMAIN commits : Checked(D, None, {})
      BY <1>0, <1>1, <2>1 DEF WalkOK
    <2>4. ASSUME NEW D \in SUBSET DOMAIN commits, head \in D \cup {n},
                 \A k \in D : /\ Sealed(k) /\ commits[k].parent \in D \cup {n}
                              /\ \A e \in trees[commits[k].tree] : EntryOK(e)
          PROVE  Checked(D \cup {n}, n, left)'
      <3>1. \A k \in D \cup {n} : Sealed(k)' /\ commits'[k].parent \in (D \cup {n}) \cup {next'}
        BY <1>1, <1>6, <2>2, <2>4 DEF Sealed
      <3>2. \A k \in D \cup {n} : \A e \in trees'[commits'[k].tree] :
               EntryOK(e)' \/ (k = n /\ e \in left')
        BY <1>1, <1>6, <2>4 DEF EntryOK
      <3> QED  BY <1>1, <2>4, <3>1, <3>2 DEF Checked
    <2>5. CASE head = n
      <3>1. {} \in SUBSET DOMAIN commits
        OBVIOUS
      <3>2. Checked({} \cup {n}, n, left)'
        BY <2>4, <2>5, <3>1
      <3> QED  BY <1>1, <1>6, <3>2
    <2>6. CASE next = n /\ \E D \in SUBSET DOMAIN commits : Checked(D, None, {})
      <3>1. PICK D \in SUBSET DOMAIN commits : Checked(D, None, {})
        BY <2>6
      <3>2. Checked(D \cup {n}, n, left)'
        <4>1. head \in D \cup {n} /\ \A k \in D : /\ Sealed(k) /\ commits[k].parent \in D \cup {n}
                              /\ \A e \in trees[commits[k].tree] : EntryOK(e)
          BY <2>6, <3>1 DEF Checked
        <4> QED  BY <2>4, <4>1
      <3> QED  BY <1>1, <1>6, <3>2
    <2> QED  BY <2>3, <2>5, <2>6
  <1> QED  BY <1>1, <1>2, <1>7, <1>8 DEF WalkOK

LEMMA WalkStep == Base /\ WalkOK /\ [Next]_vars => WalkOK'
  <1> SUFFICES ASSUME Base, WalkOK, [Next]_vars PROVE WalkOK'
    OBVIOUS
  <1>1. CASE Alter \/ AlterHead
    <2>1. phase' = "store" /\ outcome' = "none"
      BY <1>1 DEF Base, ChainOK, Alter, AlterHead
    <2> QED  BY <2>1 DEF WalkOK, Verified
  <1>2. CASE VerifyEmpty
    BY <1>2, WalkKept DEF VerifyEmpty, Finish
  <1>3. CASE VerifyBegin
    BY <1>3, WalkKept DEF VerifyBegin, Base, ChainOK
  <1>4. CASE ReadCommit
    BY <1>4, WalkKept DEF ReadCommit, Base, ChainOK
  <1>5. CASE ReadCommitFails
    BY <1>5, WalkKept DEF ReadCommitFails, Finish
  <1>6. CASE ReadTreeFails
    BY <1>6, WalkKept DEF ReadTreeFails, Finish
  <1>7. CASE ReadTableFails
    BY <1>7, WalkKept DEF ReadTableFails, Finish
  <1>8. CASE UNCHANGED vars
    <2>1. UNCHANGED <<objects, phase, report, chain, next, left, outcome>>
      BY <1>8 DEF vars
    <2>2. CASE outcome = "report" /\ head # None
      <3>1. phase = "done"
        BY <2>2 DEF Base, ChainOK
      <3>2. tables' = tables /\ trees' = trees /\ commits' = commits /\ head' = head
        BY <2>1 DEF objects
      <3>3. ASSUME Verified'
            PROVE  next' = None /\ \E D \in SUBSET DOMAIN commits' : Checked(D, None, {})'
        <4>1. Verified
          BY <2>1, <3>3 DEF Verified
        <4>2. next = None /\ \E D \in SUBSET DOMAIN commits : Checked(D, None, {})
          BY <2>2, <4>1 DEF WalkOK
        <4>3. PICK D \in SUBSET DOMAIN commits : Checked(D, None, {})
          BY <4>2
        <4>4. Checked(D, None, {})'
          BY <2>1, <3>2, <4>3 DEF Checked, Sealed, EntryOK, None
        <4> QED  BY <2>1, <3>2, <4>2, <4>4
      <3> QED  BY <2>1, <3>1, <3>3 DEF WalkOK
    <2>3. CASE ~(outcome = "report" /\ head # None)
      BY <2>1, <2>3, WalkKept
    <2> QED  BY <2>2, <2>3
  <1>9. CASE ChainRead
    <2>1. /\ phase' = "commit" /\ next = None /\ UNCHANGED <<head, chain, next, outcome>>
          /\ phase = "chain"
      BY <1>9 DEF ChainRead, objects
    <2>2. chain # <<>> /\ chain[1][1] = head /\ outcome = "none"
      BY <2>1 DEF Base, ChainOK
    <2> QED  BY <2>1, <2>2 DEF WalkOK, Verified
  <1>10. CASE CheckCommit
    BY <1>10, WalkChecks
  <1>11. CASE CheckTable
    <2>1. PICK e \in left : /\ e.table_hash \in DOMAIN tables /\ left' = left \ {e}
                            /\ report' = report \cup TableFaults(e, tables[e.table_hash])
      BY <1>11 DEF CheckTable
    <2>2. phase = "tables" /\ UNCHANGED <<tables, trees, commits, head, phase, chain, next, outcome>>
      BY <1>11 DEF CheckTable, objects
    <2>3. outcome = "none"
      BY <2>2 DEF Base, ChainOK
    <2>4. ASSUME report' = {}
          PROVE  /\ IF chain = <<>> THEN next = None ELSE next = chain[1][1]
                 /\ \E D \in SUBSET DOMAIN commits : \E m \in D : Checked(D, m, left)'
      <3>1. report = {} /\ EntryOK(e)
        BY <2>1, <2>4 DEF EntryOK
      <3>2. PICK D \in SUBSET DOMAIN commits : \E m \in D : Checked(D, m, left)
        BY <2>2, <3>1 DEF WalkOK
      <3>5. PICK m \in D : Checked(D, m, left)
        BY <3>2
      <3>3. \A n \in D : \A f \in trees[commits[n].tree] : EntryOK(f) \/ (n = m /\ f \in left \ {e})
        BY <3>1, <3>5 DEF Checked
      <3>4. Checked(D, m, left)'
        BY <2>1, <2>2, <3>5, <3>3 DEF Checked, Sealed, EntryOK
      <3> QED  BY <2>2, <3>1, <3>4 DEF WalkOK
    <2> QED  BY <2>2, <2>3, <2>4 DEF WalkOK, Verified
  <1>12. CASE NextCommit
    <2>1. /\ phase = "tables" /\ left = {} /\ phase' = "commit"
          /\ UNCHANGED <<tables, trees, commits, head, chain, next, report, outcome>>
      BY <1>12 DEF NextCommit, objects
    <2>2. outcome = "none"
      BY <2>1 DEF Base, ChainOK
    <2>3. ASSUME report = {}
          PROVE  /\ IF chain = <<>> THEN next = None ELSE next = chain[1][1]
                 /\ \E D \in SUBSET DOMAIN commits : Checked(D, None, {})'
      <3>1. PICK D \in SUBSET DOMAIN commits : \E m \in D : Checked(D, m, left)
        BY <2>1, <2>3 DEF WalkOK
      <3>3. PICK m \in D : Checked(D, m, left)
        BY <3>1
      <3>2. Checked(D, None, {})'
        BY <2>1, <3>3 DEF Checked, Sealed, EntryOK, None
      <3> QED  BY <2>1, <2>3, <3>2 DEF WalkOK
    <2> QED  BY <2>1, <2>2, <2>3 DEF WalkOK, Verified
  <1>13. CASE VerifyEnd
    <2>1. /\ phase = "commit" /\ chain = <<>> /\ phase' = "done"
          /\ UNCHANGED <<tables, trees, commits, head, chain, next, report>>
      BY <1>13 DEF VerifyEnd, Finish, objects
    <2>2. ASSUME report = {}
          PROVE  next = None /\ \E D \in SUBSET DOMAIN commits : Checked(D, None, {})'
      <3>1. next = None /\ \E D \in SUBSET DOMAIN commits : Checked(D, None, {})
        BY <2>1, <2>2 DEF WalkOK
      <3>2. PICK D \in SUBSET DOMAIN commits : Checked(D, None, {})
        BY <3>1
      <3>3. Checked(D, None, {})'
        BY <2>1, <3>2 DEF Checked, Sealed, EntryOK, None
      <3> QED  BY <3>1, <3>3
    <2> QED  BY <2>1, <2>2 DEF WalkOK, Verified
  <1> QED  BY <1>1, <1>2, <1>3, <1>4, <1>5, <1>6, <1>7, <1>8, <1>9, <1>10, <1>11, <1>12, <1>13
           DEF Next, Verify

\* What Up computes, one parent at a time.
LEMMA UpFollows ==
    ASSUME NEW cs, NEW n
    PROVE  /\ Up(cs, n)[0] = n
           /\ \A i \in 1 .. MaxChain : Up(cs, n)[i] =
                IF Up(cs, n)[i - 1] \in DOMAIN cs THEN cs[Up(cs, n)[i - 1]].parent ELSE None
  <1> DEFINE N == MaxChain
             After(m) == IF m \in DOMAIN cs THEN cs[m].parent ELSE None
             T == {n, None} \cup {cs[m].parent : m \in DOMAIN cs}
             E == [i \in 1 .. N |-> [m \in T |-> After(m)]]
             Step(f) == [i \in 0 .. N |-> IF i = 0 THEN n ELSE After(f[i - 1])]
             up == CHOOSE f : f = Step(f)
  <1>1. Up(cs, n) = up
    BY DEF Up
  <1>2. N \in Nat
    BY IntegrityAssumptions
  <1>3. n \in T /\ None \in T /\ \A m \in T : After(m) \in T
    OBVIOUS
  <1> HIDE DEF N, T, After
  <1>4. E \in Steps(N, T)
    BY <1>3 DEF Steps
  <1>5. PICK f : Iterates(f, N, T, n, E)
    <2> HIDE DEF E
    <2> QED  BY <1>2, <1>3, <1>4, Iterated
  <1>6. f \in [0 .. N -> T] /\ f[0] = n /\ \A i \in 1 .. N : f[i] = After(f[i - 1])
    <2>1. f \in [0 .. N -> T] /\ f[0] = n /\ \A i \in 1 .. N : f[i] = E[i][f[i - 1]]
      BY <1>5 DEF Iterates
    <2>2. \A i \in 1 .. N : i - 1 \in 0 .. N
      BY <1>2
    <2> QED  BY <2>1, <2>2
  <1>7. \A i \in 0 .. N : f[i] = Step(f)[i]
    <2>1. \A i \in 0 .. N : i = 0 \/ i \in 1 .. N
      BY <1>2
    <2> QED  BY <1>6, <2>1
  <1>8. f = Step(f)
    <2>1. f = [i \in 0 .. N |-> f[i]]
      BY <1>6
    <2> QED  BY <1>7, <2>1
  <1>9. up = Step(up)
    BY <1>8
  <1> HIDE DEF up
  <1>10. up[0] = n /\ \A i \in 1 .. N : up[i] = After(up[i - 1])
    <2>1. 0 \in 0 .. N /\ \A i \in 1 .. N : i \in 0 .. N /\ i # 0
      BY <1>2
    <2> QED  BY <1>9, <2>1
  <1> QED  BY <1>1, <1>10 DEF After, N

\* A set that holds HEAD and with a commit its parent holds the whole history.
LEMMA HistoryWithin ==
    ASSUME RecordedOK, NEW D, head \in D \cup {None},
           \A m \in D : m \in DOMAIN recorded.commits /\ recorded.commits[m].parent \in D \cup {None}
    PROVE  RecordedHistory \subseteq D
  <1> DEFINE up == Up(recorded.commits, head)
             S == {n \in Nat : n <= MaxChain => up[n] \in D \cup {None}}
  <1>1. /\ up[0] = head
        /\ \A i \in 1 .. MaxChain :
             up[i] = IF up[i - 1] \in DOMAIN recorded.commits
                     THEN recorded.commits[up[i - 1]].parent ELSE None
    BY UpFollows
  <1> HIDE DEF up
  <1>2. 0 \in S
    BY <1>1
  <1>3. ASSUME NEW n \in Nat, n \in S PROVE n + 1 \in S
    <2> SUFFICES ASSUME n + 1 <= MaxChain PROVE up[n + 1] \in D \cup {None}
      OBVIOUS
    <2>1. n + 1 \in 1 .. MaxChain /\ (n + 1) - 1 = n /\ up[n] \in D \cup {None}
      BY <1>3, IntegrityAssumptions
    <2>2. None \notin DOMAIN recorded.commits
      BY NoneIsNoCommit
    <2> QED  BY <1>1, <2>1, <2>2
  <1>4. Nat \subseteq S
    <2> HIDE DEF S
    <2> QED  BY <1>2, <1>3, NatSetInduction
  <1>5. \A i \in 0 .. MaxChain : up[i] \in D \cup {None}
    BY <1>4, IntegrityAssumptions
  <1> QED  BY <1>5 DEF RecordedHistory, up

\* The files of a commit that verify found in order are the recorded ones.
LEMMA SealedAsRecorded ==
    ASSUME Base, NEW n \in DOMAIN commits, Sealed(n), \A e \in trees[commits[n].tree] : EntryOK(e)
    PROVE  AsRecorded(n) /\ n \in DOMAIN recorded.commits /\ commits[n] = recorded.commits[n]
  <1> DEFINE t == commits[n].tree
  <1>1. n \in DOMAIN recorded.commits /\ IsCommit(commits[n]) /\ IsCommit(recorded.commits[n])
        /\ CommitHashOf(commits[n]) = n /\ CommitHashOf(recorded.commits[n]) = n
    BY DEF Base, ShapesOK, RecordedOK, Sealed
  <1>2. commits[n] = recorded.commits[n]
    BY <1>1 DEF IsCommit, CommitHashOf
  <1>3. t \in DOMAIN trees /\ TreeHash(trees[t]) = t
    BY DEF Sealed
  <1>4. t \in DOMAIN recorded.trees /\ TreeHash(recorded.trees[t]) = t
    BY <1>1, <1>2 DEF Base, RecordedOK
  <1>5. trees[t] = recorded.trees[t]
    BY <1>3, <1>4 DEF TreeHash
  <1>6. ASSUME NEW e \in recorded.trees[t]
        PROVE  /\ e.table_hash \in DOMAIN tables
               /\ SameTable(tables[e.table_hash], recorded.tables[e.table_hash])
    <2> DEFINE h == e.table_hash
               a == tables[h]
               b == recorded.tables[h]
    <2>1. h \in DOMAIN tables /\ TableFaults(e, a) = {}
      BY <1>5 DEF EntryOK
    <2>2. h \in DOMAIN recorded.tables /\ TableFaults(e, b) = {}
      BY <1>4 DEF Base, RecordedOK
    <2>3. IsTable(a) /\ IsTable(b)
      BY <2>1, <2>2 DEF Base, ShapesOK, RecordedOK
    <2>4. RowFaults(a.rows) = {} /\ TableHash(a) = h
      BY <2>1 DEF TableFaults
    <2>5. RowFaults(b.rows) = {} /\ TableHash(b) = h
      BY <2>2 DEF TableFaults
    <2> HIDE DEF a, b
    <2>6. SameTable(a, b)
      BY <2>3, <2>4, <2>5, HashDecides
    <2> QED  BY <2>1, <2>6 DEF a, b
  <1> QED  BY <1>1, <1>2, <1>3, <1>5, <1>6 DEF AsRecorded

LEMMA WalkSettles == Base /\ WalkOK => VerifyIsSound
  <1> SUFFICES ASSUME Base, WalkOK, Verified PROVE HistoryAsRecorded
    BY DEF VerifyIsSound
  <1>1. CASE head = None
    <2> DEFINE D == {}
    <2>1. head \in D \cup {None} /\ RecordedOK
          /\ \A m \in D : m \in DOMAIN recorded.commits /\ recorded.commits[m].parent \in D \cup {None}
      BY <1>1 DEF Base
    <2>2. \A n \in D : FALSE
      OBVIOUS
    <2> HIDE DEF D
    <2>3. RecordedHistory \subseteq D
      BY <2>1, HistoryWithin
    <2> QED  BY <2>2, <2>3 DEF HistoryAsRecorded
  <1>2. CASE head # None
    <2>1. next = None /\ \E D \in SUBSET DOMAIN commits : Checked(D, None, {})
      BY <1>2 DEF WalkOK
    <2>2. PICK D \in SUBSET DOMAIN commits : Checked(D, None, {})
      BY <2>1
    <2>3. \A n \in D : AsRecorded(n) /\ n \in DOMAIN recorded.commits /\ commits[n] = recorded.commits[n]
      BY <2>2, SealedAsRecorded DEF Checked
    <2>4. head \in D /\ \A n \in D : commits[n].parent \in D \cup {None}
      BY <2>1, <2>2 DEF Checked
    <2>5. RecordedHistory \subseteq D
      BY <2>3, <2>4, HistoryWithin DEF Base
    <2> QED  BY <2>3, <2>5 DEF HistoryAsRecorded
  <1> QED  BY <1>1, <1>2

\* verify is satisfied only by a history that is what commit() recorded, row for row:
\* whatever files were altered, exchanged or removed, and wherever HEAD was set.
THEOREM SatisfiedOnlyByTheRecord == Spec => []VerifyIsSound
  <1>1. Init => Base /\ WalkOK
    <2>1. Init => WalkOK
      BY DEF Init, WalkOK, Verified
    <2> QED  BY <2>1, BaseInit
  <1>2. (Base /\ WalkOK) /\ [Next]_vars => (Base /\ WalkOK)'
    BY BaseStep, WalkStep
  <1>3. Spec => [](Base /\ WalkOK)
    BY <1>1, <1>2, PTL DEF Spec
  <1> QED  BY <1>3, WalkSettles, PTL
-------------------------------------------------------------------------------
(* A history that is what was recorded satisfies verify. *)

LEMMA HistoryIsRecorded == Base => RecordedHistory \subseteq DOMAIN recorded.commits
  <1> SUFFICES ASSUME Base PROVE RecordedHistory \subseteq DOMAIN recorded.commits
    OBVIOUS
  <1> DEFINE D == DOMAIN recorded.commits
  <1>1. head \in D \cup {None} /\ RecordedOK
        /\ \A m \in D : m \in DOMAIN recorded.commits /\ recorded.commits[m].parent \in D \cup {None}
    BY DEF Base, ShapesOK, RecordedOK
  <1> HIDE DEF D
  <1>2. RecordedHistory \subseteq D
    BY <1>1, HistoryWithin
  <1> QED  BY <1>2 DEF D

LEMMA HistoryKept ==
    UNCHANGED <<objects, recorded>> =>
        /\ Ancestors' = Ancestors /\ RecordedHistory' = RecordedHistory
        /\ HistoryAsRecorded' <=> HistoryAsRecorded
  <1> SUFFICES ASSUME UNCHANGED <<objects, recorded>>
               PROVE  /\ Ancestors' = Ancestors /\ RecordedHistory' = RecordedHistory
                      /\ HistoryAsRecorded' <=> HistoryAsRecorded
    OBVIOUS
  <1>1. tables' = tables /\ trees' = trees /\ commits' = commits /\ head' = head /\ recorded' = recorded
    BY DEF objects
  <1>2. Ancestors' = Ancestors
    BY <1>1 DEF Ancestors
  <1>3. RecordedHistory' = RecordedHistory
    BY <1>1 DEF RecordedHistory
  <1>4. \A n : AsRecorded(n)' <=> AsRecorded(n)
    BY <1>1 DEF AsRecorded
  <1> QED  BY <1>2, <1>3, <1>4 DEF HistoryAsRecorded

\* No fault in the files of a commit that are what was recorded.
LEMMA RecordedHasNoFault ==
    ASSUME Base, NEW n \in RecordedHistory, AsRecorded(n)
    PROVE  /\ n \in DOMAIN commits /\ commits[n] = recorded.commits[n] /\ CommitHashOf(commits[n]) = n
           /\ commits[n].tree \in DOMAIN trees /\ TreeFaults(commits[n].tree) = {}
           /\ trees[commits[n].tree] = recorded.trees[recorded.commits[n].tree]
           /\ \A e \in recorded.trees[recorded.commits[n].tree] :
                e.table_hash \in DOMAIN tables /\ TableFaults(e, tables[e.table_hash]) = {}
  <1>1. n \in DOMAIN recorded.commits
    BY HistoryIsRecorded
  <1> DEFINE t == recorded.commits[n].tree
  <1>2. CommitHashOf(recorded.commits[n]) = n /\ t \in DOMAIN recorded.trees
        /\ TreeHash(recorded.trees[t]) = t
    BY <1>1 DEF Base, RecordedOK
  <1>3. n \in DOMAIN commits /\ commits[n] = recorded.commits[n]
        /\ t \in DOMAIN trees /\ trees[t] = recorded.trees[t]
    BY DEF AsRecorded
  <1>4. ASSUME NEW e \in recorded.trees[t]
        PROVE  e.table_hash \in DOMAIN tables /\ TableFaults(e, tables[e.table_hash]) = {}
    <2> DEFINE h == e.table_hash
               a == tables[h]
               b == recorded.tables[h]
    <2>1. h \in DOMAIN tables /\ SameTable(a, b)
      BY DEF AsRecorded
    <2>2. h \in DOMAIN recorded.tables /\ TableFaults(e, b) = {}
      BY <1>2 DEF Base, RecordedOK
    <2>3. IsTable(a) /\ IsTable(b) /\ OneRowPerPk(b.rows)
      BY <2>1, <2>2 DEF Base, ShapesOK, RecordedOK
    <2>4. RowFaults(b.rows) = {} /\ SchemaFaults(e, b) = {} /\ TableHash(b) = e.table_hash
          /\ Len(b.rows) = e.row_count
      BY <2>2 DEF TableFaults
    <2> HIDE DEF a, b
    <2>5. RowFaults(a.rows) = {} /\ TableHash(a) = TableHash(b) /\ Len(a.rows) = Len(b.rows)
      BY <2>1, <2>3, <2>4, SameHash
    <2>6. SchemaFaults(e, a) = {}
      BY <2>1, <2>4 DEF SchemaFaults, SameTable
    <2>7. TableFaults(e, a) = {}
      BY <2>4, <2>5, <2>6 DEF TableFaults
    <2> QED  BY <2>1, <2>7 DEF a
  <1> QED  BY <1>2, <1>3, <1>4 DEF TreeFaults

LEMMA TrustRead == Base /\ TrustOK /\ ReadCommit => TrustOK'
  <1> SUFFICES ASSUME Base, Trusted, HistoryAsRecorded, ReadCommit PROVE Trusted'
    <2>1. ReadCommit => UNCHANGED <<objects, recorded>> /\ phase = "chain"
      BY DEF ReadCommit
    <2> QED  BY <2>1, HistoryKept DEF TrustOK
  <1> DEFINE n == Len(chain)
             p == <<next, commits[next]>>
             c == Append(chain, p)
  <1>1. /\ chain' = c /\ next' = commits[next].parent /\ phase = "chain" /\ next # None
        /\ n < MaxChain /\ next \in DOMAIN commits /\ phase' = phase
        /\ UNCHANGED <<objects, recorded, left, report, outcome>>
    BY DEF ReadCommit, FollowedBy
  <1>2. Ancestors' = Ancestors /\ RecordedHistory' = RecordedHistory
    BY <1>1, HistoryKept
  <1>3. n \in 0 .. MaxChain /\ next = Ancestors[n]
    BY <1>1 DEF Trusted
  <1>4. next \in RecordedHistory
    BY <1>1, <1>3 DEF RecordedHistory, Ancestors
  <1>5. commits[next] = recorded.commits[next] /\ next \in DOMAIN recorded.commits
    BY <1>4, RecordedHasNoFault, HistoryIsRecorded DEF HistoryAsRecorded
  <1>6. n + 1 \in 1 .. MaxChain /\ (n + 1) - 1 = n /\ n \in Nat
    BY <1>1, <1>3, IntegrityAssumptions
  <1>7. Ancestors[n + 1] = commits[next].parent
    <2>1. Ancestors[n + 1] = IF Ancestors[(n + 1) - 1] \in DOMAIN recorded.commits
                             THEN recorded.commits[Ancestors[(n + 1) - 1]].parent ELSE None
      <3> HIDE DEF n
      <3> QED  BY <1>6, UpFollows DEF Ancestors
    <2> QED  BY <1>3, <1>5, <1>6, <2>1
  <1>8. chain \in Seq(Pairs) /\ p \in Pairs
    BY <1>1 DEF Base, ChainOK, Pairs
  <1>9. Len(c) = n + 1 /\ c[n + 1] = p /\ \A i \in 1 .. n : c[i] = chain[i]
    BY <1>8, AppendProperties
  <1>10. \A i \in 1 .. n : chain[i][1] \in RecordedHistory
    BY DEF Trusted
  <1>11. p[1] = next
    OBVIOUS
  <1> HIDE DEF n, p, c
  <1>12. \A i \in 1 .. n + 1 : c[i][1] \in RecordedHistory
    <2>1. \A i \in 1 .. n + 1 : i = n + 1 \/ i \in 1 .. n
      BY <1>6
    <2> QED  BY <1>4, <1>9, <1>10, <1>11, <2>1
  <1>13. Len(c) \in 0 .. MaxChain /\ next' = Ancestors[Len(c)]
    BY <1>1, <1>6, <1>7, <1>9
  <1>14. phase' = "chain" /\ recorded' = recorded /\ left' = left /\ report' = report
         /\ outcome' = outcome
    BY <1>1
  <1>15. report = {} /\ outcome # "error"
         /\ \A e \in left : \E m \in RecordedHistory : e \in recorded.trees[recorded.commits[m].tree]
    BY DEF Trusted
  <1>16. \A i \in 1 .. Len(chain') : chain'[i][1] \in RecordedHistory'
    BY <1>1, <1>2, <1>9, <1>12
  <1>17. Len(chain') \in 0 .. MaxChain /\ next' = Ancestors'[Len(chain')]
    BY <1>1, <1>2, <1>13
  <1> QED  BY <1>2, <1>14, <1>15, <1>16, <1>17 DEF Trusted

LEMMA TrustChecks == Base /\ TrustOK /\ CheckCommit => TrustOK'
  <1> SUFFICES ASSUME Base, Trusted, HistoryAsRecorded, CheckCommit PROVE Trusted'
    <2>1. CheckCommit => UNCHANGED <<objects, recorded>> /\ phase = "commit"
      BY DEF CheckCommit
    <2> QED  BY <2>1, HistoryKept DEF TrustOK
  <1> DEFINE c == Tail(chain)
  <1>1. /\ phase = "commit" /\ phase' = "tables" /\ chain # <<>> /\ chain' = c
        /\ report' = report \cup CommitFaults(chain[1]) \cup LinkFaults(chain[1])
                           \cup TreeFaults(chain[1][2].tree)
        /\ left' = trees[chain[1][2].tree] /\ next' = chain[1][2].parent
        /\ UNCHANGED <<objects, recorded, outcome>>
    BY DEF CheckCommit
  <1>2. RecordedHistory' = RecordedHistory /\ recorded' = recorded
    BY <1>1, HistoryKept
  <1>3. chain \in Seq(Pairs)
    BY DEF Base, ChainOK, Pairs
  <1>4. Len(chain) \in Nat \ {0}
    BY <1>1, <1>3, TailOfChain
  <1>5. \A i \in 1 .. Len(c) : i + 1 \in 1 .. Len(chain) /\ c[i] = chain[i + 1]
    BY <1>1, <1>3, TailOfChain
  <1>6. (c = <<>> <=> Len(chain) = 1) /\ (c # <<>> => c[1] = chain[2] /\ 2 \in 2 .. Len(chain))
    BY <1>1, <1>3, TailOfChain
  <1>7. PICK n : n = chain[1][1]
    OBVIOUS
  <1>8. n \in RecordedHistory /\ chain[1][2] = commits[n]
    <2>1. 1 \in 1 .. Len(chain)
      BY <1>4
    <2>2. commits[chain[1][1]] = chain[1][2]
      BY <2>1 DEF Base, IntegrityTypeOK
    <2> QED  BY <1>7, <2>1, <2>2 DEF Trusted
  <1>9. AsRecorded(n)
    BY <1>8 DEF HistoryAsRecorded
  <1>10. /\ CommitHashOf(commits[n]) = n /\ TreeFaults(commits[n].tree) = {}
         /\ trees[commits[n].tree] = recorded.trees[recorded.commits[n].tree]
    BY <1>8, <1>9, RecordedHasNoFault
  <1>11. CommitFaults(chain[1]) = {}
    BY <1>7, <1>8, <1>10 DEF CommitFaults
  <1>12. LinkFaults(chain[1]) = {}
    BY <1>1 DEF LinkFaults, Trusted
  <1>13. report' = {} /\ outcome' # "error"
    BY <1>1, <1>8, <1>10, <1>11, <1>12 DEF Trusted
  <1>14. \A i \in 1 .. Len(c) : c[i][1] \in RecordedHistory
    BY <1>5 DEF Trusted
  <1>15. next' # None => c # <<>> /\ c[1][1] = next'
    <2>1. CASE c = <<>>
      BY <1>1, <1>6, <2>1 DEF Base, ChainOK
    <2>2. CASE c # <<>>
      <3>1. chain[2][1] = chain[2 - 1][2].parent
        BY <1>6, <2>2 DEF Base, IntegrityTypeOK
      <3> QED  BY <1>1, <1>6, <2>2, <3>1
    <2> QED  BY <2>1, <2>2
  <1>16. \A e \in left' : e \in recorded.trees[recorded.commits[n].tree]
    BY <1>1, <1>8, <1>10
  <1> HIDE DEF c
  <1> QED  BY <1>1, <1>2, <1>8, <1>13, <1>14, <1>15, <1>16 DEF Trusted

LEMMA TrustStep == Base /\ TrustOK /\ [Next]_vars => TrustOK'
  <1>1. Base /\ (Alter \/ AlterHead) => TrustOK'
    BY DEF Alter, AlterHead, TrustOK
  <1>2. Base /\ TrustOK /\ ReadCommit => TrustOK'
    BY TrustRead
  <1>3. Base /\ TrustOK /\ CheckCommit => TrustOK'
    BY TrustChecks
  <1>4. ASSUME Base, VerifyEmpty \/ VerifyBegin, HistoryAsRecorded PROVE Trusted'
    <2>1. /\ chain = <<>> /\ left = {} /\ report = {}
          /\ UNCHANGED <<objects, recorded, chain, left, report>>
      BY <1>4 DEF VerifyEmpty, VerifyBegin, Base, ChainOK
    <2>2. Ancestors' = Ancestors /\ Ancestors[0] = head
      BY <2>1, HistoryKept, UpFollows DEF Ancestors
    <2>3. Len(chain) = 0 /\ 0 \in 0 .. MaxChain /\ 1 .. 0 = {}
      BY <2>1, IntegrityAssumptions
    <2>4. CASE VerifyEmpty
      BY <2>1, <2>3, <2>4 DEF VerifyEmpty, Finish, Trusted
    <2>5. CASE VerifyBegin
      <3>1. phase' = "chain" /\ next' = head /\ outcome' = "none"
        BY <1>4, <2>5 DEF VerifyBegin, Base, ChainOK
      <3> QED  BY <2>1, <2>2, <2>3, <3>1 DEF Trusted
    <2> QED  BY <1>4, <2>4, <2>5
  <1>5. ASSUME Base, Trusted, HistoryAsRecorded,
               \/ ReadCommitFails \/ ReadTreeFails \/ ReadTableFails
        PROVE  FALSE
    <2>1. CASE ReadCommitFails
      <3>1. phase = "chain" /\ next # None /\ next \notin DOMAIN commits
        BY <2>1 DEF ReadCommitFails
      <3>2. next \in RecordedHistory
        BY <1>5, <3>1 DEF Trusted, RecordedHistory, Ancestors
      <3> QED  BY <1>5, <3>1, <3>2, RecordedHasNoFault DEF HistoryAsRecorded
    <2>2. CASE ReadTreeFails
      <3>1. chain # <<>> /\ chain[1][2].tree \notin DOMAIN trees
        BY <2>2 DEF ReadTreeFails
      <3>2. chain \in Seq(Pairs)
        BY <1>5 DEF Base, ChainOK, Pairs
      <3>3. 1 \in 1 .. Len(chain)
        BY <3>1, <3>2, TailOfChain
      <3>4. chain[1][1] \in RecordedHistory /\ chain[1][2] = commits[chain[1][1]]
        BY <1>5, <3>3 DEF Trusted, Base, IntegrityTypeOK
      <3>5. commits[chain[1][1]].tree \in DOMAIN trees
        BY <1>5, <3>4, RecordedHasNoFault DEF HistoryAsRecorded
      <3> QED  BY <3>1, <3>4, <3>5
    <2>3. CASE ReadTableFails
      <3>1. PICK e \in left : e.table_hash \notin DOMAIN tables
        BY <2>3 DEF ReadTableFails
      <3>2. PICK n \in RecordedHistory : e \in recorded.trees[recorded.commits[n].tree]
        BY <1>5 DEF Trusted
      <3> QED  BY <1>5, <3>1, <3>2, RecordedHasNoFault DEF HistoryAsRecorded
    <2> QED  BY <1>5, <2>1, <2>2, <2>3
  <1>6. ASSUME Base, Trusted, HistoryAsRecorded, CheckTable PROVE Trusted'
    <2>1. PICK e \in left : /\ e.table_hash \in DOMAIN tables /\ left' = left \ {e}
                            /\ report' = report \cup TableFaults(e, tables[e.table_hash])
      BY <1>6 DEF CheckTable
    <2>2. phase = "tables" /\ UNCHANGED <<objects, recorded, phase, chain, next, outcome>>
      BY <1>6 DEF CheckTable
    <2>3. Ancestors' = Ancestors /\ RecordedHistory' = RecordedHistory /\ recorded' = recorded
      BY <2>2, HistoryKept
    <2>4. PICK n \in RecordedHistory : e \in recorded.trees[recorded.commits[n].tree]
      BY <1>6 DEF Trusted
    <2>5. TableFaults(e, tables[e.table_hash]) = {}
      BY <1>6, <2>4, RecordedHasNoFault DEF HistoryAsRecorded
    <2>6. report' = {} /\ \A f \in left' : f \in left
      BY <1>6, <2>1, <2>5 DEF Trusted
    <2> QED  BY <1>6, <2>2, <2>3, <2>6 DEF Trusted
  <1>7. ASSUME Base, Trusted, HistoryAsRecorded, ChainRead \/ NextCommit \/ VerifyEnd \/ UNCHANGED vars
        PROVE  Trusted'
    <2>1. UNCHANGED <<objects, recorded, chain, next, left, report>>
      BY <1>7 DEF ChainRead, NextCommit, VerifyEnd, vars
    <2>2. Ancestors' = Ancestors /\ RecordedHistory' = RecordedHistory
      BY <2>1, HistoryKept
    <2>3. outcome' # "error" /\ (phase' = "chain" => phase = "chain")
      BY <1>7 DEF ChainRead, NextCommit, VerifyEnd, Finish, vars, Trusted
    <2>4. phase' \in {"commit", "tables"} => phase \in {"commit", "tables"} \/ next = None
      BY <1>7 DEF ChainRead, NextCommit, VerifyEnd, Finish, vars
    <2> QED  BY <1>7, <2>1, <2>2, <2>3, <2>4 DEF Trusted
  <1>8. ASSUME Base, TrustOK, [Next]_vars, ~(Alter \/ AlterHead \/ ReadCommit \/ CheckCommit)
        PROVE  TrustOK'
    <2>1. UNCHANGED <<objects, recorded>>
      BY <1>8 DEF Next, Verify, vars, VerifyEmpty, VerifyBegin, ReadCommitFails, ChainRead,
                  ReadTreeFails, CheckTable, ReadTableFails, NextCommit, VerifyEnd
    <2>2. HistoryAsRecorded' <=> HistoryAsRecorded
      BY <2>1, HistoryKept
    <2>3. CASE VerifyEmpty \/ VerifyBegin
      BY <1>4, <1>8, <2>2, <2>3 DEF TrustOK
    <2>4. CASE ReadCommitFails \/ ReadTreeFails \/ ReadTableFails
      BY <1>5, <1>8, <2>2, <2>4 DEF TrustOK, ReadCommitFails, ReadTreeFails, ReadTableFails
    <2>5. CASE CheckTable
      BY <1>6, <1>8, <2>2, <2>5 DEF TrustOK, CheckTable
    <2>6. CASE ChainRead \/ NextCommit \/ VerifyEnd
      BY <1>7, <1>8, <2>2, <2>6 DEF TrustOK, ChainRead, NextCommit, VerifyEnd
    <2>7. CASE UNCHANGED vars
      <3>1. phase' = phase
        BY <2>7 DEF vars
      <3> QED  BY <1>7, <1>8, <2>2, <2>7, <3>1 DEF TrustOK
    <2> QED  BY <1>8, <2>3, <2>4, <2>5, <2>6, <2>7 DEF Next, Verify
  <1> QED  BY <1>1, <1>2, <1>3, <1>8

\* A history that is what commit() recorded passes, row order aside: no violation, no
\* error, whatever was done to the other files.
THEOREM TheRecordSatisfies == Spec => []VerifyIsComplete
  <1>1. Init => Base /\ TrustOK
    <2>1. Init => TrustOK
      BY DEF Init, TrustOK
    <2> QED  BY <2>1, BaseInit
  <1>2. (Base /\ TrustOK) /\ [Next]_vars => (Base /\ TrustOK)'
    BY BaseStep, TrustStep
  <1>3. Base /\ TrustOK => VerifyIsComplete
    BY DEF Base, ChainOK, IntegrityTypeOK, TrustOK, Trusted, VerifyIsComplete, Verified
  <1>4. Spec => [](Base /\ TrustOK)
    BY <1>1, <1>2, PTL DEF Spec
  <1> QED  BY <1>3, <1>4, PTL
================================================================================
