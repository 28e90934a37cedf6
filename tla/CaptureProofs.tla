----------------------------- MODULE CaptureProofs -----------------------------
(***************************************************************************)
(* What a capture returns while other sessions are at work, for any tables *)
(* and any number of transactions between its queries.                     *)
(***************************************************************************)
EXTENDS Capture, Collections

(* The inductive invariant *)

Todo == {todo[i] : i \in 1 .. Len(todo)}
TableNames == {TableOrder[i] : i \in 1 .. Len(TableOrder)}
SchemasOf(s) == {t.schema : t \in s}
ElementsOf(q) == {q[i] : i \in 1 .. Len(q)}
Distinct(q) == \A i, j \in 1 .. Len(q) : q[i] = q[j] => i = j
IsSequence(q) == q \in Seq({q[i] : i \in 1 .. Len(q)})

\* The other sessions leave a database, whatever they do.
StatesOK ==
    /\ IsSequence(log) /\ log # <<>>
    /\ log[1] \in Databases /\ db = log[Len(log)] /\ IsDatabase(db)
    /\ ddl => Len(log) > 1

\* A table is read once: it leaves todo when its snapshot is taken.
QueriesOK ==
    /\ engine \in Engines
    /\ phase \in {"list", "columns", "key", "rows", "done"}
    /\ outcome \in {"none", "ok", "error"} /\ (phase = "done" <=> outcome # "none")
    /\ todo \in Seq(TableNames) /\ Distinct(todo)
    /\ phase \in {"key", "rows"} => todo # <<>>
    /\ IsSequence(out)
    /\ phase = "list" => out = <<>>
    /\ outcome = "ok" => todo = <<>>
    /\ \A i \in 1 .. Len(out) : out[i].schema.name \notin Todo

\* What was found for the current table is its definition.
FoundOK ==
    phase \in {"key", "rows"} =>
        \E s \in SchemasOf(db) :
            /\ s.name = todo[1] /\ s.columns = columns
            /\ phase = "rows" => s.primary_key = key

\* Each table snapshot was taken no earlier than the one before it.
Moments(n) ==
    {at \in [1 .. Len(out) -> 1 .. n] : \A i, j \in 1 .. Len(out) : i <= j => at[i] <= at[j]}

TakenAt(at) ==
    \A i \in 1 .. Len(out) : out[i] \in Captured(log[at[i]]) \/ Shadows(out[i].schema)

ForwardOK == \E at \in Moments(Len(log)) : TakenAt(at)

\* Only a column t can make a query fail while no table is defined anew, and
\* every table is in one of two places.
Steady ==
    /\ outcome = "error" => Shadowed
    /\ phase # "list" => Names(Taken) \cup Todo = Names(db)
    /\ SchemasOf(Taken) \subseteq SchemasOf(db)
    /\ FoundOK
    /\ ForwardOK

SteadyOK == ~ddl => Steady

CaptureInv == StatesOK /\ QueriesOK /\ SteadyOK /\ RowFitsSchema
-------------------------------------------------------------------------------
(* Tables *)

LEMMA MakesTable ==
    ASSUME NEW s, IsSchema(s), NEW S, NEW rows \in Seq(S),
           \A i \in 1 .. Len(rows) : IsRow(s, rows[i]), NEW t,
           t = [schema |-> s, rows |-> rows], Admits(t)
    PROVE  IsTable(t)
  <1>1. t.schema = s /\ t.rows = rows
    OBVIOUS
  <1>2. rows \in Seq({rows[i] : i \in 1 .. Len(rows)})
    BY OwnElements
  <1> QED  BY <1>1, <1>2 DEF IsTable

LEMMA TableParts ==
    ASSUME NEW t, IsTable(t)
    PROVE  /\ t = [schema |-> t.schema, rows |-> t.rows] /\ IsSchema(t.schema)
           /\ Len(t.rows) \in Nat /\ DOMAIN t.rows = 1 .. Len(t.rows)
           /\ t.rows \in Seq({t.rows[i] : i \in 1 .. Len(t.rows)})
           /\ \A i \in 1 .. Len(t.rows) : IsRow(t.schema, t.rows[i])
           /\ Admits(t)
  <1> DEFINE S == {t.rows[i] : i \in 1 .. Len(t.rows)}
  <1>1. t.rows \in Seq(S)
    BY DEF IsTable
  <1> HIDE DEF S
  <1>2. Len(t.rows) \in Nat /\ DOMAIN t.rows = 1 .. Len(t.rows)
    BY <1>1
  <1> QED  BY <1>1, <1>2 DEF IsTable, S

LEMMA RowDomain ==
    ASSUME NEW s, NEW d, IsRow(s, d)
    PROVE  DOMAIN d = ColumnNames(s.columns)
  <1> DEFINE C == ColumnNames(s.columns)
  <1>1. d = [c \in C |-> d[c]]
    BY DEF IsRow
  <1> HIDE DEF C
  <1> QED  BY <1>1 DEF C

LEMMA NamedIsThere ==
    ASSUME NEW s, NEW x \in Names(s)
    PROVE  Named(s, x) \in s /\ Named(s, x).schema.name = x
  BY DEF Names, Named

LEMMA NamedIsTheOne ==
    ASSUME NEW s, IsDatabase(s), NEW t \in s
    PROVE  t.schema.name \in Names(s) /\ Named(s, t.schema.name) = t
  <1>1. t.schema.name \in Names(s)
    BY DEF Names
  <1> QED  BY <1>1, NamedIsThere DEF IsDatabase

LEMMA InsertLeavesTable ==
    ASSUME NEW t, IsTable(t), NEW d, IsRow(t.schema, d), Admits(WithRow(t, d))
    PROVE  IsTable(WithRow(t, d)) /\ WithRow(t, d).schema = t.schema
  <1> DEFINE T == {t.rows[i] : i \in 1 .. Len(t.rows)}
  <1>1. PICK q : q = t.rows
    OBVIOUS
  <1>2. PICK S : q \in Seq(S) /\ d \in S
    <2>1. q \in Seq(T)
      BY <1>1, TableParts
    <2>2. T \subseteq T \cup {d} /\ d \in T \cup {d}
      OBVIOUS
    <2> HIDE DEF T
    <2>3. q \in Seq(T \cup {d})
      BY <2>1, <2>2, SeqMonotonic
    <2> QED  BY <2>2, <2>3
  <1>3. PICK rows : rows = Append(q, d)
    OBVIOUS
  <1>4. PICK n : n = Len(q)
    OBVIOUS
  <1>5. /\ n \in Nat /\ rows \in Seq(S) /\ Len(rows) = n + 1 /\ rows[n + 1] = d
        /\ \A i \in 1 .. n : rows[i] = q[i]
    BY <1>2, <1>3, <1>4, AppendProperties
  <1>6. \A i \in 1 .. n : IsRow(t.schema, q[i])
    BY <1>1, <1>4, TableParts
  <1>7. \A i \in 1 .. Len(rows) : IsRow(t.schema, rows[i])
    <2>1. \A i \in 1 .. Len(rows) : i \in 1 .. n \/ i = n + 1
      BY <1>5
    <2> QED  BY <1>5, <1>6, <2>1
  <1>8. WithRow(t, d) = [schema |-> t.schema, rows |-> rows]
    <2>1. t = [schema |-> t.schema, rows |-> t.rows]
      BY TableParts
    <2>2. WithRow(t, d) = [t EXCEPT !.rows = rows]
      BY <1>1, <1>3 DEF WithRow
    <2> QED  BY <2>1, <2>2
  <1>9. IsTable(WithRow(t, d))
    BY <1>5, <1>7, <1>8, TableParts, MakesTable
  <1> QED  BY <1>8, <1>9

\* A table admits a part of its rows, too.
LEMMA DeleteLeavesTable ==
    ASSUME NEW t, IsTable(t), NEW i \in 1 .. Len(t.rows)
    PROVE  IsTable(WithoutRow(t, i)) /\ WithoutRow(t, i).schema = t.schema
  <1>1. PICK q : q = t.rows
    OBVIOUS
  <1>2. PICK S : q \in Seq(S)
    BY <1>1, TableParts
  <1>3. PICK n : n = Len(q)
    OBVIOUS
  <1>4. n \in Nat /\ i \in 1 .. Len(q)
    BY <1>1, <1>2, <1>3
  <1>5. PICK rows : rows = SubSeq(q, 1, i - 1) \o SubSeq(q, i + 1, Len(q))
    OBVIOUS
  <1>6. /\ rows \in Seq(S) /\ Len(rows) = Len(q) - 1
        /\ \A j \in 1 .. Len(q) - 1 : rows[j] = IF j < i THEN q[j] ELSE q[j + 1]
    BY <1>2, <1>4, <1>5, WithoutPlace
  <1>7. PICK u : u = WithoutRow(t, i)
    OBVIOUS
  <1>8. u = [schema |-> t.schema, rows |-> rows]
    <2>1. t = [schema |-> t.schema, rows |-> t.rows]
      BY TableParts
    <2>2. WithoutRow(t, i) = [t EXCEPT !.rows = rows]
      BY <1>1, <1>5 DEF WithoutRow
    <2> QED  BY <1>7, <2>1, <2>2
  <1> DEFINE p(j) == IF j < i THEN j ELSE j + 1
  <1>9. \A j \in 1 .. n - 1 : p(j) \in 1 .. n /\ rows[j] = q[p(j)]
    BY <1>3, <1>4, <1>6
  <1>10. \A j, k \in 1 .. n - 1 : p(j) = p(k) => j = k
    BY <1>4
  <1> HIDE DEF p
  <1>11. \A j \in 1 .. Len(rows) : IsRow(t.schema, rows[j])
    <2>1. \A j \in 1 .. n : IsRow(t.schema, q[j])
      BY <1>1, <1>3, TableParts
    <2> QED  BY <1>3, <1>6, <1>9, <2>1
  <1>12. Admits(u)
    <2> DEFINE K == KeyColumns(t.schema.primary_key)
    <2> SUFFICES ASSUME t.schema.primary_key # <<>>,
                        NEW j \in 1 .. Len(rows), NEW k \in 1 .. Len(rows),
                        \A c \in K : rows[j][c] = rows[k][c]
                 PROVE  j = k
      BY <1>8 DEF Admits
    <2>1. \A a, b \in 1 .. n : (\A c \in K : q[a][c] = q[b][c]) => a = b
      <3>1. Admits(t)
        BY TableParts
      <3> QED  BY <1>1, <1>3, <3>1 DEF Admits
    <2> HIDE DEF K
    <2>2. j \in 1 .. n - 1 /\ k \in 1 .. n - 1
      BY <1>3, <1>6
    <2>3. \A c \in K : q[p(j)][c] = q[p(k)][c]
      BY <1>9, <2>2
    <2>4. p(j) = p(k)
      BY <1>9, <2>1, <2>2, <2>3
    <2> QED  BY <1>10, <2>2, <2>4
  <1>13. IsTable(u)
    BY <1>6, <1>8, <1>11, <1>12, TableParts, MakesTable
  <1> QED  BY <1>7, <1>8, <1>13

LEMMA AddColumnLeavesTable ==
    ASSUME NEW t, IsTable(t), NEW c, c = [name |-> "extra"],
           "extra" \notin ColumnNames(t.schema.columns), NEW v,
           NEW u, u = WithValues(t, c, v), Admits(u)
    PROVE  IsTable(u) /\ u.schema.name = t.schema.name
  <1>1. PICK s : s = t.schema
    OBVIOUS
  <1>2. IsSchema(s) /\ s = [name |-> s.name, columns |-> s.columns, primary_key |-> s.primary_key]
    <2>1. IsSchema(t.schema)
      BY TableParts
    <2>2. IsSchema(s)
      BY <1>1, <2>1
    <2> QED  BY <2>2 DEF IsSchema
  <1>3. PICK q : q = s.columns
    OBVIOUS
  <1>4. PICK p : p = Append(q, c)
    OBVIOUS
  <1>5. PICK r : r = [name |-> s.name, columns |-> p, primary_key |-> s.primary_key]
    OBVIOUS
  <1>6. PICK C : C = ColumnNames(q)
    OBVIOUS
  <1>7. PICK n : n = Len(q)
    OBVIOUS
  <1>8. PICK S : q \in Seq(S) /\ c \in S
    <2> DEFINE T == {q[i] : i \in 1 .. Len(q)}
    <2>1. q \in Seq(T)
      BY <1>2, <1>3 DEF IsSchema
    <2>2. T \subseteq T \cup {c} /\ c \in T \cup {c}
      OBVIOUS
    <2> HIDE DEF T
    <2>3. q \in Seq(T \cup {c})
      BY <2>1, <2>2, SeqMonotonic
    <2> QED  BY <2>2, <2>3
  <1>9. /\ n \in Nat /\ p \in Seq(S) /\ Len(p) = n + 1 /\ p[n + 1] = c
        /\ \A i \in 1 .. n : p[i] = q[i]
    BY <1>4, <1>7, <1>8, AppendProperties
  <1>10. \A i \in 1 .. n + 1 : i \in 1 .. n \/ i = n + 1
    BY <1>9
  <1>11. n + 1 \in 1 .. n + 1 /\ \A i \in 1 .. n : i \in 1 .. n + 1
    BY <1>9
  <1>12. ColumnNames(p) = C \cup {"extra"}
    <2>1. c.name = "extra"
      OBVIOUS
    <2>2. ColumnNames(p) = {p[i].name : i \in 1 .. n + 1} /\ C = {q[i].name : i \in 1 .. n}
      BY <1>6, <1>7, <1>9 DEF ColumnNames
    <2> QED  BY <1>9, <1>10, <1>11, <2>1, <2>2
  <1>13. IsSchema(r)
    <2>1. r.name = s.name /\ r.columns = p /\ r.primary_key = s.primary_key
      BY <1>5
    <2>2. p \in Seq({p[i] : i \in 1 .. Len(p)})
      BY <1>9, OwnElements
    <2>3. \A i \in 1 .. Len(p) : "name" \in DOMAIN p[i]
      <3>1. \A i \in 1 .. n : "name" \in DOMAIN q[i]
        BY <1>2, <1>3, <1>7 DEF IsSchema
      <3>2. "name" \in DOMAIN c
        OBVIOUS
      <3> QED  BY <1>9, <1>10, <3>1, <3>2
    <2>4. s.primary_key \in Seq(KeyColumns(s.primary_key))
      BY <1>2 DEF IsSchema
    <2>5. KeyColumns(s.primary_key) \subseteq ColumnNames(p)
      <3>1. KeyColumns(s.primary_key) \subseteq C
        BY <1>2, <1>3, <1>6 DEF IsSchema
      <3> QED  BY <1>12, <3>1
    <2>6. p # <<>>
      BY <1>9
    <2>7. r = [name |-> r.name, columns |-> r.columns, primary_key |-> r.primary_key]
      BY <1>5
    <2> QED  BY <2>1, <2>2, <2>3, <2>4, <2>5, <2>6, <2>7 DEF IsSchema
  <1> DEFINE e(i) == [x \in DOMAIN t.rows[i] \cup {c.name} |->
                        IF x = c.name THEN v[i] ELSE t.rows[i][x]]
  <1>14. PICK m : m = Len(t.rows)
    OBVIOUS
  <1>15. PICK rows : rows = [i \in 1 .. m |-> e(i)]
    OBVIOUS
  <1>16. u = [schema |-> r, rows |-> rows]
    <2>1. [t.schema EXCEPT !.columns = Append(@, c)] = r
      <3>1. [s EXCEPT !.columns = p] = r
        BY <1>2, <1>5
      <3>2. [s EXCEPT !.columns = Append(@, c)] = [s EXCEPT !.columns = p]
        BY <1>3, <1>4
      <3> QED  BY <1>1, <3>1, <3>2
    <2>2. u = [schema |-> [t.schema EXCEPT !.columns = Append(@, c)], rows |-> rows]
      BY <1>14, <1>15 DEF WithValues
    <2> QED  BY <2>1, <2>2
  <1>17. ASSUME NEW i \in 1 .. m PROVE IsRow(r, e(i))
    <2>1. PICK d : d = t.rows[i]
      OBVIOUS
    <2>2. DOMAIN d = C
      <3>1. IsRow(s, d)
        BY <1>1, <1>14, <2>1, TableParts
      <3> QED  BY <1>3, <1>6, <3>1, RowDomain
    <2>3. e(i) = [x \in C \cup {"extra"} |-> IF x = "extra" THEN v[i] ELSE d[x]]
      BY <2>1, <2>2
    <2> HIDE DEF e
    <2>4. e(i) = [x \in C \cup {"extra"} |-> e(i)[x]]
      BY <2>3
    <2>5. r.columns = p
      BY <1>5
    <2> QED  BY <1>12, <2>4, <2>5 DEF IsRow
  <1> HIDE DEF e
  <1>18. \E R : rows \in Seq(R)
    <2> DEFINE R == {e(i) : i \in 1 .. m}
    <2>1. rows \in [1 .. m -> R] /\ m \in Nat
      BY <1>14, <1>15, TableParts
    <2> HIDE DEF R
    <2>2. rows \in Seq(R)
      BY <2>1
    <2> QED  BY <2>2
  <1>19. Len(rows) = m /\ \A i \in 1 .. m : rows[i] = e(i)
    <2>1. m \in Nat
      BY <1>14, TableParts
    <2> QED  BY <1>15, <2>1
  <1>20. \A i \in 1 .. Len(rows) : IsRow(r, rows[i])
    BY <1>17, <1>19
  <1>21. IsTable(u)
    BY <1>13, <1>16, <1>18, <1>20, MakesTable
  <1>22. r.name = t.schema.name /\ u.schema = r
    BY <1>1, <1>5, <1>16
  <1> QED  BY <1>21, <1>22

LEMMA HasNewColumn ==
    ASSUME NEW t, IsTable(t), NEW c, NEW v
    PROVE  c.name \in ColumnNames(WithValues(t, c, v).schema.columns)
  <1>1. PICK s : s = t.schema
    OBVIOUS
  <1>2. PICK q : q = s.columns
    OBVIOUS
  <1>3. PICK S : q \in Seq(S) /\ s = [name |-> s.name, columns |-> q, primary_key |-> s.primary_key]
    BY <1>1, <1>2, TableParts DEF IsSchema
  <1>4. PICK p : p = Append(q, c)
    OBVIOUS
  <1>5. Len(q) \in Nat /\ Len(p) = Len(q) + 1 /\ p[Len(p)] = c
    BY <1>3, <1>4
  <1>6. c.name \in ColumnNames(p)
    BY <1>5 DEF ColumnNames
  <1>7. WithValues(t, c, v).schema = [s EXCEPT !.columns = Append(@, c)]
    BY <1>1 DEF WithValues
  <1>8. [s EXCEPT !.columns = Append(@, c)].columns = p
    BY <1>2, <1>3, <1>4
  <1> QED  BY <1>6, <1>7, <1>8

LEMMA ChangeKeyLeavesTable ==
    ASSUME NEW t, IsTable(t), NEW k, k \in Seq(KeyColumns(k)),
           KeyColumns(k) \subseteq ColumnNames(t.schema.columns),
           NEW u, u = [t EXCEPT !.schema.primary_key = k], Admits(u)
    PROVE  IsTable(u) /\ u.schema.name = t.schema.name
  <1>1. PICK s : s = t.schema
    OBVIOUS
  <1>2. IsSchema(s) /\ s = [name |-> s.name, columns |-> s.columns, primary_key |-> s.primary_key]
    <2>1. IsSchema(t.schema)
      BY TableParts
    <2>2. IsSchema(s)
      BY <1>1, <2>1
    <2> QED  BY <2>2 DEF IsSchema
  <1>3. PICK r : r = [name |-> s.name, columns |-> s.columns, primary_key |-> k]
    OBVIOUS
  <1>4. r.name = s.name /\ r.columns = s.columns /\ r.primary_key = k
    BY <1>3
  <1>5. IsSchema(r)
    <2>1. KeyColumns(k) \subseteq ColumnNames(s.columns)
      BY <1>1
    <2> QED  BY <1>2, <1>3, <1>4, <2>1 DEF IsSchema
  <1>6. u = [schema |-> r, rows |-> t.rows]
    <2>1. t = [schema |-> s, rows |-> t.rows]
      BY <1>1, TableParts
    <2>2. r = [s EXCEPT !.primary_key = k]
      BY <1>2, <1>3
    <2>3. u = [t EXCEPT !.schema = [s EXCEPT !.primary_key = k]]
      BY <1>1
    <2>4. u = [t EXCEPT !.schema = r]
      BY <2>2, <2>3
    <2> QED  BY <2>1, <2>4
  <1>7. \A i \in 1 .. Len(t.rows) : IsRow(r, t.rows[i])
    <2>1. \A i \in 1 .. Len(t.rows) : IsRow(s, t.rows[i])
      BY <1>1, TableParts
    <2>2. \A d : IsRow(s, d) => IsRow(r, d)
      BY <1>4 DEF IsRow
    <2> QED  BY <2>1, <2>2
  <1>8. IsTable(u)
    BY <1>5, <1>6, <1>7, TableParts, MakesTable
  <1> QED  BY <1>1, <1>4, <1>6, <1>8

LEMMA CreatedIsTable ==
    ASSUME NEW t, IsTable(t), NEW u, u = [t EXCEPT !.rows = <<>>]
    PROVE  IsTable(u) /\ u.schema = t.schema
  <1>1. u = [schema |-> t.schema, rows |-> <<>>]
    <2>1. t = [schema |-> t.schema, rows |-> t.rows]
      BY TableParts
    <2> QED  BY <2>1
  <1>2. Len(<<>>) = 0 /\ <<>> \in Seq({}) /\ 1 .. 0 = {}
    OBVIOUS
  <1>3. Admits(u)
    BY <1>1, <1>2 DEF Admits
  <1>4. \A i \in 1 .. Len(<<>>) : IsRow(t.schema, <<>>[i])
    BY <1>2
  <1>5. IsTable(u)
    BY <1>1, <1>2, <1>3, <1>4, TableParts, MakesTable
  <1> QED  BY <1>1, <1>5

\* x under its new name.
RenamedTo(old, new, x) == IF x = old THEN new ELSE x

LEMMA RenameLeavesTable ==
    ASSUME NEW t, IsTable(t), NEW old, NEW new, NEW u, u = Renamed(t, old, new), Admits(u)
    PROVE  IsTable(u) /\ u.schema.name = t.schema.name
  <1> DEFINE other(x) == RenamedTo(old, new, x)
             back(x) == IF x = new THEN old ELSE x
  <1>1. PICK s : s = t.schema
    OBVIOUS
  <1>2. IsSchema(s) /\ s = [name |-> s.name, columns |-> s.columns, primary_key |-> s.primary_key]
    <2>1. IsSchema(t.schema)
      BY TableParts
    <2>2. IsSchema(s)
      BY <1>1, <2>1
    <2> QED  BY <2>2 DEF IsSchema
  <1>3. PICK q : q = s.columns
    OBVIOUS
  <1>4. PICK k : k = s.primary_key
    OBVIOUS
  <1>5. PICK p : p = [i \in DOMAIN q |-> [q[i] EXCEPT !.name = other(q[i].name)]]
    OBVIOUS
  <1>6. PICK l : l = [i \in DOMAIN k |-> other(k[i])]
    OBVIOUS
  <1>7. PICK r : r = [name |-> s.name, columns |-> p, primary_key |-> l]
    OBVIOUS
  <1>8. PICK rows : rows = [i \in 1 .. Len(t.rows) |->
                       [x \in {other(y) : y \in DOMAIN t.rows[i]} |-> t.rows[i][back(x)]]]
    OBVIOUS
  <1>9. u = [schema |-> r, rows |-> rows]
    <2>1. p = [i \in DOMAIN t.schema.columns |->
                 [t.schema.columns[i] EXCEPT !.name = other(@)]]
      BY <1>1, <1>3, <1>5
    <2> QED  BY <1>1, <1>4, <1>6, <1>7, <1>8, <2>1 DEF Renamed, RenamedTo
  <1> HIDE DEF other
  <1>10. PICK n : n = Len(q)
    OBVIOUS
  <1>11. n \in Nat /\ DOMAIN q = 1 .. n /\ \A i \in 1 .. n : "name" \in DOMAIN q[i]
    <2>1. PICK S : q \in Seq(S)
      BY <1>2, <1>3 DEF IsSchema
    <2>2. \A i \in 1 .. n : "name" \in DOMAIN q[i]
      BY <1>2, <1>3, <1>10 DEF IsSchema
    <2> QED  BY <1>10, <2>1, <2>2
  <1>12. PICK m : m = Len(k)
    OBVIOUS
  <1>13. m \in Nat /\ DOMAIN k = 1 .. m /\ (\A i \in 1 .. m : k[i] \in KeyColumns(k))
    <2>1. k \in Seq(KeyColumns(k))
      BY <1>2, <1>4 DEF IsSchema
    <2>2. \A i \in 1 .. m : k[i] \in KeyColumns(k)
      BY <1>12 DEF KeyColumns
    <2> QED  BY <1>12, <2>1, <2>2
  <1>14. p \in [1 .. n -> {p[i] : i \in 1 .. n}] /\ Len(p) = n
    BY <1>5, <1>11
  <1>15. l \in [1 .. m -> {l[i] : i \in 1 .. m}] /\ Len(l) = m
    BY <1>6, <1>13
  <1>16. \A i \in 1 .. n : "name" \in DOMAIN p[i] /\ p[i].name = other(q[i].name)
    BY <1>5, <1>11
  <1>17. PICK C : C = ColumnNames(q)
    OBVIOUS
  <1>18. ColumnNames(p) = {other(x) : x \in C}
    <2>1. ColumnNames(p) = {p[i].name : i \in 1 .. n}
      BY <1>14 DEF ColumnNames
    <2>2. C = {q[i].name : i \in 1 .. n}
      BY <1>10, <1>17 DEF ColumnNames
    <2> QED  BY <1>16, <2>1, <2>2
  <1>19. KeyColumns(l) = {other(x) : x \in KeyColumns(k)}
    <2>1. KeyColumns(l) = {l[i] : i \in 1 .. m}
      BY <1>15 DEF KeyColumns
    <2>2. KeyColumns(k) = {k[i] : i \in 1 .. m}
      BY <1>12 DEF KeyColumns
    <2>3. \A i \in 1 .. m : l[i] = other(k[i])
      BY <1>6, <1>13
    <2> QED  BY <2>1, <2>2, <2>3
  <1>20. IsSchema(r)
    <2>1. r.name = s.name /\ r.columns = p /\ r.primary_key = l
          /\ r = [name |-> r.name, columns |-> r.columns, primary_key |-> r.primary_key]
      BY <1>7
    <2>2. p \in Seq({p[i] : i \in 1 .. Len(p)})
      BY <1>11, <1>14
    <2>3. l \in Seq(KeyColumns(l))
      <3>1. KeyColumns(l) = {l[i] : i \in 1 .. m}
        BY <1>15 DEF KeyColumns
      <3> QED  BY <1>13, <1>15, <3>1
    <2>4. KeyColumns(l) \subseteq ColumnNames(p)
      <3>1. KeyColumns(k) \subseteq C
        BY <1>2, <1>3, <1>4, <1>17 DEF IsSchema
      <3> QED  BY <1>18, <1>19, <3>1
    <2>5. "mysql" \in Engines => p # <<>>
      <3>1. "mysql" \in Engines => q # <<>>
        BY <1>2, <1>3 DEF IsSchema
      <3>2. \E S : q \in Seq(S)
        BY <1>2, <1>3 DEF IsSchema
      <3>3. "mysql" \in Engines => n # 0
        BY <1>10, <3>1, <3>2
      <3> QED  BY <1>14, <3>3
    <2>6. \A i \in 1 .. Len(p) : "name" \in DOMAIN p[i]
      BY <1>14, <1>16
    <2> QED  BY <2>1, <2>2, <2>3, <2>4, <2>5, <2>6 DEF IsSchema
  <1>21. ASSUME NEW i \in 1 .. Len(t.rows) PROVE IsRow(r, rows[i])
    <2>1. PICK d : d = t.rows[i]
      OBVIOUS
    <2>2. DOMAIN d = C
      <3>1. IsRow(s, d)
        BY <1>1, <2>1, TableParts
      <3> QED  BY <1>3, <1>17, <3>1, RowDomain
    <2>3. rows[i] = [x \in {other(y) : y \in C} |-> d[back(x)]]
      BY <1>8, <2>1, <2>2
    <2>4. PICK e : e = rows[i]
      OBVIOUS
    <2>5. PICK D : D = {other(y) : y \in C}
      OBVIOUS
    <2>6. e = [x \in D |-> d[back(x)]]
      BY <2>3, <2>4, <2>5
    <2>7. e = [x \in D |-> e[x]]
      BY <2>6
    <2>8. r.columns = p
      BY <1>7
    <2> QED  BY <1>18, <2>4, <2>5, <2>7, <2>8 DEF IsRow
  <1>22. PICK w : w = Len(t.rows)
    OBVIOUS
  <1>23. w \in Nat
    BY <1>22, TableParts
  <1>24. rows \in [1 .. w -> {rows[i] : i \in 1 .. w}]
    BY <1>8, <1>22
  <1>25. rows \in Seq({rows[i] : i \in 1 .. w}) /\ Len(rows) = w
    BY <1>23, <1>24
  <1>26. \A i \in 1 .. Len(rows) : IsRow(r, rows[i])
    BY <1>21, <1>22, <1>25
  <1>27. IsTable(u)
    BY <1>9, <1>20, <1>25, <1>26, MakesTable
  <1>28. r.name = t.schema.name /\ u.schema = r
    BY <1>1, <1>7, <1>9
  <1> QED  BY <1>27, <1>28
-------------------------------------------------------------------------------
(* The list of tables *)

\* The first n names of the order that are names of tables.
Upto(n) == {TableOrder[i] : i \in {j \in 1 .. n : Exists(TableOrder[j])}}

LEMMA ElementsOfAppend ==
    ASSUME NEW S, NEW q \in Seq(S), NEW x \in S
    PROVE  /\ Append(q, x) \in Seq(S)
           /\ ElementsOf(Append(q, x)) = ElementsOf(q) \cup {x}
           /\ (x \notin ElementsOf(q) /\ Distinct(q)) => Distinct(Append(q, x))
  <1>1. PICK n : n = Len(q)
    OBVIOUS
  <1>2. PICK p : p = Append(q, x)
    OBVIOUS
  <1>3. n \in Nat /\ p \in Seq(S) /\ Len(p) = n + 1 /\ p[n + 1] = x /\ \A i \in 1 .. n : p[i] = q[i]
    BY <1>1, <1>2, AppendProperties
  <1>4. \A i \in 1 .. n + 1 : i \in 1 .. n \/ i = n + 1
    BY <1>3
  <1>5. n + 1 \in 1 .. n + 1 /\ \A i \in 1 .. n : i \in 1 .. n + 1
    BY <1>3
  <1>6. ElementsOf(p) = {p[i] : i \in 1 .. n + 1} /\ ElementsOf(q) = {q[i] : i \in 1 .. n}
    BY <1>1, <1>3 DEF ElementsOf
  <1>7. ElementsOf(p) = ElementsOf(q) \cup {x}
    BY <1>3, <1>4, <1>5, <1>6
  <1>8. ASSUME x \notin ElementsOf(q), \A i, j \in 1 .. n : q[i] = q[j] => i = j,
               NEW i \in 1 .. n + 1, NEW j \in 1 .. n + 1, p[i] = p[j]
        PROVE  i = j
    <2>1. \A a \in 1 .. n : q[a] # x
      BY <1>6, <1>8
    <2> QED  BY <1>3, <1>4, <1>8, <2>1
  <1>9. (x \notin ElementsOf(q) /\ Distinct(q)) => Distinct(p)
    BY <1>1, <1>3, <1>8 DEF Distinct
  <1> QED  BY <1>2, <1>3, <1>7, <1>9

\* list_tables names every table, once.
LEMMA ListsAll ==
    ASSUME IsDatabase(db)
    PROVE  /\ Listed \in Seq(TableNames) /\ ElementsOf(Listed) = Names(db)
           /\ Distinct(Listed)
  <1> DEFINE N == Len(TableOrder)
             T == Seq(TableNames)
             E == [i \in 1 .. N |-> [q \in T |->
                     IF Exists(TableOrder[i]) THEN Append(q, TableOrder[i]) ELSE q]]
             Step(h) == [i \in 0 .. N |->
                           IF i = 0 THEN <<>>
                           ELSE IF Exists(TableOrder[i]) THEN Append(h[i - 1], TableOrder[i])
                           ELSE h[i - 1]]
             names == CHOOSE h : h = Step(h)
  <1>1. N \in Nat /\ \A i \in 1 .. N : TableOrder[i] \in TableNames
    BY CaptureAssumptions DEF TableNames
  <1>2. \A i, j \in 1 .. N : TableOrder[i] = TableOrder[j] => i = j
    BY CaptureAssumptions
  <1>3. Listed = names[N]
    BY DEF Listed
  <1>4. Upto(N) = Names(db)
    BY DEF Upto, Exists, IsDatabase
  <1> HIDE DEF N
  <1>5. \E f \in [0 .. N -> T] : f = Step(f)
    <2>1. \A q \in T : \A i \in 1 .. N : Append(q, TableOrder[i]) \in T
      BY <1>1, AppendProperties
    <2>2. E \in [1 .. N -> [T -> T]] /\ <<>> \in T
      BY <2>1
    <2> HIDE DEF E
    <2>3. PICK f : f \in [0 .. N -> T] /\ f[0] = <<>> /\ \A i \in 1 .. N : f[i] = E[i][f[i - 1]]
      <3>1. E \in Steps(N, T)
        BY <2>2 DEF Steps
      <3> HIDE DEF T
      <3>2. PICK f : Iterates(f, N, T, <<>>, E)
        BY <1>1, <2>2, <3>1, Iterated
      <3> QED  BY <3>2 DEF Iterates
    <2>4. \A i \in 1 .. N :
            f[i] = IF Exists(TableOrder[i]) THEN Append(f[i - 1], TableOrder[i]) ELSE f[i - 1]
      <3> SUFFICES ASSUME NEW i \in 1 .. N
                   PROVE  f[i] = IF Exists(TableOrder[i]) THEN Append(f[i - 1], TableOrder[i])
                                 ELSE f[i - 1]
        OBVIOUS
      <3>1. i - 1 \in 0 .. N
        BY <1>1
      <3> HIDE DEF T
      <3>2. f[i - 1] \in T
        BY <2>3, <3>1
      <3>3. E[i][f[i - 1]] = IF Exists(TableOrder[i]) THEN Append(f[i - 1], TableOrder[i])
                             ELSE f[i - 1]
        BY <3>2 DEF E
      <3> QED  BY <2>3, <3>3
    <2> HIDE DEF T
    <2>5. \A i \in 0 .. N : f[i] = Step(f)[i]
      <3>1. \A i \in 0 .. N : i = 0 \/ i \in 1 .. N
        BY <1>1
      <3> QED  BY <2>3, <2>4, <3>1
    <2>6. f = [i \in 0 .. N |-> f[i]]
      BY <2>3
    <2> QED  BY <2>3, <2>5, <2>6
  <1>6. names = Step(names)
    BY <1>5
  <1> HIDE DEF names
  <1>7. /\ names[0] = <<>>
        /\ \A i \in 1 .. N : names[i] =
             IF Exists(TableOrder[i]) THEN Append(names[i - 1], TableOrder[i]) ELSE names[i - 1]
    <2>1. 0 \in 0 .. N /\ \A i \in 1 .. N : i \in 0 .. N /\ i # 0
      BY <1>1
    <2> QED  BY <1>6, <2>1
  <1> HIDE DEF E
  <1> DEFINE Good(n, h) == h \in T /\ ElementsOf(h) = Upto(n) /\ Distinct(h)
             G == {n \in Nat : n <= N => Good(n, names[n])}
  <1>8. Good(0, <<>>)
    <2>1. <<>> \in T /\ Len(<<>>) = 0 /\ 1 .. 0 = {}
      OBVIOUS
    <2>2. ElementsOf(<<>>) = {} /\ Upto(0) = {} /\ Distinct(<<>>)
      BY <2>1 DEF ElementsOf, Upto, Distinct
    <2> QED  BY <2>1, <2>2
  <1>9. ASSUME NEW n \in Nat, n + 1 <= N, NEW h, Good(n, h)
        PROVE  Good(n + 1, IF Exists(TableOrder[n + 1]) THEN Append(h, TableOrder[n + 1]) ELSE h)
    <2>1. PICK x : x = TableOrder[n + 1]
      OBVIOUS
    <2>2. n + 1 \in 1 .. N /\ x \in TableNames
      BY <1>1, <1>9, <2>1
    <2>3. \A i \in 1 .. n + 1 : i \in 1 .. n \/ i = n + 1
      OBVIOUS
    <2>4. n + 1 \in 1 .. n + 1 /\ \A i \in 1 .. n : i \in 1 .. n + 1 /\ i \in 1 .. N /\ i # n + 1
      BY <1>1, <1>9
    <2>5. CASE Exists(x)
      <3>1. Upto(n + 1) = Upto(n) \cup {x}
        BY <2>1, <2>3, <2>4, <2>5 DEF Upto
      <3>2. x \notin Upto(n)
        BY <1>2, <2>1, <2>2, <2>4 DEF Upto
      <3>3. h \in Seq(TableNames) /\ ElementsOf(h) = Upto(n) /\ Distinct(h)
        BY <1>9
      <3>4. Append(h, x) \in T /\ ElementsOf(Append(h, x)) = Upto(n + 1)
        <4>1. Append(h, x) \in Seq(TableNames) /\ ElementsOf(Append(h, x)) = ElementsOf(h) \cup {x}
          BY <2>2, <3>3, ElementsOfAppend
        <4> QED  BY <3>1, <3>3, <4>1
      <3>5. Distinct(Append(h, x))
        BY <2>2, <3>2, <3>3, ElementsOfAppend
      <3> HIDE DEF T
      <3>6. Good(n + 1, Append(h, x))
        BY <3>4, <3>5
      <3> QED  BY <2>1, <2>5, <3>6
    <2>6. CASE ~Exists(x)
      <3>1. Upto(n + 1) = Upto(n)
        BY <2>1, <2>3, <2>4, <2>6 DEF Upto
      <3> HIDE DEF T
      <3> QED  BY <1>9, <2>1, <2>6, <3>1
    <2> QED  BY <2>5, <2>6
  <1> HIDE DEF Good
  <1>10. 0 \in G
    BY <1>7, <1>8
  <1>11. ASSUME NEW n \in Nat, n \in G PROVE n + 1 \in G
    <2>1. ASSUME n + 1 <= N PROVE Good(n + 1, names[n + 1])
      <3>1. Good(n, names[n]) /\ n + 1 \in 1 .. N /\ (n + 1) - 1 = n
        BY <1>1, <1>11, <2>1
      <3>2. Good(n + 1, IF Exists(TableOrder[n + 1]) THEN Append(names[n], TableOrder[n + 1])
                        ELSE names[n])
        BY <1>9, <2>1, <3>1
      <3> QED  BY <1>7, <3>1, <3>2
    <2> QED  BY <2>1
  <1>12. Nat \subseteq G
    <2> HIDE DEF G
    <2> QED  BY <1>10, <1>11, NatSetInduction
  <1>13. Good(N, names[N])
    BY <1>1, <1>12
  <1> QED  BY <1>3, <1>4, <1>13 DEF Good
-------------------------------------------------------------------------------
(* The other sessions *)

\* Sequence p is q with x at its end.
IsExtended(q, x, p) ==
    /\ Len(q) \in Nat /\ IsSequence(p) /\ Len(p) = Len(q) + 1 /\ p[Len(q) + 1] = x
    /\ \A i \in 1 .. Len(q) : p[i] = q[i]

LEMMA SequenceGrows ==
    ASSUME NEW q, IsSequence(q), NEW x, NEW p, p = Append(q, x)
    PROVE  IsExtended(q, x, p)
  <1> DEFINE T == {q[i] : i \in 1 .. Len(q)}
  <1>1. q \in Seq(T)
    BY DEF IsSequence
  <1>2. T \subseteq T \cup {x} /\ x \in T \cup {x}
    OBVIOUS
  <1> HIDE DEF T
  <1>3. q \in Seq(T \cup {x})
    BY <1>1, <1>2, SeqMonotonic
  <1>4. /\ p \in Seq(T \cup {x}) /\ Len(p) = Len(q) + 1 /\ p[Len(q) + 1] = x
        /\ \A i \in 1 .. Len(q) : p[i] = q[i]
    BY <1>2, <1>3, AppendProperties
  <1>5. IsSequence(p)
    BY <1>4, OwnElements DEF IsSequence
  <1> QED  BY <1>1, <1>4, <1>5 DEF IsExtended

LEMMA CommitsKeeps ==
    ASSUME CaptureInv, NEW new, NEW defines \in BOOLEAN, Commits(new, defines),
           IsDatabase(new), defines \/ SchemasOf(new) = SchemasOf(db)
    PROVE  CaptureInv'
  <1>1. /\ db' = new /\ log' = Append(log, new) /\ ddl' = (ddl \/ defines)
        /\ engine' = engine /\ phase' = phase /\ todo' = todo /\ columns' = columns
        /\ key' = key /\ out' = out /\ outcome' = outcome
    BY DEF Commits, capturing
  <1>2. PICK p : p = log'
    OBVIOUS
  <1>3. /\ Len(log) \in Nat /\ Len(log) > 0 /\ IsSequence(p)
        /\ Len(p) = Len(log) + 1 /\ p[Len(log) + 1] = new
        /\ \A i \in 1 .. Len(log) : p[i] = log[i]
    <2>1. p = Append(log, new) /\ IsSequence(log) /\ log # <<>>
      BY <1>1, <1>2 DEF CaptureInv, StatesOK
    <2>2. IsExtended(log, new, p)
      BY <2>1, SequenceGrows
    <2>3. Len(log) > 0
      BY <2>1 DEF IsSequence
    <2> QED  BY <2>2, <2>3 DEF IsExtended
  <1>s. StatesOK'
    <2>1. p[1] \in Databases
      <3>1. 1 \in 1 .. Len(log)
        BY <1>3
      <3> QED  BY <1>3, <3>1 DEF CaptureInv, StatesOK
    <2>2. p # <<>> /\ Len(p) > 1
      BY <1>3
    <2> QED  BY <1>1, <1>2, <1>3, <2>1, <2>2 DEF StatesOK
  <1>4. QueriesOK'
    BY <1>1 DEF CaptureInv, QueriesOK, Todo
  <1>5. RowFitsSchema'
    BY <1>1 DEF CaptureInv, RowFitsSchema, FitsSchema, Taken
  <1>6. SteadyOK'
    <2> SUFFICES ASSUME ~ddl' PROVE Steady'
      BY DEF SteadyOK
    <2>1. Steady /\ SchemasOf(db') = SchemasOf(db)
      BY <1>1 DEF CaptureInv, SteadyOK
    <2>2. outcome' = "error" => Shadowed'
      <3>1. \A s : (\E t \in s : Shadows(t.schema)) <=> \E x \in SchemasOf(s) : Shadows(x)
        BY DEF SchemasOf
      <3>2. \A x : Shadows(x)' <=> Shadows(x)
        BY <1>1 DEF Shadows
      <3> QED  BY <1>1, <2>1, <3>1, <3>2 DEF Steady, Shadowed
    <2>3. Names(db') = Names(db)
      <3>1. \A s : Names(s) = {x.name : x \in SchemasOf(s)}
        BY DEF Names, SchemasOf
      <3> QED  BY <2>1, <3>1
    <2>4. phase' # "list" => Names(Taken') \cup Todo' = Names(db')
      BY <1>1, <2>1, <2>3 DEF Steady, Taken, Todo
    <2>5. FoundOK'
      BY <1>1, <2>1 DEF Steady, FoundOK
    <2>6. PICK at \in Moments(Len(log)) : TakenAt(at)
      BY <2>1 DEF Steady, ForwardOK
    <2>7. (at \in Moments(Len(log)))'
      <3>1. at \in [1 .. Len(out) -> 1 .. Len(log)]
        BY <2>6 DEF Moments
      <3>2. at \in [1 .. Len(out) -> 1 .. Len(log) + 1]
        BY <1>3, <3>1
      <3>3. \A i, j \in 1 .. Len(out) : i <= j => at[i] <= at[j]
        BY <2>6 DEF Moments
      <3> QED  BY <1>1, <1>2, <1>3, <3>2, <3>3 DEF Moments
    <2>8. TakenAt(at)'
      <3> SUFFICES ASSUME NEW i \in 1 .. Len(out)
                   PROVE  out[i] \in Captured(log'[at[i]]) \/ Shadows(out[i].schema)
        BY <1>1 DEF TakenAt, Shadows
      <3>1. /\ at[i] \in 1 .. Len(log)
            /\ out[i] \in Captured(log[at[i]]) \/ Shadows(out[i].schema)
        BY <2>6 DEF Moments, TakenAt
      <3> QED  BY <1>2, <1>3, <3>1
    <2>9. ForwardOK'
      BY <2>7, <2>8 DEF ForwardOK
    <2>s. SchemasOf(Taken') \subseteq SchemasOf(db')
      BY <1>1, <2>1 DEF Steady, Taken
    <2> QED  BY <2>2, <2>4, <2>5, <2>9, <2>s DEF Steady
  <1> QED  BY <1>s, <1>4, <1>5, <1>6 DEF CaptureInv

\* One table is replaced by another one of its name.
LEMMA BecomesKeeps ==
    ASSUME CaptureInv, NEW t \in db, NEW u, NEW defines \in BOOLEAN, Becomes(t, u, defines),
           IsTable(u), u.schema.name = t.schema.name, defines \/ u.schema = t.schema
    PROVE  CaptureInv'
  <1>1. PICK new : new = (db \ {t}) \cup {u}
    OBVIOUS
  <1>2. IsDatabase(db)
    BY DEF CaptureInv, StatesOK
  <1>3. IsDatabase(new)
    <2>1. \A x \in new : IsTable(x)
      BY <1>1, <1>2 DEF IsDatabase
    <2>2. \A x, y \in new : x.schema.name = y.schema.name => x = y
      BY <1>1, <1>2 DEF IsDatabase
    <2>3. Names(new) \subseteq Names(db)
      BY <1>1 DEF Names
    <2> QED  BY <1>2, <2>1, <2>2, <2>3 DEF IsDatabase
  <1>4. defines \/ SchemasOf(new) = SchemasOf(db)
    BY <1>1 DEF SchemasOf
  <1>5. Commits(new, defines)
    BY <1>1 DEF Becomes
  <1> QED  BY <1>3, <1>4, <1>5, CommitsKeeps

LEMMA TablesAreTables ==
    ASSUME CaptureInv, NEW t \in db
    PROVE  IsTable(t)
  BY DEF CaptureInv, StatesOK, IsDatabase

LEMMA OthersStep ==
    ASSUME CaptureInv, Others
    PROVE  CaptureInv'
  <1>1. CASE Insert
    <2>1. PICK t \in db : \E d \in Rows : DOMAIN d = ColumnNames(t.schema.columns)
                                          /\ Becomes(t, WithRow(t, d), FALSE)
      BY <1>1 DEF Insert
    <2>2. PICK d \in Rows : DOMAIN d = ColumnNames(t.schema.columns)
                            /\ Becomes(t, WithRow(t, d), FALSE)
      BY <2>1
    <2>3. IsRow(t.schema, d) /\ IsTable(t) /\ Admits(WithRow(t, d))
      BY <2>2, CaptureAssumptions, TablesAreTables DEF IsRow, Becomes
    <2>4. IsTable(WithRow(t, d)) /\ WithRow(t, d).schema = t.schema
      BY <2>3, InsertLeavesTable
    <2> QED  BY <2>2, <2>4, BecomesKeeps
  <1>2. CASE Delete
    <2>1. PICK t \in db : \E i \in 1 .. Len(t.rows) : Becomes(t, WithoutRow(t, i), FALSE)
      BY <1>2 DEF Delete
    <2>2. PICK i \in 1 .. Len(t.rows) : Becomes(t, WithoutRow(t, i), FALSE)
      BY <2>1
    <2>3. IsTable(WithoutRow(t, i)) /\ WithoutRow(t, i).schema = t.schema
      BY TablesAreTables, DeleteLeavesTable
    <2> QED  BY <2>2, <2>3, BecomesKeeps
  <1>3. CASE Move
    <2>1. PICK t \in db : \E u \in db : \E i \in 1 .. Len(t.rows) :
            /\ t # u /\ DOMAIN t.rows[i] = ColumnNames(u.schema.columns)
            /\ Admits(WithRow(u, t.rows[i]))
            /\ Commits((db \ {t, u}) \cup {WithoutRow(t, i), WithRow(u, t.rows[i])}, FALSE)
      BY <1>3 DEF Move
    <2>2. PICK u \in db : \E i \in 1 .. Len(t.rows) :
            /\ t # u /\ DOMAIN t.rows[i] = ColumnNames(u.schema.columns)
            /\ Admits(WithRow(u, t.rows[i]))
            /\ Commits((db \ {t, u}) \cup {WithoutRow(t, i), WithRow(u, t.rows[i])}, FALSE)
      BY <2>1
    <2>3. PICK i \in 1 .. Len(t.rows) :
            /\ t # u /\ DOMAIN t.rows[i] = ColumnNames(u.schema.columns)
            /\ Admits(WithRow(u, t.rows[i]))
            /\ Commits((db \ {t, u}) \cup {WithoutRow(t, i), WithRow(u, t.rows[i])}, FALSE)
      BY <2>2
    <2>4. IsTable(t) /\ IsTable(u) /\ IsDatabase(db)
      BY TablesAreTables DEF CaptureInv, StatesOK
    <2>5. PICK d : d = t.rows[i]
      OBVIOUS
    <2>6. IsRow(u.schema, d)
      <3>1. IsRow(t.schema, d)
        BY <2>4, <2>5, TableParts
      <3>2. ColumnNames(t.schema.columns) = ColumnNames(u.schema.columns)
        BY <2>3, <2>5, <3>1, RowDomain
      <3> QED  BY <3>1, <3>2 DEF IsRow
    <2>7. PICK a : a = WithoutRow(t, i)
      OBVIOUS
    <2>8. PICK b : b = WithRow(u, d)
      OBVIOUS
    <2>9. IsTable(a) /\ a.schema = t.schema
      BY <2>4, <2>7, DeleteLeavesTable
    <2>10. IsTable(b) /\ b.schema = u.schema
      BY <2>3, <2>4, <2>5, <2>6, <2>8, InsertLeavesTable
    <2>11. PICK new : new = (db \ {t, u}) \cup {a, b}
      OBVIOUS
    <2>12. SchemasOf(new) = SchemasOf(db)
      BY <2>9, <2>10, <2>11 DEF SchemasOf
    <2>13. IsDatabase(new)
      <3>1. \A x \in new : IsTable(x)
        BY <2>4, <2>9, <2>10, <2>11 DEF IsDatabase
      <3>2. t.schema.name # u.schema.name
        BY <2>3, <2>4 DEF IsDatabase
      <3>3. \A x, y \in db : x.schema.name = y.schema.name => x = y
        BY <2>4 DEF IsDatabase
      <3>4. \A x, y \in new : x.schema.name = y.schema.name => x = y
        BY <2>9, <2>10, <2>11, <3>2, <3>3
      <3>5. Names(new) \subseteq Names(db)
        BY <2>9, <2>10, <2>11 DEF Names
      <3> QED  BY <2>4, <3>1, <3>4, <3>5 DEF IsDatabase
    <2>14. Commits(new, FALSE)
      BY <2>3, <2>5, <2>7, <2>8, <2>11
    <2> QED  BY <2>12, <2>13, <2>14, CommitsKeeps
  <1>4. CASE AddColumn
    <2>1. PICK t \in db : IsNew(t, "extra") /\ Becomes(t, WithColumn(t, Extra), TRUE)
      BY <1>4 DEF AddColumn
    <2>2. PICK u : u = WithColumn(t, Extra)
      OBVIOUS
    <2>3. Becomes(t, u, TRUE) /\ Admits(u) /\ "extra" \notin ColumnNames(t.schema.columns)
      BY <2>1, <2>2 DEF Becomes, IsNew
    <2>4. IsTable(u) /\ u.schema.name = t.schema.name
      BY <2>2, <2>3, TablesAreTables, AddColumnLeavesTable DEF WithColumn, Extra
    <2> QED  BY <2>3, <2>4, BecomesKeeps
  <1>a. CASE AddIdentity
    <2>1. PICK t \in db : /\ IsNew(t, "extra") /\ t.schema.primary_key = <<>>
                          /\ Becomes(t, WithIdentity(t), TRUE)
      BY <1>a DEF AddIdentity
    <2>2. PICK w : w = WithValues(t, Extra, Serial)
      OBVIOUS
    <2>3. IsTable(w) /\ w.schema.name = t.schema.name
      <3>1. Admits(w)
        <4>1. w.schema.primary_key = t.schema.primary_key
          <5>1. w.schema = [t.schema EXCEPT !.columns = Append(@, Extra)]
            BY <2>2 DEF WithValues
          <5>2. "primary_key" \in DOMAIN t.schema
            <6>1. IsSchema(t.schema)
              BY TablesAreTables, TableParts
            <6>2. PICK s : s = t.schema
              OBVIOUS
            <6> QED  BY <6>1, <6>2 DEF IsSchema
          <5> QED  BY <5>1, <5>2
        <4> QED  BY <2>1, <4>1 DEF Admits
      <3>2. "extra" \notin ColumnNames(t.schema.columns)
        BY <2>1 DEF IsNew
      <3> QED  BY <2>2, <3>1, <3>2, TablesAreTables, AddColumnLeavesTable DEF Extra
    <2>4. PICK u : u = WithIdentity(t)
      OBVIOUS
    <2>5. Becomes(t, u, TRUE) /\ Admits(u)
      BY <2>1, <2>4 DEF Becomes
    <2>6. PICK k : k = <<"extra">>
      OBVIOUS
    <2>7. k \in Seq(KeyColumns(k)) /\ KeyColumns(k) \subseteq {"extra"}
      <3>1. Len(k) = 1 /\ k[1] = "extra" /\ 1 .. 1 = {1}
        BY <2>6
      <3>2. KeyColumns(k) = {"extra"}
        BY <3>1 DEF KeyColumns
      <3> QED  BY <2>6, <3>2
    <2>8. "extra" \in ColumnNames(w.schema.columns)
      BY <2>2, TablesAreTables, HasNewColumn DEF Extra
    <2>9. u = [w EXCEPT !.schema.primary_key = k]
      BY <2>2, <2>4, <2>6 DEF WithIdentity
    <2>10. IsTable(u) /\ u.schema.name = t.schema.name
      BY <2>3, <2>5, <2>7, <2>8, <2>9, ChangeKeyLeavesTable
    <2> QED  BY <2>5, <2>10, BecomesKeeps
  <1>5. CASE RenameColumn
    <2>1. PICK t \in db : \E c, new : Becomes(t, Renamed(t, c, new), TRUE)
      BY <1>5 DEF RenameColumn
    <2>2. PICK c, new : Becomes(t, Renamed(t, c, new), TRUE)
      BY <2>1
    <2>3. PICK u : u = Renamed(t, c, new)
      OBVIOUS
    <2>4. Becomes(t, u, TRUE) /\ Admits(u)
      BY <2>2, <2>3 DEF Becomes
    <2>5. IsTable(u) /\ u.schema.name = t.schema.name
      BY <2>3, <2>4, TablesAreTables, RenameLeavesTable
    <2> QED  BY <2>4, <2>5, BecomesKeeps
  <1>6. CASE ChangeKey
    <2>1. PICK t \in db : \E k \in Keys :
            /\ KeyColumns(k) \subseteq ColumnNames(t.schema.columns)
            /\ Becomes(t, [t EXCEPT !.schema.primary_key = k], TRUE)
      BY <1>6 DEF ChangeKey
    <2>2. PICK k \in Keys :
            /\ KeyColumns(k) \subseteq ColumnNames(t.schema.columns)
            /\ Becomes(t, [t EXCEPT !.schema.primary_key = k], TRUE)
      BY <2>1
    <2>3. PICK u : u = [t EXCEPT !.schema.primary_key = k]
      OBVIOUS
    <2>4. Becomes(t, u, TRUE) /\ Admits(u)
      BY <2>2, <2>3 DEF Becomes
    <2>5. IsTable(u) /\ u.schema.name = t.schema.name
      BY <2>2, <2>3, <2>4, TablesAreTables, ChangeKeyLeavesTable, CaptureAssumptions
    <2> QED  BY <2>4, <2>5, BecomesKeeps
  <1>7. CASE DropTable
    <2>1. PICK t \in db : Commits(db \ {t}, TRUE)
      BY <1>7 DEF DropTable
    <2>2. PICK new : new = db \ {t}
      OBVIOUS
    <2>3. IsDatabase(new)
      BY <2>2 DEF CaptureInv, StatesOK, IsDatabase, Names
    <2>4. Commits(new, TRUE)
      BY <2>1, <2>2
    <2> QED  BY <2>3, <2>4, CommitsKeeps
  <1>8. CASE CreateTable
    <2>1. PICK t \in log[1] : /\ t.schema.name \notin Names(db)
                              /\ Commits(db \cup {[t EXCEPT !.rows = <<>>]}, TRUE)
      BY <1>8 DEF CreateTable
    <2>2. PICK u : u = [t EXCEPT !.rows = <<>>]
      OBVIOUS
    <2>3. PICK new : new = db \cup {u}
      OBVIOUS
    <2>4. IsDatabase(log[1]) /\ IsDatabase(db)
      BY CaptureAssumptions DEF CaptureInv, StatesOK
    <2>5. IsTable(u) /\ u.schema = t.schema
      <3>1. IsTable(t)
        BY <2>4 DEF IsDatabase
      <3> QED  BY <2>2, <3>1, CreatedIsTable
    <2>6. IsDatabase(new)
      <3>1. \A x \in new : IsTable(x)
        BY <2>3, <2>4, <2>5 DEF IsDatabase
      <3>2. \A x \in db : x.schema.name # u.schema.name
        BY <2>1, <2>5 DEF Names
      <3>3. \A x, y \in new : x.schema.name = y.schema.name => x = y
        BY <2>3, <2>4, <3>2 DEF IsDatabase
      <3>4. Names(new) \subseteq Names(db) \cup Names(log[1])
        BY <2>3, <2>5 DEF Names
      <3> QED  BY <2>4, <3>1, <3>3, <3>4 DEF IsDatabase
    <2>7. Commits(new, TRUE)
      BY <2>1, <2>2, <2>3
    <2> QED  BY <2>6, <2>7, CommitsKeeps
  <1> QED  BY <1>1, <1>2, <1>3, <1>4, <1>a, <1>5, <1>6, <1>7, <1>8 DEF Others
-------------------------------------------------------------------------------
(* The queries *)

LEMMA StatesKept ==
    ASSUME CaptureInv, UNCHANGED <<engine, db, log, ddl>>
    PROVE  StatesOK'
  BY DEF CaptureInv, StatesOK

LEMMA ForwardKept ==
    ASSUME ForwardOK, UNCHANGED <<engine, log, out>>
    PROVE  ForwardOK'
  BY DEF ForwardOK, Moments, TakenAt, Shadows

LEMMA RowsKept ==
    ASSUME CaptureInv, UNCHANGED <<engine, out>>
    PROVE  RowFitsSchema'
  BY DEF CaptureInv, RowFitsSchema, FitsSchema, Taken

\* The current table is one of those still to read.
LEMMA CurrentTable ==
    ASSUME CaptureInv, todo # <<>>
    PROVE  todo[1] \in Todo
  <1>1. todo \in Seq(TableNames)
    BY DEF CaptureInv, QueriesOK
  <1>2. 1 \in 1 .. Len(todo)
    BY <1>1
  <1> QED  BY <1>2 DEF Todo

\* While no table is defined anew, it is a table with the definition found.
LEMMA CurrentExists ==
    ASSUME CaptureInv, Steady, phase # "list", todo # <<>>
    PROVE  /\ Exists(todo[1]) /\ Named(db, todo[1]) \in db
           /\ Named(db, todo[1]).schema.name = todo[1]
           /\ IsTable(Named(db, todo[1]))
  <1>1. todo[1] \in Names(db)
    BY CurrentTable DEF Steady
  <1> QED  BY <1>1, NamedIsThere, TablesAreTables DEF Exists

LEMMA CurrentIsAsFound ==
    ASSUME CaptureInv, Steady, phase \in {"key", "rows"}
    PROVE  /\ Named(db, todo[1]).schema.columns = columns
           /\ phase = "rows" => Named(db, todo[1]).schema.primary_key = key
  <1>1. PICK s \in SchemasOf(db) : /\ s.name = todo[1] /\ s.columns = columns
                                   /\ phase = "rows" => s.primary_key = key
    BY DEF Steady, FoundOK
  <1>2. PICK t \in db : s = t.schema
    BY DEF SchemasOf
  <1>3. IsDatabase(db)
    BY DEF CaptureInv, StatesOK
  <1>4. Named(db, todo[1]) = t
    BY <1>1, <1>2, <1>3, NamedIsTheOne
  <1> QED  BY <1>1, <1>2, <1>4

LEMMA ListTablesStep ==
    ASSUME CaptureInv, ListTables
    PROVE  CaptureInv'
  <1>1. /\ phase = "list" /\ todo' = Listed /\ phase' = "columns"
        /\ UNCHANGED <<engine, db, log, ddl, columns, key, out, outcome>>
    BY DEF ListTables
  <1>2. PICK l : l = todo'
    OBVIOUS
  <1>3. /\ l \in Seq(TableNames) /\ ElementsOf(l) = Names(db) /\ Distinct(l)
    BY <1>1, <1>2, ListsAll DEF CaptureInv, StatesOK
  <1>4. out = <<>> /\ outcome = "none"
    BY <1>1 DEF CaptureInv, QueriesOK
  <1>5. Len(out) = 0 /\ 1 .. 0 = {}
    BY <1>4
  <1>6. QueriesOK'
    BY <1>1, <1>2, <1>3, <1>4, <1>5 DEF CaptureInv, QueriesOK
  <1>7. SteadyOK'
    <2> SUFFICES ASSUME ~ddl' PROVE Steady'
      BY DEF SteadyOK
    <2>1. Steady
      BY <1>1 DEF CaptureInv, SteadyOK
    <2>2. Taken' = {}
      BY <1>1, <1>5 DEF Taken
    <2>3. Names(Taken') \cup Todo' = Names(db)'
      <3>1. Todo' = ElementsOf(l)
        BY <1>2 DEF Todo, ElementsOf
      <3>2. Names(Taken') = {}
        BY <2>2 DEF Names
      <3> QED  BY <1>1, <1>3, <3>1, <3>2
    <2>4. FoundOK'
      BY <1>1 DEF FoundOK
    <2>5. ForwardOK'
      BY <1>1, <2>1, ForwardKept DEF Steady
    <2>6. SchemasOf(Taken') \subseteq SchemasOf(db')
      BY <2>2 DEF SchemasOf
    <2> QED  BY <1>1, <1>4, <2>3, <2>4, <2>5, <2>6 DEF Steady
  <1> QED  BY <1>1, <1>6, <1>7, StatesKept, RowsKept DEF CaptureInv

LEMMA ReadColumnsStep ==
    ASSUME CaptureInv, ReadColumns
    PROVE  CaptureInv'
  <1>1. /\ phase = "columns" /\ todo # <<>> /\ phase' = "key"
        /\ columns' = IF Exists(todo[1]) THEN Named(db, todo[1]).schema.columns ELSE <<>>
        /\ UNCHANGED <<engine, db, log, ddl, todo, key, out, outcome>>
    BY DEF ReadColumns
  <1>2. QueriesOK'
    BY <1>1 DEF CaptureInv, QueriesOK, Todo
  <1>3. SteadyOK'
    <2> SUFFICES ASSUME ~ddl' PROVE Steady'
      BY DEF SteadyOK
    <2>1. Steady
      BY <1>1 DEF CaptureInv, SteadyOK
    <2>2. PICK s : s = Named(db, todo[1]).schema
      OBVIOUS
    <2>3. s \in SchemasOf(db) /\ s.name = todo[1] /\ Exists(todo[1])
      BY <1>1, <2>1, <2>2, CurrentExists DEF SchemasOf
    <2>4. s.columns = columns'
      BY <1>1, <2>2, <2>3
    <2>5. FoundOK'
      BY <1>1, <2>3, <2>4 DEF FoundOK, SchemasOf
    <2>6. ForwardOK'
      BY <1>1, <2>1, ForwardKept DEF Steady
    <2> QED  BY <1>1, <2>1, <2>5, <2>6 DEF Steady, Taken, Todo, Shadowed, Shadows
  <1> QED  BY <1>1, <1>2, <1>3, StatesKept, RowsKept DEF CaptureInv

LEMMA ReadKeyStep ==
    ASSUME CaptureInv, ReadKey
    PROVE  CaptureInv'
  <1>1. /\ phase = "key" /\ phase' = "rows"
        /\ key' = IF Exists(todo[1]) THEN KeyFound(Named(db, todo[1])) ELSE <<>>
        /\ UNCHANGED <<engine, db, log, ddl, todo, columns, out, outcome>>
    BY DEF ReadKey
  <1>2. QueriesOK'
    BY <1>1 DEF CaptureInv, QueriesOK, Todo
  <1>3. SteadyOK'
    <2> SUFFICES ASSUME ~ddl' PROVE Steady'
      BY DEF SteadyOK
    <2>1. Steady /\ todo # <<>>
      BY <1>1 DEF CaptureInv, SteadyOK, QueriesOK
    <2>2. PICK s : s = Named(db, todo[1]).schema
      OBVIOUS
    <2>3. s \in SchemasOf(db) /\ s.name = todo[1] /\ Exists(todo[1])
      BY <1>1, <2>1, <2>2, CurrentExists DEF SchemasOf
    <2>4. s.columns = columns'
      BY <1>1, <2>1, <2>2, CurrentIsAsFound
    <2>5. s.primary_key = key'
      BY <1>1, <2>2, <2>3 DEF KeyFound
    <2>6. FoundOK'
      BY <1>1, <2>3, <2>4, <2>5 DEF FoundOK, SchemasOf
    <2>7. ForwardOK'
      BY <1>1, <2>1, ForwardKept DEF Steady
    <2> QED  BY <1>1, <2>1, <2>6, <2>7 DEF Steady, Taken, Todo, Shadowed, Shadows
  <1> QED  BY <1>1, <1>2, <1>3, StatesKept, RowsKept DEF CaptureInv

\* A query fails only when a table has been defined anew, or for a column t.
LEMMA FailStep ==
    ASSUME CaptureInv, ReadKeyFails \/ ReadRowsFails
    PROVE  CaptureInv'
  <1>1. /\ phase \in {"key", "rows"} /\ phase' = "done" /\ outcome' = "error"
        /\ UNCHANGED <<engine, db, log, ddl, todo, columns, key, out>>
    BY DEF ReadKeyFails, ReadRowsFails, Fail
  <1>2. QueriesOK'
    BY <1>1 DEF CaptureInv, QueriesOK, Todo
  <1>3. ASSUME ~ddl PROVE Shadowed
    <2>1. Steady /\ todo # <<>>
      BY <1>1, <1>3 DEF CaptureInv, SteadyOK, QueriesOK
    <2>2. PICK t : t = Named(db, todo[1])
      OBVIOUS
    <2>3. Exists(todo[1]) /\ t \in db /\ IsTable(t)
      BY <1>1, <2>1, <2>2, CurrentExists
    <2>4. ReadRowsFails /\ phase = "rows" /\ ~Answers
      BY <2>3 DEF ReadKeyFails, ReadRowsFails
    <2>5. t.schema.columns = columns /\ t.schema.primary_key = key
      BY <2>1, <2>2, <2>4, CurrentIsAsFound
    <2>6. IsSchema(t.schema)
      BY <2>3, TableParts
    <2>7. KeyColumns(key) \subseteq ColumnNames(columns)
      BY <2>5, <2>6 DEF IsSchema
    <2>8. engine = "mysql" => columns # <<>>
      BY <2>5, <2>6 DEF IsSchema, CaptureInv, QueriesOK
    <2>9. Mentioned \subseteq ColumnNames(t.schema.columns)
      BY <2>5, <2>7 DEF Mentioned
    <2>10. Shadows(t.schema)
      BY <2>2, <2>3, <2>4, <2>8, <2>9 DEF Answers
    <2> QED  BY <2>3, <2>10 DEF Shadowed
  <1>4. SteadyOK'
    <2> SUFFICES ASSUME ~ddl' PROVE Steady'
      BY DEF SteadyOK
    <2>1. Steady /\ Shadowed
      BY <1>1, <1>3 DEF CaptureInv, SteadyOK
    <2>2. Shadowed'
      BY <1>1, <2>1 DEF Shadowed, Shadows
    <2>3. FoundOK'
      BY <1>1 DEF FoundOK
    <2>4. ForwardOK'
      BY <1>1, <2>1, ForwardKept DEF Steady
    <2>5. /\ phase' # "list" => Names(Taken') \cup Todo' = Names(db)'
          /\ SchemasOf(Taken') \subseteq SchemasOf(db')
      BY <1>1, <2>1 DEF Steady, Taken, Todo
    <2> QED  BY <1>1, <2>2, <2>3, <2>4, <2>5 DEF Steady
  <1> QED  BY <1>1, <1>2, <1>4, StatesKept, RowsKept DEF CaptureInv

LEMMA ReturnStep ==
    ASSUME CaptureInv, Return
    PROVE  CaptureInv'
  <1>1. /\ phase = "columns" /\ todo = <<>> /\ phase' = "done" /\ outcome' = "ok"
        /\ UNCHANGED <<engine, db, log, ddl, todo, columns, key, out>>
    BY DEF Return
  <1>2. QueriesOK'
    BY <1>1 DEF CaptureInv, QueriesOK, Todo
  <1>3. SteadyOK'
    <2> SUFFICES ASSUME ~ddl' PROVE Steady'
      BY DEF SteadyOK
    <2>1. Steady
      BY <1>1 DEF CaptureInv, SteadyOK
    <2>2. FoundOK'
      BY <1>1 DEF FoundOK
    <2>3. ForwardOK'
      BY <1>1, <2>1, ForwardKept DEF Steady
    <2> QED  BY <1>1, <2>1, <2>2, <2>3 DEF Steady, Taken, Todo
  <1> QED  BY <1>1, <1>2, <1>3, StatesKept, RowsKept DEF CaptureInv

\* The rest of a sequence of distinct elements.
LEMMA WithoutFirst ==
    ASSUME NEW S, NEW q \in Seq(S), q # <<>>, Distinct(q), NEW p, p = Tail(q)
    PROVE  /\ p \in Seq(S) /\ Distinct(p)
           /\ ElementsOf(q) = ElementsOf(p) \cup {q[1]} /\ q[1] \notin ElementsOf(p)
  <1>1. PICK n : n = Len(q)
    OBVIOUS
  <1>2. n \in Nat /\ n > 0
    BY <1>1
  <1>3. p \in Seq(S) /\ Len(p) = n - 1 /\ \A i \in 1 .. n - 1 : p[i] = q[i + 1]
    BY <1>1, HeadTailProperties
  <1>4. \A i, j \in 1 .. n - 1 : p[i] = p[j] => i = j
    <2> SUFFICES ASSUME NEW i \in 1 .. n - 1, NEW j \in 1 .. n - 1, p[i] = p[j] PROVE i = j
      OBVIOUS
    <2>1. i + 1 \in 1 .. n /\ j + 1 \in 1 .. n
      BY <1>2
    <2>2. i + 1 = j + 1
      BY <1>1, <1>3, <2>1 DEF Distinct
    <2> QED  BY <1>2, <2>2
  <1>5. ElementsOf(p) = {p[i] : i \in 1 .. n - 1} /\ ElementsOf(q) = {q[i] : i \in 1 .. n}
    BY <1>1, <1>3 DEF ElementsOf
  <1>6. \A i \in 1 .. n : i = 1 \/ (i - 1 \in 1 .. n - 1 /\ (i - 1) + 1 = i)
    BY <1>2
  <1>7. 1 \in 1 .. n /\ \A i \in 1 .. n - 1 : i + 1 \in 1 .. n /\ i + 1 # 1
    BY <1>2
  <1>8. ElementsOf(q) = ElementsOf(p) \cup {q[1]}
    BY <1>3, <1>5, <1>6, <1>7
  <1>9. q[1] \notin ElementsOf(p)
    BY <1>1, <1>3, <1>5, <1>7 DEF Distinct
  <1> QED  BY <1>3, <1>4, <1>8, <1>9 DEF Distinct

\* The snapshot of the current table, as far as its data goes.
Snapshot(t) ==
    [schema |-> Schema,
     rows   |-> [i \in 1 .. Len(t.rows) |-> MakeRecord(Schema, DataOf(t.rows[i]))]]

LEMMA SnapshotFits ==
    ASSUME CaptureInv, Answers, NEW t, t = Named(db, todo[1]), NEW r, r = Snapshot(t)
    PROVE  /\ r.schema = Schema
           /\ \A i \in 1 .. Len(r.rows) : FitsSchema(r.rows[i], r.schema)
  <1>1. IsTable(t)
    BY NamedIsThere, TablesAreTables DEF Answers, Exists
  <1>2. Len(t.rows) \in Nat
    BY <1>1, TableParts
  <1>3. r.schema = Schema /\ Len(r.rows) = Len(t.rows)
    BY <1>2 DEF Snapshot
  <1>4. ASSUME NEW i \in 1 .. Len(t.rows)
        PROVE  FitsSchema(r.rows[i], r.schema)
    <2>1. PICK d : d = t.rows[i]
      OBVIOUS
    <2>2. r.rows[i].data = DataOf(d)
      BY <2>1 DEF Snapshot, MakeRecord
    <2>3. DOMAIN d = ColumnNames(t.schema.columns)
      BY <1>1, <2>1, TableParts, RowDomain
    <2>4. KeyColumns(key) \subseteq ColumnNames(t.schema.columns)
      BY DEF Answers, Mentioned
    <2>5. r.schema.primary_key = key /\ r.schema.columns = columns
      BY <1>3 DEF Schema
    <2>6. engine = "postgres" => DataOf(d) = d \/ DOMAIN DataOf(d) = {Itself}
      BY DEF DataOf, Scalar
    <2>7. engine # "postgres" => DOMAIN DataOf(d) = ColumnNames(columns)
      BY DEF DataOf
    <2> QED  BY <2>2, <2>3, <2>4, <2>5, <2>6, <2>7 DEF FitsSchema
  <1> QED  BY <1>3, <1>4

\* What was found of it is its definition: the snapshot is the table.
LEMMA SnapshotIsTable ==
    ASSUME CaptureInv, Steady, phase = "rows", NEW t, t = Named(db, todo[1])
    PROVE  /\ Snapshot(t) \in Captured(db) \/ Shadows(Snapshot(t).schema)
           /\ Snapshot(t).schema \in SchemasOf(db)
  <1>1. todo # <<>>
    BY DEF CaptureInv, QueriesOK
  <1>2. t \in db /\ t.schema.name = todo[1] /\ IsTable(t)
    BY <1>1, CurrentExists
  <1>3. t.schema.columns = columns /\ t.schema.primary_key = key
    BY CurrentIsAsFound
  <1>4. t.schema = Schema
    <2>1. PICK s : s = t.schema
      OBVIOUS
    <2>2. IsSchema(s)
      BY <1>2, <2>1, TableParts
    <2>3. s = [name |-> s.name, columns |-> s.columns, primary_key |-> s.primary_key]
      BY <2>2 DEF IsSchema
    <2> QED  BY <1>2, <1>3, <2>1, <2>3 DEF Schema
  <1>s. Snapshot(t).schema = t.schema /\ t.schema \in SchemasOf(db)
    BY <1>2, <1>4 DEF Snapshot, SchemasOf
  <1>5. CASE Shadows(t.schema)
    BY <1>s, <1>5
  <1>6. CASE ~Shadows(t.schema)
    <2>1. \A i \in 1 .. Len(t.rows) : DataOf(t.rows[i]) = t.rows[i]
      <3> SUFFICES ASSUME NEW i \in 1 .. Len(t.rows), NEW d, d = t.rows[i] PROVE DataOf(d) = d
        OBVIOUS
      <3>1. IsRow(t.schema, d)
        BY <1>2, TableParts
      <3>2. d = [c \in ColumnNames(columns) |-> d[c]]
        BY <1>3, <3>1 DEF IsRow
      <3>3. engine = "postgres" => "t" \notin DOMAIN d
        BY <1>6, <3>1, RowDomain DEF Shadows
      <3> QED  BY <3>2, <3>3 DEF DataOf
    <2>2. Snapshot(t) = CaptureTable(t)
      BY <1>4, <2>1 DEF Snapshot, CaptureTable
    <2> QED  BY <1>2, <1>s, <2>2 DEF Captured
  <1> QED  BY <1>5, <1>6

LEMMA ReadRowsStep ==
    ASSUME CaptureInv, ReadRows
    PROVE  CaptureInv'
  <1>1. PICK t : t = Named(db, todo[1])
    OBVIOUS
  <1>2. PICK r : r = Snapshot(t)
    OBVIOUS
  <1>3. /\ phase = "rows" /\ Answers /\ phase' = "columns"
        /\ out' = Append(out, r) /\ todo' = Tail(todo)
        /\ UNCHANGED <<engine, db, log, ddl, outcome>>
    BY <1>1, <1>2 DEF ReadRows, Snapshot
  <1>4. PICK q : q = out'
    OBVIOUS
  <1>5. PICK l : l = todo'
    OBVIOUS
  <1>6. PICK n : n = Len(out)
    OBVIOUS
  <1>7. /\ n \in Nat /\ IsSequence(q) /\ Len(q) = n + 1 /\ q[n + 1] = r
        /\ \A i \in 1 .. n : q[i] = out[i]
    <2>1. IsSequence(out)
      BY DEF CaptureInv, QueriesOK
    <2>2. q = Append(out, r)
      BY <1>3, <1>4
    <2>3. IsExtended(out, r, q)
      BY <2>1, <2>2, SequenceGrows
    <2> QED  BY <1>6, <2>3 DEF IsExtended
  <1>8. todo \in Seq(TableNames) /\ todo # <<>> /\ Distinct(todo)
    BY <1>3 DEF CaptureInv, QueriesOK
  <1>9. /\ l \in Seq(TableNames) /\ Distinct(l)
        /\ Todo = ElementsOf(l) \cup {todo[1]} /\ todo[1] \notin ElementsOf(l)
    <2>1. Todo = ElementsOf(todo)
      BY DEF Todo, ElementsOf
    <2>2. l = Tail(todo)
      BY <1>3, <1>5
    <2> QED  BY <1>8, <2>1, <2>2, WithoutFirst
  <1>10. Todo' = ElementsOf(l)
    BY <1>5 DEF Todo, ElementsOf
  <1>11. \A i \in 1 .. n + 1 : i \in 1 .. n \/ i = n + 1
    BY <1>7
  <1>12. n + 1 \in 1 .. n + 1 /\ \A i \in 1 .. n : i \in 1 .. n + 1
    BY <1>7
  <1>13. r.schema.name = todo[1]
    BY <1>2 DEF Snapshot, Schema
  <1>14. Taken' = Taken \cup {r}
    <2>1. Taken' = {q[i] : i \in 1 .. n + 1} /\ Taken = {out[i] : i \in 1 .. n}
      BY <1>4, <1>6, <1>7 DEF Taken
    <2> QED  BY <1>7, <1>11, <1>12, <2>1
  <1>15. QueriesOK'
    <2>1. \A i \in 1 .. n + 1 : q[i].schema.name \notin ElementsOf(l)
      <3>1. \A i \in 1 .. n : out[i].schema.name \notin Todo
        BY <1>6 DEF CaptureInv, QueriesOK
      <3> QED  BY <1>7, <1>9, <1>11, <1>13, <3>1
    <2>2. outcome = "none"
      BY <1>3 DEF CaptureInv, QueriesOK
    <2>3. engine \in Engines
      BY DEF CaptureInv, QueriesOK
    <2> QED  BY <1>3, <1>4, <1>5, <1>7, <1>9, <1>10, <2>1, <2>2, <2>3 DEF QueriesOK
  <1>16. RowFitsSchema'
    <2>1. \A i \in 1 .. Len(r.rows) : FitsSchema(r.rows[i], r.schema)
      BY <1>1, <1>2, <1>3, SnapshotFits
    <2>2. RowFitsSchema
      BY DEF CaptureInv
    <2> QED  BY <1>3, <1>14, <2>1, <2>2 DEF RowFitsSchema, FitsSchema
  <1>17. SteadyOK'
    <2> SUFFICES ASSUME ~ddl' PROVE Steady'
      BY DEF SteadyOK
    <2>1. Steady
      BY <1>3 DEF CaptureInv, SteadyOK
    <2>2. Names(Taken') \cup Todo' = Names(db')
      <3>1. Names(Taken') = Names(Taken) \cup {todo[1]}
        BY <1>13, <1>14 DEF Names
      <3>2. Names(Taken) \cup Todo = Names(db)
        BY <1>3, <2>1 DEF Steady
      <3> QED  BY <1>3, <1>9, <1>10, <3>1, <3>2
    <2>3. FoundOK'
      BY <1>3 DEF FoundOK
    <2>4. PICK m : m = Len(log)
      OBVIOUS
    <2>5. m \in Nat /\ m > 0 /\ log[m] = db
      BY <2>4 DEF CaptureInv, StatesOK, IsSequence
    <2>6. r \in Captured(log[m]) \/ Shadows(r.schema)
      BY <1>1, <1>2, <1>3, <2>1, <2>5, SnapshotIsTable
    <2>7. PICK at \in [1 .. n -> 1 .. m] :
            /\ \A i, j \in 1 .. n : i <= j => at[i] <= at[j]
            /\ \A i \in 1 .. n : out[i] \in Captured(log[at[i]]) \/ Shadows(out[i].schema)
      <3>1. PICK at \in Moments(Len(log)) : TakenAt(at)
        BY <2>1 DEF Steady, ForwardOK
      <3> QED  BY <1>6, <2>4, <3>1 DEF Moments, TakenAt
    <2>8. PICK bt : bt = [i \in 1 .. n + 1 |-> IF i = n + 1 THEN m ELSE at[i]]
      OBVIOUS
    <2>9. /\ bt \in [1 .. n + 1 -> 1 .. m] /\ bt[n + 1] = m /\ \A i \in 1 .. n : bt[i] = at[i]
      <3>1. m \in 1 .. m /\ \A i \in 1 .. n : i # n + 1
        BY <1>7, <2>5
      <3> QED  BY <1>11, <1>12, <2>7, <2>8, <3>1
    <2>10. \A i, j \in 1 .. n + 1 : i <= j => bt[i] <= bt[j]
      <3> SUFFICES ASSUME NEW i \in 1 .. n + 1, NEW j \in 1 .. n + 1, i <= j PROVE bt[i] <= bt[j]
        OBVIOUS
      <3>1. CASE j = n + 1
        <4>1. bt[i] \in 1 .. m
          BY <2>9
        <4> QED  BY <2>5, <2>9, <3>1, <4>1
      <3>2. CASE j # n + 1
        <4>1. i \in 1 .. n /\ j \in 1 .. n
          BY <1>7, <3>2
        <4> QED  BY <2>7, <2>9, <4>1
      <3> QED  BY <3>1, <3>2
    <2>11. \A i \in 1 .. n + 1 : q[i] \in Captured(log[bt[i]]) \/ Shadows(q[i].schema)
      BY <1>7, <1>11, <2>6, <2>7, <2>9
    <2>12. ForwardOK'
      <3>1. (bt \in Moments(Len(log)))'
        BY <1>3, <1>4, <1>7, <2>4, <2>9, <2>10 DEF Moments
      <3>2. TakenAt(bt)'
        BY <1>3, <1>4, <1>7, <2>11 DEF TakenAt, Shadows
      <3> QED  BY <3>1, <3>2 DEF ForwardOK
    <2>13. outcome' # "error"
      BY <1>3 DEF CaptureInv, QueriesOK
    <2>14. SchemasOf(Taken') \subseteq SchemasOf(db')
      <3>1. r.schema \in SchemasOf(db)
        BY <1>1, <1>2, <1>3, <2>1, SnapshotIsTable
      <3> QED  BY <1>3, <1>14, <2>1, <3>1 DEF Steady, SchemasOf
    <2> QED  BY <1>3, <2>2, <2>3, <2>12, <2>13, <2>14 DEF Steady
  <1> QED  BY <1>3, <1>15, <1>16, <1>17, StatesKept DEF CaptureInv
-------------------------------------------------------------------------------
(* The theorems *)

LEMMA CaptureInvariant == Spec => []CaptureInv
  <1>1. Init => CaptureInv
    <2> SUFFICES ASSUME Init PROVE CaptureInv
      OBVIOUS
    <2>1. /\ Len(<<>>) = 0 /\ 1 .. 0 = {} /\ <<>> \in Seq(TableNames)
          /\ IsSequence(<<>>) /\ Distinct(<<>>)
      BY DEF IsSequence, Distinct
    <2>2. /\ IsSequence(log) /\ log # <<>> /\ log[1] = db /\ log[Len(log)] = db
      BY DEF Init, IsSequence
    <2>3. StatesOK
      BY <2>2, CaptureAssumptions DEF Init, StatesOK
    <2>4. QueriesOK
      BY <2>1 DEF Init, QueriesOK, Todo
    <2>5. RowFitsSchema
      BY <2>1 DEF Init, RowFitsSchema, Taken
    <2>6. ForwardOK
      <3>1. PICK at : at = [i \in {} |-> 1]
        OBVIOUS
      <3>2. at \in [1 .. Len(out) -> 1 .. Len(log)]
        BY <2>1, <3>1 DEF Init
      <3>3. at \in Moments(Len(log)) /\ TakenAt(at)
        BY <2>1, <3>2 DEF Init, Moments, TakenAt
      <3> QED  BY <3>3 DEF ForwardOK
    <2>7. Steady
      BY <2>1, <2>6 DEF Init, Steady, FoundOK, SchemasOf, Taken
    <2> QED  BY <2>3, <2>4, <2>5, <2>7 DEF CaptureInv, SteadyOK
  <1>2. CaptureInv /\ [Next]_vars => CaptureInv'
    <2> SUFFICES ASSUME CaptureInv, [Next]_vars PROVE CaptureInv'
      OBVIOUS
    <2>1. CASE UNCHANGED vars
      <3>1. UNCHANGED <<engine, db, log, ddl, phase, todo, columns, key, out, outcome>>
        BY <2>1 DEF vars, capturing
      <3>2. QueriesOK'
        BY <3>1 DEF CaptureInv, QueriesOK, Todo
      <3>3. SteadyOK'
        BY <3>1 DEF CaptureInv, SteadyOK, Steady, FoundOK, ForwardOK, Moments, TakenAt,
                    Taken, Todo, Shadowed, Shadows
      <3> QED  BY <3>1, <3>2, <3>3, StatesKept, RowsKept DEF CaptureInv
    <2>2. CASE Next
      BY <2>2, OthersStep, ListTablesStep, ReadColumnsStep, ReadKeyStep, ReadRowsStep,
         FailStep, ReturnStep DEF Next, Query
    <2> QED  BY <2>1, <2>2
  <1> QED  BY <1>1, <1>2, PTL DEF Spec

\* No table of one snapshot is read again, the database of every moment is one,
\* and the local state of the capture is of its kind.
THEOREM CaptureTypes == Spec => []CaptureTypeOK
  <1>1. CaptureInv => CaptureTypeOK
    <2> SUFFICES ASSUME CaptureInv PROVE CaptureTypeOK
      OBVIOUS
    <2>1. {todo[j] : j \in DOMAIN todo} = Todo
      <3>1. todo \in Seq(TableNames)
        BY DEF CaptureInv, QueriesOK
      <3> QED  BY <3>1 DEF Todo
    <2>2. \A t \in db : Admits(t)
      BY TablesAreTables, TableParts
    <2> QED  BY <2>1, <2>2 DEF CaptureTypeOK, CaptureInv, StatesOK, QueriesOK
  <1> QED  BY <1>1, CaptureInvariant, PTL

\* A row is stored with data that fits its schema (MySQL) or its key (PostgreSQL,
\* but for the value of a column t), whatever other sessions do between the three
\* queries about its table.
THEOREM RowsFitSchemas == Spec => []RowFitsSchema
  <1>1. CaptureInv => RowFitsSchema
    BY DEF CaptureInv
  <1> QED  BY <1>1, CaptureInvariant, PTL

LEMMA MovesForward == CaptureInv => CaptureMovesForward
  <1> SUFFICES ASSUME CaptureInv, outcome # "none", ~ddl
               PROVE  /\ outcome = "ok" \/ Shadowed
                      /\ outcome = "ok" => Names(Taken) = Names(db)
                      /\ \E at \in [1 .. Len(out) -> 1 .. Len(log)] :
                           /\ \A i \in DOMAIN at :
                                 out[i] \in Captured(log[at[i]]) \/ Shadows(out[i].schema)
                           /\ \A i, j \in DOMAIN at : i <= j => at[i] <= at[j]
    BY DEF CaptureMovesForward
  <1>1. Steady /\ QueriesOK
    BY DEF CaptureInv, SteadyOK
  <1>2. outcome = "ok" \/ Shadowed
    BY <1>1 DEF Steady, QueriesOK
  <1>3. outcome = "ok" => Names(Taken) = Names(db)
    <2> SUFFICES ASSUME outcome = "ok" PROVE Names(Taken) = Names(db)
      OBVIOUS
    <2>1. phase # "list" /\ todo = <<>>
      BY <1>1 DEF QueriesOK
    <2>2. Len(<<>>) = 0 /\ 1 .. 0 = {}
      OBVIOUS
    <2>3. Todo = {}
      BY <2>1, <2>2 DEF Todo
    <2> QED  BY <1>1, <2>1, <2>3 DEF Steady
  <1>4. PICK at \in Moments(Len(log)) : TakenAt(at)
    BY <1>1 DEF Steady, ForwardOK
  <1>5. at \in [1 .. Len(out) -> 1 .. Len(log)] /\ DOMAIN at = 1 .. Len(out)
    BY <1>4 DEF Moments
  <1>6. \A i \in DOMAIN at : out[i] \in Captured(log[at[i]]) \/ Shadows(out[i].schema)
    BY <1>4, <1>5 DEF TakenAt
  <1>7. \A i, j \in DOMAIN at : i <= j => at[i] <= at[j]
    BY <1>4, <1>5 DEF Moments
  <1> QED  BY <1>2, <1>3, <1>5, <1>6, <1>7

\* While rows change but no table is defined anew, the capture misses no table and
\* never goes back to an earlier state; only a column named t in a PostgreSQL table
\* makes it fail, or store that column for the row.
THEOREM CapturesMoveForward == Spec => []CaptureMovesForward
  BY MovesForward, CaptureInvariant, PTL

\* With no other session at work the capture is the database, if no PostgreSQL
\* table has a column named t.
THEOREM QuietCapturesAreExact == Spec => []QuietCaptureIsExact
  <1>1. CaptureInv => QuietCaptureIsExact
    <2> SUFFICES ASSUME CaptureInv, outcome # "none", Len(log) = 1, ~Shadowed
                 PROVE  outcome = "ok" /\ SameState(Taken, db)
      BY DEF QuietCaptureIsExact
    <2>1. ~ddl /\ db = log[1] /\ IsDatabase(db)
      BY DEF CaptureInv, StatesOK
    <2>2. outcome = "ok" /\ Names(Taken) = Names(db)
      BY <2>1, MovesForward DEF CaptureMovesForward
    <2>3. PICK at : /\ at \in [1 .. Len(out) -> 1 .. Len(log)]
                    /\ \A i \in DOMAIN at :
                          out[i] \in Captured(log[at[i]]) \/ Shadows(out[i].schema)
      BY <2>1, MovesForward DEF CaptureMovesForward
    <2>4. \A i \in 1 .. Len(out) : out[i] \in Captured(db) \/ Shadows(out[i].schema)
      BY <2>1, <2>3
    <2>5. Taken \subseteq Captured(db)
      <3>1. \A r \in Taken : ~Shadows(r.schema)
        <4>1. SchemasOf(Taken) \subseteq SchemasOf(db)
          BY <2>1 DEF CaptureInv, SteadyOK, Steady
        <4> QED  BY <4>1 DEF SchemasOf, Shadowed
      <3> QED  BY <2>4, <3>1 DEF Taken
    <2>6. ASSUME NEW t \in db PROVE CaptureTable(t) \in Taken
      <3>1. PICK r \in Taken : r.schema.name = t.schema.name
        <4>1. t.schema.name \in Names(Taken)
          BY <2>2 DEF Names
        <4> QED  BY <4>1 DEF Names
      <3>2. PICK u \in db : r = CaptureTable(u)
        BY <2>5, <3>1 DEF Captured
      <3>3. u.schema.name = t.schema.name
        BY <3>1, <3>2 DEF CaptureTable
      <3>4. u = t
        BY <2>1, <3>3 DEF IsDatabase
      <3> QED  BY <3>1, <3>2, <3>4
    <2>7. Taken = Captured(db)
      BY <2>5, <2>6 DEF Captured
    <2> QED  BY <2>2, <2>7 DEF SameState
  <1> QED  BY <1>1, CaptureInvariant, PTL
================================================================================
