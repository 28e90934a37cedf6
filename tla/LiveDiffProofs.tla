----------------------------- MODULE LiveDiffProofs -----------------------------
(***************************************************************************)
(* What LiveDiff says of the live comparison, the exports and the reports, *)
(* for any databases, values and number of statements.                     *)
(***************************************************************************)
EXTENDS LiveDiff, Collections

(* The map of rows *)

\* The map holds each key, under it a row of that key: the last one.
LEMMA LastOfKey ==
    ASSUME NEW rows, Len(rows) \in Nat, NEW i \in 1 .. Len(rows)
    PROVE  /\ rows[i].pk \in DOMAIN LastByKey(rows)
           /\ \E j \in 1 .. Len(rows) :
                rows[j].pk = rows[i].pk /\ LastByKey(rows)[rows[i].pk] = rows[j]
  <1> DEFINE k == rows[i].pk
             T == {j \in 1 .. Len(rows) : rows[j].pk = k}
             IsLast(j) == rows[j].pk = k /\ \A m \in j + 1 .. Len(rows) : rows[m].pk # k
  <1>1. \E j \in T : \A m \in j + 1 .. Len(rows) : m \notin T
    <2>1. T \subseteq 1 .. Len(rows) /\ T # {}
      OBVIOUS
    <2> HIDE DEF T
    <2> QED  BY <2>1, LastPlace
  <1>2. \E j \in 1 .. Len(rows) : IsLast(j)
    BY <1>1
  <1>3. LastByKey(rows)[k] = rows[CHOOSE j \in 1 .. Len(rows) : IsLast(j)]
    BY DEF LastByKey
  <1>4. (CHOOSE j \in 1 .. Len(rows) : IsLast(j)) \in 1 .. Len(rows)
        /\ IsLast(CHOOSE j \in 1 .. Len(rows) : IsLast(j))
    <2> HIDE DEF IsLast
    <2> QED  BY <1>2
  <1> QED  BY <1>3, <1>4 DEF LastByKey

LEMMA LastIsThere ==
    ASSUME NEW rows, Len(rows) \in Nat, NEW k \in DOMAIN LastByKey(rows)
    PROVE  \E j \in 1 .. Len(rows) : rows[j].pk = k /\ LastByKey(rows)[k] = rows[j]
  <1>1. PICK i \in 1 .. Len(rows) : rows[i].pk = k
    BY DEF LastByKey
  <1> QED  BY <1>1, LastOfKey

(* Tables by name *)

OneOfEachName(ts) == \A t, u \in ts : t.schema.name = u.schema.name => t = u

LEMMA NamedIsThere ==
    ASSUME NEW ts, NEW x \in Names(ts)
    PROVE  Named(ts, x) \in ts /\ Named(ts, x).schema.name = x
  BY DEF Names, Named

LEMMA NamedIsTheOne ==
    ASSUME NEW ts, OneOfEachName(ts), NEW t \in ts
    PROVE  Named(ts, t.schema.name) = t /\ t.schema.name \in Names(ts)
  BY DEF Names, Named, OneOfEachName

LEMMA NamesCaptured ==
    ASSUME NEW db
    PROVE  Names(Captured(db)) = Names(db)
  <1>1. \A t : CaptureTable(t).schema.name = t.schema.name
    BY DEF CaptureTable
  <1> QED  BY <1>1 DEF Names, Captured

LEMMA CapturedOneOfEach ==
    ASSUME NEW db, OneOfEachName(db)
    PROVE  OneOfEachName(Captured(db))
  BY DEF OneOfEachName, Captured, CaptureTable

LEMMA CapturedNamed ==
    ASSUME NEW db, OneOfEachName(db), NEW x \in Names(db)
    PROVE  Named(Captured(db), x) = CaptureTable(Named(db, x))
  <1>1. Named(db, x) \in db /\ Named(db, x).schema.name = x
    BY NamedIsThere
  <1>2. CaptureTable(Named(db, x)) \in Captured(db) /\ CaptureTable(Named(db, x)).schema.name = x
    BY <1>1 DEF Captured, CaptureTable
  <1> QED  BY <1>2, CapturedOneOfEach, NamedIsTheOne

(* The diff, read forwards and backwards *)

LEMMA SameKeysDomain ==
    ASSUME NEW m, NEW n
    PROVE  {x \in DOMAIN m \cap DOMAIN n : ~SameRow(m[x], n[x])}
             = {x \in DOMAIN n \cap DOMAIN m : ~SameRow(n[x], m[x])}
  BY DEF SameRow

\* The changes of a row, read backwards.
MirrorChanges(cs) == {[column |-> x.column, old |-> x.new, new |-> x.old] : x \in cs}

LEMMA ChangesMirrored ==
    ASSUME NEW old, NEW new
    PROVE  ColumnChanges(new, old) = MirrorChanges(ColumnChanges(old, new))
  <1> DEFINE C == {x \in AllColumns(old, new) : Get(old, x) # Get(new, x)}
             D == {x \in AllColumns(new, old) : Get(new, x) # Get(old, x)}
             f(c) == [column |-> c, old |-> Get(old, c), new |-> Get(new, c)]
             g(c) == [column |-> c, old |-> Get(new, c), new |-> Get(old, c)]
             h(x) == [column |-> x.column, old |-> x.new, new |-> x.old]
  <1>1. C = D
    BY DEF AllColumns
  <1>2. \A c : h(f(c)) = g(c)
    OBVIOUS
  <1>3. ColumnChanges(old, new) = {f(c) : c \in C} /\ ColumnChanges(new, old) = {g(c) : c \in D}
    BY DEF ColumnChanges
  <1>4. {g(c) : c \in C} = {h(x) : x \in {f(c) : c \in C}}
    <2> HIDE DEF C, f, g, h
    <2> QED  BY <1>2
  <1> HIDE DEF C, D
  <1> QED  BY <1>1, <1>3, <1>4 DEF MirrorChanges

LEMMA TablesMirrored ==
    ASSUME NEW old, NEW new, old.schema.name = new.schema.name
    PROVE  DiffTables(new, old) = Mirror(DiffTables(old, new))
  <1> DEFINE o == LastByKey(old.rows)
             n == LastByKey(new.rows)
             K == {x \in DOMAIN o \cap DOMAIN n : ~SameRow(o[x], n[x])}
             J == {x \in DOMAIN n \cap DOMAIN o : ~SameRow(n[x], o[x])}
             f(k) == [pk |-> k, columns |-> ColumnChanges(o[k].data, n[k].data)]
             g(k) == [pk |-> k, columns |-> ColumnChanges(n[k].data, o[k].data)]
             h(u) == [pk |-> u.pk, columns |-> MirrorChanges(u.columns)]
             d == [table |-> new.schema.name, inserted |-> OnlyIn(n, o),
                   deleted |-> OnlyIn(o, n), updated |-> {f(k) : k \in K}]
             e == [table |-> old.schema.name, inserted |-> OnlyIn(o, n),
                   deleted |-> OnlyIn(n, o), updated |-> {g(k) : k \in J}]
  <1>1. DiffTables(old, new) = d /\ DiffTables(new, old) = e
    BY DEF DiffTables
  <1>2. K = J
    BY SameKeysDomain
  <1>3. \A k : h(f(k)) = g(k)
    BY ChangesMirrored
  <1>4. {g(k) : k \in K} = {h(u) : u \in {f(k) : k \in K}}
    <2> HIDE DEF K, f, g, h
    <2> QED  BY <1>3
  <1>5. Mirror(d) = [table |-> d.table, inserted |-> d.deleted, deleted |-> d.inserted,
                     updated |-> {h(u) : u \in d.updated}]
    BY DEF Mirror, MirrorChanges
  <1>6. e = [table |-> d.table, inserted |-> d.deleted, deleted |-> d.inserted,
             updated |-> {h(u) : u \in d.updated}]
    <2>1. e.updated = {h(u) : u \in d.updated}
      <3> HIDE DEF K, J, f, g, h
      <3> QED  BY <1>2, <1>4
    <2> HIDE DEF K, J, f, g, h
    <2> QED  BY <2>1
  <1> HIDE DEF d, e
  <1> QED  BY <1>1, <1>5, <1>6

LEMMA EmptyMirrored ==
    ASSUME NEW d
    PROVE  IsEmptyTable(Mirror(d)) <=> IsEmptyTable(d)
  <1> DEFINE h(u) == [pk |-> u.pk, columns |-> {[column |-> x.column, old |-> x.new,
                                                 new |-> x.old] : x \in u.columns}]
  <1>1. Mirror(d).inserted = d.deleted /\ Mirror(d).deleted = d.inserted
        /\ Mirror(d).updated = {h(u) : u \in d.updated}
    BY DEF Mirror
  <1> HIDE DEF h
  <1> QED  BY <1>1 DEF IsEmptyTable

\* The tables of a diff, with their names.
LEMMA DiffedTables ==
    ASSUME NEW old, NEW new, NEW d \in DiffSnapshots(old, new).tables
    PROVE  \E x \in Names(old) \cap Names(new) :
               /\ d = DiffTables(Named(old, x), Named(new, x))
               /\ d.table = x
  <1>1. PICK x \in Names(old) \cap Names(new) : d = DiffTables(Named(old, x), Named(new, x))
    BY DEF DiffSnapshots
  <1>2. d.table = x
    BY <1>1, NamedIsThere DEF DiffTables
  <1> QED  BY <1>1, <1>2

LEMMA DiffMirrored ==
    ASSUME NEW old, NEW new
    PROVE  DiffSnapshots(new, old) =
               [added   |-> DiffSnapshots(old, new).removed,
                removed |-> DiffSnapshots(old, new).added,
                tables  |-> {Mirror(d) : d \in DiffSnapshots(old, new).tables}]
  <1> DEFINE X == Names(old) \cap Names(new)
             Y == Names(new) \cap Names(old)
             f(x) == DiffTables(Named(old, x), Named(new, x))
             g(x) == DiffTables(Named(new, x), Named(old, x))
             F == {d \in {f(x) : x \in X} : ~IsEmptyTable(d)}
             G == {d \in {g(x) : x \in Y} : ~IsEmptyTable(d)}
  <1>1. X = Y
    OBVIOUS
  <1>2. \A x \in X : g(x) = Mirror(f(x))
    BY NamedIsThere, TablesMirrored
  <1>3. G = {Mirror(d) : d \in F}
    <2> HIDE DEF X, Y, f, g
    <2>1. \A x \in X : IsEmptyTable(g(x)) <=> IsEmptyTable(f(x))
      BY <1>2, EmptyMirrored
    <2> QED  BY <1>1, <1>2, <2>1
  <1>4. DiffSnapshots(new, old).tables = G /\ DiffSnapshots(old, new).tables = F
    BY DEF DiffSnapshots
  <1> HIDE DEF F, G
  <1>5. DiffSnapshots(new, old) = [added |-> Names(old) \ Names(new),
                                   removed |-> Names(new) \ Names(old), tables |-> G]
    BY DEF DiffSnapshots, F, G
  <1> QED  BY <1>3, <1>4, <1>5 DEF DiffSnapshots

\* Read backwards, the report is the diff from the live database to HEAD.
LEMMA Reversible == ReportIsReversible
  <1>1. DiffSnapshots(Captured(live), recorded) =
            [added   |-> DiffSnapshots(recorded, Captured(live)).removed,
             removed |-> DiffSnapshots(recorded, Captured(live)).added,
             tables  |-> {Mirror(d) : d \in DiffSnapshots(recorded, Captured(live)).tables}]
    BY DiffMirrored
  <1> QED  BY <1>1 DEF ReportIsReversible, Report

\* The changes of a row are those between the values it had and those it has.
LEMMA UpdatedRows ==
    ASSUME NEW old, NEW new, NEW u \in DiffTables(old, new).updated
    PROVE  /\ u.pk \in DOMAIN LastByKey(old.rows) \cap DOMAIN LastByKey(new.rows)
           /\ ~SameRow(LastByKey(old.rows)[u.pk], LastByKey(new.rows)[u.pk])
           /\ u = [pk |-> u.pk, columns |-> ColumnChanges(LastByKey(old.rows)[u.pk].data,
                                                          LastByKey(new.rows)[u.pk].data)]
  <1> DEFINE o == LastByKey(old.rows)
             n == LastByKey(new.rows)
             K == {x \in DOMAIN o \cap DOMAIN n : ~SameRow(o[x], n[x])}
             f(k) == [pk |-> k, columns |-> ColumnChanges(o[k].data, n[k].data)]
  <1>1. DiffTables(old, new).updated = {f(k) : k \in K}
    BY DEF DiffTables
  <1>2. PICK k \in K : u = f(k)
    BY <1>1
  <1>3. u.pk = k
    BY <1>2
  <1> HIDE DEF o, n
  <1> QED  BY <1>2, <1>3 DEF o, n

LEMMA ChangeOf ==
    ASSUME NEW old, NEW new, NEW c
    PROVE  /\ (\E x \in ColumnChanges(old, new) : x.column = c)
                <=> c \in AllColumns(old, new) /\ Get(old, c) # Get(new, c)
           /\ \A x \in ColumnChanges(old, new) :
                x.column = c => x = [column |-> c, old |-> Get(old, c), new |-> Get(new, c)]
  <1> DEFINE C == {y \in AllColumns(old, new) : Get(old, y) # Get(new, y)}
             f(y) == [column |-> y, old |-> Get(old, y), new |-> Get(new, y)]
  <1>1. ColumnChanges(old, new) = {f(y) : y \in C}
    BY DEF ColumnChanges
  <1>2. \A y : f(y).column = y
    OBVIOUS
  <1>3. c \in C <=> c \in AllColumns(old, new) /\ Get(old, c) # Get(new, c)
    OBVIOUS
  <1>4. \A x \in ColumnChanges(old, new) : x.column = c => x = f(c)
    <2> HIDE DEF C, f
    <2> QED  BY <1>1, <1>2
  <1>5. (\E x \in ColumnChanges(old, new) : x.column = c) <=> c \in C
    <2> HIDE DEF C, f
    <2> QED  BY <1>1, <1>2
  <1> QED  BY <1>3, <1>4, <1>5

\* Laying the changes of a row over its old value gives its new value.
LEMMA ChangesRebuild ==
    ASSUME NEW old, NEW new, NEW c \in DOMAIN old \cup DOMAIN new, NEW cs,
           cs = ColumnChanges(old, new)
    PROVE  Get(new, c) = IF \E x \in cs : x.column = c
                         THEN (CHOOSE x \in cs : x.column = c).new
                         ELSE Get(old, c)
  <1>1. CASE \E x \in cs : x.column = c
    <2> DEFINE y == CHOOSE x \in cs : x.column = c
    <2>1. y \in cs /\ y.column = c
      BY <1>1
    <2> HIDE DEF y
    <2>2. y = [column |-> c, old |-> Get(old, c), new |-> Get(new, c)]
      BY <2>1, ChangeOf
    <2>3. y.new = Get(new, c)
      BY <2>2
    <2>4. (CHOOSE x \in cs : x.column = c).new = Get(new, c)
      BY <2>3 DEF y
    <2> QED  BY <1>1, <2>4
  <1>2. CASE ~\E x \in cs : x.column = c
    <2>1. Get(old, c) = Get(new, c)
      BY <1>2, ChangeOf DEF AllColumns
    <2> HIDE DEF Get
    <2> QED  BY <1>2, <2>1
  <1> QED  BY <1>1, <1>2

LEMMA Rebuilds == ChangesRebuildRow
  <1> SUFFICES ASSUME NEW d \in Report.tables, NEW u \in d.updated
               PROVE  LET old == LastByKey(Named(recorded, d.table).rows)[u.pk].data
                          new == LastByKey(Named(Captured(live), d.table).rows)[u.pk].data
                      IN  \A c \in DOMAIN old \cup DOMAIN new :
                              Get(new, c) = IF \E x \in u.columns : x.column = c
                                            THEN (CHOOSE x \in u.columns : x.column = c).new
                                            ELSE Get(old, c)
    BY DEF ChangesRebuildRow
  <1> DEFINE o == Named(recorded, d.table)
             n == Named(Captured(live), d.table)
             old == LastByKey(o.rows)[u.pk].data
             new == LastByKey(n.rows)[u.pk].data
  <1>1. d = DiffTables(o, n)
    BY DiffedTables DEF Report
  <1>2. u.columns = ColumnChanges(old, new)
    <2> HIDE DEF o, n
    <2>1. u = [pk |-> u.pk, columns |-> ColumnChanges(old, new)]
      BY <1>1, UpdatedRows
    <2> HIDE DEF old, new
    <2> QED  BY <2>1
  <1> HIDE DEF o, n
  <1> SUFFICES ASSUME NEW c \in DOMAIN old \cup DOMAIN new
               PROVE  Get(new, c) = IF \E x \in u.columns : x.column = c
                                    THEN (CHOOSE x \in u.columns : x.column = c).new
                                    ELSE Get(old, c)
    BY DEF o, n
  <1> HIDE DEF old, new
  <1> QED  BY <1>2, ChangesRebuild

THEOREM ReportsReverse == Spec => []ReportIsReversible
  BY Reversible, PTL

THEOREM ChangesRebuildRows == Spec => []ChangesRebuildRow
  BY Rebuilds, PTL

(* Schemas, rows and tables *)

LEMMA ColumnType ==
    ASSUME NEW s, IsSchema(s), NEW i \in 1 .. Len(s.columns)
    PROVE  TypeOf(s, s.columns[i].name) = s.columns[i].type
  <1> DEFINE j == CHOOSE k \in 1 .. Len(s.columns) : s.columns[k].name = s.columns[i].name
  <1>1. j \in 1 .. Len(s.columns) /\ s.columns[j].name = s.columns[i].name
    OBVIOUS
  <1>2. j = i
    <2> HIDE DEF j
    <2> QED  BY <1>1 DEF IsSchema
  <1> QED  BY <1>2 DEF TypeOf

LEMMA TypesInSchema ==
    ASSUME NEW s, IsSchema(s), NEW c \in ColumnNames(s.columns)
    PROVE  TypeOf(s, c) \in ColumnTypes
  <1>1. PICK i \in 1 .. Len(s.columns) : s.columns[i].name = c
    BY DEF ColumnNames
  <1>2. s.columns[i].type \in ColumnTypes
    BY DEF IsSchema
  <1> QED  BY <1>1, <1>2, ColumnType

LEMMA MakesTable ==
    ASSUME NEW s, IsSchema(s), NEW S, NEW rows \in Seq(S),
           \A i \in 1 .. Len(rows) : IsRow(s, rows[i]), NEW t,
           t = [schema |-> s, rows |-> rows], Admits(t)
    PROVE  IsTable(t)
  <1>1. t.schema = s /\ t.rows = rows
    OBVIOUS
  <1>2. rows \in Seq({rows[i] : i \in 1 .. Len(rows)})
    BY OwnElements
  <1> QED  BY <1>1, <1>2 DEF IsTable

LEMMA TableParts ==
    ASSUME NEW t, IsTable(t)
    PROVE  /\ t = [schema |-> t.schema, rows |-> t.rows] /\ IsSchema(t.schema)
           /\ Len(t.rows) \in Nat /\ DOMAIN t.rows = 1 .. Len(t.rows)
           /\ t.rows \in Seq({t.rows[i] : i \in 1 .. Len(t.rows)})
           /\ \A i \in 1 .. Len(t.rows) : IsRow(t.schema, t.rows[i])
           /\ Admits(t)
  <1> DEFINE S == {t.rows[i] : i \in 1 .. Len(t.rows)}
  <1>1. t.rows \in Seq(S)
    BY DEF IsTable
  <1> HIDE DEF S
  <1>2. Len(t.rows) \in Nat /\ DOMAIN t.rows = 1 .. Len(t.rows)
    BY <1>1
  <1> QED  BY <1>1, <1>2 DEF IsTable, S

(* Each statement leaves tables *)

LEMMA DomainFits ==
    ASSUME NEW s, IsSchema(s), NEW c \in ColumnNames(s.columns), NEW v \in Domain(s, c)
    PROVE  Fits(TypeOf(s, c), v)
  <1>1. CASE c \in KeyColumns(s.primary_key)
    <2>1. v \in {k \in Keys : Fits(TypeOf(s, c), k)}
      BY <1>1 DEF Domain
    <2> QED  BY <2>1
  <1>2. CASE c \notin KeyColumns(s.primary_key)
    <2>1. v \in ValuesOf(TypeOf(s, c))
      BY <1>2 DEF Domain
    <2> QED  BY <2>1, TypesInSchema, LiveAssumptions
  <1> QED  BY <1>1, <1>2

LEMMA RowToInsert ==
    ASSUME NEW s, IsSchema(s), NEW d \in RowsOf(s)
    PROVE  IsRow(s, d)
  <1> DEFINE C == ColumnNames(s.columns)
             V == UNION {Domain(s, c) : c \in C}
  <1>1. d \in [C -> V] /\ \A c \in C : d[c] \in Domain(s, c)
    BY DEF RowsOf
  <1>2. d = [c \in C |-> d[c]]
    <2> HIDE DEF C, V
    <2> QED  BY <1>1
  <1>3. ASSUME NEW c \in C PROVE Fits(TypeOf(s, c), d[c])
    BY <1>1, DomainFits
  <1> QED  BY <1>2, <1>3 DEF IsRow

LEMMA InsertLeavesTable ==
    ASSUME NEW t, IsTable(t), NEW d, IsRow(t.schema, d), Admits(WithRow(t, d))
    PROVE  /\ IsTable(WithRow(t, d)) /\ WithRow(t, d).schema = t.schema
           /\ Len(WithRow(t, d).rows) = Len(t.rows) + 1
           /\ \A i \in 1 .. Len(t.rows) + 1 :
                WithRow(t, d).rows[i] = IF i = Len(t.rows) + 1 THEN d ELSE t.rows[i]
  <1> DEFINE S == {t.rows[i] : i \in 1 .. Len(t.rows)} \cup {d}
             rows == Append(t.rows, d)
             n == Len(t.rows)
  <1>1. t.rows \in Seq(S) /\ d \in S /\ n \in Nat
    <2> DEFINE T == {t.rows[i] : i \in 1 .. Len(t.rows)}
    <2>1. t.rows \in Seq(T) /\ n \in Nat
      BY TableParts
    <2>2. T \subseteq T \cup {d} /\ d \in T \cup {d}
      OBVIOUS
    <2> HIDE DEF T
    <2>3. t.rows \in Seq(T \cup {d})
      BY <2>1, <2>2, SeqMonotonic
    <2> QED  BY <2>1, <2>2, <2>3 DEF T
  <1> HIDE DEF S
  <1>2. rows \in Seq(S) /\ Len(rows) = n + 1
        /\ \A i \in 1 .. n + 1 : rows[i] = IF i = n + 1 THEN d ELSE t.rows[i]
    BY <1>1
  <1>3. WithRow(t, d) = [schema |-> t.schema, rows |-> rows]
    <2>1. t = [schema |-> t.schema, rows |-> t.rows]
      BY TableParts
    <2>2. WithRow(t, d) = [t EXCEPT !.rows = rows]
      BY DEF WithRow
    <2> HIDE DEF rows
    <2> QED  BY <2>1, <2>2
  <1>4. \A i \in 1 .. Len(rows) : IsRow(t.schema, rows[i])
    <2>1. \A i \in 1 .. n : IsRow(t.schema, t.rows[i])
      BY TableParts
    <2> HIDE DEF rows, n
    <2> QED  BY <1>1, <1>2, <2>1
  <1> HIDE DEF rows
  <1>5. IsTable(WithRow(t, d))
    BY <1>2, <1>3, <1>4, TableParts, MakesTable
  <1> QED  BY <1>2, <1>3, <1>5

LEMMA DeleteLeavesTable ==
    ASSUME NEW t, IsTable(t), NEW i \in 1 .. Len(t.rows), Admits(WithoutRow(t, i))
    PROVE  /\ IsTable(WithoutRow(t, i)) /\ WithoutRow(t, i).schema = t.schema
           /\ Len(WithoutRow(t, i).rows) = Len(t.rows) - 1
           /\ \A j \in 1 .. Len(t.rows) - 1 :
                WithoutRow(t, i).rows[j] = IF j < i THEN t.rows[j] ELSE t.rows[j + 1]
  <1>1. PICK q : q = t.rows
    OBVIOUS
  <1>2. PICK S : q \in Seq(S)
    BY <1>1, TableParts
  <1>3. PICK n : n = Len(q)
    OBVIOUS
  <1>4. n \in Nat /\ i \in 1 .. Len(q)
    BY <1>1, <1>2, <1>3
  <1>5. PICK rows : rows = SubSeq(q, 1, i - 1) \o SubSeq(q, i + 1, Len(q))
    OBVIOUS
  <1>6. /\ rows \in Seq(S) /\ Len(rows) = Len(q) - 1
        /\ \A j \in 1 .. Len(q) - 1 : rows[j] = IF j < i THEN q[j] ELSE q[j + 1]
    BY <1>2, <1>4, <1>5, WithoutPlace
  <1>7. WithoutRow(t, i) = [schema |-> t.schema, rows |-> rows]
    <2>1. t = [schema |-> t.schema, rows |-> t.rows]
      BY TableParts
    <2>2. WithoutRow(t, i) = [t EXCEPT !.rows = rows]
      BY <1>1, <1>5 DEF WithoutRow
    <2> QED  BY <2>1, <2>2
  <1>8. \A j \in 1 .. Len(rows) : IsRow(t.schema, rows[j])
    <2>1. \A j \in 1 .. n : IsRow(t.schema, q[j])
      BY <1>1, <1>3, TableParts
    <2> SUFFICES ASSUME NEW j \in 1 .. n - 1 PROVE IsRow(t.schema, rows[j])
      BY <1>3, <1>6
    <2>2. j \in 1 .. n /\ j + 1 \in 1 .. n
      BY <1>4
    <2>3. rows[j] = q[j] \/ rows[j] = q[j + 1]
      BY <1>3, <1>6
    <2> QED  BY <2>1, <2>2, <2>3
  <1>9. IsTable(WithoutRow(t, i))
    BY <1>6, <1>7, <1>8, TableParts, MakesTable
  <1> QED  BY <1>1, <1>6, <1>7, <1>9

\* Table t with value v in column c of row i.
SetIn(t, i, c, v) == [t EXCEPT !.rows[i][c] = v]

LEMMA UpdateLeavesTable ==
    ASSUME NEW t, IsTable(t), NEW i \in 1 .. Len(t.rows), NEW c \in DOMAIN t.rows[i],
           NEW v \in Domain(t.schema, c), NEW u, u = SetIn(t, i, c, v), Admits(u)
    PROVE  /\ IsTable(u) /\ u.schema = t.schema /\ Len(u.rows) = Len(t.rows)
           /\ \A j \in 1 .. Len(t.rows) : j # i => u.rows[j] = t.rows[j]
  <1> DEFINE q == t.rows
             C == ColumnNames(t.schema.columns)
             d == [q[i] EXCEPT ![c] = v]
             rows == [q EXCEPT ![i] = d]
             S == {q[j] : j \in 1 .. Len(q)} \cup {d}
  <1>1. IsRow(t.schema, q[i]) /\ Len(q) \in Nat
    BY TableParts
  <1>2. q[i] = [x \in C |-> q[i][x]]
    BY <1>1 DEF IsRow
  <1>3. DOMAIN q[i] = C /\ c \in C
    <2> HIDE DEF q, C
    <2>1. DOMAIN q[i] = C
      BY <1>2
    <2> QED  BY <2>1 DEF q
  <1>4. IsRow(t.schema, d)
    <2>1. d = [x \in C |-> d[x]] /\ d[c] = v /\ \A x \in C : x # c => d[x] = q[i][x]
      <3> HIDE DEF q, C
      <3> QED  BY <1>3
    <2>2. Fits(TypeOf(t.schema, c), v)
      BY <1>3, TableParts, DomainFits
    <2>3. \A x \in C : Fits(TypeOf(t.schema, x), q[i][x])
      BY <1>1 DEF IsRow
    <2> HIDE DEF d, q
    <2> QED  BY <2>1, <2>2, <2>3 DEF IsRow
  <1>5. q \in Seq(S) /\ d \in S
    <2> DEFINE T == {q[j] : j \in 1 .. Len(q)}
    <2>1. q \in Seq(T)
      BY TableParts
    <2>2. T \subseteq T \cup {d} /\ d \in T \cup {d}
      OBVIOUS
    <2> HIDE DEF T, d, q
    <2>3. q \in Seq(T \cup {d})
      BY <2>1, <2>2, SeqMonotonic
    <2> QED  BY <2>2, <2>3 DEF T
  <1> HIDE DEF S, d
  <1>6. rows \in Seq(S) /\ Len(rows) = Len(q)
        /\ \A j \in 1 .. Len(q) : rows[j] = IF j = i THEN d ELSE q[j]
    BY <1>5, ExceptSeq
  <1>7. u = [schema |-> t.schema, rows |-> rows]
    <2>1. t = [schema |-> t.schema, rows |-> t.rows]
      BY TableParts
    <2>2. u = [t EXCEPT !.rows = rows]
      BY DEF SetIn, d
    <2> HIDE DEF rows
    <2> QED  BY <2>1, <2>2
  <1>8. \A j \in 1 .. Len(rows) : IsRow(t.schema, rows[j])
    <2>1. \A j \in 1 .. Len(q) : IsRow(t.schema, q[j])
      BY TableParts
    <2> HIDE DEF rows, q
    <2> QED  BY <1>4, <1>6, <2>1
  <1> HIDE DEF rows
  <1>9. IsTable(u)
    BY <1>6, <1>7, <1>8, TableParts, MakesTable
  <1> QED  BY <1>6, <1>7, <1>9

LEMMA NullFits == \A type \in ColumnTypes : Fits(type, "null")
  BY DEF Fits, Refused, KindOf, Numbers, Booleans, Structures, ColumnTypes

Extended(s, c) == [s EXCEPT !.columns = Append(@, c)]

\* ADD COLUMN, for a column whose name the table does not have.
LEMMA AddColumnLeavesSchema ==
    ASSUME NEW s, IsSchema(s), NEW c, c = [name |-> c.name, type |-> c.type],
           c.type \in ColumnTypes, c.name \notin ColumnNames(s.columns),
           NEW r, r = Extended(s, c)
    PROVE  /\ IsSchema(r) /\ r.name = s.name /\ r.primary_key = s.primary_key
           /\ ColumnNames(r.columns) = ColumnNames(s.columns) \cup {c.name}
           /\ TypeOf(r, c.name) = c.type
           /\ \A x \in ColumnNames(s.columns) : TypeOf(r, x) = TypeOf(s, x)
  <1> DEFINE q == s.columns
             n == Len(q)
             T == {q[i] : i \in 1 .. n}
             p == Append(q, c)
  <1>1. q \in Seq(T \cup {c}) /\ n \in Nat
    <2>1. q \in Seq(T)
      BY DEF IsSchema
    <2> HIDE DEF T, q
    <2>2. q \in Seq(T \cup {c})
      BY <2>1, SeqMonotonic
    <2> QED  BY <2>1, <2>2
  <1>2. /\ p \in Seq(T \cup {c}) /\ Len(p) = n + 1
        /\ p[n + 1] = c /\ \A i \in 1 .. n : p[i] = q[i]
    <2> HIDE DEF T, q
    <2> QED  BY <1>1
  <1>3. r = [name |-> s.name, columns |-> p, primary_key |-> s.primary_key]
    <2>1. s = [name |-> s.name, columns |-> s.columns, primary_key |-> s.primary_key]
      BY DEF IsSchema
    <2> HIDE DEF p
    <2>2. r = [s EXCEPT !.columns = p]
      BY DEF p, Extended
    <2> QED  BY <2>1, <2>2
  <1> HIDE DEF p
  <1>4. p \in Seq({p[i] : i \in 1 .. Len(p)})
    BY <1>2, OwnElements
  <1>5. \A i, j \in 1 .. n :
          /\ q[i] = [name |-> q[i].name, type |-> q[i].type] /\ q[i].type \in ColumnTypes
          /\ q[i].name = q[j].name => i = j
          /\ q[i].name \in ColumnNames(q)
    BY DEF IsSchema, ColumnNames
  <1>6. \A i, j \in 1 .. Len(p) :
          /\ p[i] = [name |-> p[i].name, type |-> p[i].type] /\ p[i].type \in ColumnTypes
          /\ p[i].name = p[j].name => i = j
    <2> SUFFICES ASSUME NEW i \in 1 .. Len(p), NEW j \in 1 .. Len(p)
                 PROVE  /\ p[i] = [name |-> p[i].name, type |-> p[i].type]
                        /\ p[i].type \in ColumnTypes
                        /\ p[i].name = p[j].name => i = j
      OBVIOUS
    <2>1. i \in 1 .. n \/ i = n + 1
      BY <1>1, <1>2
    <2>2. j \in 1 .. n \/ j = n + 1
      BY <1>1, <1>2
    <2> HIDE DEF n
    <2> QED  BY <1>1, <1>2, <1>5, <2>1, <2>2
  <1>7. ColumnNames(p) = ColumnNames(q) \cup {c.name}
    <2>1. \A i \in 1 .. n + 1 : i \in 1 .. n \/ i = n + 1
      BY <1>1
    <2>2. n + 1 \in 1 .. n + 1 /\ \A i \in 1 .. n : i \in 1 .. n + 1
      BY <1>1
    <2> HIDE DEF n
    <2> QED  BY <1>2, <2>1, <2>2 DEF ColumnNames, n
  <1>p. r.name = s.name /\ r.columns = p /\ r.primary_key = s.primary_key
        /\ r = [name |-> r.name, columns |-> r.columns, primary_key |-> r.primary_key]
    BY <1>3
  <1>8. IsSchema(r)
    <2>1. KeyColumns(s.primary_key) \subseteq ColumnNames(p)
      BY <1>7 DEF IsSchema
    <2>2. KeyColumns(r.primary_key) \subseteq ColumnNames(r.columns)
      BY <1>p, <2>1
    <2>3. r.columns \in Seq({r.columns[i] : i \in 1 .. Len(r.columns)})
      BY <1>p, <1>4
    <2>4. \A i, j \in 1 .. Len(r.columns) :
            /\ r.columns[i] = [name |-> r.columns[i].name, type |-> r.columns[i].type]
            /\ r.columns[i].type \in ColumnTypes
            /\ r.columns[i].name = r.columns[j].name => i = j
      <3> HIDE DEF q, n, T
      <3> QED  BY <1>p, <1>6
    <2> HIDE DEF q, n, T
    <2> QED  BY <1>p, <2>2, <2>3, <2>4 DEF IsSchema
  <1>9. TypeOf(r, c.name) = c.type
    <2>1. n + 1 \in 1 .. Len(r.columns) /\ r.columns[n + 1] = c
      BY <1>1, <1>2, <1>3
    <2> QED  BY <1>8, <2>1, ColumnType
  <1>10. ASSUME NEW x \in ColumnNames(s.columns) PROVE TypeOf(r, x) = TypeOf(s, x)
    <2>1. PICK i \in 1 .. n : q[i].name = x
      BY DEF ColumnNames
    <2>2. i \in 1 .. Len(r.columns) /\ r.columns[i] = q[i]
      BY <1>1, <1>2, <1>3
    <2> QED  BY <1>8, <2>1, <2>2, ColumnType
  <1> QED  BY <1>p, <1>7, <1>8, <1>9, <1>10

LEMMA AddColumnLeavesTable ==
    ASSUME NEW t, IsTable(t), NEW c, c = [name |-> c.name, type |-> c.type],
           c.type \in ColumnTypes, c.name \notin ColumnNames(t.schema.columns),
           Admits(WithColumn(t, c))
    PROVE  /\ IsTable(WithColumn(t, c)) /\ WithColumn(t, c).schema.name = t.schema.name
           /\ WithColumn(t, c).schema.primary_key = t.schema.primary_key
           /\ Len(WithColumn(t, c).rows) = Len(t.rows)
  <1> DEFINE s == t.schema
             r == Extended(s, c)
             e(i) == [x \in DOMAIN t.rows[i] \cup {c.name} |->
                        IF x = c.name THEN "null" ELSE t.rows[i][x]]
             n == Len(t.rows)
             rows == [i \in 1 .. n |-> e(i)]
             S == {e(i) : i \in 1 .. n}
  <1>1. WithColumn(t, c) = [schema |-> r, rows |-> rows]
    BY DEF WithColumn, WithValues, Extended
  <1>2. IsSchema(s) /\ n \in Nat /\ \A i \in 1 .. n : IsRow(s, t.rows[i])
    BY TableParts
  <1>3. /\ IsSchema(r) /\ r.name = s.name /\ r.primary_key = s.primary_key
        /\ ColumnNames(r.columns) = ColumnNames(s.columns) \cup {c.name}
        /\ TypeOf(r, c.name) = c.type
        /\ \A x \in ColumnNames(s.columns) : TypeOf(r, x) = TypeOf(s, x)
    BY <1>2, AddColumnLeavesSchema
  <1>4. ASSUME NEW i \in 1 .. n PROVE IsRow(r, e(i))
    <2> DEFINE C == ColumnNames(s.columns)
               d == t.rows[i]
    <2>1. d = [x \in C |-> d[x]] /\ \A x \in C : Fits(TypeOf(s, x), d[x])
      BY <1>2 DEF IsRow
    <2>2. DOMAIN d = C
      <3> HIDE DEF C, d
      <3> QED  BY <2>1
    <2>3. e(i) = [x \in C \cup {c.name} |-> IF x = c.name THEN "null" ELSE d[x]]
      BY <2>2
    <2> HIDE DEF C, d, e
    <2>4. e(i) = [x \in C \cup {c.name} |-> e(i)[x]]
      BY <2>3
    <2>5. \A x \in C : x # c.name
      BY DEF C
    <2>6. e(i)[c.name] = "null" /\ \A x \in C : e(i)[x] = d[x]
      BY <2>3, <2>5
    <2>7. \A x \in C \cup {c.name} : Fits(TypeOf(r, x), e(i)[x])
      <3> HIDE DEF r, s
      <3> QED  BY <1>3, <2>1, <2>6, NullFits DEF C
    <2> HIDE DEF r, s
    <2> QED  BY <1>3, <2>4, <2>7 DEF IsRow, C
  <1>5. rows \in Seq(S) /\ Len(rows) = n /\ \A i \in 1 .. Len(rows) : rows[i] = e(i)
    <2> HIDE DEF e, n
    <2>1. rows \in [1 .. n -> S]
      OBVIOUS
    <2> HIDE DEF S
    <2>2. rows \in Seq(S) /\ Len(rows) = n
      BY <1>2, <2>1
    <2> HIDE DEF rows
    <2> QED  BY <2>2 DEF rows
  <1> HIDE DEF rows, S, r, n, e
  <1>6. \A i \in 1 .. Len(rows) : IsRow(r, rows[i])
    BY <1>4, <1>5
  <1>7. IsTable(WithColumn(t, c))
    BY <1>1, <1>3, <1>5, <1>6, MakesTable
  <1> QED  BY <1>1, <1>3, <1>5, <1>7 DEF n

Retyped(s, i) == [s EXCEPT !.columns[i].type = "varchar"]

\* ALTER COLUMN TYPE from text to varchar: what fitted the one fits the other.
LEMMA RetypeLeavesSchema ==
    ASSUME NEW s, IsSchema(s), NEW i \in 1 .. Len(s.columns), s.columns[i].type = "text",
           NEW r, r = Retyped(s, i)
    PROVE  /\ IsSchema(r) /\ r.name = s.name /\ r.primary_key = s.primary_key
           /\ \A d : IsRow(s, d) => IsRow(r, d)
  <1> DEFINE q == s.columns
             n == Len(q)
             T == {q[j] : j \in 1 .. n}
             c == [q[i] EXCEPT !.type = "varchar"]
             p == [q EXCEPT ![i] = c]
  <1>1. q \in Seq(T \cup {c}) /\ n \in Nat
    <2>1. q \in Seq(T)
      BY DEF IsSchema
    <2> HIDE DEF T, q, c
    <2>2. q \in Seq(T \cup {c})
      BY <2>1, SeqMonotonic
    <2> QED  BY <2>1, <2>2
  <1>2. c = [name |-> q[i].name, type |-> "varchar"]
    <2>1. q[i] = [name |-> q[i].name, type |-> q[i].type]
      BY DEF IsSchema
    <2> QED  BY <2>1
  <1>3. /\ p \in Seq(T \cup {c}) /\ Len(p) = n /\ p[i] = c
        /\ \A j \in 1 .. n : j # i => p[j] = q[j]
    <2> HIDE DEF T, c
    <2>1. c \in T \cup {c}
      OBVIOUS
    <2> QED  BY <1>1, <2>1, ExceptSeq
  <1>4. r = [name |-> s.name, columns |-> p, primary_key |-> s.primary_key]
    <2>1. s = [name |-> s.name, columns |-> s.columns, primary_key |-> s.primary_key]
      BY DEF IsSchema
    <2>2. r = [s EXCEPT !.columns = p]
      BY DEF Retyped
    <2> HIDE DEF p
    <2> QED  BY <2>1, <2>2
  <1> HIDE DEF p, c
  <1>p. r.name = s.name /\ r.columns = p /\ r.primary_key = s.primary_key
        /\ r = [name |-> r.name, columns |-> r.columns, primary_key |-> r.primary_key]
    BY <1>4
  <1>5. \A j \in 1 .. n : p[j].name = q[j].name
    BY <1>2, <1>3
  <1>6. \A j, k \in 1 .. n :
          /\ q[j] = [name |-> q[j].name, type |-> q[j].type] /\ q[j].type \in ColumnTypes
          /\ q[j].name = q[k].name => j = k
    BY DEF IsSchema
  <1>7. ColumnNames(p) = ColumnNames(q)
    <2>1. ColumnNames(q) = {q[j].name : j \in 1 .. n} /\ ColumnNames(p) = {p[j].name : j \in 1 .. n}
      BY <1>3 DEF ColumnNames
    <2> QED  BY <1>5, <2>1
  <1>8. IsSchema(r)
    <2>1. KeyColumns(r.primary_key) \subseteq ColumnNames(r.columns)
      BY <1>p, <1>7 DEF IsSchema
    <2>2. r.columns \in Seq({r.columns[j] : j \in 1 .. Len(r.columns)})
      BY <1>p, <1>3, OwnElements
    <2>3. \A j \in 1 .. n :
            /\ p[j] = [name |-> p[j].name, type |-> p[j].type]
            /\ p[j].type \in ColumnTypes
      <3> SUFFICES ASSUME NEW j \in 1 .. n
                   PROVE  p[j] = [name |-> p[j].name, type |-> p[j].type]
                          /\ p[j].type \in ColumnTypes
        OBVIOUS
      <3> HIDE DEF q, n, T
      <3>1. CASE j = i
        BY <1>2, <1>3, <3>1 DEF ColumnTypes
      <3>2. CASE j # i
        BY <1>3, <1>6, <3>2
      <3> QED  BY <3>1, <3>2
    <2>4. \A j, k \in 1 .. n : p[j].name = p[k].name => j = k
      <3> HIDE DEF q, n, T
      <3> QED  BY <1>5, <1>6
    <2>5. \A j, k \in 1 .. Len(r.columns) :
            /\ r.columns[j] = [name |-> r.columns[j].name, type |-> r.columns[j].type]
            /\ r.columns[j].type \in ColumnTypes
            /\ r.columns[j].name = r.columns[k].name => j = k
      <3> HIDE DEF q, n, T
      <3> QED  BY <1>p, <1>3, <2>3, <2>4
    <2> HIDE DEF q, n, T
    <2> QED  BY <1>p, <2>1, <2>2, <2>5 DEF IsSchema
  <1>9. ASSUME NEW x \in ColumnNames(q)
        PROVE  TypeOf(r, x) = TypeOf(s, x) \/ (TypeOf(s, x) = "text" /\ TypeOf(r, x) = "varchar")
    <2>1. PICK j \in 1 .. n : q[j].name = x
      BY DEF ColumnNames
    <2>2. TypeOf(s, x) = q[j].type
      BY <2>1, ColumnType
    <2>3. j \in 1 .. Len(r.columns) /\ r.columns[j].name = x
      BY <1>p, <1>3, <1>5, <2>1
    <2>4. TypeOf(r, x) = r.columns[j].type
      BY <1>8, <2>3, ColumnType
    <2> HIDE DEF q, n
    <2> QED  BY <1>p, <1>2, <1>3, <2>2, <2>4 DEF q
  <1>10. ASSUME NEW d, IsRow(s, d) PROVE IsRow(r, d)
    <2>1. ASSUME NEW x \in ColumnNames(q) PROVE Fits(TypeOf(r, x), d[x])
      <3>1. Fits(TypeOf(s, x), d[x])
        BY <1>10 DEF IsRow
      <3> QED  BY <1>9, <3>1 DEF Fits
    <2> QED  BY <1>p, <1>7, <1>10, <2>1 DEF IsRow
  <1> QED  BY <1>p, <1>8, <1>10

LEMMA RetypeLeavesTable ==
    ASSUME NEW t, IsTable(t), NEW i \in 1 .. Len(t.schema.columns),
           t.schema.columns[i].type = "text", NEW u,
           u = [t EXCEPT !.schema.columns[i].type = "varchar"], Admits(u)
    PROVE  /\ IsTable(u) /\ u.schema.name = t.schema.name
           /\ u.schema.primary_key = t.schema.primary_key /\ u.rows = t.rows
  <1>1. u = [schema |-> Retyped(t.schema, i), rows |-> t.rows]
    <2> DEFINE r == Retyped(t.schema, i)
    <2>1. t = [schema |-> t.schema, rows |-> t.rows]
      BY TableParts
    <2>2. u = [t EXCEPT !.schema = r]
      BY DEF Retyped
    <2> HIDE DEF r
    <2>3. u = [schema |-> r, rows |-> t.rows]
      BY <2>1, <2>2
    <2> QED  BY <2>3 DEF r
  <1>2. IsSchema(t.schema) /\ \A j \in 1 .. Len(t.rows) : IsRow(t.schema, t.rows[j])
    BY TableParts
  <1>3. PICK r : r = Retyped(t.schema, i)
    OBVIOUS
  <1>4. /\ IsSchema(r) /\ r.name = t.schema.name /\ r.primary_key = t.schema.primary_key
        /\ \A d : IsRow(t.schema, d) => IsRow(r, d)
    BY <1>2, <1>3, RetypeLeavesSchema
  <1>5. \A j \in 1 .. Len(t.rows) : IsRow(r, t.rows[j])
    BY <1>2, <1>4
  <1>6. IsTable(u)
    BY <1>1, <1>3, <1>4, <1>5, TableParts, MakesTable
  <1> QED  BY <1>1, <1>3, <1>4, <1>6

LEMMA CreateLeavesTable ==
    ASSUME NEW s, IsSchema(s)
    PROVE  IsTable([schema |-> s, rows |-> <<>>])
  <1> DEFINE t == [schema |-> s, rows |-> <<>>]
  <1>1. t.schema = s /\ t.rows = <<>> /\ <<>> \in Seq({}) /\ 1 .. Len(<<>>) = {}
    OBVIOUS
  <1>2. Admits(t)
    <2> HIDE DEF t
    <2> QED  BY <1>1 DEF Admits
  <1>3. \A i \in 1 .. Len(<<>>) : IsRow(s, <<>>[i])
    BY <1>1
  <1>4. t = [schema |-> s, rows |-> <<>>]
    OBVIOUS
  <1> HIDE DEF t
  <1>5. IsTable(t)
    BY <1>1, <1>2, <1>3, <1>4, MakesTable
  <1> QED  BY <1>5 DEF t

(* The inductive invariant: what the statements made of the recorded database *)

RowsIn(t) == {[key |-> KeyOf(t, t.rows[i]), data |-> t.rows[i]] : i \in 1 .. Len(t.rows)}

AllRows(ts) == UNION {RowsIn(t) : t \in ts}

\* Tables come from recorded ones, with their keys; a row that is on one side only
\* was written by some statement.
Descends(db) ==
    /\ \A u \in live : \E t \in db :
         t.schema.name = u.schema.name /\ t.schema.primary_key = u.schema.primary_key
    /\ \A e \in (AllRows(db) \ AllRows(live)) \cup (AllRows(live) \ AllRows(db)) :
         e.key \in touched

LiveInv ==
    /\ statements \in 0 .. MaxStatements
    /\ IsDatabase(live)
    /\ \E db \in Databases : recorded = Captured(db) /\ Descends(db)

\* A statement on one table, given what it does to the table.
LEMMA ReplaceKeeps ==
    ASSUME LiveInv, NEW t \in live, NEW u, NEW ks, Replace(t, u, ks), IsTable(u),
           u.schema.name = t.schema.name, u.schema.primary_key = t.schema.primary_key,
           \A e \in (RowsIn(t) \ RowsIn(u)) \cup (RowsIn(u) \ RowsIn(t)) : e.key \in ks
    PROVE  LiveInv'
  <1>1. /\ statements < MaxStatements /\ statements' = statements + 1
        /\ live' = (live \ {t}) \cup {u} /\ touched' = touched \cup ks /\ recorded' = recorded
    BY DEF Replace
  <1>2. PICK db \in Databases : recorded = Captured(db) /\ Descends(db)
    BY DEF LiveInv
  <1>3. (statements \in 0 .. MaxStatements)'
    BY <1>1, LiveAssumptions DEF LiveInv
  <1>4. IsDatabase(live)'
    <2>1. (\A x \in live : IsTable(x)) /\ \A x, y \in live : x.schema.name = y.schema.name => x = y
      BY DEF LiveInv, IsDatabase
    <2>2. \A x \in live' : IsTable(x)
      BY <1>1, <2>1
    <2>3. \A x, y \in live' : x.schema.name = y.schema.name => x = y
      BY <1>1, <2>1
    <2> QED  BY <2>2, <2>3 DEF IsDatabase
  <1>5. Descends(db)'
    <2>1. \A x \in live' : \E r \in db :
            r.schema.name = x.schema.name /\ r.schema.primary_key = x.schema.primary_key
      BY <1>1, <1>2 DEF Descends
    <2>2. ASSUME NEW e \in AllRows(live) \ AllRows(live') PROVE e.key \in ks
      <3>1. PICK x \in live : e \in RowsIn(x)
        BY DEF AllRows
      <3>2. \A y \in live' : e \notin RowsIn(y)
        BY DEF AllRows
      <3>3. x = t /\ e \notin RowsIn(u)
        BY <1>1, <3>1, <3>2
      <3> QED  BY <3>1, <3>3
    <2>3. ASSUME NEW e \in AllRows(live') \ AllRows(live) PROVE e.key \in ks
      <3>1. PICK x \in live' : e \in RowsIn(x)
        BY DEF AllRows
      <3>2. \A y \in live : e \notin RowsIn(y)
        BY DEF AllRows
      <3>3. x = u /\ e \notin RowsIn(t)
        BY <1>1, <3>1, <3>2
      <3> QED  BY <3>1, <3>3
    <2>4. \A e \in (AllRows(db) \ AllRows(live)) \cup (AllRows(live) \ AllRows(db)) :
            e.key \in touched
      BY <1>2 DEF Descends
    <2>5. \A e \in (AllRows(db) \ AllRows(live')) \cup (AllRows(live') \ AllRows(db)) :
            e.key \in touched'
      <3> HIDE DEF AllRows
      <3> QED  BY <1>1, <2>2, <2>3, <2>4
    <2> QED  BY <2>1, <2>5 DEF Descends, AllRows, RowsIn, KeyOf
  <1> QED  BY <1>1, <1>2, <1>3, <1>4, <1>5 DEF LiveInv

\* Rows of tables that agree in name and key.
LEMMA SameKeyOf ==
    ASSUME NEW t, NEW u, u.schema.name = t.schema.name,
           u.schema.primary_key = t.schema.primary_key, NEW d
    PROVE  KeyOf(t, d) = KeyOf(u, d)
  BY DEF KeyOf, RowPk

LEMMA RowsOfSchema ==
    ASSUME NEW t, NEW u, u.schema = t.schema, NEW n, n = Len(u.rows)
    PROVE  RowsIn(u) = {[key |-> KeyOf(t, u.rows[j]), data |-> u.rows[j]] : j \in 1 .. n}
  <1>1. \A d : KeyOf(u, d) = KeyOf(t, d)
    BY DEF KeyOf
  <1> QED  BY <1>1 DEF RowsIn

LEMMA InsertStep ==
    ASSUME LiveInv, Insert
    PROVE  LiveInv'
  <1>1. PICK t \in live : \E d \in RowsOf(t.schema) : Replace(t, WithRow(t, d), {KeyOf(t, d)})
    BY DEF Insert
  <1>2. PICK d \in RowsOf(t.schema) : Replace(t, WithRow(t, d), {KeyOf(t, d)})
    BY <1>1
  <1>3. IsTable(t) /\ Len(t.rows) \in Nat
    BY TableParts DEF LiveInv, IsDatabase
  <1>4. IsRow(t.schema, d) /\ Admits(WithRow(t, d))
    BY <1>2, <1>3, TableParts, RowToInsert DEF Replace
  <1>5. PICK u : u = WithRow(t, d)
    OBVIOUS
  <1>6. /\ IsTable(u) /\ u.schema = t.schema /\ Len(u.rows) = Len(t.rows) + 1
        /\ \A i \in 1 .. Len(t.rows) + 1 :
             u.rows[i] = IF i = Len(t.rows) + 1 THEN d ELSE t.rows[i]
    BY <1>3, <1>4, <1>5, InsertLeavesTable
  <1>7. ASSUME NEW e \in (RowsIn(t) \ RowsIn(u)) \cup (RowsIn(u) \ RowsIn(t))
        PROVE  e.key \in {KeyOf(t, d)}
    <2> DEFINE n == Len(t.rows)
               f(x) == [key |-> KeyOf(t, x), data |-> x]
    <2>1. RowsIn(t) = {f(t.rows[i]) : i \in 1 .. n} /\ RowsIn(u) = {f(u.rows[i]) : i \in 1 .. n + 1}
      <3>1. RowsIn(t) = {f(t.rows[i]) : i \in 1 .. n}
        BY DEF RowsIn
      <3>2. RowsIn(u) = {f(u.rows[i]) : i \in 1 .. n + 1}
        BY <1>6, RowsOfSchema
      <3> QED  BY <3>1, <3>2
    <2>2. \A i \in 1 .. n : i \in 1 .. n + 1 /\ u.rows[i] = t.rows[i]
      BY <1>3, <1>6
    <2>3. \A i \in 1 .. n + 1 : i \in 1 .. n \/ u.rows[i] = d
      BY <1>3, <1>6
    <2> HIDE DEF f, n
    <2>4. e \in RowsIn(u) \ RowsIn(t)
      BY <2>1, <2>2
    <2>5. e = f(d)
      BY <2>1, <2>2, <2>3, <2>4
    <2> QED  BY <2>5 DEF f
  <1> QED  BY <1>2, <1>5, <1>6, <1>7, ReplaceKeeps

LEMMA DeleteStep ==
    ASSUME LiveInv, Delete
    PROVE  LiveInv'
  <1>1. PICK t \in live : \E i \in 1 .. Len(t.rows) :
            Replace(t, WithoutRow(t, i), {KeyOf(t, t.rows[i])})
    BY DEF Delete
  <1>2. PICK i \in 1 .. Len(t.rows) : Replace(t, WithoutRow(t, i), {KeyOf(t, t.rows[i])})
    BY <1>1
  <1>3. IsTable(t) /\ Len(t.rows) \in Nat
    BY TableParts DEF LiveInv, IsDatabase
  <1>4. Admits(WithoutRow(t, i))
    BY <1>2 DEF Replace
  <1>5. PICK u : u = WithoutRow(t, i)
    OBVIOUS
  <1>6. /\ IsTable(u) /\ u.schema = t.schema /\ Len(u.rows) = Len(t.rows) - 1
        /\ \A j \in 1 .. Len(t.rows) - 1 :
             u.rows[j] = IF j < i THEN t.rows[j] ELSE t.rows[j + 1]
    BY <1>3, <1>4, <1>5, DeleteLeavesTable
  <1>7. ASSUME NEW e \in (RowsIn(t) \ RowsIn(u)) \cup (RowsIn(u) \ RowsIn(t))
        PROVE  e.key \in {KeyOf(t, t.rows[i])}
    <2> DEFINE n == Len(t.rows)
               f(x) == [key |-> KeyOf(t, x), data |-> x]
    <2>1. RowsIn(t) = {f(t.rows[j]) : j \in 1 .. n} /\ RowsIn(u) = {f(u.rows[j]) : j \in 1 .. n - 1}
      <3>1. RowsIn(t) = {f(t.rows[j]) : j \in 1 .. n}
        BY DEF RowsIn
      <3>2. RowsIn(u) = {f(u.rows[j]) : j \in 1 .. n - 1}
        BY <1>6, RowsOfSchema
      <3> QED  BY <3>1, <3>2
    <2>2. \A j \in 1 .. n - 1 : \E k \in 1 .. n : u.rows[j] = t.rows[k]
      <3> SUFFICES ASSUME NEW j \in 1 .. n - 1 PROVE \E k \in 1 .. n : u.rows[j] = t.rows[k]
        OBVIOUS
      <3>1. j \in 1 .. n /\ j + 1 \in 1 .. n
        BY <1>3
      <3> QED  BY <1>6, <3>1
    <2>3. \A k \in 1 .. n : k = i \/ \E j \in 1 .. n - 1 : u.rows[j] = t.rows[k]
      <3> SUFFICES ASSUME NEW k \in 1 .. n, k # i PROVE \E j \in 1 .. n - 1 : u.rows[j] = t.rows[k]
        OBVIOUS
      <3>1. CASE k < i
        <4>1. k \in 1 .. n - 1
          BY <1>3, <3>1
        <4> QED  BY <1>6, <3>1, <4>1
      <3>2. CASE k > i
        <4>1. k - 1 \in 1 .. n - 1 /\ ~(k - 1 < i) /\ (k - 1) + 1 = k
          BY <1>3, <3>2
        <4>2. u.rows[k - 1] = t.rows[(k - 1) + 1]
          BY <1>6, <4>1
        <4> QED  BY <4>1, <4>2
      <3> QED  BY <1>3, <3>1, <3>2
    <2> HIDE DEF f, n
    <2>4. e \in RowsIn(t) \ RowsIn(u)
      BY <2>1, <2>2
    <2>5. e = f(t.rows[i])
      BY <2>1, <2>3, <2>4
    <2> QED  BY <2>5 DEF f
  <1> QED  BY <1>2, <1>5, <1>6, <1>7, ReplaceKeeps

LEMMA UpdateStep ==
    ASSUME LiveInv, Update
    PROVE  LiveInv'
  <1> DEFINE Keyed(t, i, u) == {KeyOf(t, t.rows[i]), KeyOf(t, u.rows[i])}
  <1>1. PICK t \in live : \E i \in 1 .. Len(t.rows) : \E c \in DOMAIN t.rows[i] :
            \E v \in Domain(t.schema, c) :
                Replace(t, SetIn(t, i, c, v), Keyed(t, i, SetIn(t, i, c, v)))
    BY DEF Update, SetIn
  <1>2. PICK i \in 1 .. Len(t.rows) : \E c \in DOMAIN t.rows[i] :
            \E v \in Domain(t.schema, c) :
                Replace(t, SetIn(t, i, c, v), Keyed(t, i, SetIn(t, i, c, v)))
    BY <1>1
  <1>3. PICK c \in DOMAIN t.rows[i] : \E v \in Domain(t.schema, c) :
            Replace(t, SetIn(t, i, c, v), Keyed(t, i, SetIn(t, i, c, v)))
    BY <1>2
  <1>4. PICK v \in Domain(t.schema, c) :
            Replace(t, SetIn(t, i, c, v), Keyed(t, i, SetIn(t, i, c, v)))
    BY <1>3
  <1>5. IsTable(t) /\ Len(t.rows) \in Nat
    BY TableParts DEF LiveInv, IsDatabase
  <1>6. PICK u : u = SetIn(t, i, c, v)
    OBVIOUS
  <1>7. Replace(t, u, Keyed(t, i, u)) /\ Admits(u)
    BY <1>4, <1>6 DEF Replace
  <1>8. /\ IsTable(u) /\ u.schema = t.schema /\ Len(u.rows) = Len(t.rows)
        /\ \A j \in 1 .. Len(t.rows) : j # i => u.rows[j] = t.rows[j]
    BY <1>5, <1>6, <1>7, UpdateLeavesTable
  <1>9. ASSUME NEW e \in (RowsIn(t) \ RowsIn(u)) \cup (RowsIn(u) \ RowsIn(t))
        PROVE  e.key \in Keyed(t, i, u)
    <2> DEFINE f(x) == [key |-> KeyOf(t, x), data |-> x]
               n == Len(t.rows)
    <2>1. RowsIn(t) = {f(t.rows[j]) : j \in 1 .. n} /\ RowsIn(u) = {f(u.rows[j]) : j \in 1 .. n}
      <3>1. RowsIn(t) = {f(t.rows[j]) : j \in 1 .. n}
        BY DEF RowsIn
      <3>2. RowsIn(u) = {f(u.rows[j]) : j \in 1 .. n}
        BY <1>8, RowsOfSchema
      <3> QED  BY <3>1, <3>2
    <2>2. \A x : f(x).key = KeyOf(t, x)
      OBVIOUS
    <2> HIDE DEF f, n
    <2>3. e = f(t.rows[i]) \/ e = f(u.rows[i])
      BY <1>8, <2>1 DEF n
    <2> QED  BY <2>2, <2>3
  <1> HIDE DEF Keyed
  <1> QED  BY <1>7, <1>8, <1>9, ReplaceKeeps

\* The keys of a table are those its rows have.
LEMMA KeysOfRows ==
    ASSUME NEW t, NEW e \in RowsIn(t)
    PROVE  e.key \in AllKeys(t)
  <1>1. PICK i \in 1 .. Len(t.rows) : e = [key |-> KeyOf(t, t.rows[i]), data |-> t.rows[i]]
    BY DEF RowsIn
  <1> QED  BY <1>1 DEF AllKeys

LEMMA AddColumnStep ==
    ASSUME LiveInv, AddColumn
    PROVE  LiveInv'
  <1> DEFINE c == [name |-> "extra", type |-> "text"]
  <1>1. PICK t \in live :
            /\ c.name \notin ColumnNames(t.schema.columns)
            /\ Replace(t, WithColumn(t, c), AllKeys(t) \cup AllKeys(WithColumn(t, c)))
    BY DEF AddColumn
  <1>2. c = [name |-> c.name, type |-> c.type] /\ c.type \in ColumnTypes
    BY DEF ColumnTypes
  <1> HIDE DEF c
  <1>3. PICK u : u = WithColumn(t, c)
    OBVIOUS
  <1>4. IsTable(t) /\ Admits(u)
    BY <1>1, <1>3 DEF LiveInv, IsDatabase, Replace
  <1>5. IsTable(u) /\ u.schema.name = t.schema.name
        /\ u.schema.primary_key = t.schema.primary_key
    BY <1>1, <1>2, <1>3, <1>4, AddColumnLeavesTable
  <1>6. \A e \in (RowsIn(t) \ RowsIn(u)) \cup (RowsIn(u) \ RowsIn(t)) :
            e.key \in AllKeys(t) \cup AllKeys(u)
    BY KeysOfRows
  <1> QED  BY <1>1, <1>3, <1>5, <1>6, ReplaceKeeps

LEMMA ChangeTypeStep ==
    ASSUME LiveInv, ChangeType
    PROVE  LiveInv'
  <1>1. PICK t \in live : \E i \in 1 .. Len(t.schema.columns) :
            /\ t.schema.columns[i].type = "text"
            /\ Replace(t, [t EXCEPT !.schema.columns[i].type = "varchar"], {})
    BY DEF ChangeType
  <1>2. PICK i \in 1 .. Len(t.schema.columns) :
            /\ t.schema.columns[i].type = "text"
            /\ Replace(t, [t EXCEPT !.schema.columns[i].type = "varchar"], {})
    BY <1>1
  <1>3. PICK u : u = [t EXCEPT !.schema.columns[i].type = "varchar"]
    OBVIOUS
  <1>4. IsTable(t) /\ Replace(t, u, {}) /\ Admits(u)
    BY <1>2, <1>3 DEF LiveInv, IsDatabase, Replace
  <1>5. IsTable(u) /\ u.schema.name = t.schema.name
        /\ u.schema.primary_key = t.schema.primary_key /\ u.rows = t.rows
    BY <1>2, <1>3, <1>4, RetypeLeavesTable
  <1>6. RowsIn(u) = RowsIn(t)
    <2>1. \A d : KeyOf(t, d) = KeyOf(u, d)
      BY <1>5, SameKeyOf
    <2> QED  BY <1>5, <2>1 DEF RowsIn
  <1> QED  BY <1>4, <1>5, <1>6, ReplaceKeeps

LEMMA DropTableStep ==
    ASSUME LiveInv, DropTable
    PROVE  LiveInv'
  <1>1. PICK t \in live :
            /\ statements < MaxStatements /\ statements' = statements + 1
            /\ live' = live \ {t} /\ touched' = touched \cup AllKeys(t) /\ recorded' = recorded
    BY DEF DropTable
  <1>2. PICK db \in Databases : recorded = Captured(db) /\ Descends(db)
    BY DEF LiveInv
  <1>3. (statements \in 0 .. MaxStatements)'
    BY <1>1, LiveAssumptions DEF LiveInv
  <1>4. IsDatabase(live)'
    BY <1>1 DEF LiveInv, IsDatabase
  <1>5. Descends(db)'
    <2>1. \A u \in live' : \E r \in db :
            r.schema.name = u.schema.name /\ r.schema.primary_key = u.schema.primary_key
      BY <1>1, <1>2 DEF Descends
    <2>2. AllRows(live') \subseteq AllRows(live)
      BY <1>1 DEF AllRows
    <2>3. \A e \in AllRows(live) \ AllRows(live') : e.key \in AllKeys(t)
      BY <1>1, KeysOfRows DEF AllRows
    <2>4. \A e \in (AllRows(db) \ AllRows(live)) \cup (AllRows(live) \ AllRows(db)) :
            e.key \in touched
      BY <1>2 DEF Descends
    <2>5. \A e \in (AllRows(db) \ AllRows(live')) \cup (AllRows(live') \ AllRows(db)) :
            e.key \in touched'
      <3> HIDE DEF AllRows
      <3> QED  BY <1>1, <2>2, <2>3, <2>4
    <2> QED  BY <2>1, <2>5 DEF Descends, AllRows, RowsIn, KeyOf
  <1> QED  BY <1>1, <1>2, <1>3, <1>4, <1>5 DEF LiveInv

LEMMA CreateTableStep ==
    ASSUME LiveInv, CreateTable
    PROVE  LiveInv'
  <1>1. PICK t \in recorded :
            /\ statements < MaxStatements /\ statements' = statements + 1
            /\ t.schema.name \notin Names(live)
            /\ live' = live \cup {[schema |-> t.schema, rows |-> <<>>]}
            /\ recorded' = recorded /\ touched' = touched
    BY DEF CreateTable
  <1>2. PICK db \in Databases : recorded = Captured(db) /\ Descends(db)
    BY DEF LiveInv
  <1>3. (statements \in 0 .. MaxStatements)'
    BY <1>1, LiveAssumptions DEF LiveInv
  <1>4. PICK r \in db : t.schema = r.schema
    BY <1>1, <1>2 DEF Captured, CaptureTable
  <1>5. PICK u : u = [schema |-> r.schema, rows |-> <<>>]
    OBVIOUS
  <1>6. IsTable(u)
    <2>1. IsSchema(r.schema)
      BY LiveAssumptions, TableParts DEF IsDatabase
    <2> QED  BY <1>5, <2>1, CreateLeavesTable
  <1>7. u.schema = r.schema /\ live' = live \cup {u} /\ RowsIn(u) = {}
    <2>1. u.schema = r.schema /\ u.rows = <<>> /\ 1 .. Len(<<>>) = {}
      BY <1>5
    <2>2. RowsIn(u) = {}
      BY <2>1 DEF RowsIn
    <2> QED  BY <1>1, <1>4, <1>5, <2>1, <2>2
  <1>8. IsDatabase(live)'
    <2>1. (\A x \in live : IsTable(x)) /\ \A x, y \in live : x.schema.name = y.schema.name => x = y
      BY DEF LiveInv, IsDatabase
    <2>2. \A x \in live : x.schema.name # u.schema.name
      BY <1>1, <1>4, <1>7 DEF Names
    <2>3. (\A x \in live' : IsTable(x))
          /\ \A x, y \in live' : x.schema.name = y.schema.name => x = y
      BY <1>6, <1>7, <2>1, <2>2
    <2> QED  BY <2>3 DEF IsDatabase
  <1>9. Descends(db)'
    <2>1. \A x \in live' : \E y \in db :
            y.schema.name = x.schema.name /\ y.schema.primary_key = x.schema.primary_key
      BY <1>2, <1>7 DEF Descends
    <2>2. AllRows(live') = AllRows(live)
      BY <1>7 DEF AllRows
    <2>3. \A e \in (AllRows(db) \ AllRows(live')) \cup (AllRows(live') \ AllRows(db)) :
            e.key \in touched'
      <3> HIDE DEF AllRows
      <3> QED  BY <1>1, <1>2, <2>2 DEF Descends
    <2> QED  BY <2>1, <2>3 DEF Descends, AllRows, RowsIn, KeyOf
  <1> QED  BY <1>1, <1>2, <1>3, <1>8, <1>9 DEF LiveInv

THEOREM LiveInvariant == Spec => []LiveInv
  <1>1. Init => LiveInv
    <2> SUFFICES ASSUME Init PROVE LiveInv
      OBVIOUS
    <2>1. statements \in 0 .. MaxStatements
      BY LiveAssumptions DEF Init
    <2>2. IsDatabase(live)
      BY LiveAssumptions DEF Init
    <2>3. Descends(live)
      BY DEF Descends
    <2> QED  BY <2>1, <2>2, <2>3 DEF Init, LiveInv
  <1>2. LiveInv /\ [Next]_vars => LiveInv'
    <2> SUFFICES ASSUME LiveInv, [Next]_vars PROVE LiveInv'
      OBVIOUS
    <2>1. CASE UNCHANGED vars
      BY <2>1 DEF vars, LiveInv, IsDatabase, Descends, AllRows, RowsIn, KeyOf
    <2>2. CASE Next
      BY <2>2, InsertStep, DeleteStep, UpdateStep, AddColumnStep, ChangeTypeStep,
         DropTableStep, CreateTableStep DEF Next
    <2> QED  BY <2>1, <2>2
  <1> QED  BY <1>1, <1>2, PTL DEF Spec

(* The rows of a captured table, by their keys *)

LEMMA CapturedRows ==
    ASSUME NEW t, IsTable(t)
    PROVE  /\ CaptureTable(t).schema = t.schema
           /\ Len(CaptureTable(t).rows) = Len(t.rows)
           /\ \A i \in 1 .. Len(t.rows) :
                CaptureTable(t).rows[i] = MakeRecord(t.schema, t.rows[i])
  <1> DEFINE n == Len(t.rows)
             f(i) == MakeRecord(t.schema, t.rows[i])
             rows == [i \in 1 .. n |-> f(i)]
  <1>1. n \in Nat /\ CaptureTable(t) = [schema |-> t.schema, rows |-> rows]
    BY TableParts DEF CaptureTable
  <1>2. Len(rows) = n /\ \A i \in 1 .. n : rows[i] = f(i)
    <2> HIDE DEF n, f
    <2> QED  BY <1>1
  <1> HIDE DEF rows
  <1> QED  BY <1>1, <1>2

LEMMA RecordParts ==
    ASSUME NEW s, NEW d
    PROVE  /\ MakeRecord(s, d).pk = RowPk(s, d) /\ MakeRecord(s, d).data = d
           /\ MakeRecord(s, d).hash = RowHash(d)
  BY DEF MakeRecord

\* A row's identity decides its value; in a keyed table no two rows share one.
LEMMA PkDecides ==
    ASSUME NEW t, IsTable(t), NEW i \in 1 .. Len(t.rows), NEW j \in 1 .. Len(t.rows),
           RowPk(t.schema, t.rows[i]) = RowPk(t.schema, t.rows[j])
    PROVE  t.rows[i] = t.rows[j] /\ (t.schema.primary_key # <<>> => i = j)
  <1> DEFINE key == t.schema.primary_key
             a == t.rows[i]
             b == t.rows[j]
  <1>1. CASE key = <<>>
    <2>1. [row |-> a] = [row |-> b]
      BY <1>1 DEF RowPk
    <2>2. [row |-> a].row = [row |-> b].row
      BY <2>1
    <2> QED  BY <1>1, <2>2
  <1>2. CASE key # <<>>
    <2> DEFINE f == [k \in 1 .. Len(key) |-> KeyText(a, key[k])]
               g == [k \in 1 .. Len(key) |-> KeyText(b, key[k])]
    <2>1. [key |-> f] = [key |-> g]
      BY <1>2 DEF RowPk
    <2>2. f = g
      <3> HIDE DEF f, g
      <3> QED  BY <2>1
    <2>3. \A k \in 1 .. Len(key) : KeyText(a, key[k]) = KeyText(b, key[k])
      BY <2>2
    <2>4. ASSUME NEW c \in KeyColumns(key) PROVE a[c] = b[c]
      <3>1. KeyText(a, c) = KeyText(b, c)
        BY <2>3 DEF KeyColumns
      <3>2. c \in ColumnNames(t.schema.columns)
        BY TableParts DEF IsSchema
      <3>3. \A k \in 1 .. Len(t.rows) : DOMAIN t.rows[k] = ColumnNames(t.schema.columns)
        <4> SUFFICES ASSUME NEW k \in 1 .. Len(t.rows)
                     PROVE  DOMAIN t.rows[k] = ColumnNames(t.schema.columns)
          OBVIOUS
        <4> DEFINE d == t.rows[k]
                   C == ColumnNames(t.schema.columns)
        <4>1. d = [x \in C |-> d[x]]
          BY TableParts DEF IsRow
        <4> HIDE DEF d, C
        <4>2. DOMAIN d = C
          BY <4>1
        <4> QED  BY <4>2 DEF d, C
      <3> QED  BY <3>1, <3>2, <3>3 DEF KeyText
    <2>5. i = j
      <3>1. Admits(t)
        BY TableParts
      <3>2. (\A c \in KeyColumns(key) : a[c] = b[c]) => i = j
        BY <1>2, <3>1 DEF Admits
      <3> HIDE DEF key, a, b
      <3> QED  BY <2>4, <3>2
    <2> QED  BY <2>5
  <1> QED  BY <1>1, <1>2

\* The map of the rows of a captured table.
RowMap(t) == LastByKey(CaptureTable(t).rows)

LEMMA RowMapOnly ==
    ASSUME NEW t, IsTable(t), NEW k \in DOMAIN RowMap(t)
    PROVE  \E i \in 1 .. Len(t.rows) :
               k = RowPk(t.schema, t.rows[i]) /\ RowMap(t)[k] = MakeRecord(t.schema, t.rows[i])
  <1> DEFINE rows == CaptureTable(t).rows
  <1>1. Len(rows) \in Nat /\ Len(rows) = Len(t.rows)
        /\ \A i \in 1 .. Len(t.rows) : rows[i] = MakeRecord(t.schema, t.rows[i])
    BY CapturedRows, TableParts
  <1>2. RowMap(t) = LastByKey(rows)
    BY DEF RowMap
  <1> HIDE DEF rows
  <1>3. PICK i \in 1 .. Len(rows) : rows[i].pk = k /\ LastByKey(rows)[k] = rows[i]
    BY <1>1, <1>2, LastIsThere
  <1> QED  BY <1>1, <1>2, <1>3, RecordParts

LEMMA RowMapAt ==
    ASSUME NEW t, IsTable(t), NEW i \in 1 .. Len(t.rows)
    PROVE  /\ RowPk(t.schema, t.rows[i]) \in DOMAIN RowMap(t)
           /\ RowMap(t)[RowPk(t.schema, t.rows[i])] = MakeRecord(t.schema, t.rows[i])
  <1> DEFINE rows == CaptureTable(t).rows
             k == RowPk(t.schema, t.rows[i])
  <1>1. Len(rows) \in Nat /\ Len(rows) = Len(t.rows) /\ rows[i].pk = k
    BY CapturedRows, TableParts, RecordParts
  <1>2. k \in DOMAIN RowMap(t)
    <2> HIDE DEF rows, k
    <2>1. k \in DOMAIN LastByKey(rows)
      BY <1>1, LastOfKey
    <2> QED  BY <2>1 DEF RowMap, rows
  <1>3. PICK j \in 1 .. Len(t.rows) :
            k = RowPk(t.schema, t.rows[j]) /\ RowMap(t)[k] = MakeRecord(t.schema, t.rows[j])
    <2> HIDE DEF k
    <2> QED  BY <1>2, RowMapOnly
  <1>4. t.rows[i] = t.rows[j]
    BY <1>3, PkDecides
  <1> QED  BY <1>2, <1>3, <1>4

\* In a keyed table no row is lost in the map.
LEMMA KeyedMapIsWhole ==
    ASSUME NEW t, IsTable(t), t.schema.primary_key # <<>>
    PROVE  Cardinality(DOMAIN RowMap(t)) = Len(t.rows)
  <1> DEFINE n == Len(t.rows)
             D == DOMAIN RowMap(t)
             f == [i \in 1 .. n |-> RowPk(t.schema, t.rows[i])]
  <1>1. n \in Nat
    BY TableParts
  <1>2. f \in [1 .. n -> D]
    BY RowMapAt
  <1>3. \A i, j \in 1 .. n : f[i] = f[j] => i = j
    BY PkDecides
  <1>4. \A k \in D : \E i \in 1 .. n : f[i] = k
    BY RowMapOnly
  <1> HIDE DEF n, D, f
  <1>5. f \in Bijection(1 .. n, D)
    BY <1>2, <1>3, <1>4 DEF Bijection, Injection, Surjection, IsInjective
  <1>6. IsFiniteSet(1 .. n) /\ Cardinality(1 .. n) = n
    BY <1>1, IntervalSize
  <1>7. Cardinality(D) = n
    BY <1>1, <1>5, <1>6, FS_CountingElements DEF ExistsBijection
  <1> QED  BY <1>7 DEF D, n

\* Table names stay unique, and in a keyed table no row is lost in the map of rows.
THEOREM LiveTypes == Spec => []LiveTypeOK
  <1>1. LiveInv => LiveTypeOK
    <2> SUFFICES ASSUME LiveInv PROVE LiveTypeOK
      OBVIOUS
    <2>1. ASSUME NEW c \in Captured(live), c.schema.primary_key # <<>>
          PROVE  Cardinality(DOMAIN LastByKey(c.rows)) = Len(c.rows)
      <3>1. PICK t \in live : c = CaptureTable(t)
        BY DEF Captured
      <3>2. IsTable(t)
        BY DEF LiveInv, IsDatabase
      <3> QED  BY <2>1, <3>1, <3>2, CapturedRows, KeyedMapIsWhole DEF RowMap
    <2> QED  BY <2>1 DEF LiveInv, IsDatabase, LiveTypeOK
  <1> QED  BY <1>1, LiveInvariant, PTL

(* A table that is on both sides *)

Sides(x, o, u) ==
    /\ IsTable(o) /\ IsTable(u) /\ o.schema.name = x /\ u.schema.name = x
    /\ o.schema.primary_key = u.schema.primary_key
    /\ Named(recorded, x) = CaptureTable(o) /\ Named(Captured(live), x) = CaptureTable(u)
    /\ Named(live, x) = u
    /\ \A e \in (RowsIn(o) \ RowsIn(u)) \cup (RowsIn(u) \ RowsIn(o)) : e.key \in touched

LEMMA TwoSides ==
    ASSUME LiveInv, NEW x \in Names(recorded) \cap Names(Captured(live))
    PROVE  \E o, u : Sides(x, o, u)
  <1>1. PICK db \in Databases : recorded = Captured(db) /\ Descends(db)
    BY DEF LiveInv
  <1>2. IsDatabase(db) /\ IsDatabase(live)
    BY LiveAssumptions DEF LiveInv
  <1>3. OneOfEachName(db) /\ OneOfEachName(live)
    BY <1>2 DEF IsDatabase, OneOfEachName
  <1>4. x \in Names(db) /\ x \in Names(live)
    BY <1>1, NamesCaptured
  <1>5. PICK o \in db : o = Named(db, x) /\ o.schema.name = x
    BY <1>4, NamedIsThere
  <1>6. PICK u \in live : u = Named(live, x) /\ u.schema.name = x
    BY <1>4, NamedIsThere
  <1>7. Named(recorded, x) = CaptureTable(o) /\ Named(Captured(live), x) = CaptureTable(u)
    BY <1>1, <1>3, <1>4, <1>5, <1>6, CapturedNamed
  <1>8. o.schema.primary_key = u.schema.primary_key
    <2>1. PICK t \in db : t.schema.name = u.schema.name
                          /\ t.schema.primary_key = u.schema.primary_key
      BY <1>1 DEF Descends
    <2>2. t = o
      BY <1>3, <1>5, <1>6, <2>1 DEF OneOfEachName
    <2> QED  BY <2>1, <2>2
  <1>9. ASSUME NEW e \in (RowsIn(o) \ RowsIn(u)) \cup (RowsIn(u) \ RowsIn(o))
        PROVE  e.key \in touched
    <2>1. \A t : \A d \in RowsIn(t) : d.key[1] = t.schema.name
      BY DEF RowsIn, KeyOf
    <2>2. \A t \in db : e \in RowsIn(t) => t = o
      BY <1>3, <1>5, <1>6, <2>1 DEF OneOfEachName
    <2>3. \A t \in live : e \in RowsIn(t) => t = u
      BY <1>3, <1>5, <1>6, <2>1 DEF OneOfEachName
    <2>4. e \in (AllRows(db) \ AllRows(live)) \cup (AllRows(live) \ AllRows(db))
      BY <2>2, <2>3 DEF AllRows
    <2> QED  BY <1>1, <2>4 DEF Descends
  <1> QED  BY <1>2, <1>5, <1>6, <1>7, <1>8, <1>9 DEF Sides, IsDatabase

\* A report on a table is the comparison of two such maps.
LEMMA ReportedTable ==
    ASSUME LiveInv, NEW d \in Report.tables
    PROVE  \E o, u : /\ Sides(d.table, o, u)
                     /\ d = DiffTables(CaptureTable(o), CaptureTable(u))
  <1>1. PICK x \in Names(recorded) \cap Names(Captured(live)) :
            d = DiffTables(Named(recorded, x), Named(Captured(live), x)) /\ d.table = x
    BY DiffedTables DEF Report
  <1>2. PICK o, u : Sides(x, o, u)
    BY TwoSides
  <1> QED  BY <1>1, <1>2 DEF Sides

LEMMA DiffOfMaps ==
    ASSUME NEW o, NEW u
    PROVE  /\ DiffTables(CaptureTable(o), CaptureTable(u)).inserted = DOMAIN RowMap(u) \ DOMAIN RowMap(o)
           /\ DiffTables(CaptureTable(o), CaptureTable(u)).deleted = DOMAIN RowMap(o) \ DOMAIN RowMap(u)
           /\ \A k \in DOMAIN RowMap(o) \cap DOMAIN RowMap(u) :
                ~SameRow(RowMap(o)[k], RowMap(u)[k]) =>
                    DiffTables(CaptureTable(o), CaptureTable(u)).updated # {}
  <1> DEFINE m == LastByKey(CaptureTable(o).rows)
             n == LastByKey(CaptureTable(u).rows)
             K == {x \in DOMAIN m \cap DOMAIN n : ~SameRow(m[x], n[x])}
             f(k) == [pk |-> k, columns |-> ColumnChanges(m[k].data, n[k].data)]
             d == DiffTables(CaptureTable(o), CaptureTable(u))
  <1>1. d.inserted = DOMAIN n \ DOMAIN m /\ d.deleted = DOMAIN m \ DOMAIN n
        /\ d.updated = {f(k) : k \in K}
    BY DEF DiffTables, OnlyIn
  <1> HIDE DEF m, n, f, d
  <1>2. d.inserted = DOMAIN n \ DOMAIN m /\ d.deleted = DOMAIN m \ DOMAIN n
        /\ \A k \in DOMAIN m \cap DOMAIN n : ~SameRow(m[k], n[k]) => d.updated # {}
    BY <1>1
  <1> QED  BY <1>2 DEF RowMap, m, n, d

\* A row of one side under its key: the same entry is on the other side, or it was
\* touched.
LEMMA UntouchedRows ==
    ASSUME NEW x, NEW o, NEW u, Sides(x, o, u), NEW k, <<x, k>> \notin touched
    PROVE  /\ k \in DOMAIN RowMap(o) <=> k \in DOMAIN RowMap(u)
           /\ k \in DOMAIN RowMap(o) => SameRow(RowMap(o)[k], RowMap(u)[k])
  <1>1. \A s, t : IsTable(s) /\ IsTable(t) /\ s.schema.name = x /\ t.schema.name = x
            /\ (\A e \in RowsIn(s) \ RowsIn(t) : e.key \in touched)
            /\ k \in DOMAIN RowMap(s)
            => k \in DOMAIN RowMap(t) /\ SameRow(RowMap(s)[k], RowMap(t)[k])
    <2> SUFFICES ASSUME NEW s, NEW t, IsTable(s), IsTable(t), s.schema.name = x, t.schema.name = x,
                        \A e \in RowsIn(s) \ RowsIn(t) : e.key \in touched,
                        k \in DOMAIN RowMap(s)
                 PROVE  k \in DOMAIN RowMap(t) /\ SameRow(RowMap(s)[k], RowMap(t)[k])
      OBVIOUS
    <2>1. PICK i \in 1 .. Len(s.rows) :
              k = RowPk(s.schema, s.rows[i]) /\ RowMap(s)[k] = MakeRecord(s.schema, s.rows[i])
      BY RowMapOnly
    <2>2. PICK e : e = [key |-> KeyOf(s, s.rows[i]), data |-> s.rows[i]]
      OBVIOUS
    <2>3. e.key = <<x, k>> /\ e \in RowsIn(s)
      BY <2>1, <2>2 DEF KeyOf, RowsIn
    <2>4. e \in RowsIn(t)
      BY <2>3
    <2>5. PICK j \in 1 .. Len(t.rows) : e = [key |-> KeyOf(t, t.rows[j]), data |-> t.rows[j]]
      BY <2>4 DEF RowsIn
    <2>6. t.rows[j] = s.rows[i] /\ RowPk(t.schema, t.rows[j]) = k
      <3>1. e.data = t.rows[j] /\ e.key = KeyOf(t, t.rows[j]) /\ e.data = s.rows[i]
        BY <2>2, <2>5
      <3>2. <<t.schema.name, RowPk(t.schema, t.rows[j])>> = <<x, k>>
        BY <2>3, <3>1 DEF KeyOf
      <3> QED  BY <3>1, <3>2
    <2>7. k \in DOMAIN RowMap(t) /\ RowMap(t)[k] = MakeRecord(t.schema, t.rows[j])
      BY <2>6, RowMapAt
    <2>8. MakeRecord(t.schema, t.rows[j]).hash = MakeRecord(s.schema, s.rows[i]).hash
      BY <2>6, RecordParts
    <2> QED  BY <2>1, <2>7, <2>8 DEF SameRow
  <1>2. \A e \in RowsIn(o) \ RowsIn(u) : e.key \in touched
    BY DEF Sides
  <1>3. \A e \in RowsIn(u) \ RowsIn(o) : e.key \in touched
    BY DEF Sides
  <1>4. IsTable(o) /\ IsTable(u) /\ o.schema.name = x /\ u.schema.name = x
    BY DEF Sides
  <1> QED  BY <1>1, <1>2, <1>3, <1>4

\* The report names no row that no statement wrote.
THEOREM ReportsNameTouched == Spec => []ReportsOnlyTouched
  <1>1. LiveInv => ReportsOnlyTouched
    <2> SUFFICES ASSUME LiveInv, NEW d \in Report.tables,
                        NEW k \in d.inserted \cup d.deleted \cup {c.pk : c \in d.updated},
                        <<d.table, k>> \notin touched
                 PROVE  FALSE
      BY DEF ReportsOnlyTouched
    <2>1. PICK o, u : Sides(d.table, o, u) /\ d = DiffTables(CaptureTable(o), CaptureTable(u))
      BY ReportedTable
    <2>2. /\ k \in DOMAIN RowMap(o) <=> k \in DOMAIN RowMap(u)
          /\ k \in DOMAIN RowMap(o) => SameRow(RowMap(o)[k], RowMap(u)[k])
      BY <2>1, UntouchedRows
    <2>3. k \notin d.inserted \cup d.deleted
      BY <2>1, <2>2, DiffOfMaps
    <2>4. PICK c \in d.updated : k = c.pk
      BY <2>3
    <2>5. /\ k \in DOMAIN RowMap(o) \cap DOMAIN RowMap(u)
          /\ ~SameRow(RowMap(o)[k], RowMap(u)[k])
      BY <2>1, <2>4, UpdatedRows DEF RowMap
    <2> QED  BY <2>2, <2>5
  <1> QED  BY <1>1, LiveInvariant, PTL

\* The rows of a table are those of its map.
LEMMA RowSetOfMap ==
    ASSUME NEW t, IsTable(t)
    PROVE  RowSet(CaptureTable(t)) = {RowMap(t)[k].data : k \in DOMAIN RowMap(t)}
  <1>1. RowSet(CaptureTable(t)) = {t.rows[i] : i \in 1 .. Len(t.rows)}
    <2>1. Len(CaptureTable(t).rows) = Len(t.rows)
      BY CapturedRows
    <2>2. \A i \in 1 .. Len(t.rows) : CaptureTable(t).rows[i].data = t.rows[i]
      BY CapturedRows, RecordParts
    <2> QED  BY <2>1, <2>2 DEF RowSet
  <1>2. ASSUME NEW i \in 1 .. Len(t.rows)
        PROVE  \E k \in DOMAIN RowMap(t) : t.rows[i] = RowMap(t)[k].data
    BY RowMapAt, RecordParts
  <1>3. ASSUME NEW k \in DOMAIN RowMap(t)
        PROVE  \E i \in 1 .. Len(t.rows) : t.rows[i] = RowMap(t)[k].data
    BY RowMapOnly, RecordParts
  <1> QED  BY <1>1, <1>2, <1>3

LEMMA SameRowSameData ==
    ASSUME NEW o, NEW u, IsTable(o), IsTable(u), NEW k \in DOMAIN RowMap(o) \cap DOMAIN RowMap(u)
    PROVE  SameRow(RowMap(o)[k], RowMap(u)[k]) <=> RowMap(o)[k].data = RowMap(u)[k].data
  <1>1. PICK i \in 1 .. Len(o.rows) : RowMap(o)[k] = MakeRecord(o.schema, o.rows[i])
    BY RowMapOnly
  <1>2. PICK j \in 1 .. Len(u.rows) : RowMap(u)[k] = MakeRecord(u.schema, u.rows[j])
    BY RowMapOnly
  <1>3. RowHash(o.rows[i]) = RowHash(u.rows[j]) <=> o.rows[i] = u.rows[j]
    BY DEF RowHash
  <1> QED  BY <1>1, <1>2, <1>3, RecordParts DEF SameRow

\* What an empty report says of the tables.
LEMMA EmptyReport ==
    ASSUME IsEmpty(Report)
    PROVE  /\ Names(recorded) = Names(Captured(live))
           /\ \A x \in Names(recorded) :
                IsEmptyTable(DiffTables(Named(recorded, x), Named(Captured(live), x)))
  BY DEF IsEmpty, Report, DiffSnapshots

\* An empty report means that the same tables hold the same set of rows.
THEOREM EmptyIsSame == Spec => []EmptyMeansSameRows
  <1>1. LiveInv => EmptyMeansSameRows
    <2> SUFFICES ASSUME LiveInv, IsEmpty(Report)
                 PROVE  /\ Names(recorded) = Names(live)
                        /\ \A t \in recorded :
                             RowSet(t) = RowSet(Named(Captured(live), t.schema.name))
      BY DEF EmptyMeansSameRows
    <2>1. Names(recorded) = Names(Captured(live)) /\ Names(recorded) = Names(live)
      BY EmptyReport, NamesCaptured
    <2>2. ASSUME NEW t \in recorded
          PROVE  RowSet(t) = RowSet(Named(Captured(live), t.schema.name))
      <3> DEFINE x == t.schema.name
      <3>1. x \in Names(recorded) \cap Names(Captured(live))
        BY <2>1 DEF Names
      <3>2. PICK o, u : Sides(x, o, u)
        BY <3>1, TwoSides
      <3>3. t = CaptureTable(o)
        <4>1. PICK db \in Databases : recorded = Captured(db)
          BY DEF LiveInv
        <4>2. OneOfEachName(recorded)
          BY <4>1, CapturedOneOfEach, LiveAssumptions DEF IsDatabase, OneOfEachName
        <4>3. Named(recorded, x) = t
          BY <4>2, NamedIsTheOne
        <4> QED  BY <3>2, <4>3 DEF Sides
      <3>4. IsEmptyTable(DiffTables(CaptureTable(o), CaptureTable(u)))
        BY <3>1, <3>2, EmptyReport DEF Sides
      <3>5. DOMAIN RowMap(o) = DOMAIN RowMap(u)
            /\ \A k \in DOMAIN RowMap(o) : SameRow(RowMap(o)[k], RowMap(u)[k])
        <4> DEFINE d == DiffTables(CaptureTable(o), CaptureTable(u))
        <4>1. d.inserted = {} /\ d.deleted = {} /\ d.updated = {}
          BY <3>4 DEF IsEmptyTable
        <4>2. d.inserted = DOMAIN RowMap(u) \ DOMAIN RowMap(o)
              /\ d.deleted = DOMAIN RowMap(o) \ DOMAIN RowMap(u)
          BY DiffOfMaps
        <4>3. ASSUME NEW k \in DOMAIN RowMap(o) \cap DOMAIN RowMap(u)
              PROVE  SameRow(RowMap(o)[k], RowMap(u)[k])
          BY <4>1, DiffOfMaps
        <4> HIDE DEF d
        <4> QED  BY <4>1, <4>2, <4>3
      <3>6. IsTable(o) /\ IsTable(u)
        BY <3>2 DEF Sides
      <3>7. \A k \in DOMAIN RowMap(o) : RowMap(o)[k].data = RowMap(u)[k].data
        BY <3>5, <3>6, SameRowSameData
      <3>8. RowSet(CaptureTable(o)) = RowSet(CaptureTable(u))
        BY <3>5, <3>6, <3>7, RowSetOfMap
      <3> QED  BY <3>2, <3>3, <3>8 DEF Sides
    <2> QED  BY <2>1, <2>2
  <1> QED  BY <1>1, LiveInvariant, PTL

(* The exports *)

\* What a column of each type makes of the literal of a value that fits it: the
\* value, which is not refused.
LEMMA LiteralStored ==
    ASSUME NEW type \in ColumnTypes, NEW v, Fits(type, v), Recreated(type, v)
    PROVE  StoredAs(type, SqlLiteral(v)) = v /\ v # Refused
  <1>1. v # Refused
    BY DEF Fits
  <1>2. CASE v = "null"
    <2>1. KindOf(v) = "null"
      BY <1>2 DEF KindOf, Numbers, Booleans, Structures
    <2>2. SqlLiteral(v).type = "null"
      BY <2>1 DEF SqlLiteral
    <2> QED  BY <1>1, <1>2, <2>2 DEF StoredAs
  <1>3. CASE v # "null" /\ type \in {"text", "varchar"}
    <2>1. KindOf(v) \in {"null", "string"}
      BY <1>3 DEF Fits
    <2>2. KindOf(v) = "string"
      BY <1>3, <2>1 DEF KindOf
    <2>3. SqlLiteral(v).type = "unknown" /\ SqlLiteral(v).text = v
      BY <2>2 DEF SqlLiteral
    <2> QED  BY <1>1, <1>3, <2>3 DEF StoredAs
  <1>4. CASE v # "null" /\ type = "integer"
    <2>1. KindOf(v) \in {"null", "number"}
      BY <1>4 DEF Fits
    <2>2. v = "+7" /\ KindOf(v) = "number"
      BY <1>4, <2>1 DEF KindOf, Numbers, Booleans, Structures
    <2>3. SqlLiteral(v).type = "numeric" /\ SqlLiteral(v).text = "7"
      BY <2>2 DEF SqlLiteral, TextOf
    <2> QED  BY <1>1, <1>4, <2>2, <2>3 DEF StoredAs
  <1>5. CASE v # "null" /\ type = "boolean"
    <2>1. KindOf(v) \in {"null", "bool"}
      BY <1>5 DEF Fits
    <2>2. v \in Booleans /\ KindOf(v) = "bool"
      BY <1>5, <2>1 DEF KindOf, Numbers, Booleans, Structures
    <2>3. SqlLiteral(v).type = "boolean" /\ SqlLiteral(v).text = v
      BY <2>2 DEF SqlLiteral
    <2> QED  BY <1>1, <1>5, <2>2, <2>3 DEF StoredAs
  <1>6. CASE v # "null" /\ type = "jsonb" /\ KindOf(v) = "structure"
    <2>1. SqlLiteral(v).type = "jsonb" /\ SqlLiteral(v).text = v
      BY <1>6 DEF SqlLiteral
    <2> QED  BY <1>1, <1>6, <2>1 DEF StoredAs
  <1> QED  BY <1>2, <1>3, <1>4, <1>5, <1>6 DEF Recreated

\* Replaying the SQL export of a table gives such rows back.
LEMMA ReplaysTable ==
    ASSUME NEW t, IsTable(t), NEW i \in 1 .. Len(t.rows),
           \A c \in DOMAIN t.rows[i] : Recreated(TypeOf(t.schema, c), t.rows[i][c])
    PROVE  Replayed(CaptureTable(t))[i] = t.rows[i]
  <1> DEFINE w == CaptureTable(t)
             d == t.rows[i]
             C == ColumnNames(t.schema.columns)
             literals == InsertOf(t.schema, d)
             row == [c \in DOMAIN literals |-> StoredAs(TypeOf(t.schema, c), literals[c])]
  <1>1. w.schema = t.schema /\ Len(w.rows) = Len(t.rows) /\ w.rows[i].data = d
    BY CapturedRows, RecordParts
  <1>2. IsRow(t.schema, d) /\ IsSchema(t.schema)
    BY TableParts
  <1>3. d = [c \in C |-> d[c]] /\ \A c \in C : Fits(TypeOf(t.schema, c), d[c])
    BY <1>2 DEF IsRow
  <1>4. DOMAIN d = C
    <2> HIDE DEF d, C
    <2> QED  BY <1>3
  <1> HIDE DEF w
  <1>5. ExportSql(w)[i] = literals
    BY <1>1 DEF ExportSql
  <1>6. Replayed(w)[i] = Executed(t.schema, literals)
    BY <1>1, <1>5 DEF Replayed
  <1>7. DOMAIN literals = C /\ \A c \in C : literals[c] = SqlLiteral(Get(d, c))
    BY DEF InsertOf
  <1>8. ASSUME NEW c \in C PROVE row[c] = d[c] /\ row[c] # Refused
    <2>1. TypeOf(t.schema, c) \in ColumnTypes
      BY <1>2, TypesInSchema
    <2>2. Recreated(TypeOf(t.schema, c), d[c])
      BY <1>4
    <2>3. literals[c] = SqlLiteral(d[c])
      BY <1>4, <1>7 DEF Get
    <2>4. row[c] = StoredAs(TypeOf(t.schema, c), literals[c])
      BY <1>7
    <2> HIDE DEF row, literals, d, C
    <2> QED  BY <1>3, <2>1, <2>2, <2>3, <2>4, LiteralStored
  <1>9. row = d
    <2>1. row = [c \in C |-> row[c]]
      BY <1>7
    <2> HIDE DEF row, literals, d, C
    <2>2. row = [c \in C |-> d[c]]
      BY <1>8, <2>1
    <2> QED  BY <1>3, <2>2
  <1>10. Executed(t.schema, literals) = row
    <2>1. DOMAIN row = C
      BY <1>7
    <2> HIDE DEF literals, d, C
    <2> QED  BY <1>8, <2>1 DEF Executed
  <1> HIDE DEF row, literals
  <1> QED  BY <1>6, <1>9, <1>10 DEF w, d

\* A table that exports to JSON as the recorded one has the rows it had.
LEMMA SameRowsNoDiff ==
    ASSUME NEW x, NEW o, NEW u, Sides(x, o, u), Len(o.rows) = Len(u.rows),
           \A i \in 1 .. Len(o.rows) : o.rows[i] = u.rows[i]
    PROVE  IsEmptyTable(DiffTables(CaptureTable(o), CaptureTable(u)))
  <1> DEFINE d == DiffTables(CaptureTable(o), CaptureTable(u))
  <1>1. \A r : RowPk(o.schema, r) = RowPk(u.schema, r)
    BY DEF Sides, RowPk
  <1>2. IsTable(o) /\ IsTable(u)
    BY DEF Sides
  <1>3. ASSUME NEW k \in DOMAIN RowMap(o)
        PROVE  k \in DOMAIN RowMap(u) /\ SameRow(RowMap(o)[k], RowMap(u)[k])
    <2>1. PICK i \in 1 .. Len(o.rows) :
              k = RowPk(o.schema, o.rows[i]) /\ RowMap(o)[k] = MakeRecord(o.schema, o.rows[i])
      BY <1>2, <1>3, RowMapOnly
    <2>2. i \in 1 .. Len(u.rows) /\ k = RowPk(u.schema, u.rows[i]) /\ u.rows[i] = o.rows[i]
      BY <1>1, <2>1
    <2>3. k \in DOMAIN RowMap(u) /\ RowMap(u)[k] = MakeRecord(u.schema, u.rows[i])
      BY <1>2, <2>2, RowMapAt
    <2> QED  BY <2>1, <2>2, <2>3, RecordParts DEF SameRow
  <1>4. ASSUME NEW k \in DOMAIN RowMap(u) PROVE k \in DOMAIN RowMap(o)
    <2>1. PICK i \in 1 .. Len(u.rows) : k = RowPk(u.schema, u.rows[i])
      BY <1>2, <1>4, RowMapOnly
    <2>2. i \in 1 .. Len(o.rows) /\ k = RowPk(o.schema, o.rows[i])
      BY <1>1, <2>1
    <2> QED  BY <1>2, <2>2, RowMapAt
  <1>5. d.inserted = {} /\ d.deleted = {}
    BY <1>3, <1>4, DiffOfMaps
  <1>6. d.updated = {}
    <2> SUFFICES ASSUME NEW c \in d.updated PROVE FALSE
      OBVIOUS
    <2>1. /\ c.pk \in DOMAIN RowMap(o) \cap DOMAIN RowMap(u)
          /\ ~SameRow(RowMap(o)[c.pk], RowMap(u)[c.pk])
      BY UpdatedRows DEF RowMap
    <2> QED  BY <1>3, <2>1
  <1> HIDE DEF d
  <1> QED  BY <1>5, <1>6 DEF IsEmptyTable, d

LEMMA SelectedOne ==
    ASSUME NEW ts, OneOfEachName(ts), NEW x
    PROVE  /\ x \in Names(Selected(ts, x)) <=> x \in Names(ts)
           /\ x \in Names(ts) => Named(Selected(ts, x), x) = Named(ts, x)
  <1>1. \A t \in ts : t.schema.name = x => t \in Selected(ts, x)
    BY DEF Selected
  <1>2. Selected(ts, x) \subseteq ts
    BY DEF Selected
  <1>3. OneOfEachName(Selected(ts, x))
    BY <1>2 DEF OneOfEachName
  <1>4. x \in Names(Selected(ts, x)) <=> x \in Names(ts)
    BY <1>1, <1>2 DEF Names
  <1>5. ASSUME x \in Names(ts) PROVE Named(Selected(ts, x), x) = Named(ts, x)
    <2>1. PICK t \in ts : t.schema.name = x
      BY <1>5 DEF Names
    <2>2. Named(ts, x) = t
      BY <2>1, NamedIsTheOne
    <2>3. Named(Selected(ts, x), x) = t
      BY <1>1, <1>3, <2>1, NamedIsTheOne
    <2> QED  BY <2>2, <2>3
  <1> QED  BY <1>4, <1>5

\* When every table exports to JSON as it was recorded, nothing is reported.
LEMMA SameExportNoReport ==
    ASSUME LiveInv,
           \A x \in Names(live) \cup Names(recorded) :
               ExportJson(Selected(Captured(live), x)) = ExportJson(Selected(recorded, x))
    PROVE  IsEmpty(Report)
  <1> DEFINE now == Captured(live)
  <1>1. PICK db \in Databases : recorded = Captured(db)
    BY DEF LiveInv
  <1>2. OneOfEachName(recorded) /\ OneOfEachName(now)
    <2>1. OneOfEachName(db) /\ OneOfEachName(live)
      BY LiveAssumptions DEF LiveInv, IsDatabase, OneOfEachName
    <2> QED  BY <1>1, <2>1, CapturedOneOfEach
  <1>3. \A ts : DOMAIN ExportJson(ts) = Names(ts)
    BY DEF ExportJson
  <1>4. ASSUME NEW x \in Names(live) \cup Names(recorded)
        PROVE  x \in Names(now) <=> x \in Names(recorded)
    <2>1. Names(Selected(now, x)) = Names(Selected(recorded, x))
      BY <1>3
    <2> HIDE DEF now
    <2> QED  BY <1>2, <2>1, SelectedOne
  <1>5. Names(now) = Names(live)
    BY NamesCaptured
  <1>6. Names(now) = Names(recorded)
    BY <1>4, <1>5
  <1>7. Report.tables = {}
    <2> SUFFICES ASSUME NEW d \in Report.tables PROVE FALSE
      OBVIOUS
    <2>1. PICK o, u : Sides(d.table, o, u) /\ d = DiffTables(CaptureTable(o), CaptureTable(u))
      BY ReportedTable
    <2>2. ~IsEmptyTable(d)
      BY DEF Report, DiffSnapshots
    <2> DEFINE x == d.table
    <2>3. x \in Names(recorded) /\ x \in Names(now) /\ x \in Names(live)
      <3>1. x \in Names(recorded) \cap Names(Captured(live))
        BY DiffedTables DEF Report
      <3> QED  BY <1>5, <3>1
    <2>4. Named(Selected(recorded, x), x) = CaptureTable(o)
          /\ Named(Selected(now, x), x) = CaptureTable(u)
      <3>1. Named(recorded, x) = CaptureTable(o) /\ Named(now, x) = CaptureTable(u)
        BY <2>1 DEF Sides
      <3> HIDE DEF now, x
      <3> QED  BY <1>2, <2>3, <3>1, SelectedOne
    <2>5. x \in Names(Selected(recorded, x)) /\ x \in Names(Selected(now, x))
      <3> HIDE DEF now, x
      <3> QED  BY <1>2, <2>3, SelectedOne
    <2>6. \A ts : x \in Names(ts) =>
            ExportJson(ts)[x] = [i \in 1 .. Len(Named(ts, x).rows) |-> Named(ts, x).rows[i].data]
      BY DEF ExportJson
    <2> DEFINE a == CaptureTable(o).rows
               b == CaptureTable(u).rows
    <2>7. [i \in 1 .. Len(a) |-> a[i].data] = [i \in 1 .. Len(b) |-> b[i].data]
      <3>1. ExportJson(Selected(now, x)) = ExportJson(Selected(recorded, x))
        BY <2>3
      <3>2. ExportJson(Selected(recorded, x))[x] = [i \in 1 .. Len(a) |-> a[i].data]
        BY <2>4, <2>5, <2>6
      <3>3. ExportJson(Selected(now, x))[x] = [i \in 1 .. Len(b) |-> b[i].data]
        BY <2>4, <2>5, <2>6
      <3> QED  BY <3>1, <3>2, <3>3
    <2>8. /\ IsTable(o) /\ IsTable(u)
          /\ Len(a) = Len(o.rows) /\ Len(b) = Len(u.rows)
          /\ Len(o.rows) \in Nat /\ Len(u.rows) \in Nat
          /\ \A i \in 1 .. Len(o.rows) : a[i].data = o.rows[i]
          /\ \A i \in 1 .. Len(u.rows) : b[i].data = u.rows[i]
      BY <2>1, CapturedRows, RecordParts, TableParts DEF Sides
    <2> HIDE DEF a, b
    <2>9. 1 .. Len(a) = 1 .. Len(b) /\ \A i \in 1 .. Len(a) : a[i].data = b[i].data
      <3> DEFINE f == [i \in 1 .. Len(a) |-> a[i].data]
                 g == [i \in 1 .. Len(b) |-> b[i].data]
      <3>1. f = g /\ DOMAIN f = 1 .. Len(a) /\ DOMAIN g = 1 .. Len(b)
        BY <2>7
      <3>2. 1 .. Len(a) = 1 .. Len(b)
        <4> HIDE DEF f, g
        <4> QED  BY <3>1
      <3>3. ASSUME NEW i \in 1 .. Len(a) PROVE a[i].data = b[i].data
        <4>1. f[i] = a[i].data /\ g[i] = b[i].data
          BY <3>2
        <4> QED  BY <3>1, <4>1
      <3> QED  BY <3>2, <3>3
    <2>10. Len(a) = Len(b)
      <3> DEFINE m == Len(a)
                 n == Len(b)
      <3>1. m \in Nat /\ n \in Nat /\ 1 .. m = 1 .. n
        BY <2>8, <2>9
      <3> HIDE DEF m, n
      <3>2. m = n
        <4>1. m \in 1 .. n \/ m = 0
          BY <3>1
        <4>2. n \in 1 .. m \/ n = 0
          BY <3>1
        <4> QED  BY <3>1, <4>1, <4>2
      <3> QED  BY <3>2 DEF m, n
    <2>11. Len(o.rows) = Len(u.rows) /\ \A i \in 1 .. Len(o.rows) : o.rows[i] = u.rows[i]
      BY <2>8, <2>9, <2>10
    <2>12. IsEmptyTable(DiffTables(CaptureTable(o), CaptureTable(u)))
      BY <2>1, <2>11, SameRowsNoDiff
    <2> QED  BY <2>1, <2>2, <2>12
  <1> QED  BY <1>6, <1>7 DEF IsEmpty, Report, DiffSnapshots

\* An INSERT gives its row back when each value is NULL, of a plain type, or an object
\* or array in a jsonb column; and two databases with the same JSON export have no
\* difference to report.
THEOREM ExportsAreFaithful == Spec => []ExportIsFaithful
  <1>1. LiveInv => ExportIsFaithful
    <2> SUFFICES ASSUME LiveInv PROVE ExportIsFaithful
      OBVIOUS
    <2>1. ASSUME NEW w \in Captured(live), NEW i \in 1 .. Len(w.rows),
                 \A c \in DOMAIN w.rows[i].data :
                     Recreated(TypeOf(w.schema, c), w.rows[i].data[c])
          PROVE  Replayed(w)[i] = w.rows[i].data
      <3>1. PICK t \in live : w = CaptureTable(t)
        BY DEF Captured
      <3>2. IsTable(t)
        BY DEF LiveInv, IsDatabase
      <3>3. w.schema = t.schema /\ Len(w.rows) = Len(t.rows)
        BY <3>1, <3>2, CapturedRows
      <3>4. w.rows[i].data = t.rows[i]
        BY <3>1, <3>2, <3>3, CapturedRows, RecordParts
      <3> QED  BY <2>1, <3>1, <3>2, <3>3, <3>4, ReplaysTable
    <2>2. (\A x \in Names(live) \cup Names(recorded) :
              ExportJson(Selected(Captured(live), x)) = ExportJson(Selected(recorded, x)))
          => IsEmpty(Report)
      BY SameExportNoReport
    <2> QED  BY <2>1, <2>2 DEF ExportIsFaithful
  <1> QED  BY <1>1, LiveInvariant, PTL

(* What a reader of the report gets to see *)

\* Two different values of one kind look different where not both are cut.
LEMMA ShownApart ==
    ASSUME NEW v, NEW w, v # w, KindOf(v) = KindOf(w)
    PROVE  /\ ~({v, w} \subseteq Over120 \cup {"119..."}) => Val(v) # Val(w)
           /\ ~({v, w} \subseteq Over60 \cup {"59..."}) => Compact(v) # Compact(w)
  <1>1. \A x : KindOf(x) = "null" <=> x = "null"
    BY DEF KindOf, Numbers, Booleans, Structures
  <1>2. \A x : KindOf(x) = "number" <=> x = "+7"
    BY DEF KindOf, Numbers, Booleans, Structures
  <1>3. v \notin {"null", "+7"} /\ w \notin {"null", "+7"}
    BY <1>1, <1>2
  <1>4. \A x : x \notin {"null", "+7"} =>
            /\ Val(x) = IF x \in Over120 THEN "119..." ELSE x
            /\ Compact(x) = IF x \in Over60 THEN "59..." ELSE x
    BY DEF Val, Compact, TextOf
  <1>5. "119..." \notin Over120 /\ "59..." \notin Over60
    BY DEF Over120, Over60
  <1>6. /\ Val(v) = IF v \in Over120 THEN "119..." ELSE v
        /\ Val(w) = IF w \in Over120 THEN "119..." ELSE w
        /\ Compact(v) = IF v \in Over60 THEN "59..." ELSE v
        /\ Compact(w) = IF w \in Over60 THEN "59..." ELSE w
    BY <1>3, <1>4
  <1>7. ASSUME Val(v) = Val(w) PROVE {v, w} \subseteq Over120 \cup {"119..."}
    BY <1>6, <1>7
  <1>8. ASSUME Compact(v) = Compact(w) PROVE {v, w} \subseteq Over60 \cup {"59..."}
    BY <1>6, <1>8
  <1> QED  BY <1>7, <1>8

\* The data of a row have the columns of its table.
LEMMA DataColumns ==
    ASSUME NEW t, IsTable(t), NEW k \in DOMAIN RowMap(t)
    PROVE  RowMap(t)[k].data
             = [c \in ColumnNames(t.schema.columns) |-> RowMap(t)[k].data[c]]
  <1>1. PICK i \in 1 .. Len(t.rows) : RowMap(t)[k] = MakeRecord(t.schema, t.rows[i])
    BY RowMapOnly
  <1>2. RowMap(t)[k].data = t.rows[i]
    BY <1>1, RecordParts
  <1>3. IsRow(t.schema, t.rows[i])
    BY TableParts
  <1> QED  BY <1>2, <1>3 DEF IsRow

LEMMA NoChangeSameRow ==
    ASSUME NEW C, NEW a, NEW b, a = [c \in C |-> a[c]], b = [c \in C |-> b[c]],
           ColumnChanges(a, b) = {}
    PROVE  a = b
  <1>1. DOMAIN a = C /\ DOMAIN b = C
    OBVIOUS
  <1>2. ASSUME NEW c \in C PROVE a[c] = b[c]
    <2>1. Get(a, c) = Get(b, c)
      BY <1>1, ChangeOf DEF AllColumns
    <2> QED  BY <1>1, <2>1 DEF Get
  <1> QED  BY <1>2

\* Each updated row and each of its changes is shown, and the sides of a change look
\* different wherever they are not both cut.
THEOREM UpdatesShown == Spec => []UpdatesAreShown
  <1>1. LiveInv => UpdatesAreShown
    <2> SUFFICES ASSUME LiveInv, NEW d \in Report.tables, NEW u \in d.updated
                 PROVE  /\ \/ \E r \in HtmlChanges(d) : r.pk = u.pk
                           \/ ColumnNames(Named(recorded, d.table).schema.columns)
                                 # ColumnNames(Named(live, d.table).schema.columns)
                        /\ \A x \in u.columns :
                             /\ \E r \in HtmlChanges(d) :
                                  /\ r.pk = u.pk /\ r.column = x.column
                                  /\ Apart(x, Over120 \cup {"119..."}) => r.old # r.new
                             /\ \E p \in PrintedChanges(d) : \E l \in p.lines :
                                  /\ p.pk = u.pk /\ l.column = x.column
                                  /\ Apart(x, Over60 \cup {"59..."}) => l.old # l.new
      BY DEF UpdatesAreShown
    <2> DEFINE k == u.pk
    <2>1. PICK o, t : Sides(d.table, o, t) /\ d = DiffTables(CaptureTable(o), CaptureTable(t))
      BY ReportedTable
    <2>2. IsTable(o) /\ IsTable(t)
      BY <2>1 DEF Sides
    <2> DEFINE a == RowMap(o)[k].data
               b == RowMap(t)[k].data
    <2>3. /\ k \in DOMAIN RowMap(o) \cap DOMAIN RowMap(t)
          /\ ~SameRow(RowMap(o)[k], RowMap(t)[k])
          /\ u = [pk |-> k, columns |-> ColumnChanges(a, b)]
      BY <2>1, UpdatedRows DEF RowMap
    <2>4. a # b
      BY <2>2, <2>3, SameRowSameData
    <2>5. u.columns = ColumnChanges(a, b)
      <3> HIDE DEF a, b, k
      <3> QED  BY <2>3
    <2> DEFINE cell(x) == [pk |-> u.pk, column |-> x.column, old |-> Val(x.old), new |-> Val(x.new)]
               line(x) == [column |-> x.column, old |-> Compact(x.old), new |-> Compact(x.new)]
               lines == {line(x) : x \in u.columns}
    <2>6. \A x \in u.columns : cell(x) \in HtmlChanges(d)
      BY DEF HtmlChanges
    <2>7. \/ \E r \in HtmlChanges(d) : r.pk = u.pk
          \/ ColumnNames(Named(recorded, d.table).schema.columns)
               # ColumnNames(Named(live, d.table).schema.columns)
      <3> SUFFICES ASSUME ~\E r \in HtmlChanges(d) : r.pk = u.pk,
                          ColumnNames(Named(recorded, d.table).schema.columns)
                            = ColumnNames(Named(live, d.table).schema.columns)
                   PROVE  FALSE
        OBVIOUS
      <3>1. ColumnChanges(a, b) = {}
        <4>1. \A x : cell(x).pk = u.pk
          OBVIOUS
        <4> HIDE DEF cell, a, b
        <4> QED  BY <2>5, <2>6, <4>1
      <3>2. ColumnNames(o.schema.columns) = ColumnNames(t.schema.columns)
        <4>1. Named(recorded, d.table).schema = o.schema /\ Named(live, d.table) = t
          BY <2>1, <2>2, CapturedRows DEF Sides
        <4> QED  BY <4>1
      <3> DEFINE C == ColumnNames(o.schema.columns)
      <3>3. a = [c \in C |-> a[c]] /\ b = [c \in C |-> b[c]]
        BY <2>2, <2>3, <3>2, DataColumns
      <3> HIDE DEF a, b, C
      <3> QED  BY <2>4, <3>1, <3>3, NoChangeSameRow
    <2>8. ASSUME NEW x \in u.columns
          PROVE  /\ \E r \in HtmlChanges(d) :
                      /\ r.pk = u.pk /\ r.column = x.column
                      /\ Apart(x, Over120 \cup {"119..."}) => r.old # r.new
                 /\ \E p \in PrintedChanges(d) : \E l \in p.lines :
                      /\ p.pk = u.pk /\ l.column = x.column
                      /\ Apart(x, Over60 \cup {"59..."}) => l.old # l.new
      <3>1. x.old # x.new
        <4> HIDE DEF a, b
        <4>1. PICK c : c = x.column
          OBVIOUS
        <4>2. x \in ColumnChanges(a, b) /\ x.column = c
          BY <2>5, <4>1
        <4>3. x = [column |-> c, old |-> Get(a, c), new |-> Get(b, c)]
          BY <4>2, ChangeOf
        <4>4. Get(a, c) # Get(b, c)
          <5>1. \E y \in ColumnChanges(a, b) : y.column = c
            BY <4>2
          <5> QED  BY <5>1, ChangeOf
        <4>5. x.old = Get(a, c) /\ x.new = Get(b, c)
          BY <4>3
        <4> QED  BY <4>4, <4>5
      <3>2. /\ Apart(x, Over120 \cup {"119..."}) => Val(x.old) # Val(x.new)
            /\ Apart(x, Over60 \cup {"59..."}) => Compact(x.old) # Compact(x.new)
        BY <3>1, ShownApart DEF Apart
      <3>3. PICK r \in HtmlChanges(d) : r = cell(x)
        BY <2>6
      <3>4. r.pk = u.pk /\ r.column = x.column /\ r.old = Val(x.old) /\ r.new = Val(x.new)
        BY <3>3
      <3>5. PICK p \in PrintedChanges(d) : p = [pk |-> u.pk, lines |-> lines]
        BY DEF PrintedChanges
      <3>6. p.pk = u.pk /\ line(x) \in p.lines
        BY <3>5
      <3>7. /\ line(x).column = x.column
            /\ line(x).old = Compact(x.old) /\ line(x).new = Compact(x.new)
        OBVIOUS
      <3> HIDE DEF cell, line, lines
      <3> QED  BY <3>2, <3>4, <3>6, <3>7
    <2> QED  BY <2>7, <2>8
  <1> QED  BY <1>1, LiveInvariant, PTL
================================================================================
