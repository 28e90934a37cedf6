------------------------------- MODULE Database -------------------------------
(***************************************************************************)
(* The SQL database dbsnap observes, as far as it can tell: a set of base  *)
(* tables, each name once.  A table is its schema and its rows; dbsnap     *)
(* never writes to it, so all of this is outside the program.              *)
(***************************************************************************)
EXTENDS Snapshots

Names(ts) == {t.schema.name : t \in ts}
Named(ts, x) == CHOOSE t \in ts : t.schema.name = x

ColumnNames(columns) == {columns[i].name : i \in 1 .. Len(columns)}
KeyColumns(key) == {key[i] : i \in 1 .. Len(key)}

\* A primary key admits each combination of its columns once.
Admits(t) ==
    t.schema.primary_key = <<>> \/ \A i, j \in 1 .. Len(t.rows) :
        (\A c \in KeyColumns(t.schema.primary_key) : t.rows[i][c] = t.rows[j][c]) => i = j

WithRow(t, d) == [t EXCEPT !.rows = Append(@, d)]
WithoutRow(t, i) == [t EXCEPT !.rows = SubSeq(@, 1, i - 1) \o SubSeq(@, i + 1, Len(@))]

\* ADD COLUMN: every row gets the column, row i with the i-th of the values.
WithValues(t, c, values) ==
    [schema |-> [t.schema EXCEPT !.columns = Append(@, c)],
     rows   |-> [i \in 1 .. Len(t.rows) |->
                   [x \in DOMAIN t.rows[i] \cup {c.name} |->
                       IF x = c.name THEN values[i] ELSE t.rows[i][x]]]]

\* Without a default the values are NULL.
WithColumn(t, c) == WithValues(t, c, [i \in 1 .. Len(t.rows) |-> "null"])

\* RENAME COLUMN: its values and its place in the key stay.
Renamed(t, old, new) ==
    LET other(x) == IF x = old THEN new ELSE x
        back(x)  == IF x = new THEN old ELSE x
    IN  [schema |->
           [name        |-> t.schema.name,
            columns     |-> [i \in DOMAIN t.schema.columns |->
                               [t.schema.columns[i] EXCEPT !.name = other(@)]],
            primary_key |-> [i \in DOMAIN t.schema.primary_key |->
                               other(t.schema.primary_key[i])]],
         rows   |-> [i \in 1 .. Len(t.rows) |->
                       [x \in {other(y) : y \in DOMAIN t.rows[i]} |-> t.rows[i][back(x)]]]]

(* What SnapshotSource::capture promises: every base table with its schema  *)
(* and all of its rows.  Capture checks the sources against it; a column    *)
(* named t is the case in which PostgreSQL's does not keep it, even alone.  *)
CaptureTable(t) ==
    [schema |-> t.schema,
     rows   |-> [i \in 1 .. Len(t.rows) |-> MakeRecord(t.schema, t.rows[i])]]

Captured(db) == {CaptureTable(t) : t \in db}
===============================================================================
