-------------------------------- MODULE Capture --------------------------------
(***************************************************************************)
(* SnapshotSource::capture of dbsnap-postgres and dbsnap-mysql while other *)
(* sessions change the database.  Both sources list the base tables and    *)
(* then send three queries per table, each on its own and in no            *)
(* transaction: a query sees the database as it is at that moment.         *)
(***************************************************************************)
EXTENDS Database

CONSTANTS
    Engines,        \* the sources: subset of {"postgres", "mysql"}
    TableOrder,     \* the table names in the order of list_tables
    Databases,      \* the database when the capture begins
    Rows,           \* rows other sessions may insert
    Keys,           \* primary keys a table may be given
    NewNames,       \* names a column may be renamed to
    Serial,         \* the values a new key column gets, row after row
    MaxStatements   \* bound: transactions of other sessions during the capture

\* A key consists of columns, and a MySQL table has at least one of these.
IsSchema(s) ==
    /\ s = [name |-> s.name, columns |-> s.columns, primary_key |-> s.primary_key]
    /\ s.columns \in Seq({s.columns[i] : i \in 1 .. Len(s.columns)})
    /\ \A i \in 1 .. Len(s.columns) : "name" \in DOMAIN s.columns[i]
    /\ s.primary_key \in Seq(KeyColumns(s.primary_key))
    /\ KeyColumns(s.primary_key) \subseteq ColumnNames(s.columns)
    /\ "mysql" \in Engines => s.columns # <<>>

IsRow(s, d) == d = [c \in ColumnNames(s.columns) |-> d[c]]

IsTable(t) ==
    /\ t = [schema |-> t.schema, rows |-> t.rows] /\ IsSchema(t.schema)
    /\ t.rows \in Seq({t.rows[i] : i \in 1 .. Len(t.rows)})
    /\ \A i \in 1 .. Len(t.rows) : IsRow(t.schema, t.rows[i])
    /\ Admits(t)

IsDatabase(s) ==
    /\ \A t \in s : IsTable(t)
    /\ \A t, u \in s : t.schema.name = u.schema.name => t = u
    /\ Names(s) \subseteq {TableOrder[i] : i \in 1 .. Len(TableOrder)}

ASSUME CaptureAssumptions ==
    /\ TableOrder \in Seq({TableOrder[i] : i \in 1 .. Len(TableOrder)})
    /\ \A i, j \in 1 .. Len(TableOrder) : TableOrder[i] = TableOrder[j] => i = j
    /\ \A s \in Databases : IsDatabase(s)
    /\ \A d \in Rows : d = [c \in DOMAIN d |-> d[c]]
    /\ \A k \in Keys : k \in Seq(KeyColumns(k))

VARIABLES
    engine,    \* the source in use
    db,        \* the tables of the database
    log,       \* the states of the database since the capture began
    ddl,       \* some table has been defined anew since then
    phase,     \* the query that is sent next; "done" after the last
    todo,      \* the listed tables still to read, the current one first
    columns,   \* the columns found for the current table
    key,       \* the primary key found for it
    out,       \* the table snapshots taken, in order
    outcome    \* "none", "ok" or "error"

capturing == <<phase, todo, columns, key, out, outcome>>
vars == <<engine, db, log, ddl, capturing>>
-------------------------------------------------------------------------------
Init ==
    /\ engine \in Engines /\ db \in Databases /\ log = <<db>> /\ ddl = FALSE
    /\ phase = "list" /\ todo = <<>> /\ columns = <<>> /\ key = <<>>
    /\ out = <<>> /\ outcome = "none"

(* The other sessions: one committed transaction each. *)
Commits(new, defines) ==
    /\ phase # "done" /\ Len(log) <= MaxStatements
    /\ db' = new /\ log' = Append(log, new) /\ ddl' = (ddl \/ defines)
    /\ UNCHANGED <<engine, capturing>>

Becomes(t, u, defines) == Admits(u) /\ Commits((db \ {t}) \cup {u}, defines)

Insert ==
    \E t \in db : \E d \in Rows :
        /\ DOMAIN d = ColumnNames(t.schema.columns)
        /\ Becomes(t, WithRow(t, d), FALSE)

Delete ==
    \E t \in db : \E i \in 1 .. Len(t.rows) : Becomes(t, WithoutRow(t, i), FALSE)

\* A transaction that takes a row out of one table and puts it into another.
Move ==
    \E t, u \in db : \E i \in 1 .. Len(t.rows) :
        /\ t # u /\ DOMAIN t.rows[i] = ColumnNames(u.schema.columns)
        /\ Admits(WithRow(u, t.rows[i]))
        /\ Commits((db \ {t, u}) \cup {WithoutRow(t, i), WithRow(u, t.rows[i])}, FALSE)

Extra == [name |-> "extra"]
IsNew(t, name) == name \notin ColumnNames(t.schema.columns)

AddColumn ==
    \E t \in db : IsNew(t, "extra") /\ Becomes(t, WithColumn(t, Extra), TRUE)

\* ADD COLUMN ... PRIMARY KEY with generated values, for a table without a key.
WithIdentity(t) ==
    [WithValues(t, Extra, Serial) EXCEPT !.schema.primary_key = <<"extra">>]

AddIdentity ==
    \E t \in db :
        /\ IsNew(t, "extra") /\ t.schema.primary_key = <<>> /\ Len(t.rows) <= Len(Serial)
        /\ Becomes(t, WithIdentity(t), TRUE)

RenameColumn ==
    \E t \in db : \E c \in ColumnNames(t.schema.columns) : \E new \in NewNames :
        IsNew(t, new) /\ Becomes(t, Renamed(t, c, new), TRUE)

ChangeKey ==
    \E t \in db : \E k \in Keys :
        /\ KeyColumns(k) \subseteq ColumnNames(t.schema.columns)
        /\ Becomes(t, [t EXCEPT !.schema.primary_key = k], TRUE)

DropTable == \E t \in db : Commits(db \ {t}, TRUE)

\* A table of the start is created again, empty.
CreateTable ==
    \E t \in log[1] :
        /\ t.schema.name \notin Names(db)
        /\ Commits(db \cup {[t EXCEPT !.rows = <<>>]}, TRUE)

Others ==
    \/ Insert \/ Delete \/ Move
    \/ AddColumn \/ AddIdentity \/ RenameColumn \/ ChangeKey
    \/ DropTable \/ CreateTable
-------------------------------------------------------------------------------
(* The queries of the capture. *)
Exists(x) == x \in Names(db)

Fail == phase' = "done" /\ outcome' = "error"

\* list_tables, ordered by name.
ListedTwice == SelectSeq(TableOrder, Exists) \o SelectSeq(TableOrder, Exists)
Listed ==
    LET upTo[i \in 0 .. Len(TableOrder)] ==
          IF i = 0 THEN <<>>
          ELSE IF Exists(TableOrder[i]) THEN Append(upTo[i - 1], TableOrder[i])
          ELSE upTo[i - 1]
    IN  upTo[Len(TableOrder)]

ListTables ==
    /\ phase = "list"
    /\ todo' = Listed /\ phase' = "columns"
    /\ UNCHANGED <<engine, db, log, ddl, columns, key, out, outcome>>

\* table_schema, first query: no rows for a table that is gone.
ReadColumns ==
    /\ phase = "columns" /\ todo # <<>>
    /\ columns' = IF Exists(todo[1]) THEN Named(db, todo[1]).schema.columns ELSE <<>>
    /\ phase' = "key"
    /\ UNCHANGED <<engine, db, log, ddl, todo, key, out, outcome>>

\* The key columns, in the order of the table and in the order of the key.
KeyInColumnOrder(t) ==
    LET names == [i \in DOMAIN t.schema.columns |-> t.schema.columns[i].name]
    IN  SelectSeq(names, LAMBDA c : c \in KeyColumns(t.schema.primary_key))
KeyFound(t) == t.schema.primary_key

\* Second query: PostgreSQL casts the name to regclass, which fails for a table
\* that is gone; information_schema of MySQL has no rows for it.
ReadKey ==
    /\ phase = "key" /\ (engine = "mysql" \/ Exists(todo[1]))
    /\ key' = IF Exists(todo[1]) THEN KeyFound(Named(db, todo[1])) ELSE <<>>
    /\ phase' = "rows"
    /\ UNCHANGED <<engine, db, log, ddl, todo, columns, out, outcome>>

ReadKeyFails ==
    /\ phase = "key" /\ engine = "postgres" /\ ~Exists(todo[1])
    /\ Fail
    /\ UNCHANGED <<engine, db, log, ddl, todo, columns, key, out>>

\* The columns the query for the rows names: those it orders by, and in MySQL
\* those it puts into JSON_OBJECT.
Mentioned ==
    KeyColumns(key) \cup (IF engine = "mysql" THEN ColumnNames(columns) ELSE {})

\* In `SELECT to_jsonb(t) ... t` of PostgreSQL t is the row, unless the table has
\* a column of this name: then it is the column.
Shadows(s) == engine = "postgres" /\ "t" \in ColumnNames(s.columns)

\* MySQL has nothing to order by when it found neither columns nor a key; from
\* PostgreSQL a row whose column t is NULL is no JSON value.
Answers ==
    /\ Exists(todo[1])
    /\ Mentioned \subseteq ColumnNames(Named(db, todo[1]).schema.columns)
    /\ engine = "mysql" => columns # <<>> \/ key # <<>>
    /\ Shadows(Named(db, todo[1]).schema) =>
          \A i \in 1 .. Len(Named(db, todo[1]).rows) : Named(db, todo[1]).rows[i]["t"] # "null"

\* A JSON value that is no object, in the place of a row: it has no columns, and
\* no column has an empty name.
Itself == ""
Scalar(v) == [x \in {Itself} |-> v]

\* to_jsonb(t) is made of the row as it is now; JSON_OBJECT has the columns found
\* before.
WholeRow(d) == d
DataOf(d) ==
    IF engine # "postgres" THEN [c \in ColumnNames(columns) |-> d[c]]
    ELSE IF "t" \in DOMAIN d THEN Scalar(d["t"])
    ELSE d

Schema == [name |-> todo[1], columns |-> columns, primary_key |-> key]

ReadRows ==
    /\ phase = "rows" /\ Answers
    /\ LET rows == Named(db, todo[1]).rows
       IN  out' = Append(out,
                    [schema |-> Schema,
                     rows   |-> [i \in 1 .. Len(rows) |-> MakeRecord(Schema, DataOf(rows[i]))]])
    /\ todo' = Tail(todo) /\ phase' = "columns"
    /\ columns' = <<>> /\ key' = <<>>
    /\ UNCHANGED <<engine, db, log, ddl, outcome>>

ReadRowsFails ==
    /\ phase = "rows" /\ ~Answers
    /\ Fail
    /\ UNCHANGED <<engine, db, log, ddl, todo, columns, key, out>>

Return ==
    /\ phase = "columns" /\ todo = <<>>
    /\ phase' = "done" /\ outcome' = "ok"
    /\ UNCHANGED <<engine, db, log, ddl, todo, columns, key, out>>

Query ==
    \/ ListTables
    \/ ReadColumns
    \/ ReadKey \/ ReadKeyFails
    \/ ReadRows \/ ReadRowsFails
    \/ Return

Next == Others \/ Query

Spec == Init /\ [][Next]_vars
-------------------------------------------------------------------------------
(* Properties *)

CaptureTypeOK ==
    /\ phase \in {"list", "columns", "key", "rows", "done"}
    /\ outcome \in {"none", "ok", "error"} /\ (phase = "done" <=> outcome # "none")
    /\ \A i \in 1 .. Len(out) : out[i].schema.name \notin {todo[j] : j \in DOMAIN todo}
    /\ db = log[Len(log)] /\ \A t \in db : Admits(t)

Taken == {out[i] : i \in 1 .. Len(out)}

SameState(ts, s) == TreeHash(TreeOfTables(ts)) = TreeHash(TreeOfTables(Captured(s)))

Shadowed == \E t \in db : Shadows(t.schema)

\* With no other session at work the capture is the database: every base table,
\* its schema and all of its rows, unless PostgreSQL has a table with a column t.
QuietCaptureIsExact ==
    (outcome # "none" /\ Len(log) = 1 /\ ~Shadowed) => outcome = "ok" /\ SameState(Taken, db)

\* While rows change but no table is defined anew, the capture misses no table and
\* moves forward in time: every table is as it was at one moment, no earlier than
\* that of the table read before it.  Only a column t makes it fail, or store
\* something else.
CaptureMovesForward ==
    (outcome # "none" /\ ~ddl) =>
        /\ outcome = "ok" \/ Shadowed
        /\ outcome = "ok" => Names(Taken) = Names(db)
        /\ \E at \in [1 .. Len(out) -> 1 .. Len(log)] :
             /\ \A i \in DOMAIN at :
                   out[i] \in Captured(log[at[i]]) \/ Shadows(out[i].schema)
             /\ \A i, j \in DOMAIN at : i <= j => at[i] <= at[j]

\* Whatever happens to its definition meanwhile, a row is stored with data that
\* fits what is stored about it: from MySQL with exactly the columns of its schema,
\* from PostgreSQL with the columns of the key it is identified by, or as the value
\* of a column t.
FitsSchema(r, s) ==
    IF engine = "postgres"
    THEN KeyColumns(s.primary_key) \subseteq DOMAIN r.data \/ DOMAIN r.data = {Itself}
    ELSE DOMAIN r.data = ColumnNames(s.columns)

RowFitsSchema ==
    \A t \in Taken : \A i \in 1 .. Len(t.rows) : FitsSchema(t.rows[i], t.schema)

\* "Capture the current state": the snapshots are the database at one moment
\* of the capture, at least while no table is defined anew and none has a column t.
CaptureIsOneState ==
    (outcome = "ok" /\ ~ddl /\ ~Shadowed) => \E i \in 1 .. Len(log) : SameState(Taken, log[i])
===============================================================================
