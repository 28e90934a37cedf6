-------------------------------- MODULE LiveDiff --------------------------------
(***************************************************************************)
(* `dbsnap verify --live` and `dbsnap status`: Repository::live_diff while *)
(* the database changes after HEAD was recorded.  The database is outside  *)
(* dbsnap: its statements are SQL's.  A capture sees one state of it.      *)
(***************************************************************************)
EXTENDS Rendering, FiniteSets

CONSTANTS
    Databases,      \* databases when HEAD is recorded: sets of [schema, rows]
    Keys,           \* values of the columns of a primary key
    ValuesOf(_),    \* values of other columns, by their type
    MaxStatements   \* bound: statements run after HEAD was recorded

\* "text[]" stands for the types rendered as JSON that are not jsonb themselves:
\* arrays, composite types, hstore.
ColumnTypes == {"text", "varchar", "integer", "boolean", "jsonb", "text[]"}

\* What a column of this type holds, besides NULL.
Fits(type, v) ==
    /\ v # Refused
    /\ KindOf(v) \in
         CASE type \in {"text", "varchar"} -> {"null", "string"}
           [] type = "integer"             -> {"null", "number"}
           [] type = "boolean"             -> {"null", "bool"}
           [] type = "text[]"              -> {"null", "structure"}
           [] OTHER                        -> {"null", "bool", "number", "string", "structure"}

\* The columns of a table have different names, its key is among them, and each of
\* its rows has a value for each of them.
IsSchema(s) ==
    /\ s = [name |-> s.name, columns |-> s.columns, primary_key |-> s.primary_key]
    /\ s.columns \in Seq({s.columns[i] : i \in 1 .. Len(s.columns)})
    /\ \A i, j \in 1 .. Len(s.columns) :
         /\ s.columns[i] = [name |-> s.columns[i].name, type |-> s.columns[i].type]
         /\ s.columns[i].type \in ColumnTypes
         /\ s.columns[i].name = s.columns[j].name => i = j
    /\ KeyColumns(s.primary_key) \subseteq ColumnNames(s.columns)

IsRow(s, d) ==
    /\ d = [c \in ColumnNames(s.columns) |-> d[c]]
    /\ \A c \in ColumnNames(s.columns) : Fits(TypeOf(s, c), d[c])

IsTable(t) ==
    /\ t = [schema |-> t.schema, rows |-> t.rows] /\ IsSchema(t.schema)
    /\ t.rows \in Seq({t.rows[i] : i \in 1 .. Len(t.rows)})
    /\ \A i \in 1 .. Len(t.rows) : IsRow(t.schema, t.rows[i])
    /\ Admits(t)

IsDatabase(db) ==
    /\ \A t \in db : IsTable(t)
    /\ \A t, u \in db : t.schema.name = u.schema.name => t = u

ASSUME LiveAssumptions ==
    /\ MaxStatements \in Nat
    /\ \A db \in Databases : IsDatabase(db)
    /\ \A type \in ColumnTypes : \A v \in ValuesOf(type) : Fits(type, v)

VARIABLES
    recorded,    \* the table snapshots recorded at HEAD
    live,        \* the tables of the database
    touched,     \* <<table, pk>> of the rows some statement wrote since HEAD
    statements   \* statements run since HEAD

vars == <<recorded, live, touched, statements>>
-------------------------------------------------------------------------------
(* Both engines keep the contract of SnapshotSource when nothing changes while *)
(* they read: Capture checks it.                                              *)
Init ==
    /\ live \in Databases /\ recorded = Captured(live)
    /\ touched = {} /\ statements = 0

(* SQL statements *)
KeyOf(t, d) == <<t.schema.name, RowPk(t.schema, d)>>

AllKeys(t) == {KeyOf(t, t.rows[i]) : i \in 1 .. Len(t.rows)}

\* The rows a table of this schema may hold.
Domain(s, c) ==
    IF c \in KeyColumns(s.primary_key) THEN {v \in Keys : Fits(TypeOf(s, c), v)}
    ELSE ValuesOf(TypeOf(s, c))

RowsOf(s) ==
    LET columns == ColumnNames(s.columns) IN
      {d \in [columns -> UNION {Domain(s, c) : c \in columns}] :
          \A c \in columns : d[c] \in Domain(s, c)}

\* Table t becomes u; the statement wrote the rows with keys ks.
Replace(t, u, ks) ==
    /\ statements < MaxStatements /\ statements' = statements + 1
    /\ Admits(u)
    /\ live' = (live \ {t}) \cup {u} /\ touched' = touched \cup ks
    /\ UNCHANGED recorded

Insert ==
    \E t \in live : \E d \in RowsOf(t.schema) :
        Replace(t, WithRow(t, d), {KeyOf(t, d)})

Delete ==
    \E t \in live : \E i \in 1 .. Len(t.rows) :
        Replace(t, WithoutRow(t, i), {KeyOf(t, t.rows[i])})

\* An UPDATE that sets one column of one row.
Update ==
    \E t \in live : \E i \in 1 .. Len(t.rows) : \E c \in DOMAIN t.rows[i] :
        \E v \in Domain(t.schema, c) :
            LET u == [t EXCEPT !.rows[i][c] = v]
            IN  Replace(t, u, {KeyOf(t, t.rows[i]), KeyOf(t, u.rows[i])})

\* ALTER TABLE ... ADD COLUMN: every row gets the column, as NULL.
AddColumn ==
    \E t \in live :
        LET c == [name |-> "extra", type |-> "text"]
            u == WithColumn(t, c)
        IN  /\ c.name \notin ColumnNames(t.schema.columns)
            /\ Replace(t, u, AllKeys(t) \cup AllKeys(u))

\* ALTER TABLE ... ALTER COLUMN TYPE, for a type that renders the same JSON.
ChangeType ==
    \E t \in live : \E i \in 1 .. Len(t.schema.columns) :
        /\ t.schema.columns[i].type = "text"
        /\ Replace(t, [t EXCEPT !.schema.columns[i].type = "varchar"], {})

DropTable ==
    \E t \in live :
        /\ statements < MaxStatements /\ statements' = statements + 1
        /\ live' = live \ {t} /\ touched' = touched \cup AllKeys(t)
        /\ UNCHANGED recorded

\* A table recorded at HEAD is created again, empty.
CreateTable ==
    \E t \in recorded :
        /\ statements < MaxStatements /\ statements' = statements + 1
        /\ t.schema.name \notin Names(live)
        /\ live' = live \cup {[schema |-> t.schema, rows |-> <<>>]}
        /\ UNCHANGED <<recorded, touched>>

Next ==
    \/ Insert
    \/ Delete
    \/ Update
    \/ AddColumn
    \/ ChangeType
    \/ DropTable
    \/ CreateTable

Spec == Init /\ [][Next]_vars
-------------------------------------------------------------------------------
(* Properties *)

\* What live_diff reports now.
Report == DiffSnapshots(recorded, Captured(live))

RowSet(t) == {t.rows[i].data : i \in 1 .. Len(t.rows)}

\* Table names stay unique, and the rows of a keyed table are captured under
\* identities that are all different, so that none is lost in the map of rows.
LiveTypeOK ==
    /\ statements \in 0 .. MaxStatements
    /\ \A t, u \in live : t.schema.name = u.schema.name => t = u
    /\ \A t \in Captured(live) :
         t.schema.primary_key # <<>> =>
             Cardinality(DOMAIN LastByKey(t.rows)) = Len(t.rows)

\* An empty report means that the same tables hold the same set of rows.
EmptyMeansSameRows ==
    IsEmpty(Report) =>
        /\ Names(recorded) = Names(live)
        /\ \A t \in recorded : RowSet(t) = RowSet(Named(Captured(live), t.schema.name))

\* The report names no row that no statement wrote.
ReportsOnlyTouched ==
    \A d \in Report.tables :
        \A k \in d.inserted \cup d.deleted \cup {u.pk : u \in d.updated} :
            <<d.table, k>> \in touched

\* Laying an updated row's column changes over its recorded value gives its
\* live value.
ChangesRebuildRow ==
    \A d \in Report.tables : \A u \in d.updated :
        LET old == LastByKey(Named(recorded, d.table).rows)[u.pk].data
            new == LastByKey(Named(Captured(live), d.table).rows)[u.pk].data
        IN  \A c \in DOMAIN old \cup DOMAIN new :
                Get(new, c) = IF \E x \in u.columns : x.column = c
                              THEN (CHOOSE x \in u.columns : x.column = c).new
                              ELSE Get(old, c)

\* Read backwards, the report is the diff from the live database to HEAD:
\* inserts and deletes change places and so do old and new values.
Mirror(d) ==
    [table    |-> d.table, inserted |-> d.deleted, deleted |-> d.inserted,
     updated  |-> {[pk |-> u.pk,
                    columns |-> {[column |-> x.column, old |-> x.new, new |-> x.old] :
                                   x \in u.columns}] : u \in d.updated}]

ReportIsReversible ==
    DiffSnapshots(Captured(live), recorded) =
        [added |-> Report.removed, removed |-> Report.added,
         tables |-> {Mirror(d) : d \in Report.tables}]

\* Running the SQL export of a snapshot in an empty table of its schema gives each
\* recorded row back, NULLs included, if its values are of plain types, or objects
\* and arrays in jsonb columns.  The JSON export has no such condition: when every
\* table exports as it was recorded, there is no change to report.
Recreated(type, v) ==
    \/ v = "null" \/ type \in {"text", "varchar", "integer", "boolean"}
    \/ type = "jsonb" /\ KindOf(v) = "structure"

ExportIsFaithful ==
    /\ \A t \in Captured(live) : \A i \in 1 .. Len(t.rows) :
         LET row == t.rows[i].data IN
           (\A c \in DOMAIN row : Recreated(TypeOf(t.schema, c), row[c])) =>
               Replayed(t)[i] = row
    /\ (\A x \in Names(live) \cup Names(recorded) :
            ExportJson(Selected(Captured(live), x)) = ExportJson(Selected(recorded, x)))
         => IsEmpty(Report)

\* "`INSERT` statements that recreate the rows": run in an empty table, they do.
ExportRecreatesRows ==
    \A t \in Captured(live) : \A i \in 1 .. Len(t.rows) : Replayed(t)[i] = t.rows[i].data

\* The HTML report shows every row it counts as updated, unless all that happened
\* to the row is that its table gained or lost a column which is NULL in it.  And
\* each change is in both reports, its two sides looking different unless one is a
\* string and the other is not, or both agree in all of it that fits in its place.
Apart(x, cut) == KindOf(x.old) = KindOf(x.new) /\ ~({x.old, x.new} \subseteq cut)

UpdatesAreShown ==
    \A d \in Report.tables : \A u \in d.updated :
        /\ \/ \E r \in HtmlChanges(d) : r.pk = u.pk
           \/ ColumnNames(Named(recorded, d.table).schema.columns)
                 # ColumnNames(Named(live, d.table).schema.columns)
        /\ \A x \in u.columns :
             /\ \E r \in HtmlChanges(d) :
                  /\ r.pk = u.pk /\ r.column = x.column
                  /\ Apart(x, Over120 \cup {"119..."}) => r.old # r.new
             /\ \E p \in PrintedChanges(d) : \E l \in p.lines :
                  /\ p.pk = u.pk /\ l.column = x.column
                  /\ Apart(x, Over60 \cup {"59..."}) => l.old # l.new

\* "Live database matches HEAD": the live database would be recorded as the
\* tree HEAD already has.
EmptyMeansSameTree ==
    IsEmpty(Report) =>
        TreeHash(TreeOfTables(recorded)) = TreeHash(TreeOfTables(Captured(live)))
===============================================================================
