---------------------------------- MODULE Diff ----------------------------------
(***************************************************************************)
(* The semantic diff of dbsnap-diff: diff_tables, column_changes and       *)
(* diff_snapshots.  Result lists that the code sorts are sets.             *)
(***************************************************************************)
EXTENDS Database

\* Collecting the rows into a BTreeMap keeps the last row of each key.
LastByKey(rows) ==
    [k \in {rows[i].pk : i \in 1 .. Len(rows)} |->
        rows[CHOOSE i \in 1 .. Len(rows) :
               rows[i].pk = k /\ \A j \in i + 1 .. Len(rows) : rows[j].pk # k]]

\* A column the row does not have reads as JSON null.
Get(data, c) == IF c \in DOMAIN data THEN data[c] ELSE "null"

OldColumns(old, new) == DOMAIN old
AllColumns(old, new) == DOMAIN old \cup DOMAIN new

ColumnChanges(old, new) ==
    {[column |-> c, old |-> Get(old, c), new |-> Get(new, c)] :
        c \in {x \in AllColumns(old, new) : Get(old, x) # Get(new, x)}}

\* The keys of m that n does not have.
AnyKey(m, n) == DOMAIN m
OnlyIn(m, n) == DOMAIN m \ DOMAIN n

NeverSameRow(r, s) == FALSE
SameIdentity(r, s) == r.pk = s.pk
SameRow(r, s) == r.hash = s.hash

DiffTables(old, new) ==
    LET o == LastByKey(old.rows)
        n == LastByKey(new.rows)
    IN  [table    |-> new.schema.name,
         inserted |-> OnlyIn(n, o),
         deleted  |-> OnlyIn(o, n),
         updated  |-> {[pk |-> k, columns |-> ColumnChanges(o[k].data, n[k].data)] :
                         k \in {x \in DOMAIN o \cap DOMAIN n : ~SameRow(o[x], n[x])}}]

IsEmptyTable(d) == d.inserted = {} /\ d.deleted = {} /\ d.updated = {}

\* Snapshots are sets of table snapshots, each name once.
DiffSnapshots(old, new) ==
    [added   |-> Names(new) \ Names(old),
     removed |-> Names(old) \ Names(new),
     tables  |-> {d \in {DiffTables(Named(old, x), Named(new, x)) :
                           x \in Names(old) \cap Names(new)} : ~IsEmptyTable(d)}]

IsEmpty(d) == d.added = {} /\ d.removed = {} /\ d.tables = {}
===============================================================================
