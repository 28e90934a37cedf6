------------------------------- MODULE Snapshots -------------------------------
(***************************************************************************)
(* The hash hierarchy of dbsnap-core over symbolic hashes: a hash is a     *)
(* record of its domain tag and of exactly what the code feeds the hasher, *)
(* so two hashes are equal when, and only when, BLAKE3 was given the same  *)
(* input.  JSON values are strings; a row is a function from column names  *)
(* to values.                                                              *)
(***************************************************************************)
EXTENDS Naturals, Sequences

\* hash_json: the row's canonical JSON; the order of its columns is gone.
RowHash(data) == [tag |-> "row", data |-> data]

\* A key column as text; empty for a column the row does not have.
KeyText(data, c) == IF c \in DOMAIN data THEN data[c] ELSE ""

\* Only the first column of the key.
FirstKeyColumn(schema, data) ==
    IF schema.primary_key = <<>> THEN [row |-> data]
    ELSE [key |-> <<KeyText(data, schema.primary_key[1])>>]

\* The identity of a row: its primary-key values in key order; the whole row
\* when there is no key.
RowPk(schema, data) ==
    IF schema.primary_key = <<>> THEN [row |-> data]
    ELSE [key |-> [i \in 1 .. Len(schema.primary_key) |->
                     KeyText(data, schema.primary_key[i])]]

MakeRecord(schema, data) ==
    [pk |-> RowPk(schema, data), hash |-> RowHash(data), data |-> data]

\* Schema and table name, the columns in order, and the primary key in order.
SchemaHash(schema) == [tag |-> "schema", schema |-> schema]

\* The order of capture, without the sort.
InStoredOrder(rows) ==
    [i \in 1 .. Len(rows) |-> [pk |-> rows[i].pk, hash |-> rows[i].hash]]

\* The row hashes of each key, in the order the rows are stored: what a stable
\* sort by key feeds the hasher.
ByKey(rows) ==
    [k \in {rows[i].pk : i \in 1 .. Len(rows)} |->
        LET hashes[i \in 0 .. Len(rows)] ==
              IF i = 0 THEN <<>>
              ELSE IF rows[i].pk = k THEN Append(hashes[i - 1], rows[i].hash)
              ELSE hashes[i - 1]
        IN  hashes[Len(rows)]]

TableHash(t) ==
    [tag |-> "table", schema |-> SchemaHash(t.schema), rows |-> ByKey(t.rows)]

TreeEntry(t) ==
    [table |-> t.schema.name, table_hash |-> TableHash(t),
     schema_hash |-> SchemaHash(t.schema), row_count |-> Len(t.rows)]

\* A tree is the set of its entries: they are sorted by table name, and a
\* capture holds each name once.
TreeOfTables(ts) == {TreeEntry(t) : t \in ts}

TreeHash(tree) == [tag |-> "tree", entries |-> tree]

\* The parent of a root commit.
None == [tag |-> "none"]

CommitHashOf(c) ==
    [tag |-> "commit", tree |-> c.tree, parent |-> c.parent, meta |-> c.meta]
===============================================================================
