------------------------------ MODULE MCIntegrity ------------------------------
(* Small instances of Integrity for TLC. *)
EXTENDS Integrity, TLC

\* A keyed table, the same table with a nullable column, and one without a key.
Item    == [name |-> "item", columns |-> <<"id", "v">>, primary_key |-> <<"id">>]
ItemNul == [name |-> "item", columns |-> <<"id", "v?">>, primary_key |-> <<"id">>]
Note    == [name |-> "note", columns |-> <<"v">>, primary_key |-> <<>>]

Row(i, x) == [id |-> i, v |-> x]
NoteRow   == [v |-> "a"]

TableOf(s, ds) ==
    [schema |-> s, rows |-> [i \in 1 .. Len(ds) |-> MakeRecord(s, ds[i])]]

Items1 == TableOf(Item, <<Row("1", "a")>>)
Items2 == TableOf(Item, <<Row("1", "b"), Row("2", "a")>>)
Notes  == TableOf(Note, <<NoteRow, NoteRow>>)      \* a duplicate row

Commit(ts, m) == [tables |-> ts, meta |-> m]

\* No commit, one, two that share a table, and a third that returns to the
\* first state and so shares its tree.
MCHistories ==
    {<<>>,
     <<Commit({Items1}, "m1")>>,
     <<Commit({Items1, Notes}, "m1"), Commit({Items2, Notes}, "m2")>>,
     <<Commit({Items1}, "m1"), Commit({Items2}, "m2"), Commit({Items1}, "m1")>>}

MCDatas   == {Row("1", "a"), Row("1", "b"), NoteRow}
MCSchemas == {Item, ItemNul, Note}
===============================================================================
