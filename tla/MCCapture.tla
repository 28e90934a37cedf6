------------------------------ MODULE MCCapture ------------------------------
(* Small instances of Capture for TLC. *)
EXTENDS Capture, TLC

Col(n) == [name |-> n]
Row(i) == [id |-> i, v |-> "x"]

TableOf(n, cs, k, rows) ==
    [schema |-> [name |-> n, columns |-> cs, primary_key |-> k], rows |-> rows]

Table(n, k, rows) == TableOf(n, <<Col("id"), Col("v")>>, k, rows)

\* Two tables with keys of one and of two columns, and one without a key that
\* holds a duplicate.
Accounts == Table("a", <<"id">>, <<Row("1")>>)
Balances == Table("b", <<"v", "id">>, <<Row("2"), Row("3")>>)
Notes    == Table("c", <<>>, <<Row("1"), Row("1")>>)

\* Two tables with a column t, one of them with a NULL in it.
Events(v) == TableOf("c", <<Col("id"), Col("t")>>, <<"id">>, <<[id |-> "1", t |-> v]>>)

MCTableOrder == <<"a", "b", "c">>
MCDatabases  == {{}, {Accounts, Balances}, {Accounts, Notes},
                 {Accounts, Events("x")}, {Events("null")}}
MCRows       == {Row("1"), Row("2")}
MCKeys       == {<<>>, <<"id">>, <<"v">>, <<"extra">>}
MCSerial     == <<"1", "2", "3">>
===============================================================================
