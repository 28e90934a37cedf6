------------------------------ MODULE MCLiveDiff ------------------------------
(* Small instances of LiveDiff for TLC. *)
EXTENDS LiveDiff, TLC

Col(n) == [name |-> n, type |-> "text"]

Item == [name |-> "item", columns |-> <<Col("id"), Col("v")>>, primary_key |-> <<"id">>]
Pair == [name |-> "pair", columns |-> <<Col("id"), Col("v")>>, primary_key |-> <<"id", "v">>]
Note == [name |-> "note", columns |-> <<Col("v")>>, primary_key |-> <<>>]

\* A keyed table with a row, alone or beside a table without a key that holds a
\* duplicate, and a table with a key of two columns.
Items == [schema |-> Item, rows |-> <<[id |-> "1", v |-> "a"]>>]
Notes == [schema |-> Note, rows |-> <<[v |-> "a"], [v |-> "a"]>>]
Pairs == [schema |-> Pair, rows |-> <<[id |-> "1", v |-> "2"]>>]

\* A table with the column types whose values are not plain text.
Doc  == [name |-> "doc", primary_key |-> <<"id">>,
         columns |-> <<Col("id"), [name |-> "body", type |-> "jsonb"],
                                  [name |-> "tags", type |-> "text[]"]>>]
Docs == [schema |-> Doc, rows |-> <<[id |-> "1", body |-> "{}", tags |-> "null"]>>]

\* A table with numbers and booleans.
Task  == [name |-> "task", primary_key |-> <<"id">>,
          columns |-> <<Col("id"), [name |-> "n", type |-> "integer"],
                                   [name |-> "ok", type |-> "boolean"]>>]
Tasks == [schema |-> Task, rows |-> <<[id |-> "1", n |-> "+7", ok |-> "true"]>>]

MCDatabases == {{Items}, {Items, Notes}, {Pairs}, {Docs}, {Tasks}}

MCValuesOf(type) ==
    CASE type \in {"text", "varchar"} -> {"a", "null", "mid-a", "long-a", "long-b"}
      [] type = "jsonb"               -> {"null", "{}", "+7", "7", "a"}
      [] type = "text[]"              -> {"null", "[]"}
      [] type = "integer"             -> {"null", "+7"}
      [] type = "boolean"             -> {"null", "true", "false"}
===============================================================================
