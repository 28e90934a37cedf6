--------------------------------- MODULE Export ---------------------------------
(***************************************************************************)
(* dbsnap-export as operators: the JSON and the SQL export of table        *)
(* snapshots, and what PostgreSQL makes of the SQL when it is run.  A JSON *)
(* value is a string: JSON strings are their own text, numbers begin with  *)
(* a plus sign.                                                            *)
(***************************************************************************)
EXTENDS Diff

Numbers    == {"+7"}
Booleans   == {"true", "false"}
Structures == {"{}", "[]"}

KindOf(v) ==
    CASE v = "null"        -> "null"
      [] v \in Numbers     -> "number"
      [] v \in Booleans    -> "bool"
      [] v \in Structures  -> "structure"
      [] OTHER             -> "string"

\* The text of a value, without the quotes of a JSON string.
TextOf(v) == IF v = "+7" THEN "7" ELSE v

\* export: every table, or the one that is named.
Selected(snaps, table) == {s \in snaps : table \in {"", s.schema.name}}

ExportJson(snaps) ==
    [x \in Names(snaps) |->
        LET rows == Named(snaps, x).rows IN [i \in 1 .. Len(rows) |-> rows[i].data]]

\* sql_literal: a quoted text has no type of its own yet.
AllQuoted(v) == [type |-> "unknown", text |-> TextOf(v)]
SqlLiteral(v) ==
    CASE KindOf(v) = "null"      -> [type |-> "null", text |-> "NULL"]
      [] KindOf(v) = "bool"      -> [type |-> "boolean", text |-> v]
      [] KindOf(v) = "number"    -> [type |-> "numeric", text |-> TextOf(v)]
      [] KindOf(v) = "string"    -> [type |-> "unknown", text |-> v]
      [] KindOf(v) = "structure" -> [type |-> "jsonb", text |-> v]

\* One INSERT per row; the columns are those of the schema.
InsertOf(schema, data) ==
    [c \in ColumnNames(schema.columns) |-> SqlLiteral(Get(data, c))]

ExportSql(t) == [i \in 1 .. Len(t.rows) |-> InsertOf(t.schema, t.rows[i].data)]

(* PostgreSQL, outside dbsnap: what a column holds after the INSERT, or that it *)
(* is refused.  A quoted text is read by the rules of the column's type; there  *)
(* is no assignment from numbers or booleans to jsonb, from jsonb to an array,  *)
(* or between numbers and booleans.  Each column may be given a value.          *)
Refused == "refused"

ParsedJson(text) ==
    CASE text = "7"                                     -> "+7"
      [] text \in Booleans \cup Structures \cup {"null"} -> text
      [] OTHER                                          -> Refused

StoredAs(type, lit) ==
    IF lit.type = "null" THEN "null"
    ELSE CASE type \in {"text", "varchar"}           -> lit.text
           [] type = "jsonb" /\ lit.type = "jsonb"   -> lit.text
           [] type = "jsonb" /\ lit.type = "unknown" -> ParsedJson(lit.text)
           [] type = "integer" /\ lit.type \in {"numeric", "unknown"} /\ lit.text = "7" -> "+7"
           [] type = "boolean" /\ lit.type \in {"boolean", "unknown"} /\ lit.text \in Booleans
                                                     -> lit.text
           [] OTHER                                  -> Refused

\* The rows the INSERTs of a snapshot leave in an empty table of its schema; an
\* INSERT that is refused for one of its columns leaves none.
TypeOf(schema, c) ==
    LET i == CHOOSE k \in 1 .. Len(schema.columns) : schema.columns[k].name = c
    IN  schema.columns[i].type

Executed(schema, insert) ==
    LET row == [c \in DOMAIN insert |-> StoredAs(TypeOf(schema, c), insert[c])]
    IN  IF \E c \in DOMAIN row : row[c] = Refused THEN [c \in DOMAIN row |-> Refused]
        ELSE row

Replayed(t) == [i \in 1 .. Len(t.rows) |-> Executed(t.schema, ExportSql(t)[i])]
===============================================================================
