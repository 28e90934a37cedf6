------------------------------- MODULE Rendering -------------------------------
(***************************************************************************)
(* What a reader of a diff gets to see: the change table of the HTML       *)
(* report, and the terminal output of `dbsnap diff`.  Values are those of  *)
(* Export; markup, colours and layout are left out.                        *)
(***************************************************************************)
EXTENDS Export

\* Texts of more than 60 and of more than 120 characters.  All begin with the same
\* 59, and the longer ones with the same 119, so that these are what is left of them
\* before an ellipsis.  "59..." and "119..." are texts of 60 and 120 characters.
Over120 == {"long-a", "long-b"}
Over60  == {"mid-a", "mid-b", "119..."} \cup Over120

\* val: one cell of the HTML table, of at most 120 characters.
Val(v) ==
    LET text == IF v = "null" THEN "emptySet" ELSE TextOf(v)
    IN  IF text \in Over120 THEN "119..." ELSE text

\* One line for each changed column of each updated row; the key is written once,
\* beside the first.
HtmlChanges(d) ==
    UNION {{[pk |-> u.pk, column |-> x.column, old |-> Val(x.old), new |-> Val(x.new)] :
               x \in u.columns} : u \in d.updated}

\* compact: one value on the terminal, of at most 60 characters.
Compact(v) == IF TextOf(v) \in Over60 THEN "59..." ELSE TextOf(v)

\* `dbsnap diff --verbose`: a line for the key of each updated row, then one for
\* each of its changed columns.
PrintedChanges(d) ==
    {[pk |-> u.pk, lines |-> {[column |-> x.column, old |-> Compact(x.old), new |-> Compact(x.new)] :
                               x \in u.columns}] : u \in d.updated}
===============================================================================
