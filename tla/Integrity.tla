------------------------------- MODULE Integrity -------------------------------
(***************************************************************************)
(* `dbsnap verify`: verify_chain (dbsnap-integrity) over a store whose     *)
(* objects may have been altered, exchanged or removed behind dbsnap's     *)
(* back.  The report says "ok" when no violation was found.                *)
(***************************************************************************)
EXTENDS Snapshots, FiniteSets

CONSTANTS
    Histories,        \* recorded histories: sequences of [tables, meta]
    Datas,            \* rows an alteration may put in place of another
    Schemas,          \* schemas an alteration may put in place of another
    Metas,            \* message, timestamp and author of a commit
    MaxAlterations,   \* bound: alterations before verify runs
    MaxChain          \* bound: commits chain() reads; more only on a cycle

\* A captured table: each record is made from its row, and two rows have one
\* identity only if they are equal, which SQL sees to where there is a key.
IsCaptured(t) ==
    /\ t = [schema |-> t.schema, rows |-> t.rows]
    /\ t.rows \in Seq({MakeRecord(t.schema, t.rows[i].data) : i \in 1 .. Len(t.rows)})
    /\ \A i, j \in 1 .. Len(t.rows) :
         /\ t.rows[i] = MakeRecord(t.schema, t.rows[i].data)
         /\ t.rows[i].pk = t.rows[j].pk => t.rows[i] = t.rows[j]

ASSUME IntegrityAssumptions ==
    /\ MaxAlterations \in Nat /\ MaxChain \in Nat
    /\ \A h \in Histories :
         /\ h \in Seq({h[i] : i \in 1 .. Len(h)})
         /\ \A i \in 1 .. Len(h) : \A t \in h[i].tables : IsCaptured(t)

VARIABLES
    tables, trees, commits,   \* the object files: content by the hash in the name
    head,                     \* the commit refs/HEAD names
    recorded,                 \* what commit() recorded: the store before any alteration
    altered,                  \* alterations made so far
    phase,                    \* "store", "chain", "commit", "tables" or "done"
    chain,                    \* <<hash, commit>> pairs, newest first
    next,                     \* chain(): the hash to read next, or None
    left,                     \* tree entries of the current commit still to check
    report,                   \* kinds of violations found
    outcome                   \* "none", "report" or "error"

objects == <<tables, trees, commits, head>>
vars == <<objects, recorded, altered, phase, chain, next, left, report, outcome>>
-------------------------------------------------------------------------------
(* The store commit() leaves behind for a history of database states. *)

\* The i-th commit of a history, None before the first.
CommitsOf(h) ==
    LET c[i \in 0 .. Len(h)] ==
          IF i = 0 THEN None
          ELSE [tree   |-> TreeHash(TreeOfTables(h[i].tables)),
                parent |-> IF i = 1 THEN None ELSE CommitHashOf(c[i - 1]),
                meta   |-> h[i].meta]
    IN  [i \in 1 .. Len(h) |-> c[i]]

\* A directory of objects named by their hash.
Directory(S, hash(_)) ==
    [n \in {hash(o) : o \in S} |-> CHOOSE o \in S : hash(o) = n]

StoreOf(h) ==
    LET ts == UNION {h[i].tables : i \in 1 .. Len(h)}
        rs == {TreeOfTables(h[i].tables) : i \in 1 .. Len(h)}
        cs == {CommitsOf(h)[i] : i \in 1 .. Len(h)}
    IN  [tables  |-> Directory(ts, TableHash),
         trees   |-> Directory(rs, TreeHash),
         commits |-> Directory(cs, CommitHashOf),
         head    |-> IF h = <<>> THEN None ELSE CommitHashOf(CommitsOf(h)[Len(h)])]

Init ==
    /\ \E h \in Histories : recorded = StoreOf(h)
    /\ tables = recorded.tables /\ trees = recorded.trees
    /\ commits = recorded.commits /\ head = recorded.head
    /\ altered = 0 /\ phase = "store" /\ chain = <<>> /\ next = None
    /\ left = {} /\ report = {} /\ outcome = "none"
-------------------------------------------------------------------------------
(* Out-of-band alterations: a file is given another well-formed content, or  *)
(* is removed.                                                              *)
Without(f, n) == [m \in DOMAIN f \ {n} |-> f[m]]

Swap(s) == [i \in 1 .. Len(s) |-> s[Len(s) + 1 - i]]

OtherTables(t) ==
    {[t EXCEPT !.rows[i].data = d] : i \in DOMAIN t.rows, d \in Datas}
      \cup {[t EXCEPT !.rows[i] = MakeRecord(t.schema, d)] : i \in DOMAIN t.rows, d \in Datas}
      \cup {[t EXCEPT !.rows[i].pk = RowPk(t.schema, d)] : i \in DOMAIN t.rows, d \in Datas}
      \cup {[t EXCEPT !.rows = Append(@, @[i])] : i \in DOMAIN t.rows}
      \cup {[t EXCEPT !.rows = Swap(@)], [t EXCEPT !.rows = <<>>]}
      \cup {[t EXCEPT !.schema = s] : s \in Schemas}
      \cup {tables[n] : n \in DOMAIN tables}

OtherEntries(e) ==
    {[e EXCEPT !.row_count = @ + 1]}
      \cup {[e EXCEPT !.table_hash = n] : n \in DOMAIN tables}
      \cup {[e EXCEPT !.schema_hash = SchemaHash(s)] : s \in Schemas}

OtherTrees(r) ==
    {r \ {e} : e \in r}
      \cup {(r \ {p[1]}) \cup {p[2]} : p \in UNION {{e} \X OtherEntries(e) : e \in r}}
      \cup {trees[n] : n \in DOMAIN trees}

OtherCommits(c) ==
    {[c EXCEPT !.tree = n] : n \in DOMAIN trees}
      \cup {[c EXCEPT !.parent = n] : n \in DOMAIN commits \cup {None}}
      \cup {[c EXCEPT !.meta = m] : m \in Metas}
      \cup {commits[n] : n \in DOMAIN commits}

Alter ==
    /\ phase = "store" /\ altered < MaxAlterations
    /\ altered' = altered + 1
    /\ \/ \E n \in DOMAIN tables :
            /\ \/ tables' = Without(tables, n)
               \/ \E t \in OtherTables(tables[n]) : tables' = [tables EXCEPT ![n] = t]
            /\ UNCHANGED <<trees, commits>>
       \/ \E n \in DOMAIN trees :
            /\ \/ trees' = Without(trees, n)
               \/ \E r \in OtherTrees(trees[n]) : trees' = [trees EXCEPT ![n] = r]
            /\ UNCHANGED <<tables, commits>>
       \/ \E n \in DOMAIN commits :
            /\ \/ commits' = Without(commits, n)
               \/ \E c \in OtherCommits(commits[n]) : commits' = [commits EXCEPT ![n] = c]
            /\ UNCHANGED <<tables, trees>>
    /\ UNCHANGED <<head, recorded, phase, chain, next, left, report, outcome>>

\* refs/HEAD is set to another commit, or removed.
AlterHead ==
    /\ phase = "store" /\ altered < MaxAlterations
    /\ altered' = altered + 1
    /\ head' \in (DOMAIN commits \cup {None}) \ {head}
    /\ UNCHANGED <<tables, trees, commits, recorded, phase, chain, next, left,
                   report, outcome>>
-------------------------------------------------------------------------------
(* verify_chain *)

Finish(o) == phase' = "done" /\ outcome' = o

\* No HEAD: the empty report.
VerifyEmpty ==
    /\ phase = "store" /\ head = None
    /\ Finish("report")
    /\ UNCHANGED <<objects, recorded, altered, chain, next, left, report>>

VerifyBegin ==
    /\ phase = "store" /\ head # None
    /\ phase' = "chain" /\ next' = head
    /\ UNCHANGED <<objects, recorded, altered, chain, left, report, outcome>>

SkipsOne(c) == IF c.parent \in DOMAIN commits THEN commits[c.parent].parent ELSE c.parent
SameCommit(c) == next
FollowedBy(c) == c.parent

\* Store::chain reads every commit before any is checked.
ReadCommit ==
    /\ phase = "chain" /\ next # None /\ Len(chain) < MaxChain
    /\ next \in DOMAIN commits
    /\ chain' = Append(chain, <<next, commits[next]>>)
    /\ next' = FollowedBy(commits[next])
    /\ UNCHANGED <<objects, recorded, altered, phase, left, report, outcome>>

ReadCommitFails ==
    /\ phase = "chain" /\ next # None /\ next \notin DOMAIN commits
    /\ Finish("error")
    /\ UNCHANGED <<objects, recorded, altered, chain, next, left, report>>

ChainRead ==
    /\ phase = "chain" /\ next = None
    /\ phase' = "commit"
    /\ UNCHANGED <<objects, recorded, altered, chain, next, left, report, outcome>>

\* What is wrong with the pair <<hash, commit>>, and with the tree it names.
CommitFaults(p) == IF CommitHashOf(p[2]) # p[1] THEN {"commit-hash-mismatch"} ELSE {}

LinkFaults(p) ==
    IF next # None /\ next # p[1] THEN {"broken-chain"} ELSE {}

TreeFaults(n) == IF TreeHash(trees[n]) # n THEN {"tree-hash-mismatch"} ELSE {}

\* The loop body for the first commit of the chain; `next` is the parent the
\* commit before it claimed.
CheckCommit ==
    /\ phase = "commit" /\ chain # <<>> /\ chain[1][2].tree \in DOMAIN trees
    /\ report' = report \cup CommitFaults(chain[1]) \cup LinkFaults(chain[1])
                        \cup TreeFaults(chain[1][2].tree)
    /\ left' = trees[chain[1][2].tree]
    /\ next' = chain[1][2].parent /\ chain' = Tail(chain)
    /\ phase' = "tables"
    /\ UNCHANGED <<objects, recorded, altered, outcome>>

ReadTreeFails ==
    /\ phase = "commit" /\ chain # <<>> /\ chain[1][2].tree \notin DOMAIN trees
    /\ Finish("error")
    /\ UNCHANGED <<objects, recorded, altered, chain, next, left, report>>

RowsUnchecked(rows) == {}
RowFaults(rows) ==
    IF \E i \in 1 .. Len(rows) : RowHash(rows[i].data) # rows[i].hash
    THEN {"row-hash-mismatch"} ELSE {}

SchemaFaults(e, t) ==
    IF SchemaHash(t.schema) # e.schema_hash THEN {"schema-hash-mismatch"} ELSE {}

TableFaults(e, t) ==
    SchemaFaults(e, t)
      \cup (IF TableHash(t) # e.table_hash THEN {"table-hash-mismatch"} ELSE {})
      \cup (IF Len(t.rows) # e.row_count THEN {"row-count-mismatch"} ELSE {})
      \cup RowFaults(t.rows)

\* verify_table for one entry of the tree.
CheckTable ==
    /\ phase = "tables"
    /\ \E e \in left :
         /\ e.table_hash \in DOMAIN tables
         /\ report' = report \cup TableFaults(e, tables[e.table_hash])
         /\ left' = left \ {e}
    /\ UNCHANGED <<objects, recorded, altered, phase, chain, next, outcome>>

ReadTableFails ==
    /\ phase = "tables"
    /\ \E e \in left : e.table_hash \notin DOMAIN tables
    /\ Finish("error")
    /\ UNCHANGED <<objects, recorded, altered, chain, next, left, report>>

NextCommit ==
    /\ phase = "tables" /\ left = {}
    /\ phase' = "commit"
    /\ UNCHANGED <<objects, recorded, altered, chain, next, left, report, outcome>>

VerifyEnd ==
    /\ phase = "commit" /\ chain = <<>>
    /\ Finish("report")
    /\ UNCHANGED <<objects, recorded, altered, chain, next, left, report>>

Verify ==
    \/ VerifyEmpty \/ VerifyBegin
    \/ ReadCommit \/ ReadCommitFails \/ ChainRead
    \/ CheckCommit \/ ReadTreeFails
    \/ CheckTable \/ ReadTableFails
    \/ NextCommit \/ VerifyEnd

Next == Alter \/ AlterHead \/ Verify

\* verify is run, and scheduled until it ends.
Spec == Init /\ [][Next]_vars /\ WF_vars(Verify)
-------------------------------------------------------------------------------
(* Properties *)

FaultKinds == {"commit-hash-mismatch", "broken-chain", "tree-hash-mismatch",
               "schema-hash-mismatch", "table-hash-mismatch",
               "row-count-mismatch", "row-hash-mismatch"}

\* The pairs on the chain have been read from commits, each by the parent link
\* of the one before; entries are left only while a commit is checked.
IntegrityTypeOK ==
    /\ altered \in 0 .. MaxAlterations
    /\ phase \in {"store", "chain", "commit", "tables", "done"}
    /\ \A i \in 1 .. Len(chain) : commits[chain[i][1]] = chain[i][2]
    /\ \A i \in 2 .. Len(chain) : chain[i][1] = chain[i - 1][2].parent
    /\ left # {} => phase \in {"tables", "done"}
    /\ report \subseteq FaultKinds
    /\ outcome \in {"none", "report", "error"}

\* How often the record r occurs in rows.
Copies(r, rows) == Cardinality({i \in 1 .. Len(rows) : rows[i] = r})

\* The order of the rows in a table object is not part of the state.
SameTable(t, u) ==
    /\ t.schema = u.schema /\ Len(t.rows) = Len(u.rows)
    /\ \A i \in 1 .. Len(t.rows) : Copies(t.rows[i], t.rows) = Copies(t.rows[i], u.rows)

\* The hash i parents up from n in the commit files cs; None past the root, and
\* where a file is missing.
Up(cs, n) ==
    LET up[i \in 0 .. MaxChain] ==
          IF i = 0 THEN n
          ELSE LET m == up[i - 1] IN IF m \in DOMAIN cs THEN cs[m].parent ELSE None
    IN  up

\* The commits HEAD had behind it when they were recorded.
RecordedHistory ==
    LET up == Up(recorded.commits, head)
    IN  {up[i] : i \in 0 .. MaxChain} \ {None}

\* The files of commit n, its tree and its tables still say what was recorded.
AsRecorded(n) ==
    LET t == recorded.commits[n].tree IN
      /\ n \in DOMAIN commits /\ commits[n] = recorded.commits[n]
      /\ t \in DOMAIN trees /\ trees[t] = recorded.trees[t]
      /\ \A e \in recorded.trees[t] :
           /\ e.table_hash \in DOMAIN tables
           /\ SameTable(tables[e.table_hash], recorded.tables[e.table_hash])

HistoryAsRecorded == \A n \in RecordedHistory : AsRecorded(n)

Verified == outcome = "report" /\ report = {}

\* verify is satisfied only if every row of every table of every commit behind
\* HEAD is still what was recorded: the whole store, while HEAD is what commit()
\* wrote.
VerifyIsSound == Verified => HistoryAsRecorded

\* A history that says what was recorded passes: every hash commit() stored is
\* the one verify computes.  An error or a violation is never a false alarm; and
\* a HEAD set back to an ancestor, or removed, goes unnoticed.
VerifyIsComplete == (phase = "done" /\ HistoryAsRecorded) => Verified

\* Following the parents from HEAD comes to an end.
Acyclic == Up(commits, head)[MaxChain] = None

\* verify ends with a verdict or an error, unless the parents of altered commits
\* go round in a circle.
VerifyEnds == (phase # "store" /\ Acyclic) ~> (phase = "done")
===============================================================================
