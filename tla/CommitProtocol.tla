---------------------------- MODULE CommitProtocol ----------------------------
(***************************************************************************)
(* `dbsnap commit`: Repository::commit (dbsnap-engine) over the object     *)
(* store (dbsnap-storage), step by step, for several dbsnap processes that *)
(* share one .dbsnap directory and take no lock.                           *)
(*                                                                         *)
(* Hashes are symbolic.  A table hash is an opaque value; a captured state *)
(* is the set of its table hashes and stands for its own tree hash; a      *)
(* commit hash folds in the parent's hash, so it is the whole ancestry: the*)
(* sequence of [tree, meta] entries from the root commit to the commit.    *)
(* The empty sequence is the absent parent and the HEAD that names nothing.*)
(***************************************************************************)
EXTENDS Naturals, Sequences, FiniteSets

CONSTANTS
    Committers,      \* dbsnap processes that run `commit` on the directory
    TableHashes,     \* table snapshots, by content hash
    States,          \* what a capture may return: sets of table hashes
    Metas,           \* (message, timestamp, author) of a commit
    MaxRuns,         \* bound: commit() calls begun by all processes together
    FailurePoints    \* stages where a call may end early: `?` on an I/O
                     \* error, or the process being killed

ASSUME StatesAreTableSets == States \subseteq SUBSET TableHashes

VARIABLES
    files,     \* paths that exist under tables/, trees/ and commits/
    intact,    \* paths whose file holds all of its content
    head,      \* the commit refs/HEAD names; <<>>: the file is absent or empty
    stage,     \* where in commit() each process is
    io,        \* where in the write of one object each process is
    obj,       \* the object being written
    snap,      \* `snapshots`: the captured state
    todo,      \* the captured tables the loop has still to store
    parent,    \* `parent`: the value of HEAD this call read
    draft,     \* `commit`: the commit object this call built
    created,   \* commits for which some call returned Created
    runs       \* calls begun so far

store == <<files, intact>>
local == <<obj, snap, todo, parent, draft>>
vars  == <<files, intact, head, stage, io, obj, snap, todo, parent, draft,
           created, runs>>
-------------------------------------------------------------------------------
(* Objects are named by their directory and the hash of their content. *)
Entry   == [tree : States, meta : Metas]
History == Seq(Entry)

TableObj(t)  == <<"tables", t>>
TreeObj(s)   == <<"trees", s>>
CommitObj(c) == <<"commits", c>>

Objects == ({"tables"} \X TableHashes)
             \cup ({"trees"} \X States)
             \cup ({"commits"} \X History)

Stages == {"idle", "tables", "tree", "head", "compare", "commit", "ref",
           "refwrite"}

\* Commit::hash folds in the tree, the parent (or its absence), the message,
\* the time and the author.
CommitHash(p, s, m) == Append(p, [tree |-> s, meta |-> m])

TreeOf(c) == c[Len(c)].tree

\* The parent a commit of non-empty ancestry c records.
ParentOf(c) == SubSeq(c, 1, Len(c) - 1)

\* The objects an object's content names.
References(o) ==
    IF o[1] = "trees" THEN {TableObj(t) : t \in o[2]}
    ELSE IF o[1] = "commits"
         THEN {TreeObj(TreeOf(o[2]))}
                \cup {CommitObj(p) : p \in {ParentOf(o[2])} \ {<<>>}}
    ELSE {}

Init ==
    /\ files = {} /\ intact = {} /\ head = <<>>
    /\ stage  = [w \in Committers |-> "idle"]
    /\ io     = [w \in Committers |-> "check"]
    /\ obj    = [w \in Committers |-> <<>>]
    /\ snap   = [w \in Committers |-> {}]
    /\ todo   = [w \in Committers |-> {}]
    /\ parent = [w \in Committers |-> <<>>]
    /\ draft  = [w \in Committers |-> <<>>]
    /\ created = {} /\ runs = 0

GoTo(w, s) == stage' = [stage EXCEPT ![w] = s]

\* commit() ends and its local state is gone.
Return(w) ==
    /\ GoTo(w, "idle")
    /\ io'     = [io EXCEPT ![w] = "check"]
    /\ obj'    = [obj EXCEPT ![w] = <<>>]
    /\ snap'   = [snap EXCEPT ![w] = {}]
    /\ todo'   = [todo EXCEPT ![w] = {}]
    /\ parent' = [parent EXCEPT ![w] = <<>>]
    /\ draft'  = [draft EXCEPT ![w] = <<>>]
-------------------------------------------------------------------------------
(* The capture: SnapshotSource::capture returns some state of the database. *)
Capture(w) ==
    /\ stage[w] = "idle" /\ runs < MaxRuns
    /\ \E s \in States :
         /\ snap' = [snap EXCEPT ![w] = s]
         /\ todo' = [todo EXCEPT ![w] = s]
    /\ GoTo(w, "tables") /\ runs' = runs + 1
    /\ UNCHANGED <<store, head, io, obj, parent, draft, created>>

(* write_table_snapshot, write_tree and write_commit have one shape: return *)
(* when the path exists, else fs::write it, which creates or truncates the  *)
(* file and then writes the content.                                        *)

\* The objects the call may store now.  The table loop follows the order of
\* the capture; any order is allowed here.
Pending(w) ==
    IF stage[w] = "tables" THEN {TableObj(t) : t \in todo[w]}
    ELSE IF stage[w] = "tree" THEN {TreeObj(snap[w])}
    ELSE IF stage[w] = "commit" THEN {CommitObj(draft[w])}
    ELSE {}

ExistsNeverSeen(o) == FALSE
Exists(o) == o \in files

OpenedInPlace(o) == files
Opened(o) == files \cup {o}

WrittenInPart(o) == intact
Written(o) == intact \cup {o}

\* The stage that follows once the tables, the tree, or the commit are stored.
TreeNeverStored(s) == IF s = "tables" THEN "head" ELSE "ref"
StageAfter(s) ==
    IF s = "tables" THEN "tree" ELSE IF s = "tree" THEN "head" ELSE "ref"

\* o is stored: the table loop goes on, or the call moves to its next stage.
Stored(w, o) ==
    /\ todo' = [todo EXCEPT ![w] = @ \ {o[2]}]
    /\ IF stage[w] = "tables" THEN UNCHANGED stage
                              ELSE GoTo(w, StageAfter(stage[w]))
    /\ obj' = [obj EXCEPT ![w] = <<>>]
    /\ UNCHANGED <<head, snap, parent, draft, created, runs>>

SkipExisting(w) ==
    /\ io[w] = "check"
    /\ \E o \in Pending(w) : Exists(o) /\ Stored(w, o)
    /\ UNCHANGED <<store, io>>

FindMissing(w) ==
    /\ io[w] = "check"
    /\ \E o \in Pending(w) : ~Exists(o) /\ obj' = [obj EXCEPT ![w] = o]
    /\ io' = [io EXCEPT ![w] = "open"]
    /\ UNCHANGED <<store, head, stage, snap, todo, parent, draft, created, runs>>

OpenObject(w) ==
    /\ io[w] = "open"
    /\ files' = Opened(obj[w]) /\ intact' = intact \ {obj[w]}
    /\ io' = [io EXCEPT ![w] = "write"]
    /\ UNCHANGED <<head, stage, local, created, runs>>

WriteObject(w) ==
    /\ io[w] = "write"
    /\ intact' = Written(obj[w]) /\ UNCHANGED files
    /\ io' = [io EXCEPT ![w] = "check"]
    /\ Stored(w, obj[w])

BuildTree(w) ==
    /\ stage[w] = "tables" /\ io[w] = "check" /\ todo[w] = {}
    /\ GoTo(w, StageAfter("tables"))
    /\ UNCHANGED <<store, head, io, local, created, runs>>
-------------------------------------------------------------------------------
(* HEAD is read, the parent commit is read and compared with the new tree. *)
ReadHead(w) ==
    /\ stage[w] = "head"
    /\ parent' = [parent EXCEPT ![w] = head]
    /\ GoTo(w, "compare")
    /\ UNCHANGED <<store, head, io, obj, snap, todo, draft, created, runs>>

NeverSame(p, s) == FALSE
SameTree(p, s) == TreeOf(p) = s

\* read_commit of the parent finds the file missing or cut short: Err.
ParentUnreadable(w) ==
    /\ stage[w] = "compare" /\ parent[w] # <<>>
    /\ CommitObj(parent[w]) \notin intact
    /\ Return(w)
    /\ UNCHANGED <<store, head, created, runs>>

Unchanged(w) ==
    /\ stage[w] = "compare" /\ parent[w] # <<>>
    /\ CommitObj(parent[w]) \in intact /\ SameTree(parent[w], snap[w])
    /\ Return(w)
    /\ UNCHANGED <<store, head, created, runs>>

AsRoot(w) == <<>>
BaseOf(w) == parent[w]

ComposeCommit(w) ==
    /\ stage[w] = "compare"
    /\ parent[w] # <<>> => /\ CommitObj(parent[w]) \in intact
                           /\ ~SameTree(parent[w], snap[w])
    /\ \E m \in Metas :
         draft' = [draft EXCEPT ![w] = CommitHash(BaseOf(w), snap[w], m)]
    /\ GoTo(w, "commit")
    /\ UNCHANGED <<store, head, io, obj, snap, todo, parent, created, runs>>

(* set_head: fs::write truncates refs/HEAD and then writes the hash. *)
TruncateHead(w) ==
    /\ stage[w] = "ref"
    /\ head' = <<>> /\ GoTo(w, "refwrite")
    /\ UNCHANGED <<store, io, local, created, runs>>

\* HEAD is written and commit() returns Created.
WriteHead(w) ==
    /\ stage[w] = "refwrite"
    /\ head' = draft[w] /\ created' = created \cup {draft[w]}
    /\ Return(w)
    /\ UNCHANGED <<store, runs>>
-------------------------------------------------------------------------------
(* The call ends early: an error is returned or the process dies.  What is *)
(* on disk stays there.                                                    *)
Fail(w) ==
    /\ stage[w] \in FailurePoints \ {"idle"}
    /\ Return(w)
    /\ UNCHANGED <<store, head, created, runs>>

\* What a running call does next when nothing goes wrong.
Proceed(w) ==
    \/ SkipExisting(w)
    \/ FindMissing(w)
    \/ OpenObject(w)
    \/ WriteObject(w)
    \/ BuildTree(w)
    \/ ReadHead(w)
    \/ ParentUnreadable(w)
    \/ Unchanged(w)
    \/ ComposeCommit(w)
    \/ TruncateHead(w)
    \/ WriteHead(w)

Next == \E w \in Committers : Capture(w) \/ Proceed(w) \/ Fail(w)

Spec == Init /\ [][Next]_vars

\* A call that has begun is scheduled until it returns.
FairSpec == Spec /\ \A w \in Committers : WF_vars(Proceed(w))
-------------------------------------------------------------------------------
(* Properties *)

Quiescent == \A w \in Committers : stage[w] = "idle"

\* The type of every variable; only a file that exists can be intact.
TypeOK ==
    /\ files \subseteq Objects /\ intact \subseteq files
    /\ head \in History
    /\ stage \in [Committers -> Stages]
    /\ io \in [Committers -> {"check", "open", "write"}]
    /\ obj \in [Committers -> Objects \cup {<<>>}]
    /\ snap \in [Committers -> States \cup {{}}]
    /\ todo \in [Committers -> SUBSET TableHashes]
    /\ parent \in [Committers -> History]
    /\ draft \in [Committers -> History]
    /\ created \subseteq History
    /\ runs \in Nat

\* Every file's references exist before it does, and HEAD names a commit that
\* exists: tables are stored before the tree, the tree and the parent before
\* the commit, the commit before HEAD moves.  This holds with any number of
\* processes and wherever a call is cut off.
WriteOrder ==
    /\ \A o \in files : References(o) \subseteq files
    /\ head # <<>> => CommitObj(head) \in files

\* No commit repeats the tree of its own parent, whoever wrote the parent in
\* the meantime: commit() answers Unchanged instead.
NoRedundantCommit ==
    \A o \in files :
        (o[1] = "commits" /\ Len(o[2]) > 1) => TreeOf(o[2]) # TreeOf(ParentOf(o[2]))

\* When no write is cut off, a half-written file or an empty HEAD is only ever
\* the trace of a call that is still at work on it.
TornIsInFlight ==
    /\ \A o \in files \ intact : \E w \in Committers : io[w] = "write" /\ obj[w] = o
    /\ (head = <<>> /\ created # {}) => \E w \in Committers : stage[w] = "refwrite"

\* Everything reachable from a commit: its tables, trees and ancestors.
Closure(c) ==
    UNION {{CommitObj(SubSeq(c, 1, i)), TreeObj(c[i].tree)}
             \cup {TableObj(t) : t \in c[i].tree} : i \in 1 .. Len(c)}

\* At rest, every commit that commit() reported as Created can be read back
\* in full, down to its oldest ancestor.
CreatedReadable == Quiescent => \A c \in created : Closure(c) \subseteq intact

\* At rest, every commit that commit() reported as Created is in the history
\* of HEAD.
CreatedInHistory ==
    Quiescent => \A c \in created : /\ Len(c) <= Len(head)
                                    /\ SubSeq(head, 1, Len(c)) = c

\* The store is append-only: a file that holds its content never loses it.
AppendOnly == [][intact \subseteq intact']_vars

\* A reader that meets a half-written file or the empty HEAD of a history
\* that exists need only come back later.
AtRest  == files = intact /\ (head = <<>> => created = {})
Settles == ~AtRest ~> AtRest

(* A single process implements the append-only log.  While HEAD is being   *)
(* rewritten the log is still the one this call read.                      *)
Tip == IF \E w \in Committers : stage[w] = "refwrite"
       THEN parent[CHOOSE w \in Committers : stage[w] = "refwrite"]
       ELSE head

Abstract == INSTANCE Ledger WITH log <- [i \in DOMAIN Tip |-> Tip[i].tree]

ImplementsLedger == Abstract!LedgerSpec
===============================================================================
